------------------------ MODULE ClonePlacement_proofs ------------------------
(***************************************************************************)
(* The choice of a storage, for any candidates and whatever the node       *)
(* reports of them.  The loop's invariant says what `best` is of the       *)
(* candidates visited so far.                                              *)
(***************************************************************************)
EXTENDS ClonePlacement, TLAPS

\* What the code excludes is what does not suit, and what is left has the
\* size Avail computes.
LEMMA ExcludedUnsuitable ==
  ASSUME PlacementAssumption, TypeOK, NEW s \in DOMAIN reports
  PROVE  /\ Excluded(reports[s]) <=> ~Suits(s)
         /\ Avail(reports[s]) = Room(s) /\ Room(s) \in Int
         /\ Suits(s) => Room(s) \in Nat
<1> DEFINE r == reports[s]
<1>1. r \in Report /\ r.total \in Nat /\ r.used \in Nat /\ r.avail \in Int /\ r.fit \in BOOLEAN
  BY DEF TypeOK, Report, PlacementAssumption, Unreported
<1>2. Avail(r) = Room(s) /\ Room(s) \in Int
  BY <1>1 DEF Avail, Room, Unreported
<1>3. disk \in Nat /\ Threshold \in Nat
  BY DEF TypeOK, PlacementAssumption
<1>4. Threshold * r.total \in Int /\ r.used * 100 = 100 * r.used /\ 100 * r.used \in Int
  BY <1>1, <1>3
<1>5. Excluded(r) <=> ~Suits(s)
  <2>1. r.total <= 0 <=> ~(r.total > 0)
    BY <1>1
  <2>2. Avail(r) < disk <=> ~(disk <= Room(s))
    BY <1>2, <1>3
  <2>3. \A a, b \in Int : a >= b <=> ~(a < b)
    OBVIOUS
  <2>4. r.used * 100 >= Threshold * r.total <=> ~(100 * r.used < Threshold * r.total)
    BY <1>4, <2>3
  <2> QED
    BY <2>1, <2>2, <2>4, Zenon DEF Excluded, Suits
<1>6. Suits(s) => Room(s) \in Nat
  BY <1>2, <1>3 DEF Suits
<1> QED
  BY <1>2, <1>5, <1>6

\* What best is of the candidates before the one the loop is at.
Visited == {m \in DOMAIN candidates : m < i}

BestAt(n) ==
  /\ best = [name |-> candidates[n], avail |-> Room(candidates[n])]
  /\ Suits(candidates[n])
  /\ \A m \in Visited : Suits(candidates[m]) =>
       /\ Room(candidates[m]) <= Room(candidates[n])
       /\ m < n => Room(candidates[m]) < Room(candidates[n])

NoneSuits == best = Nothing /\ \A m \in Visited : ~Suits(candidates[m])

LoopInv ==
  /\ NoneSuits \/ \E n \in Visited : BestAt(n)
  /\ pc \in {"node", "query"} => i = 1 /\ best = Nothing
  /\ pc \in {"node", "query", "visit"} => outcome = "none"
  /\ outcome = "accepted" /\ candidates # <<>> => i > Len(candidates) /\ best # Nothing
  /\ outcome = "full" => i > Len(candidates) /\ best = Nothing

IInv == TypeOK /\ LoopInv

\* Candidates are sequences of storages.
LEMMA CandidateTypes ==
  ASSUME PlacementAssumption, candidates \in Candidates
  PROVE  /\ candidates \in Seq(Storages) /\ Len(candidates) \in Nat
         /\ DOMAIN candidates = 1..Len(candidates)
         /\ \A n \in DOMAIN candidates : candidates[n] \in Storages /\ candidates[n] # None
<1>1. PICK k \in 0..MaxCandidates : candidates \in [1..k -> Storages]
  BY DEF Candidates
<1>2. k \in Nat
  BY <1>1 DEF PlacementAssumption
<1> QED
  BY <1>1, <1>2 DEF PlacementAssumption

LEMMA InitInv == PlacementAssumption /\ Init => IInv
<1> SUFFICES ASSUME PlacementAssumption, Init PROVE IInv
  OBVIOUS
<1>1. /\ candidates \in Seq(Storages) /\ Len(candidates) \in Nat
      /\ DOMAIN candidates = 1..Len(candidates)
  BY CandidateTypes DEF Init
<1>2. TypeOK
  <2>1. reports \in [DOMAIN reports -> Report] /\ DOMAIN reports \subseteq Storages
    BY DEF Init
  <2> QED
    BY <1>1, <2>1 DEF Init, TypeOK
<1>3. Visited = {}
  BY <1>1 DEF Init, Visited
<1> QED
  BY <1>2, <1>3 DEF Init, IInv, LoopInv, NoneSuits

-----------------------------------------------------------------------------
LEMMA NodeKept ==
  ASSUME PlacementAssumption, IInv, CheckNode
  PROVE  IInv'
<1> USE DEF IInv
<1>1. /\ pc = "node" /\ i = 1 /\ best = Nothing /\ outcome = "none"
      /\ UNCHANGED <<candidates, disk, reports, i, best>>
  BY DEF CheckNode, LoopInv, request
<1>2. \/ pc' = "done" /\ outcome' = "overloaded"
      \/ pc' = "done" /\ outcome' = "accepted" /\ candidates = <<>>
      \/ pc' = "query" /\ outcome' = "none"
  BY <1>1 DEF CheckNode, Continue, Return
<1>3. TypeOK'
  BY <1>1, <1>2 DEF TypeOK
<1>4. Visited' = Visited /\ (NoneSuits' <=> NoneSuits) /\ NoneSuits
  <2>1. NoneSuits
    BY <1>1, CandidateTypes DEF LoopInv, NoneSuits, Visited, TypeOK
  <2> QED
    BY <1>1, <2>1 DEF NoneSuits, Visited, Suits, Room
<1> QED
  BY <1>1, <1>2, <1>3, <1>4 DEF LoopInv

LEMMA AskKept ==
  ASSUME PlacementAssumption, IInv, AskStorages
  PROVE  IInv'
<1> USE DEF IInv
<1>1. /\ pc = "query" /\ i = 1 /\ best = Nothing /\ outcome = "none"
      /\ UNCHANGED <<candidates, disk, i, best>>
  BY DEF AskStorages, LoopInv, request
<1>2. /\ \/ pc' = "visit" /\ outcome' = "none"
         \/ pc' = "done" /\ outcome' = "unavailable"
      /\ reports' \in [DOMAIN reports' -> Report] /\ DOMAIN reports' \subseteq Storages
  BY <1>1 DEF AskStorages, Return, TypeOK
<1>3. TypeOK'
  BY <1>1, <1>2 DEF TypeOK
<1>4. NoneSuits'
  BY <1>1, CandidateTypes DEF NoneSuits, Visited, TypeOK
<1> QED
  BY <1>1, <1>2, <1>3, <1>4 DEF LoopInv

LEMMA VisitKept ==
  ASSUME PlacementAssumption, IInv, Visit
  PROVE  IInv'
<1> DEFINE s == candidates[i]
<1> USE DEF IInv
<1>1. /\ pc = "visit" /\ i' = i + 1 /\ outcome = "none"
      /\ UNCHANGED <<pc, candidates, disk, reports, outcome>>
  BY DEF Visit, LoopInv, request
<1>2. /\ Len(candidates) \in Nat /\ DOMAIN candidates = 1..Len(candidates)
      /\ i \in DOMAIN candidates /\ i \in Nat /\ s \in Storages /\ s # None
  BY CandidateTypes DEF Visit, TypeOK
<1>3. Visited' = Visited \cup {i} /\ i \notin Visited
  BY <1>1, <1>2 DEF Visited
<1>4. \A t : Suits(t)' = Suits(t) /\ Room(t)' = Room(t)
  BY <1>1 DEF Suits, Room
<1>5. \A t : Suits(t) => t \in DOMAIN reports /\ Room(t) \in Nat
  BY ExcludedUnsuitable DEF Suits
<1>6. CASE ~(s \in DOMAIN reports /\ ~Excluded(reports[s]) /\ Better(reports[s]))
  <2>1. best' = best
    BY <1>6 DEF Visit
  <2>2. TypeOK'
    BY <1>1, <1>2, <2>1 DEF TypeOK
  <2>3. ~Suits(s) \/ (Suits(s) /\ Room(s) <= best.avail)
    <3>1. ASSUME Suits(s) PROVE Room(s) <= best.avail
      <4>1. s \in DOMAIN reports
        BY <3>1 DEF Suits
      <4>2. ~Better(reports[s]) /\ Avail(reports[s]) = Room(s) /\ Room(s) \in Int
        BY <1>6, <3>1, <4>1, ExcludedUnsuitable
      <4>3. best.avail \in Int
        BY DEF TypeOK, Nothing
      <4> QED
        BY <4>2, <4>3 DEF Better
    <3> QED
      BY <3>1
  <2>4. NoneSuits => NoneSuits'
    <3> SUFFICES ASSUME NoneSuits PROVE NoneSuits'
      OBVIOUS
    <3>1. best.avail = -1
      BY DEF NoneSuits, Nothing
    <3>2. ~Suits(s)
      BY <1>5, <2>3, <3>1
    <3> QED
      BY <1>1, <1>3, <1>4, <2>1, <3>2 DEF NoneSuits
  <2>5. \A n \in Visited : BestAt(n) => n \in Visited' /\ BestAt(n)'
    <3> SUFFICES ASSUME NEW n \in Visited, BestAt(n) PROVE n \in Visited' /\ BestAt(n)'
      OBVIOUS
    <3>1. n < i
      BY DEF Visited
    <3>2. best.avail = Room(candidates[n])
      BY DEF BestAt
    <3>3. \A m \in Visited' : Suits(candidates[m]) =>
            /\ Room(candidates[m]) <= Room(candidates[n])
            /\ m < n => Room(candidates[m]) < Room(candidates[n])
      BY <1>2, <1>3, <2>3, <3>1, <3>2 DEF BestAt, Visited
    <3> QED
      BY <1>1, <1>3, <1>4, <2>1, <3>3 DEF BestAt
  <2> QED
    BY <1>1, <2>2, <2>4, <2>5 DEF LoopInv
<1>7. CASE s \in DOMAIN reports /\ ~Excluded(reports[s]) /\ Better(reports[s])
  <2>1. Suits(s) /\ Room(s) \in Nat /\ Room(s) > best.avail
    BY <1>7, ExcludedUnsuitable DEF Better
  <2>2. best' = [name |-> s, avail |-> Room(s)]
    BY <1>7, ExcludedUnsuitable DEF Visit, Chosen
  <2>3. TypeOK'
    BY <1>1, <1>2, <2>1, <2>2 DEF TypeOK
  <2>4. \A m \in Visited : Suits(candidates[m]) => Room(candidates[m]) < Room(s)
    <3>1. CASE NoneSuits
      BY <3>1 DEF NoneSuits
    <3>2. ASSUME NEW n \in Visited, BestAt(n)
          PROVE  \A m \in Visited : Suits(candidates[m]) => Room(candidates[m]) < Room(s)
      <4>1. best.avail = Room(candidates[n]) /\ best.avail \in Nat
        BY <1>5, <3>2 DEF BestAt
      <4> QED
        BY <1>5, <2>1, <3>2, <4>1 DEF BestAt
    <3> QED
      BY <3>1, <3>2 DEF LoopInv
  <2>5. PICK k \in Nat : k = i
    BY <1>2
  <2>6. \A m \in Visited' : Suits(candidates[m]) =>
          /\ Room(candidates[m]) <= Room(candidates[k])
          /\ m < k => Room(candidates[m]) < Room(candidates[k])
    BY <1>2, <1>3, <1>5, <2>1, <2>4, <2>5 DEF Visited
  <2>7. BestAt(k)' /\ k \in Visited'
    BY <1>1, <1>3, <1>4, <2>1, <2>2, <2>5, <2>6 DEF BestAt
  <2> QED
    BY <1>1, <2>3, <2>7 DEF LoopInv
<1> QED
  BY <1>6, <1>7

LEMMA DecideKept ==
  ASSUME PlacementAssumption, IInv, Decide
  PROVE  IInv'
<1> USE DEF IInv
<1>1. /\ pc' = "done" /\ i > Len(candidates)
      /\ outcome' = IF best.name = None THEN "full" ELSE "accepted"
      /\ UNCHANGED <<candidates, disk, reports, i, best>>
  BY DEF Decide, Return, request
<1>2. best.name = None <=> best = Nothing
  BY DEF TypeOK, Nothing, PlacementAssumption
<1>3. TypeOK'
  BY <1>1 DEF TypeOK
<1>4. (NoneSuits \/ \E n \in Visited : BestAt(n))'
  BY <1>1 DEF LoopInv, NoneSuits, BestAt, Visited, Suits, Room
<1> QED
  BY <1>1, <1>2, <1>3, <1>4 DEF LoopInv

LEMMA StepInv == PlacementAssumption /\ IInv /\ [Next]_vars => IInv'
<1> SUFFICES ASSUME PlacementAssumption, IInv, [Next]_vars PROVE IInv'
  OBVIOUS
<1>1. CASE UNCHANGED vars
  BY <1>1 DEF vars, request, IInv, TypeOK, LoopInv, NoneSuits, BestAt, Visited, Suits, Room
<1> QED
  BY <1>1, NodeKept, AskKept, VisitKept, DecideKept DEF Next

LEMMA Invariant == ASSUME PlacementAssumption PROVE Spec => []IInv
<1>1. Init => IInv
  BY InitInv
<1>2. IInv /\ [Next]_vars => IInv'
  BY StepInv
<1> QED
  BY <1>1, <1>2, PTL DEF Spec

\* Types: the loop never looks past the candidates, and what it has chosen has
\* a size.
THEOREM TypeCorrect ==
  ASSUME PlacementAssumption PROVE Spec => []TypeOK
<1>1. IInv => TypeOK
  BY DEF IInv
<1> QED
  BY Invariant, <1>1, PTL

\* The storage a VM is put on suits it and is the roomiest, the first of equals.
THEOREM PlacementRight ==
  ASSUME PlacementAssumption PROVE Spec => []PlacedWhereRoomiest
<1>1. IInv => PlacedWhereRoomiest
  <2> SUFFICES ASSUME IInv, outcome = "accepted", candidates # <<>>
               PROVE  \E n \in DOMAIN candidates :
                        /\ best.name = candidates[n] /\ Suits(candidates[n])
                        /\ \A m \in DOMAIN candidates : Suits(candidates[m]) =>
                             /\ Room(candidates[m]) <= Room(candidates[n])
                             /\ m < n => Room(candidates[m]) < Room(candidates[n])
    BY DEF PlacedWhereRoomiest
  <2>1. Visited = DOMAIN candidates
    <3>1. Len(candidates) \in Nat /\ DOMAIN candidates = 1..Len(candidates)
      BY CandidateTypes DEF IInv, TypeOK
    <3>2. i \in Nat /\ i > Len(candidates)
      BY <3>1 DEF IInv, LoopInv, TypeOK
    <3> QED
      BY <3>1, <3>2 DEF Visited
  <2>2. PICK n \in Visited : BestAt(n)
    BY DEF IInv, LoopInv, NoneSuits
  <2> QED
    BY <2>1, <2>2 DEF BestAt
<1> QED
  BY Invariant, <1>1, PTL

\* A creation is refused for lack of space only when no candidate suits it.
THEOREM RefusalRight ==
  ASSUME PlacementAssumption PROVE Spec => []RefusedOnlyWhenFull
<1>1. IInv => RefusedOnlyWhenFull
  <2> SUFFICES ASSUME IInv, outcome = "full"
               PROVE  \A m \in DOMAIN candidates : ~Suits(candidates[m])
    BY DEF RefusedOnlyWhenFull
  <2>1. Visited = DOMAIN candidates
    <3>1. Len(candidates) \in Nat /\ DOMAIN candidates = 1..Len(candidates)
      BY CandidateTypes DEF IInv, TypeOK
    <3>2. i \in Nat /\ i > Len(candidates)
      BY <3>1 DEF IInv, LoopInv, TypeOK
    <3> QED
      BY <3>1, <3>2 DEF Visited
  <2>2. \A n \in Visited : ~BestAt(n)
    <3>1. best.name = None
      BY DEF IInv, LoopInv, Nothing
    <3>2. \A n \in Visited : candidates[n] # None
      BY CandidateTypes DEF IInv, TypeOK, Visited
    <3> QED
      BY <3>1, <3>2 DEF BestAt
  <2>3. NoneSuits
    BY <2>2 DEF IInv, LoopInv
  <2> QED
    BY <2>1, <2>3 DEF NoneSuits
<1> QED
  BY Invariant, <1>1, PTL
=============================================================================
