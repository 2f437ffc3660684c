------------------------ MODULE PortForwarding_proofs ------------------------
(***************************************************************************)
(* Proofs about PortForwarding, for any set of VMs, IPs, ports and default *)
(* ports, and any interleaving of the two actors' commands.                *)
(*                                                                         *)
(*   TypeCorrect      the type invariant                                   *)
(*   NoStrayRules     every rule belongs to a record (RulesBacked)         *)
(*   OneOwner         an external port leads to one VM (OneTarget)         *)
(*   RollbackWorks    a failed call leaves its rules as it found them      *)
(*                    (RollbackRestores)                                   *)
(*   PortsAreServed   a custom port keeps its rules (CustomPortServed)     *)
(*                                                                         *)
(* What a call consists of is computed by FlattenSeq, a recursive function *)
(* on sequences: its lemma is proved by induction, in the form that every  *)
(* nonempty set of naturals has a least element.                           *)
(***************************************************************************)
EXTENDS PortForwarding, TLAPS, WellFoundedInduction, FiniteSetTheorems,
        SequenceTheorems

-----------------------------------------------------------------------------
(* Sequences.                                                               *)

\* A nonempty set of naturals has a least element.
LEMMA Least ==
  ASSUME NEW T, T \subseteq Nat, T # {}
  PROVE  \E x \in T : \A y \in T : x <= y
<1>1. IsWellFoundedOn(OpToRel(<, Nat), Nat) BY NatLessThanWellFounded
<1>2. PICK x \in T : \A y \in T : ~(<<y, x>> \in OpToRel(<, Nat)) BY <1>1, WFMin
<1>3. \A y \in T : ~(y < x) BY <1>2 DEF OpToRel
<1> QED BY <1>3

\* Induction over the naturals, for a set instead of a predicate.
LEMMA SetInduction ==
  ASSUME NEW T, 0 \in T, \A n \in Nat : n \in T => n + 1 \in T
  PROVE  \A n \in Nat : n \in T
<1> DEFINE Out == {n \in Nat : n \notin T}
<1> SUFFICES ASSUME Out # {} PROVE FALSE OBVIOUS
<1>1. PICK x \in Out : \A y \in Out : x <= y BY Least
<1>2. x # 0 /\ x - 1 \in Nat /\ x - 1 \notin Out BY <1>1
<1> QED BY <1>2

\* The elements of a concatenation.
LEMMA ConcatSet ==
  ASSUME NEW S, NEW s \in Seq(S), NEW t \in Seq(S)
  PROVE  ToSet(s \o t) = ToSet(s) \cup ToSet(t)
<1>1. Len(s \o t) = Len(s) + Len(t) OBVIOUS
<1>2. \A i \in 1..Len(s \o t) : (s \o t)[i] = IF i <= Len(s) THEN s[i] ELSE t[i - Len(s)] OBVIOUS
<1>3. ASSUME NEW x \in ToSet(s) PROVE x \in ToSet(s \o t)
  <2>1. PICK i \in 1..Len(s) : x = s[i] BY DEF ToSet
  <2> QED BY <1>1, <1>2, <2>1 DEF ToSet
<1>4. ASSUME NEW x \in ToSet(t) PROVE x \in ToSet(s \o t)
  <2>1. PICK i \in 1..Len(t) : x = t[i] BY DEF ToSet
  <2>2. i + Len(s) \in 1..Len(s \o t) /\ (s \o t)[i + Len(s)] = t[i] BY <1>1, <1>2
  <2> QED BY <2>1, <2>2 DEF ToSet
<1>5. ToSet(s \o t) \subseteq ToSet(s) \cup ToSet(t) BY <1>1, <1>2 DEF ToSet
<1> QED BY <1>3, <1>4, <1>5

\* The partial results of FlattenSeq: the function its definition chooses.
LEMMA FlattenStep ==
  ASSUME NEW S, NEW s \in Seq(Seq(S)), s # <<>>
  PROVE  \E f \in [1..Len(s) -> Seq(S)] :
           /\ FlattenSeq(s) = f[Len(s)]
           /\ \A i \in 1..Len(s) : f[i] = IF i = 1 THEN s[i] ELSE f[i-1] \o s[i]
<1> DEFINE N == Len(s)
           Sums(m) == {f \in [1..m -> Seq(S)] :
                         \A i \in 1..m : f[i] = IF i = 1 THEN s[i] ELSE f[i-1] \o s[i]}
           T == {m \in Nat : m <= N => Sums(m) # {}}
<1>0. N \in Nat /\ N >= 1 /\ \A i \in 1..N : s[i] \in Seq(S) OBVIOUS
<1> HIDE DEF N
<1>1. Sums(0) # {}
  <2>1. [i \in 1..0 |-> <<>>] \in Sums(0) OBVIOUS
  <2> QED BY <2>1
<1>2. ASSUME NEW m \in Nat, m + 1 <= N, NEW f \in Sums(m) PROVE Sums(m+1) # {}
  <2> DEFINE x == IF m = 0 THEN s[m+1] ELSE f[m] \o s[m+1]
             g == [i \in 1..(m+1) |-> IF i = m+1 THEN x ELSE f[i]]
  <2>1. s[m+1] \in Seq(S) BY <1>0, <1>2
  <2>2. x \in Seq(S)
    <3>1. CASE m = 0 BY <2>1, <3>1
    <3>2. CASE m # 0
      <4>1. f[m] \in Seq(S) BY <3>2, <1>2
      <4> QED BY <4>1, <2>1, <3>2
    <3> QED BY <3>1, <3>2
  <2>3. \A i \in 1..m : f[i] \in Seq(S) OBVIOUS
  <2>4. g \in [1..(m+1) -> Seq(S)]
    <3> HIDE DEF x
    <3>1. \A i \in 1..(m+1) : i # m + 1 => i \in 1..m OBVIOUS
    <3> QED BY <2>2, <2>3, <3>1
  <2>5. ASSUME NEW i \in 1..(m+1)
        PROVE  g[i] = IF i = 1 THEN s[i] ELSE g[i-1] \o s[i]
    <3>1. CASE i = m + 1 BY <3>1
    <3>2. CASE i # m + 1
      <4>1. i \in 1..m /\ (i # 1 => i-1 \in 1..m) BY <3>2
      <4>2. f[i] = IF i = 1 THEN s[i] ELSE f[i-1] \o s[i] BY <4>1, <1>2
      <4> HIDE DEF x
      <4>3. g[i] = f[i] /\ (i # 1 => g[i-1] = f[i-1]) BY <4>1, <3>2
      <4> QED BY <4>2, <4>3
    <3> QED BY <3>1, <3>2
  <2> HIDE DEF g
  <2>6. g \in Sums(m+1) BY <2>4, <2>5
  <2> QED BY <2>6
<1> HIDE DEF Sums
<1>3. Sums(N) # {}
  <2>1. 0 \in T BY <1>1
  <2>2. ASSUME NEW m \in Nat, m \in T PROVE m + 1 \in T BY <1>0, <1>2, <2>2
  <2> HIDE DEF T
  <2>3. N \in T BY <1>0, <2>1, <2>2, SetInduction
  <2> QED BY <2>3, <1>0 DEF T
<1>4. PICK f \in [1..N -> Seq(S)] :
        \A i \in 1..N : f[i] = IF i = 1 THEN s[i] ELSE f[i-1] \o s[i]
  BY <1>3 DEF Sums
<1> DEFINE Eq(g) == g = [i \in 1..N |-> IF i = 1 THEN s[i] ELSE g[i-1] \o s[i]]
           F == CHOOSE g : Eq(g)
<1>5. Eq(f) BY <1>4
<1>6. Eq(F) BY <1>5
<1>7. FlattenSeq(s) = F[N] BY <1>0 DEF FlattenSeq, N
<1> HIDE DEF F
<1>8. \A i \in 1..N : F[i] = IF i = 1 THEN s[i] ELSE F[i-1] \o s[i] BY <1>6
<1> DEFINE U == {m \in Nat : m \in 1..N => F[m] = f[m]}
<1>9. 0 \in U OBVIOUS
<1>10. ASSUME NEW m \in Nat, m \in U PROVE m + 1 \in U
  <2>1. ASSUME m + 1 \in 1..N PROVE F[m+1] = f[m+1]
    <3>1. CASE m = 0
      <4>0. 1 \in 1..N /\ m + 1 = 1 BY <1>0, <3>1
      <4>1. F[1] = s[1] BY <4>0, <1>8
      <4>2. f[1] = s[1] BY <4>0, <1>4
      <4> QED BY <4>0, <4>1, <4>2
    <3>2. CASE m # 0
      <4>0. m \in 1..N /\ m + 1 # 1 /\ (m + 1) - 1 = m BY <3>2, <2>1, <1>0
      <4>1. F[m] = f[m] BY <4>0, <1>10
      <4>2. F[m+1] = F[m] \o s[m+1] BY <4>0, <2>1, <1>8
      <4>3. f[m+1] = f[m] \o s[m+1] BY <4>0, <2>1, <1>4
      <4> QED BY <4>1, <4>2, <4>3
    <3> QED BY <3>1, <3>2
  <2> QED BY <2>1
<1> HIDE DEF U
<1>11. N \in U BY <1>0, <1>9, <1>10, SetInduction
<1>12. F[N] = f[N] BY <1>11, <1>0 DEF U
<1> QED BY <1>4, <1>7, <1>12 DEF N

\* What FlattenSeq returns: a sequence of exactly the elements of its parts.
LEMMA Flatten ==
  ASSUME NEW S, NEW s \in Seq(Seq(S))
  PROVE  /\ FlattenSeq(s) \in Seq(S)
         /\ ToSet(FlattenSeq(s)) = UNION {ToSet(s[i]) : i \in 1..Len(s)}
<1>1. CASE s = <<>>
  <2>1. FlattenSeq(s) = <<>> BY <1>1 DEF FlattenSeq
  <2> QED BY <2>1, <1>1 DEF ToSet
<1>2. CASE s # <<>>
  <2>1. PICK f \in [1..Len(s) -> Seq(S)] :
           /\ FlattenSeq(s) = f[Len(s)]
           /\ \A i \in 1..Len(s) : f[i] = IF i = 1 THEN s[i] ELSE f[i-1] \o s[i]
    BY <1>2, FlattenStep
  <2>0. Len(s) \in Nat /\ Len(s) >= 1 /\ \A i \in 1..Len(s) : s[i] \in Seq(S) BY <1>2
  <2> DEFINE U == {m \in Nat : m \in 1..Len(s) =>
                     ToSet(f[m]) = UNION {ToSet(s[i]) : i \in 1..m}}
  <2>2. 0 \in U OBVIOUS
  <2>3. ASSUME NEW m \in Nat, m \in U PROVE m + 1 \in U
    <3>1. ASSUME m + 1 \in 1..Len(s)
          PROVE  ToSet(f[m+1]) = UNION {ToSet(s[i]) : i \in 1..(m+1)}
      <4>1. CASE m = 0
        <5>0. 1 \in 1..Len(s) BY <2>0
        <5>1. f[1] = s[1] BY <2>1, <5>0
        <5>2. 1..(m+1) = {1} BY <4>1
        <5> QED BY <5>1, <5>2, <4>1
      <4>2. CASE m # 0
        <5>0. m \in 1..Len(s) /\ m + 1 # 1 /\ (m + 1) - 1 = m BY <4>2, <3>1, <2>0
        <5>1. f[m+1] = f[m] \o s[m+1] BY <5>0, <3>1, <2>1
        <5>2. f[m] \in Seq(S) /\ s[m+1] \in Seq(S) BY <5>0, <3>1, <2>0
        <5>3. ToSet(f[m+1]) = ToSet(f[m]) \cup ToSet(s[m+1])
          BY <5>1, <5>2, ConcatSet
        <5>4. ToSet(f[m]) = UNION {ToSet(s[i]) : i \in 1..m} BY <5>0, <2>3
        <5>5. 1..(m+1) = 1..m \cup {m+1} OBVIOUS
        <5> QED BY <5>3, <5>4, <5>5
      <4> QED BY <4>1, <4>2
    <3> QED BY <3>1
  <2> HIDE DEF U
  <2>4. Len(s) \in U BY <2>0, <2>2, <2>3, SetInduction
  <2>5. Len(s) \in 1..Len(s) BY <2>0
  <2>6. ToSet(f[Len(s)]) = UNION {ToSet(s[i]) : i \in 1..Len(s)} BY <2>4, <2>5 DEF U
  <2>7. f[Len(s)] \in Seq(S) BY <2>5
  <2> QED BY <2>1, <2>6, <2>7
<1> QED BY <1>1, <1>2
\* The elements of a nonempty sequence, seen from its head or from its end.
LEMMA SeqParts ==
  ASSUME NEW S, NEW s \in Seq(S), s # <<>>
  PROVE  /\ Head(s) \in S /\ Tail(s) \in Seq(S)
         /\ ToSet(s) = {Head(s)} \cup ToSet(Tail(s))
         /\ Last(s) \in S /\ Front(s) \in Seq(S)
         /\ ToSet(s) = {Last(s)} \cup ToSet(Front(s))
<1> DEFINE N == Len(s)
<1>0. N \in Nat /\ N >= 1 /\ DOMAIN s = 1..N /\ \A i \in 1..N : s[i] \in S OBVIOUS
<1>1. Head(s) = s[1] /\ Tail(s) \in Seq(S) /\ Len(Tail(s)) = N - 1
      /\ \A i \in 1..(N-1) : Tail(s)[i] = s[i+1]
  OBVIOUS
<1>2. Last(s) = s[N] /\ Front(s) \in Seq(S) /\ Len(Front(s)) = N - 1
      /\ \A i \in 1..(N-1) : Front(s)[i] = s[i]
  BY <1>0 DEF Last, Front
<1>3. DOMAIN Tail(s) = 1..(N-1) /\ DOMAIN Front(s) = 1..(N-1) BY <1>1, <1>2
<1> HIDE DEF N
<1>4. ToSet(s) = {Head(s)} \cup ToSet(Tail(s))
  <2>1. ASSUME NEW x \in ToSet(s), x # Head(s) PROVE x \in ToSet(Tail(s))
    <3>1. PICK i \in 1..N : x = s[i] BY <1>0 DEF ToSet
    <3>2. i # 1 BY <3>1, <2>1, <1>1
    <3>3. i - 1 \in 1..(N-1) /\ (i-1) + 1 = i BY <3>2, <1>0
    <3>4. Tail(s)[i-1] = x BY <3>1, <3>3, <1>1
    <3> QED BY <3>3, <3>4, <1>3 DEF ToSet
  <2>2. ASSUME NEW x \in ToSet(Tail(s)) PROVE x \in ToSet(s)
    <3>1. PICK i \in 1..(N-1) : x = Tail(s)[i] BY <1>3 DEF ToSet
    <3>2. i + 1 \in 1..N BY <1>0
    <3> QED BY <3>1, <3>2, <1>0, <1>1 DEF ToSet
  <2>3. Head(s) \in ToSet(s)
    <3>1. 1 \in 1..N BY <1>0
    <3> QED BY <3>1, <1>0, <1>1 DEF ToSet
  <2> QED BY <2>1, <2>2, <2>3
<1>5. ToSet(s) = {Last(s)} \cup ToSet(Front(s))
  <2>1. ASSUME NEW x \in ToSet(s), x # Last(s) PROVE x \in ToSet(Front(s))
    <3>1. PICK i \in 1..N : x = s[i] BY <1>0 DEF ToSet
    <3>2. i # N BY <3>1, <2>1, <1>2
    <3>3. i \in 1..(N-1) BY <3>2, <1>0
    <3> QED BY <3>1, <3>3, <1>2, <1>3 DEF ToSet
  <2>2. ASSUME NEW x \in ToSet(Front(s)) PROVE x \in ToSet(s)
    <3>1. PICK i \in 1..(N-1) : x = Front(s)[i] BY <1>3 DEF ToSet
    <3>2. i \in 1..N BY <1>0
    <3> QED BY <3>1, <3>2, <1>0, <1>2 DEF ToSet
  <2>3. Last(s) \in ToSet(s)
    <3>1. N \in 1..N BY <1>0
    <3> QED BY <3>1, <1>0, <1>2 DEF ToSet
  <2> QED BY <2>1, <2>2, <2>3
<1> QED BY <1>0, <1>1, <1>2, <1>4, <1>5

\* The elements of a sequence, when it is empty and when one is appended.
LEMMA SeqElements ==
  ASSUME NEW S, NEW s \in Seq(S), NEW x \in S
  PROVE  /\ ToSet(<<>>) = {}
         /\ ToSet(s) \subseteq S
         /\ s # <<>> <=> ToSet(s) # {}
         /\ Append(s, x) \in Seq(S) /\ Append(s, x) # <<>>
         /\ ToSet(Append(s, x)) = ToSet(s) \cup {x}
<1>1. ToSet(<<>>) = {} BY DEF ToSet
<1>2. ToSet(s) \subseteq S BY DEF ToSet
<1>3. s # <<>> => ToSet(s) # {} BY SeqParts
<1> DEFINE t == Append(s, x)
<1>4. t \in Seq(S) /\ Len(t) = Len(s) + 1 /\ t[Len(s) + 1] = x
      /\ \A i \in 1..Len(s) : t[i] = s[i]
  OBVIOUS
<1>5. Len(s) \in Nat /\ DOMAIN s = 1..Len(s) /\ DOMAIN t = 1..(Len(s) + 1) BY <1>4
<1> HIDE DEF t
<1>6. t # <<>> BY <1>4, <1>5
<1>7. ASSUME NEW y \in ToSet(t), y # x PROVE y \in ToSet(s)
  <2>1. PICK i \in 1..(Len(s) + 1) : y = t[i] BY <1>5 DEF ToSet
  <2>2. i \in 1..Len(s) BY <2>1, <1>4, <1>5, <1>7
  <2> QED BY <2>1, <2>2, <1>4, <1>5 DEF ToSet
<1>8. ASSUME NEW y \in ToSet(s) PROVE y \in ToSet(t)
  <2>1. PICK i \in 1..Len(s) : y = s[i] BY <1>5 DEF ToSet
  <2>2. i \in 1..(Len(s) + 1) BY <1>5
  <2> QED BY <2>1, <2>2, <1>4, <1>5 DEF ToSet
<1>9. x \in ToSet(t)
  <2>1. Len(s) + 1 \in 1..(Len(s) + 1) BY <1>5
  <2> QED BY <2>1, <1>4, <1>5 DEF ToSet
<1>10. ToSet(t) = ToSet(s) \cup {x} BY <1>7, <1>8, <1>9
<1> QED BY <1>1, <1>2, <1>3, <1>4, <1>6, <1>10 DEF t

LEMMA SeqNonempty ==
  ASSUME NEW S, NEW s \in Seq(S), s # <<>>
  PROVE  ToSet(s) # {}
<1>1. ToSet(s) = {Head(s)} \cup ToSet(Tail(s)) BY SeqParts
<1> QED BY <1>1, Zenon

\* SetToSeq lists exactly the elements of a finite set.
LEMMA SetListed ==
  ASSUME NEW S, IsFiniteSet(S)
  PROVE  SetToSeq(S) \in Seq(S) /\ ToSet(SetToSeq(S)) = S
<1> DEFINE n == Cardinality(S)
           Lists(f) == f \in [1..n -> S] /\ IsInjective(f)
<1>1. n \in Nat BY FS_CardinalityType
<1>2. \E f \in [1..n -> S] : IsInjective(f) /\ \A x \in S : \E i \in 1..n : f[i] = x
  <2>1. ExistsBijection(1..n, S) BY FS_CardinalityType
  <2>2. PICK f \in Bijection(1..n, S) : TRUE BY <2>1 DEF ExistsBijection
  <2> QED BY <2>2 DEF Bijection, Injection, Surjection, IsInjective
<1>3. SetToSeq(S) \in [1..n -> S] /\ IsInjective(SetToSeq(S))
  BY <1>2 DEF SetToSeq
<1> DEFINE g == SetToSeq(S)
<1> HIDE DEF g
<1>4. g \in [1..n -> S] /\ IsInjective(g) BY <1>3 DEF g
<1> DEFINE R == {g[i] : i \in 1..n}
<1>5. R \subseteq S /\ g \in Surjection(1..n, R) /\ g \in Injection(1..n, R)
  BY <1>4 DEF Surjection, Injection, IsInjective
<1> HIDE DEF R
<1>6. R = S
  <2>1. IsFiniteSet(1..n) /\ Cardinality(1..n) = n BY <1>1, FS_Interval
  <2>2. Cardinality(R) = n BY <1>5, <2>1, FS_Surjection
  <2> QED BY <2>2, <1>5, FS_Subset
<1>8. ToSet(g) = S BY <1>4, <1>6 DEF ToSet, R
<1>7. g \in Seq(S) BY <1>1, <1>4
<1> QED BY <1>7, <1>8 DEF g

\* How often a rule is on a list of rules.
Occ(r, s) == Cardinality({i \in DOMAIN s : s[i] = r})

LEMMA OccEmpty == ASSUME NEW r PROVE Occ(r, <<>>) = 0
<1>1. {i \in DOMAIN <<>> : <<>>[i] = r} = {} OBVIOUS
<1> QED BY <1>1, FS_EmptySet DEF Occ

LEMMA OccIsNat ==
  ASSUME NEW S, NEW s \in Seq(S), NEW r
  PROVE  IsFiniteSet({i \in DOMAIN s : s[i] = r}) /\ Occ(r, s) \in Nat
<1>1. Len(s) \in Nat /\ DOMAIN s = 1..Len(s) OBVIOUS
<1>2. IsFiniteSet(1..Len(s)) BY <1>1, FS_Interval
<1>3. {i \in DOMAIN s : s[i] = r} \in SUBSET (1..Len(s)) BY <1>1
<1>4. IsFiniteSet({i \in DOMAIN s : s[i] = r}) BY <1>2, <1>3, FS_Subset
<1> QED BY <1>4, FS_CardinalityType DEF Occ

LEMMA OccAppend ==
  ASSUME NEW S, NEW s \in Seq(S), NEW x \in S, NEW r
  PROVE  Occ(r, Append(s, x)) = IF r = x THEN Occ(r, s) + 1 ELSE Occ(r, s)
<1> DEFINE t == Append(s, x)
           A == {i \in DOMAIN s : s[i] = r}
           B == {i \in DOMAIN t : t[i] = r}
<1>1. t \in Seq(S) /\ Len(t) = Len(s) + 1 /\ t[Len(s) + 1] = x
      /\ \A i \in 1..Len(s) : t[i] = s[i]
  OBVIOUS
<1>2. Len(s) \in Nat /\ DOMAIN s = 1..Len(s) /\ DOMAIN t = 1..(Len(s) + 1) BY <1>1
<1>3. IsFiniteSet(A) BY OccIsNat
<1> HIDE DEF t
<1>4. B = IF r = x THEN A \cup {Len(s) + 1} ELSE A
  <2>1. \A i : i \in 1..(Len(s) + 1) <=> i \in 1..Len(s) \/ i = Len(s) + 1 BY <1>2
  <2> QED BY <1>1, <1>2, <2>1
<1>5. Len(s) + 1 \notin A BY <1>2
<1>6. Cardinality(B) = IF r = x THEN Cardinality(A) + 1 ELSE Cardinality(A)
  BY <1>3, <1>4, <1>5, FS_AddElement
<1> QED BY <1>6 DEF Occ, t

\* The list without its last element, and with it.
LEMMA FrontAppend ==
  ASSUME NEW S, NEW s \in Seq(S), s # <<>>
  PROVE  s = Append(Front(s), Last(s))
<1> DEFINE N == Len(s)
           f == Front(s)
           t == Append(f, Last(s))
<1>0. N \in Nat /\ N >= 1 /\ DOMAIN s = 1..N /\ \A i \in 1..N : s[i] \in S OBVIOUS
<1>1. Last(s) = s[N] /\ f \in Seq(S) /\ Len(f) = N - 1 /\ \A i \in 1..(N-1) : f[i] = s[i]
  BY <1>0 DEF Last, Front
<1> HIDE DEF f, N
<1>2. Last(s) \in S BY <1>0, <1>1
<1>3. t \in Seq(S) /\ Len(t) = Len(f) + 1 /\ t[Len(f) + 1] = Last(s)
      /\ \A i \in 1..Len(f) : t[i] = f[i]
  BY <1>1, <1>2
<1> HIDE DEF t
<1>4. Len(t) = N BY <1>0, <1>1, <1>3
<1>5. ASSUME NEW i \in 1..N PROVE t[i] = s[i]
  <2>1. CASE i = N BY <2>1, <1>0, <1>1, <1>3
  <2>2. CASE i # N
    <3>1. i \in 1..(N-1) /\ i \in 1..Len(f) BY <2>2, <1>0, <1>1
    <3> QED BY <3>1, <1>1, <1>3
  <2> QED BY <2>1, <2>2
<1>6. t = s
  <2>1. Len(s) = N BY DEF N
  <2> QED BY <2>1, <1>3, <1>4, <1>5, SeqEqual
<1> QED BY <1>6 DEF t, f

LEMMA OccFront ==
  ASSUME NEW S, NEW s \in Seq(S), s # <<>>, NEW r
  PROVE  Occ(r, s) = IF r = Last(s) THEN Occ(r, Front(s)) + 1 ELSE Occ(r, Front(s))
<1>1. Front(s) \in Seq(S) /\ Last(s) \in S BY SeqParts
<1>2. s = Append(Front(s), Last(s)) BY FrontAppend
<1>3. Occ(r, Append(Front(s), Last(s)))
        = IF r = Last(s) THEN Occ(r, Front(s)) + 1 ELSE Occ(r, Front(s))
  BY <1>1, OccAppend
<1> QED BY <1>2, <1>3

LEMMA OccIn ==
  ASSUME NEW S, NEW s \in Seq(S), NEW r, r \notin ToSet(s)
  PROVE  Occ(r, s) = 0
<1>1. {i \in DOMAIN s : s[i] = r} = {} BY DEF ToSet
<1> QED BY <1>1, FS_EmptySet DEF Occ

-----------------------------------------------------------------------------
(* Bags of rules.                                                           *)

\* A rule is on the gateway as often as it has copies.
LEMMA CopiesCount ==
  ASSUME NEW b, IsABag(b), NEW r
  PROVE  Copies(r, b) \in Nat /\ (Copies(r, b) > 0 <=> r \in DOMAIN b)
BY DEF IsABag, Copies, BagIn, BagToSet

\* iptables -A: one copy more of one rule.
LEMMA BagAdd ==
  ASSUME NEW b, IsABag(b), NEW x, NEW r
  PROVE  /\ IsABag(b (+) SetToBag({x}))
         /\ DOMAIN (b (+) SetToBag({x})) = DOMAIN b \cup {x}
         /\ Copies(r, b (+) SetToBag({x}))
              = IF r = x THEN Copies(r, b) + 1 ELSE Copies(r, b)
BY DEF IsABag, SetToBag, (+), Copies, BagIn, BagToSet

\* iptables -D of the rollback: one copy less, if there is one.
LEMMA BagTake ==
  ASSUME NEW b, IsABag(b), NEW x, NEW r
  PROVE  /\ IsABag(b (-) SetToBag({x}))
         /\ DOMAIN (b (-) SetToBag({x})) \subseteq DOMAIN b
         /\ Copies(r, b (-) SetToBag({x}))
              = IF r = x /\ r \in DOMAIN b THEN Copies(r, b) - 1 ELSE Copies(r, b)
BY DEF IsABag, SetToBag, (-), Copies, BagIn, BagToSet

\* The loop of DELETE: no copy of the rule is left.
LEMMA BagDrop ==
  ASSUME NEW b, IsABag(b), NEW x, NEW r
  PROVE  /\ IsABag([e \in DOMAIN b \ {x} |-> b[e]])
         /\ DOMAIN [e \in DOMAIN b \ {x} |-> b[e]] = DOMAIN b \ {x}
         /\ Copies(r, [e \in DOMAIN b \ {x} |-> b[e]])
              = IF r = x THEN 0 ELSE Copies(r, b)
BY DEF IsABag, Copies, BagIn, BagToSet

-----------------------------------------------------------------------------
(* The calls of an operation.                                               *)

\* The rules of a port of the VM at ip, and the rules of a list of calls.
RulesOf(p, ip)  == UNION {ToSet(CustomRules(p, pr, ip)) : pr \in ToSet(p.protocols)}
RulesIn(calls)  == UNION {ToSet(calls[i]) : i \in DOMAIN calls}
CallSeq         == {calls \in Seq(Seq(Rule)) : \A i \in DOMAIN calls : calls[i] # <<>>}

\* Every rule leads to the VM's IP and to the port's internal port, and a
\* DNAT rule belongs to the port's external port.
LEMMA CustomRulesType ==
  ASSUME NEW p \in Port, NEW pr \in Protocols, NEW ip \in Ips
  PROVE  /\ CustomRules(p, pr, ip) \in Seq(Rule)
         /\ CustomRules(p, pr, ip) # <<>>
         /\ ToSet(CustomRules(p, pr, ip)) =
              { Dnat(Normalize(p.source), pr, p.external, ip, p.internal),
                Forward(Normalize(p.source), pr, ip, p.internal) }
         /\ CustomRules(p, pr, ip)[1]
              = Dnat(Normalize(p.source), pr, p.external, ip, p.internal)
<1> DEFINE d == Dnat(Normalize(p.source), pr, p.external, ip, p.internal)
           f == Forward(Normalize(p.source), pr, ip, p.internal)
<1>1. Normalize(p.source) \in Sources \ {Anywhere}
  BY DEF Normalize, Port, Sources, Anywhere, NoSource
<1>2. p.external \in Nat /\ p.internal \in Nat BY DEF Port
<1>3. d \in Rule /\ f \in Rule BY <1>1, <1>2 DEF Dnat, Forward, Rule
<1>4. CustomRules(p, pr, ip) = <<d, f>> BY DEF CustomRules
<1> HIDE DEF d, f
<1>5. <<d, f>> \in Seq(Rule) /\ <<d, f>> # <<>> /\ <<d, f>>[1] = d BY <1>3
<1>6. ToSet(<<d, f>>) = {d, f} BY DEF ToSet
<1> QED BY <1>4, <1>5, <1>6 DEF d, f

LEMMA RuleFields ==
  ASSUME NEW p \in Port, NEW ip \in Ips, NEW r \in RulesOf(p, ip)
  PROVE  /\ r \in Rule /\ r.ip = ip /\ r.to = p.internal
         /\ r.chain = "PREROUTING" => r.dport = p.external
<1>1. PICK pr \in ToSet(p.protocols) : r \in ToSet(CustomRules(p, pr, ip)) BY DEF RulesOf
<1>2. pr \in Protocols BY <1>1 DEF Port, ToSet
<1>3. CustomRules(p, pr, ip) \in Seq(Rule) BY <1>2, CustomRulesType
<1>4. r \in Rule BY <1>1, <1>3 DEF ToSet
<1>5. r = Dnat(Normalize(p.source), pr, p.external, ip, p.internal)
      \/ r = Forward(Normalize(p.source), pr, ip, p.internal)
  BY <1>1, <1>2, CustomRulesType
<1> QED BY <1>4, <1>5 DEF Dnat, Forward

\* A port makes one call for each of its protocols.
LEMMA CallsForType ==
  ASSUME NEW p \in Port, NEW ip \in Ips
  PROVE  /\ CallsFor(p, ip) \in CallSeq
         /\ RulesIn(CallsFor(p, ip)) = RulesOf(p, ip)
         /\ Len(CallsFor(p, ip)) = Len(p.protocols)
         /\ p.protocols # <<>> => CallsFor(p, ip) # <<>> /\ RulesOf(p, ip) # {}
         /\ ToSet(FlattenSeq(CallsFor(p, ip))) = RulesOf(p, ip)
<1> DEFINE N == Len(p.protocols)
           c == CallsFor(p, ip)
<1>1. N \in Nat /\ DOMAIN p.protocols = 1..N
      /\ \A n \in 1..N : p.protocols[n] \in Protocols
      /\ (p.protocols # <<>> => N > 0)
  BY DEF Port
<1>2. c = [n \in 1..N |-> CustomRules(p, p.protocols[n], ip)] BY DEF CallsFor
<1>3. \A n \in 1..N : CustomRules(p, p.protocols[n], ip) \in Seq(Rule)
                      /\ CustomRules(p, p.protocols[n], ip) # <<>>
  BY <1>1, CustomRulesType
<1> HIDE DEF N, c
<1>4. c \in [1..N -> Seq(Rule)] BY <1>2, <1>3
<1>5. c \in Seq(Seq(Rule)) /\ DOMAIN c = 1..N /\ Len(c) = N BY <1>1, <1>4
<1>6. c \in CallSeq BY <1>2, <1>3, <1>5 DEF CallSeq
<1>7. RulesIn(c) = RulesOf(p, ip)
  <2>1. \A n \in 1..N : ToSet(c[n]) = ToSet(CustomRules(p, p.protocols[n], ip)) BY <1>2
  <2>2. ToSet(p.protocols) = {p.protocols[n] : n \in 1..N} BY <1>1 DEF ToSet
  <2>3. \A r : r \in RulesIn(c) <=>
               \E n \in 1..N : r \in ToSet(CustomRules(p, p.protocols[n], ip))
    BY <2>1, <1>5 DEF RulesIn
  <2>4. \A r : r \in RulesOf(p, ip) <=>
               \E n \in 1..N : r \in ToSet(CustomRules(p, p.protocols[n], ip))
    BY <2>2 DEF RulesOf
  <2> QED BY <2>3, <2>4
<1>8. ASSUME p.protocols # <<>> PROVE c # <<>> /\ RulesOf(p, ip) # {}
  <2>1. 1 \in 1..N BY <1>8, <1>1
  <2>2. c # <<>> BY <2>1, <1>5
  <2>3. c[1] \in Seq(Rule) /\ c[1] # <<>> BY <2>1, <1>2, <1>3
  <2>4. ToSet(c[1]) # {} BY <2>3, SeqNonempty
  <2>5. ToSet(c[1]) \subseteq RulesIn(c) BY <2>1, <1>5 DEF RulesIn
  <2> QED BY <2>2, <2>4, <2>5, <1>7
<1>9. ToSet(FlattenSeq(c)) = RulesOf(p, ip)
  <2>1. ToSet(FlattenSeq(c)) = UNION {ToSet(c[i]) : i \in 1..Len(c)} BY <1>5, Flatten
  <2> QED BY <2>1, <1>5, <1>7 DEF RulesIn
<1> QED BY <1>5, <1>6, <1>7, <1>8, <1>9 DEF N, c

\* Joining the calls of several ports.
LEMMA JoinedCalls ==
  ASSUME NEW cs \in Seq(CallSeq)
  PROVE  /\ FlattenSeq(cs) \in CallSeq
         /\ RulesIn(FlattenSeq(cs)) = UNION {RulesIn(cs[n]) : n \in DOMAIN cs}
         /\ RulesIn(FlattenSeq(cs)) # {} => FlattenSeq(cs) # <<>>
<1> DEFINE S == {call \in Seq(Rule) : call # <<>>}
           f == FlattenSeq(cs)
<1>0. \A s : RulesIn(s) = UNION {ToSet(call) : call \in ToSet(s)} BY DEF RulesIn, ToSet
<1>1. Len(cs) \in Nat /\ DOMAIN cs = 1..Len(cs) /\ \A n \in 1..Len(cs) : cs[n] \in CallSeq
  OBVIOUS
<1>2. \A n \in 1..Len(cs) : cs[n] \in Seq(S)
  <2>1. ASSUME NEW c \in CallSeq PROVE c \in Seq(S)
    <3>1. Len(c) \in Nat /\ DOMAIN c = 1..Len(c) /\ \A i \in 1..Len(c) : c[i] \in S
      BY DEF CallSeq
    <3>2. c \in [1..Len(c) -> S] BY <3>1 DEF CallSeq
    <3> QED BY <3>1, <3>2
  <2> QED BY <2>1, <1>1
<1>3. cs \in Seq(Seq(S))
  <2>1. cs \in [1..Len(cs) -> Seq(S)] BY <1>1, <1>2
  <2> QED BY <2>1, <1>1
<1>4. f \in Seq(S) /\ ToSet(f) = UNION {ToSet(cs[n]) : n \in 1..Len(cs)} BY <1>3, Flatten
<1> HIDE DEF f
<1>5. f \in CallSeq
  <2>1. Len(f) \in Nat /\ DOMAIN f = 1..Len(f) /\ \A i \in 1..Len(f) : f[i] \in S BY <1>4
  <2>2. f \in [1..Len(f) -> Seq(Rule)] BY <1>4, <2>1
  <2>3. f \in Seq(Seq(Rule)) BY <2>1, <2>2
  <2> QED BY <2>1, <2>3 DEF CallSeq
<1>6. RulesIn(f) = UNION {RulesIn(cs[n]) : n \in DOMAIN cs} BY <1>0, <1>1, <1>4
<1>7. f = <<>> => RulesIn(f) = {} BY DEF RulesIn
<1> QED BY <1>5, <1>6, <1>7 DEF f

\* The default ports of a VM: port records with a protocol each.
LEMMA DefaultPortsType ==
  ASSUME NEW v \in Vm
  PROVE  /\ DefaultPorts(v) \in Seq(Port) /\ DefaultPorts(v) # <<>>
         /\ Len(DefaultPorts(v)) = Len(Defaults)
         /\ DOMAIN DefaultPorts(v) = 1..Len(Defaults)
         /\ IsFiniteSet(ToSet(DefaultPorts(v)))
         /\ \A p \in ToSet(DefaultPorts(v)) :
              /\ p \in Port /\ p.vm = v.id /\ p.is_default /\ p.protocols # <<>>
              /\ \E n \in 1..Len(Defaults) : p = DefaultPort(Defaults[n], v)
<1> DEFINE N == Len(Defaults)
           s == DefaultPorts(v)
<1>1. N \in Nat /\ N > 0 /\ DOMAIN Defaults = 1..N
      /\ \A n \in 1..N :
           /\ Defaults[n] \in [internal: Nat, protocols: Seq(Protocols), offset: Nat]
           /\ Defaults[n].protocols # <<>>
  <2> DEFINE R == [internal: Nat, protocols: Seq(Protocols), offset: Nat]
  <2>1. Defaults \in Seq(R) /\ Defaults # <<>>
        /\ \A d \in ToSet(Defaults) : d.protocols # <<>>
    BY PortAssumption
  <2> HIDE DEF R
  <2>2. N \in Nat /\ N > 0 /\ DOMAIN Defaults = 1..N /\ \A n \in 1..N : Defaults[n] \in R
    BY <2>1
  <2>3. \A n \in 1..N : Defaults[n] \in ToSet(Defaults) BY <2>2 DEF ToSet
  <2> QED BY <2>1, <2>2, <2>3 DEF R
<1>2. s = [n \in 1..N |-> DefaultPort(Defaults[n], v)] BY DEF DefaultPorts
<1> HIDE DEF s, N
<1>3. ASSUME NEW n \in 1..N
      PROVE  /\ DefaultPort(Defaults[n], v) \in Port
             /\ DefaultPort(Defaults[n], v).vm = v.id
             /\ DefaultPort(Defaults[n], v).is_default
             /\ DefaultPort(Defaults[n], v).protocols # <<>>
  <2>1. v.vmid \in Nat /\ v.id \in Nat BY PortAssumption DEF Vm
  <2>2. Anywhere \in Sources BY DEF Sources
  <2> QED BY <1>1, <2>1, <2>2 DEF DefaultPort, Port
<1>4. s \in [1..N -> Port] BY <1>2, <1>3
<1>5. s \in Seq(Port) /\ Len(s) = N /\ DOMAIN s = 1..N /\ s # <<>> BY <1>1, <1>4
<1>6. ToSet(s) = {s[n] : n \in 1..N} BY <1>5 DEF ToSet
<1>7. IsFiniteSet(ToSet(s))
  <2>1. IsFiniteSet(1..N) BY <1>1, FS_Interval
  <2>2. s \in Surjection(1..N, ToSet(s)) BY <1>4, <1>6 DEF Surjection
  <2> QED BY <2>1, <2>2, FS_Surjection
<1> QED BY <1>2, <1>3, <1>5, <1>6, <1>7 DEF s, N

\* The calls for a list of ports, and the rules they are about.
LEMMA CallsForAllType ==
  ASSUME NEW ps \in Seq(Port), NEW ip \in Ips
  PROVE  /\ CallsForAll(ps, ip) \in CallSeq
         /\ RulesIn(CallsForAll(ps, ip)) = UNION {RulesOf(p, ip) : p \in ToSet(ps)}
<1> DEFINE cs == [n \in 1..Len(ps) |-> CallsFor(ps[n], ip)]
<1>1. Len(ps) \in Nat /\ DOMAIN ps = 1..Len(ps) /\ \A n \in 1..Len(ps) : ps[n] \in Port
  OBVIOUS
<1>2. \A n \in 1..Len(ps) :
        CallsFor(ps[n], ip) \in CallSeq
        /\ RulesIn(CallsFor(ps[n], ip)) = RulesOf(ps[n], ip)
  BY <1>1, CallsForType
<1>3. cs \in [1..Len(ps) -> CallSeq] BY <1>2
<1>4. cs \in Seq(CallSeq) /\ DOMAIN cs = 1..Len(ps) BY <1>1, <1>3
<1>5. \A n \in 1..Len(ps) : RulesIn(cs[n]) = RulesOf(ps[n], ip) BY <1>2
<1>6. CallsForAll(ps, ip) = FlattenSeq(cs) BY DEF CallsForAll
<1> HIDE DEF cs
<1>7. FlattenSeq(cs) \in CallSeq
      /\ RulesIn(FlattenSeq(cs)) = UNION {RulesIn(cs[n]) : n \in DOMAIN cs}
  BY <1>4, JoinedCalls
<1>8. UNION {RulesIn(cs[n]) : n \in DOMAIN cs} = UNION {RulesOf(p, ip) : p \in ToSet(ps)}
  <2>1. ToSet(ps) = {ps[n] : n \in 1..Len(ps)} BY <1>1 DEF ToSet
  <2>2. \A r : r \in UNION {RulesIn(cs[n]) : n \in DOMAIN cs}
               <=> \E n \in 1..Len(ps) : r \in RulesOf(ps[n], ip)
    BY <1>4, <1>5
  <2>3. \A r : r \in UNION {RulesOf(p, ip) : p \in ToSet(ps)}
               <=> \E n \in 1..Len(ps) : r \in RulesOf(ps[n], ip)
    BY <2>1
  <2> QED BY <2>2, <2>3
<1> QED BY <1>6, <1>7, <1>8

\* The rules of all default ports of a VM.
DefaultRules(v) == UNION {RulesOf(p, v.ip) : p \in ToSet(DefaultPorts(v))}

\* manage_iptables makes one call for all default ports.
LEMMA DefaultCallType ==
  ASSUME NEW v \in Vm
  PROVE  /\ DefaultCall(v) \in Seq(Rule) /\ DefaultCall(v) # <<>>
         /\ ToSet(DefaultCall(v)) = DefaultRules(v)
         /\ <<DefaultCall(v)>> \in CallSeq
         /\ RulesIn(<<DefaultCall(v)>>) = DefaultRules(v)
<1> DEFINE cs == CallsForAll(DefaultPorts(v), v.ip)
           d == DefaultCall(v)
<1>1. v.ip \in Ips BY DEF Vm
<1>2. cs \in CallSeq /\ RulesIn(cs) = DefaultRules(v)
  BY <1>1, DefaultPortsType, CallsForAllType DEF DefaultRules
<1>3. d = FlattenSeq(cs) BY DEF DefaultCall
<1> HIDE DEF cs, d
<1>4. cs \in Seq(Seq(Rule)) BY <1>2 DEF CallSeq
<1>5. d \in Seq(Rule) /\ ToSet(d) = UNION {ToSet(cs[i]) : i \in 1..Len(cs)}
  BY <1>3, <1>4, Flatten
<1>6. ToSet(d) = DefaultRules(v)
  <2>1. DOMAIN cs = 1..Len(cs) BY <1>4
  <2> QED BY <2>1, <1>2, <1>5 DEF RulesIn
<1>7. DefaultRules(v) # {}
  <2>0. ToSet(DefaultPorts(v)) # {}
    <3>1. DefaultPorts(v) \in Seq(Port) /\ DefaultPorts(v) # <<>> BY DefaultPortsType
    <3> QED BY <3>1, SeqNonempty
  <2>1. PICK p : p \in ToSet(DefaultPorts(v)) BY <2>0
  <2>2. p \in Port /\ p.protocols # <<>> BY <2>1, DefaultPortsType
  <2>3. RulesOf(p, v.ip) # {} BY <1>1, <2>2, CallsForType
  <2> QED BY <2>1, <2>3 DEF DefaultRules
<1>8. d # <<>> BY <1>6, <1>7 DEF ToSet
<1>9. <<d>> \in Seq(Seq(Rule)) /\ DOMAIN <<d>> = {1} /\ <<d>>[1] = d BY <1>5
<1>10. <<d>> \in CallSeq BY <1>8, <1>9 DEF CallSeq
<1>11. RulesIn(<<d>>) = ToSet(d) BY <1>9 DEF RulesIn
<1> QED BY <1>5, <1>6, <1>8, <1>10, <1>11 DEF d

\* restore_default_ports calls for the missing ports, in their order.
LEMMA RestoreCallsType ==
  ASSUME NEW v \in Vm
  PROVE  /\ Missing(v) \subseteq ToSet(DefaultPorts(v))
         /\ RestoreCalls(v) \in CallSeq
         /\ RulesIn(RestoreCalls(v)) = UNION {RulesOf(p, v.ip) : p \in Missing(v)}
<1> DEFINE N == Len(Defaults)
           D == DefaultPorts(v)
           M == Missing(v)
           cs == [n \in 1..N |-> IF D[n] \in M THEN CallsFor(D[n], v.ip) ELSE <<>>]
<1>1. v.ip \in Ips BY DEF Vm
<1>2. N \in Nat /\ DOMAIN D = 1..N /\ (\A n \in 1..N : D[n] \in Port)
      /\ ToSet(D) = {D[n] : n \in 1..N}
  <2>1. N \in Nat BY PortAssumption
  <2>2. D \in Seq(Port) /\ DOMAIN D = 1..N BY DefaultPortsType
  <2> HIDE DEF D, N
  <2> QED BY <2>1, <2>2 DEF ToSet
<1>3. M \subseteq ToSet(D) BY DEF Missing
<1>4. RestoreCalls(v) = FlattenSeq(cs) BY DEF RestoreCalls
<1> HIDE DEF D, M, N
<1>5. <<>> \in CallSeq /\ RulesIn(<<>>) = {} BY DEF CallSeq, RulesIn
<1>6. \A n \in 1..N : /\ CallsFor(D[n], v.ip) \in CallSeq
                      /\ RulesIn(CallsFor(D[n], v.ip)) = RulesOf(D[n], v.ip)
  BY <1>1, <1>2, CallsForType
<1>7. cs \in [1..N -> CallSeq] BY <1>5, <1>6
<1>8. cs \in Seq(CallSeq) /\ DOMAIN cs = 1..N BY <1>2, <1>7
<1>9. \A n \in 1..N : RulesIn(cs[n]) = IF D[n] \in M THEN RulesOf(D[n], v.ip) ELSE {}
  BY <1>5, <1>6
<1> HIDE DEF cs
<1>10. FlattenSeq(cs) \in CallSeq
       /\ RulesIn(FlattenSeq(cs)) = UNION {RulesIn(cs[n]) : n \in DOMAIN cs}
  BY <1>8, JoinedCalls
<1>11. UNION {RulesIn(cs[n]) : n \in DOMAIN cs} = UNION {RulesOf(p, v.ip) : p \in M}
  <2>1. \A r : r \in UNION {RulesIn(cs[n]) : n \in DOMAIN cs}
               <=> \E n \in 1..N : D[n] \in M /\ r \in RulesOf(D[n], v.ip)
    BY <1>8, <1>9
  <2>2. \A r : r \in UNION {RulesOf(p, v.ip) : p \in M}
               <=> \E n \in 1..N : D[n] \in M /\ r \in RulesOf(D[n], v.ip)
    BY <1>2, <1>3
  <2> QED BY <2>1, <2>2
<1> QED BY <1>3, <1>4, <1>10, <1>11 DEF D, M

\* delete_vm calls for every record of the VM.
LEMMA DeleteVmCallsType ==
  ASSUME NEW v \in Vm, ports \subseteq Port, IsFiniteSet(ports)
  PROVE  /\ DeleteVmCalls(v) \in CallSeq
         /\ \A p \in PortsOf(v) : RulesOf(p, v.ip) \subseteq RulesIn(DeleteVmCalls(v))
         /\ \A r \in RulesIn(DeleteVmCalls(v)) :
              \E p \in PortsOf(v) \cup ToSet(DefaultPorts(v)) : r \in RulesOf(p, v.ip)
<1> DEFINE ps == SetToSeq(PortsOf(v))
           a == CallsForAll(ps, v.ip)
           b == IF \E p \in PortsOf(v) : p.is_default THEN <<>> ELSE <<DefaultCall(v)>>
<1>1. v.ip \in Ips BY DEF Vm
<1>2. ps \in Seq(Port) /\ ToSet(ps) = PortsOf(v)
  <2>1. PortsOf(v) \in SUBSET ports BY DEF PortsOf
  <2>2. IsFiniteSet(PortsOf(v)) BY <2>1, FS_Subset
  <2>3. ps \in Seq(PortsOf(v)) /\ ToSet(ps) = PortsOf(v) BY <2>2, SetListed
  <2>4. Seq(PortsOf(v)) \subseteq Seq(Port) BY <2>1
  <2> QED BY <2>3, <2>4
<1> HIDE DEF ps
<1>3. a \in CallSeq /\ RulesIn(a) = UNION {RulesOf(p, v.ip) : p \in PortsOf(v)}
  BY <1>1, <1>2, CallsForAllType
<1>4. b \in CallSeq /\ RulesIn(b) \subseteq DefaultRules(v)
  BY DefaultCallType DEF CallSeq, RulesIn
<1>5. DeleteVmCalls(v) = a \o b BY DEF DeleteVmCalls, ps
<1> HIDE DEF a, b
<1>6. a \o b \in CallSeq /\ RulesIn(a \o b) = RulesIn(a) \cup RulesIn(b)
  <2> DEFINE S == {call \in Seq(Rule) : call # <<>>}
  <2>1. \A s : RulesIn(s) = UNION {ToSet(call) : call \in ToSet(s)} BY DEF RulesIn, ToSet
  <2>2. ASSUME NEW c \in CallSeq PROVE c \in Seq(S)
    <3>1. Len(c) \in Nat /\ DOMAIN c = 1..Len(c) /\ \A i \in 1..Len(c) : c[i] \in S
      BY DEF CallSeq
    <3>2. c \in [1..Len(c) -> S] BY <3>1 DEF CallSeq
    <3> QED BY <3>1, <3>2
  <2>3. a \in Seq(S) /\ b \in Seq(S) BY <1>3, <1>4, <2>2
  <2>4. ToSet(a \o b) = ToSet(a) \cup ToSet(b) BY <2>3, ConcatSet
  <2>5. a \in Seq(Seq(Rule)) /\ b \in Seq(Seq(Rule)) BY <1>3, <1>4 DEF CallSeq
  <2>6. a \o b \in Seq(Seq(Rule)) BY <2>5
  <2>7. a \o b \in Seq(S) BY <2>3
  <2>8. a \o b \in CallSeq
    <3> DEFINE c == a \o b
    <3> HIDE DEF c
    <3>1. c \in Seq(Seq(Rule)) /\ c \in Seq(S) BY <2>6, <2>7 DEF c
    <3>2. DOMAIN c = 1..Len(c) /\ \A i \in 1..Len(c) : c[i] \in S BY <3>1
    <3>3. c \in CallSeq BY <3>1, <3>2 DEF CallSeq
    <3> QED BY <3>3 DEF c
  <2> QED BY <2>1, <2>4, <2>8
<1> QED BY <1>3, <1>4, <1>5, <1>6 DEF DefaultRules

-----------------------------------------------------------------------------
(* The two actors' records, and what a command does to them.                *)

Phases == {"idle", "check", "add", "rollback", "remove", "end"}
Founds == UNION {[S -> Nat] : S \in SUBSET Rule}
ActRec == [op: {"idle"} \cup Adding \cup Deleting, vm: Vm \cup {NoVm},
           ports: SUBSET Port, calls: CallSeq, phase: Phases,
           todo: Seq(Rule), pending: Seq(Rule), attempted: Seq(Rule),
           ok: BOOLEAN, before: Founds]

\* Which of an actor's lists are in use in which phase.
ActOk(c) ==
  /\ c \in ActRec
  /\ c.op = "idle" <=> c.phase = "idle"
  /\ c.op = "idle" => c = Idle
  /\ c.op # "idle" => c.vm \in Vm
  /\ c.phase \in {"check", "add", "rollback"} => c.op \in Adding
  /\ c.phase = "remove" => c.op \in Deleting
  /\ c.phase \in {"check", "remove"} <=> c.todo # <<>>
  /\ c.phase = "add" => c.pending # <<>>
  /\ c.phase = "rollback" => c.attempted # <<>>
  /\ c.phase \in {"check", "remove", "end"} => c.attempted = <<>>
  /\ c.phase \in {"remove", "end"} => c.pending = <<>>
  /\ c.phase = "end" => c.calls = <<>>

SameOp(c, d) == d.op = c.op /\ d.vm = c.vm /\ d.ports = c.ports

\* d follows c when a call has returned res: the next call begins, or the
\* operation is at its end.
Opens(c, d, res, found) ==
  /\ ActOk(d) /\ SameOp(c, d)
  /\ d.pending = <<>> /\ d.attempted = <<>>
  /\ c.calls = <<>> =>
       d.phase = "end" /\ d.ok = res /\ d.calls = <<>> /\ d.todo = <<>>
  /\ c.calls # <<>> =>
       /\ d.phase = IF c.op \in Adding THEN "check" ELSE "remove"
       /\ d.todo = Head(c.calls) /\ d.calls = Tail(c.calls) /\ d.ok = TRUE
       /\ d.before = [r \in ToSet(Head(c.calls)) |-> Copies(r, found)]

LEMMA CallParts ==
  ASSUME NEW calls \in CallSeq, calls # <<>>
  PROVE  /\ Head(calls) \in Seq(Rule) /\ Head(calls) # <<>>
         /\ Tail(calls) \in CallSeq
         /\ RulesIn(calls) = ToSet(Head(calls)) \cup RulesIn(Tail(calls))
<1>1. calls \in Seq(Seq(Rule)) BY DEF CallSeq
<1>2. Head(calls) \in Seq(Rule) /\ Tail(calls) \in Seq(Seq(Rule))
      /\ ToSet(calls) = {Head(calls)} \cup ToSet(Tail(calls))
  BY <1>1, SeqParts
<1>3. \A s : RulesIn(s) = UNION {ToSet(call) : call \in ToSet(s)} BY DEF RulesIn, ToSet
<1>4. \A s \in Seq(Seq(Rule)) : s \in CallSeq <=> \A call \in ToSet(s) : call # <<>>
  BY DEF CallSeq, ToSet
<1>5. Head(calls) # <<>> /\ Tail(calls) \in CallSeq BY <1>1, <1>2, <1>4
<1> QED BY <1>2, <1>3, <1>5

LEMMA OpenedIs ==
  ASSUME NEW c \in ActRec, c.op \in Adding \cup Deleting, c.vm \in Vm,
         c.todo = <<>>, c.pending = <<>>, c.attempted = <<>>,
         NEW found, IsABag(found)
  PROVE  Opens(c, Opened(c, found), c.ok, found)
<1> DEFINE d == Opened(c, found)
<1>0. c.op # "idle" BY DEF Adding, Deleting
<1>1. CASE c.calls = <<>>
  <2>1. d = [c EXCEPT !.phase = "end", !.before = EmptyBag] BY <1>1 DEF Opened
  <2>2. EmptyBag \in Founds
    <3>1. EmptyBag \in [{} -> Nat] BY DEF EmptyBag, SetToBag
    <3> QED BY <3>1 DEF Founds
  <2>3. "end" \in Phases BY DEF Phases
  <2>4. d \in ActRec BY <2>1, <2>2, <2>3 DEF ActRec
  <2>5. d.op = c.op /\ d.vm = c.vm /\ d.ports = c.ports /\ d.calls = c.calls /\ d.phase = "end"
        /\ d.todo = c.todo /\ d.pending = c.pending /\ d.attempted = c.attempted /\ d.ok = c.ok
    BY <2>1 DEF ActRec
  <2> HIDE DEF d
  <2>6. ActOk(d) BY <1>0, <1>1, <2>4, <2>5 DEF ActOk
  <2>7. Opens(c, d, c.ok, found) BY <1>1, <2>5, <2>6 DEF Opens, SameOp
  <2> QED BY <2>7 DEF d
<1>2. CASE c.calls # <<>>
  <2> DEFINE ph == IF c.op \in Adding THEN "check" ELSE "remove"
             b == [r \in ToSet(Head(c.calls)) |-> Copies(r, found)]
  <2>1. d = [c EXCEPT !.phase = ph, !.todo = Head(c.calls), !.calls = Tail(c.calls),
                      !.ok = TRUE, !.before = b]
    BY <1>2 DEF Opened
  <2>2. c.calls \in CallSeq BY DEF ActRec
  <2>3. Head(c.calls) \in Seq(Rule) /\ Head(c.calls) # <<>> /\ Tail(c.calls) \in CallSeq
    BY <1>2, <2>2, CallParts
  <2>4. b \in Founds
    <3>1. ToSet(Head(c.calls)) \in SUBSET Rule BY <2>3 DEF ToSet
    <3>2. \A r : Copies(r, found) \in Nat BY CopiesCount
    <3>3. b \in [ToSet(Head(c.calls)) -> Nat] BY <3>2
    <3> HIDE DEF b
    <3> QED BY <3>1, <3>3 DEF Founds
  <2>5. ph \in Phases BY DEF Phases
  <2> HIDE DEF ph, b
  <2>6. d \in ActRec BY <2>1, <2>3, <2>4, <2>5 DEF ActRec
  <2>7. d.op = c.op /\ d.vm = c.vm /\ d.ports = c.ports /\ d.calls = Tail(c.calls)
        /\ d.phase = ph /\ d.todo = Head(c.calls) /\ d.pending = c.pending
        /\ d.attempted = c.attempted /\ d.ok = TRUE /\ d.before = b
    BY <2>1 DEF ActRec
  <2> HIDE DEF d
  <2>8. ActOk(d) BY <1>0, <2>3, <2>6, <2>7 DEF ActOk, ph, Adding, Deleting
  <2>9. Opens(c, d, c.ok, found) BY <1>2, <2>7, <2>8 DEF Opens, SameOp, ph, b
  <2> QED BY <2>9 DEF d
<1> QED BY <1>1, <1>2

LEMMA ReturnedIs ==
  ASSUME NEW c, ActOk(c), c.op # "idle", NEW res \in BOOLEAN, NEW found, IsABag(found)
  PROVE  Opens(c, Returned(c, res, found), res, found)
<1> DEFINE e == [c EXCEPT !.ok = res, !.todo = <<>>, !.pending = <<>>, !.attempted = <<>>]
<1>1. c \in ActRec /\ c.op \in Adding \cup Deleting /\ c.vm \in Vm BY DEF ActOk, ActRec
<1>2. <<>> \in Seq(Rule) OBVIOUS
<1>3. e \in ActRec BY <1>1, <1>2 DEF ActRec
<1>4. e.op = c.op /\ e.vm = c.vm /\ e.ports = c.ports /\ e.calls = c.calls /\ e.ok = res
      /\ e.todo = <<>> /\ e.pending = <<>> /\ e.attempted = <<>>
  BY <1>1 DEF ActRec
<1>5. Returned(c, res, found) = Opened(e, found) BY DEF Returned
<1> HIDE DEF e
<1>6. Opens(e, Opened(e, found), e.ok, found) BY <1>1, <1>3, <1>4, OpenedIs
<1> DEFINE d == Opened(e, found)
<1> HIDE DEF d
<1>7. Opens(e, d, res, found) BY <1>4, <1>6 DEF d
<1>8. Opens(c, d, res, found) BY <1>4, <1>7 DEF Opens, SameOp
<1> QED BY <1>5, <1>8 DEF d

LEMMA IdleIs ==
  /\ ActOk(Idle) /\ Idle.op = "idle" /\ Idle.phase = "idle" /\ Idle.ports = {}
  /\ Idle.todo = <<>> /\ Idle.pending = <<>> /\ Idle.attempted = <<>>
  /\ Idle.calls = <<>> /\ Idle.vm = NoVm
<1>1. EmptyBag \in Founds
  <2>1. EmptyBag \in [{} -> Nat] BY DEF EmptyBag, SetToBag
  <2> QED BY <2>1 DEF Founds
<1>2. <<>> \in Seq(Rule) /\ <<>> \in CallSeq /\ "idle" \in Phases BY DEF CallSeq, Phases
<1>3. Idle \in ActRec BY <1>1, <1>2 DEF Idle, ActRec
<1>4. /\ Idle.op = "idle" /\ Idle.phase = "idle" /\ Idle.ports = {}
      /\ Idle.todo = <<>> /\ Idle.pending = <<>> /\ Idle.attempted = <<>>
      /\ Idle.calls = <<>> /\ Idle.vm = NoVm
  BY DEF Idle
<1>5. ActOk(Idle) BY <1>3, <1>4 DEF ActOk, Adding, Deleting
<1> QED BY <1>4, <1>5

\* An operation begins: d works on the first of its calls.
Begun(d, op, v, ps, calls) ==
  /\ ActOk(d) /\ d.op = op /\ d.vm = v /\ d.ports = ps
  /\ d.pending = <<>> /\ d.attempted = <<>>
  /\ calls = <<>> =>
       d.phase = "end" /\ d.ok = TRUE /\ d.calls = <<>> /\ d.todo = <<>>
  /\ calls # <<>> =>
       /\ d.phase = IF op \in Adding THEN "check" ELSE "remove"
       /\ d.todo = Head(calls) /\ d.calls = Tail(calls) /\ d.ok = TRUE
       /\ d.before = [r \in ToSet(Head(calls)) |-> Copies(r, rules)]

LEMMA BeginIs ==
  ASSUME NEW op \in Adding \cup Deleting, NEW v \in Vm, NEW ps \in SUBSET Port,
         NEW calls \in CallSeq, IsABag(rules)
  PROVE  Begun(Begin(op, v, ps, calls), op, v, ps, calls)
<1> DEFINE e == [Idle EXCEPT !.op = op, !.vm = v, !.ports = ps, !.calls = calls]
           d == Begin(op, v, ps, calls)
<1>1. Idle \in ActRec /\ Idle.todo = <<>> /\ Idle.pending = <<>> /\ Idle.attempted = <<>>
      /\ Idle.ok = TRUE
  BY IdleIs DEF ActOk, Idle
<1>2. e \in ActRec BY <1>1 DEF ActRec
<1>3. e.op = op /\ e.vm = v /\ e.ports = ps /\ e.calls = calls /\ e.ok = TRUE
      /\ e.todo = <<>> /\ e.pending = <<>> /\ e.attempted = <<>>
  BY <1>1 DEF ActRec
<1> HIDE DEF e
<1>4. d = Opened(e, rules) BY DEF Begin, e
<1>5. Opens(e, Opened(e, rules), e.ok, rules) BY <1>2, <1>3, OpenedIs
<1> HIDE DEF d
<1>6. Opens(e, d, TRUE, rules) BY <1>3, <1>4, <1>5
<1>7. Begun(d, op, v, ps, calls) BY <1>3, <1>6 DEF Opens, SameOp, Begun
<1> QED BY <1>7 DEF d

\* The inductive form of TypeOK: the rows are finitely many, and each actor
\* has its own operations.
WorkerOps == {"idle", "create", "undo"}
LoopOps   == {"idle", "add", "restore", "delete", "delete_vm"}
OpsOf(a)  == IF a = "worker" THEN WorkerOps ELSE LoopOps

RestoresDefaults(c) == c.op = "restore" => c.ports \subseteq ToSet(DefaultPorts(c.vm))

TypeInv ==
  /\ vms \subseteq Vm /\ IsFiniteSet(vms)
  /\ ports \subseteq Port /\ IsFiniteSet(ports)
  /\ \A p \in ports : p.external \in CustomExts \/ p.is_default
  /\ IsABag(rules) /\ DOMAIN rules \subseteq Rule
  /\ act \in [Actors -> ActRec]
  /\ \A a \in Actors : ActOk(act[a]) /\ act[a].op \in OpsOf(a) /\ RestoresDefaults(act[a])

\* A rule was inspected: it waits to be added if it was absent, and the
\* other lists stay.
CheckedOne(c, d) ==
  /\ ActOk(d) /\ SameOp(c, d)
  /\ d.calls = c.calls /\ d.before = c.before /\ d.attempted = <<>>
  /\ d.todo = Tail(c.todo)
  /\ d.pending = IF BagIn(Head(c.todo), rules) THEN c.pending
                 ELSE Append(c.pending, Head(c.todo))
  /\ d.phase = IF Tail(c.todo) = <<>> THEN "add" ELSE "check"

LEMMA CheckRuleIs ==
  ASSUME TypeInv, NEW a \in Actors, CheckRule(a)
  PROVE  /\ UNCHANGED <<vms, ports, rules>>
         /\ act' = [act EXCEPT ![a] = act'[a]]
         /\ act[a].phase = "check" /\ act[a].todo # <<>> /\ act[a].op \in Adding
         /\ \/ CheckedOne(act[a], act'[a])
            \/ /\ Opens(act[a], act'[a], TRUE, rules)
               /\ Tail(act[a].todo) = <<>> /\ act[a].pending = <<>>
               /\ BagIn(Head(act[a].todo), rules)
            \/ Opens(act[a], act'[a], FALSE, rules)
<1> DEFINE c == act[a]
           d == act'[a]
           r == Head(c.todo)
           pend == IF IsPending(r) THEN Append(c.pending, r) ELSE c.pending
           rest == [c EXCEPT !.todo = Tail(c.todo), !.pending = pend]
<1>1. ActOk(c) /\ c.phase = "check" /\ IsABag(rules) BY DEF TypeInv, CheckRule
<1>2. c \in ActRec /\ c.todo # <<>> /\ c.op \in Adding /\ c.op # "idle" /\ c.vm \in Vm
      /\ c.attempted = <<>>
  BY <1>1 DEF ActOk
<1>3. d = Checked(c) \/ d = Returned(c, FALSE, rules)
  BY DEF CheckRule, SetAct, TypeInv
<1>4. act' = [act EXCEPT ![a] = d] /\ UNCHANGED <<vms, ports, rules>>
  BY DEF CheckRule, SetAct, TypeInv
<1>5. c.todo \in Seq(Rule) /\ c.pending \in Seq(Rule) BY <1>2 DEF ActRec
<1>6. r \in Rule /\ Tail(c.todo) \in Seq(Rule) BY <1>2, <1>5, SeqParts
<1>7. pend \in Seq(Rule) BY <1>5, <1>6
<1>7a. pend = <<>> => c.pending = <<>> /\ ~IsPending(r) BY <1>5, <1>6
<1>7b. pend = IF BagIn(r, rules) THEN c.pending ELSE Append(c.pending, r) BY DEF IsPending
<1> HIDE DEF r, pend, d, c
<1>8. /\ rest \in ActRec /\ SameOp(c, rest)
      /\ rest.calls = c.calls /\ rest.before = c.before /\ rest.attempted = <<>>
      /\ rest.todo = Tail(c.todo) /\ rest.pending = pend /\ rest.phase = "check"
  BY <1>1, <1>2, <1>6, <1>7 DEF ActRec, SameOp
<1>9. Checked(c) = IF Tail(c.todo) # <<>> THEN rest
                   ELSE IF pend = <<>> THEN Returned(c, TRUE, rules)
                   ELSE [rest EXCEPT !.phase = "add"]
  BY DEF Checked, r, pend
<1>10. CASE d = Returned(c, FALSE, rules)
  <2>1. Opens(c, d, FALSE, rules) BY <1>1, <1>2, <1>10, ReturnedIs
  <2> QED BY <2>1, <1>2, <1>4, <1>1 DEF c, d
<1>11. CASE d = Checked(c) /\ Tail(c.todo) # <<>>
  <2>1. d = rest BY <1>9, <1>11
  <2> HIDE DEF rest
  <2>2. ActOk(d) BY <1>1, <1>2, <1>8, <1>11, <2>1 DEF ActOk, SameOp
  <2>3. CheckedOne(c, d) BY <1>7b, <1>8, <1>11, <2>1, <2>2 DEF CheckedOne, r
  <2> QED BY <2>3, <1>1, <1>2, <1>4 DEF c, d
<1>12. CASE d = Checked(c) /\ Tail(c.todo) = <<>> /\ pend = <<>>
  <2>1. d = Returned(c, TRUE, rules) BY <1>9, <1>12
  <2>2. Opens(c, d, TRUE, rules) BY <1>1, <1>2, <2>1, ReturnedIs
  <2>3. c.pending = <<>> /\ BagIn(r, rules) BY <1>12, <1>7a DEF IsPending
  <2> QED BY <2>2, <2>3, <1>12, <1>1, <1>2, <1>4 DEF c, d, r
<1>13. CASE d = Checked(c) /\ Tail(c.todo) = <<>> /\ pend # <<>>
  <2> DEFINE e == [rest EXCEPT !.phase = "add"]
  <2>1. d = e BY <1>9, <1>13
  <2> HIDE DEF rest
  <2>2. "add" \in Phases BY DEF Phases
  <2>3. /\ e \in ActRec /\ e.op = rest.op /\ e.vm = rest.vm /\ e.ports = rest.ports
        /\ e.calls = rest.calls /\ e.before = rest.before
        /\ e.attempted = rest.attempted /\ e.todo = rest.todo /\ e.pending = rest.pending
        /\ e.phase = "add"
    BY <1>8, <2>2 DEF ActRec
  <2> HIDE DEF e
  <2>4. SameOp(c, d) BY <1>8, <2>1, <2>3 DEF SameOp
  <2>5. ActOk(d) BY <1>1, <1>2, <1>8, <1>13, <2>1, <2>3, <2>4 DEF ActOk, SameOp
  <2>6. CheckedOne(c, d) BY <1>7b, <1>8, <1>13, <2>1, <2>3, <2>4, <2>5 DEF CheckedOne, r
  <2> QED BY <2>6, <1>1, <1>2, <1>4 DEF c, d
<1> QED BY <1>3, <1>10, <1>11, <1>12, <1>13

\* A -A was tried: the rule is enlisted for the rollback.  It was added, or
\* the call fails with the rule added or not.
TriedOne(c, d) ==
  /\ ActOk(d) /\ SameOp(c, d)
  /\ d.calls = c.calls /\ d.before = c.before
  /\ d.pending = Tail(c.pending) /\ d.todo = c.todo
  /\ d.attempted = Append(c.attempted, Head(c.pending))

LEMMA AddRuleIs ==
  ASSUME TypeInv, NEW a \in Actors, AddRule(a)
  PROVE  /\ UNCHANGED <<vms, ports>>
         /\ act' = [act EXCEPT ![a] = act'[a]]
         /\ act[a].phase = "add" /\ act[a].op \in Adding /\ act[a].todo = <<>>
         /\ act[a].pending # <<>> /\ Head(act[a].pending) \in Rule
         /\ rules' = rules \/ rules' = rules (+) SetToBag({Head(act[a].pending)})
         /\ \/ /\ TriedOne(act[a], act'[a])
               /\ act'[a].phase = "add"
               /\ rules' = rules (+) SetToBag({Head(act[a].pending)})
            \/ TriedOne(act[a], act'[a]) /\ act'[a].phase = "rollback"
            \/ /\ Opens(act[a], act'[a], TRUE, rules')
               /\ Tail(act[a].pending) = <<>>
               /\ rules' = rules (+) SetToBag({Head(act[a].pending)})
<1> DEFINE c == act[a]
           d == act'[a]
           r == Head(c.pending)
           tried == [c EXCEPT !.pending = Tail(@), !.attempted = Append(@, r)]
           added == rules (+) SetToBag({r})
<1>1. ActOk(c) /\ c.phase = "add" /\ IsABag(rules) BY DEF TypeInv, AddRule
<1>2. c \in ActRec /\ c.todo = <<>> /\ c.op \in Adding /\ c.op # "idle" /\ c.vm \in Vm
      /\ c.pending # <<>>
  BY <1>1 DEF ActOk
<1>3. \/ /\ rules' = added
         /\ d = IF tried.pending = <<>> THEN Returned(c, TRUE, added) ELSE tried
      \/ /\ rules' = rules \/ rules' = added
         /\ d = [tried EXCEPT !.phase = "rollback"]
  BY DEF AddRule, SetAct, TypeInv
<1>4. act' = [act EXCEPT ![a] = d] /\ UNCHANGED <<vms, ports>>
  BY DEF AddRule, SetAct, TypeInv
<1>5. c.pending \in Seq(Rule) /\ c.attempted \in Seq(Rule) BY <1>2 DEF ActRec
<1>6. r \in Rule /\ Tail(c.pending) \in Seq(Rule) BY <1>2, <1>5, SeqParts
<1>7. Append(c.attempted, r) \in Seq(Rule) /\ Append(c.attempted, r) # <<>> BY <1>5, <1>6
<1>8. IsABag(added) BY <1>1, BagAdd
<1> HIDE DEF r, added, c, d
<1>9. /\ tried \in ActRec /\ SameOp(c, tried)
      /\ tried.calls = c.calls /\ tried.before = c.before /\ tried.todo = c.todo
      /\ tried.pending = Tail(c.pending) /\ tried.attempted = Append(c.attempted, r)
      /\ tried.phase = c.phase
  BY <1>2, <1>6, <1>7 DEF ActRec, SameOp
<1> HIDE DEF tried
<1>10. CASE rules' = added /\ d = tried /\ tried.pending # <<>>
  <2>1. ActOk(d) BY <1>1, <1>2, <1>9, <1>10 DEF ActOk, SameOp
  <2>2. TriedOne(c, d) /\ d.phase = "add" BY <1>1, <1>9, <1>10, <2>1 DEF TriedOne, r
  <2> QED BY <2>2, <1>1, <1>2, <1>4, <1>6, <1>10 DEF c, d, r, added
<1>11. CASE rules' = added /\ d = Returned(c, TRUE, added) /\ tried.pending = <<>>
  <2>1. Opens(c, d, TRUE, added) BY <1>1, <1>2, <1>8, <1>11, ReturnedIs
  <2> QED BY <2>1, <1>1, <1>2, <1>4, <1>6, <1>9, <1>11 DEF c, d, r, added
<1>12. CASE (rules' = rules \/ rules' = added) /\ d = [tried EXCEPT !.phase = "rollback"]
  <2> DEFINE e == [tried EXCEPT !.phase = "rollback"]
  <2>1. "rollback" \in Phases BY DEF Phases
  <2>2. /\ e \in ActRec /\ e.op = tried.op /\ e.vm = tried.vm /\ e.ports = tried.ports
        /\ e.calls = tried.calls /\ e.before = tried.before
        /\ e.attempted = tried.attempted /\ e.todo = tried.todo /\ e.pending = tried.pending
        /\ e.phase = "rollback"
    BY <1>9, <2>1 DEF ActRec
  <2>3. d = e BY <1>12
  <2> HIDE DEF e
  <2>4. SameOp(c, d) BY <1>9, <2>2, <2>3 DEF SameOp
  <2>5. ActOk(d) BY <1>1, <1>2, <1>7, <1>9, <2>2, <2>3, <2>4 DEF ActOk, SameOp
  <2>6. TriedOne(c, d) /\ d.phase = "rollback"
    BY <1>9, <2>2, <2>3, <2>4, <2>5 DEF TriedOne, r
  <2> QED BY <2>6, <1>1, <1>2, <1>4, <1>6, <1>12 DEF c, d, r, added
<1> QED BY <1>3, <1>10, <1>11, <1>12

\* One command of the rollback, for the rule attempted last.
LEMMA RollbackRuleIs ==
  ASSUME TypeInv, NEW a \in Actors, RollbackRule(a)
  PROVE  /\ UNCHANGED <<vms, ports>>
         /\ act' = [act EXCEPT ![a] = act'[a]]
         /\ act[a].phase = "rollback" /\ act[a].op \in Adding /\ act[a].todo = <<>>
         /\ act[a].attempted # <<>>
         /\ \/ rules' = rules (-) SetToBag({Last(act[a].attempted)})
            \/ Fault("rollback") /\ rules' = rules
         /\ \/ /\ ActOk(act'[a]) /\ SameOp(act[a], act'[a])
               /\ act'[a].calls = act[a].calls /\ act'[a].before = act[a].before
               /\ act'[a].pending = act[a].pending /\ act'[a].todo = <<>>
               /\ act'[a].phase = "rollback"
               /\ act'[a].attempted = Front(act[a].attempted)
            \/ /\ Opens(act[a], act'[a], FALSE, rules')
               /\ Front(act[a].attempted) = <<>>
<1> DEFINE c == act[a]
           d == act'[a]
           left == Front(c.attempted)
           e == [c EXCEPT !.attempted = left]
<1>1. ActOk(c) /\ c.phase = "rollback" /\ IsABag(rules) BY DEF TypeInv, RollbackRule
<1>2. c \in ActRec /\ c.todo = <<>> /\ c.op \in Adding /\ c.op # "idle" /\ c.vm \in Vm
      /\ c.attempted # <<>>
  BY <1>1 DEF ActOk
<1>3. /\ \/ rules' = rules (-) SetToBag({Last(c.attempted)})
         \/ Fault("rollback") /\ rules' = rules
      /\ d = IF left = <<>> THEN Returned(c, FALSE, rules') ELSE e
  BY DEF RollbackRule, SetAct, TypeInv
<1>4. act' = [act EXCEPT ![a] = d] /\ UNCHANGED <<vms, ports>>
  BY DEF RollbackRule, SetAct, TypeInv
<1>5. IsABag(rules')
  <2>1. IsABag(rules (-) SetToBag({Last(c.attempted)})) BY <1>1, BagTake
  <2> QED BY <1>1, <1>3, <2>1
<1>6. left \in Seq(Rule)
  <2>1. c.attempted \in Seq(Rule) BY <1>2 DEF ActRec
  <2> QED BY <2>1, <1>2, SeqParts
<1> HIDE DEF left, c, d
<1>7. CASE left = <<>>
  <2>1. Opens(c, d, FALSE, rules') BY <1>1, <1>2, <1>3, <1>5, <1>7, ReturnedIs
  <2> QED BY <2>1, <1>1, <1>2, <1>3, <1>4, <1>7 DEF c, d, left
<1>8. CASE left # <<>>
  <2>1. /\ e \in ActRec /\ SameOp(c, e) /\ e.calls = c.calls /\ e.before = c.before
        /\ e.todo = c.todo /\ e.pending = c.pending /\ e.phase = c.phase
        /\ e.attempted = left
    BY <1>2, <1>6 DEF ActRec, SameOp
  <2>2. d = e BY <1>3, <1>8
  <2> HIDE DEF e
  <2>3. ActOk(d) BY <1>1, <1>2, <1>8, <2>1, <2>2 DEF ActOk, SameOp
  <2> QED BY <2>1, <2>2, <2>3, <1>1, <1>2, <1>3, <1>4 DEF c, d, left
<1> QED BY <1>7, <1>8

\* The loop of DELETE over the rules of a call.
LEMMA RemoveCopiesIs ==
  ASSUME TypeInv, NEW a \in Actors, RemoveCopies(a)
  PROVE  /\ UNCHANGED <<vms, ports>>
         /\ act' = [act EXCEPT ![a] = act'[a]]
         /\ act[a].phase = "remove" /\ act[a].op \in Deleting
         /\ act[a].todo # <<>> /\ Head(act[a].todo) \in Rule
         /\ \/ rules' = [r \in DOMAIN rules \ {Head(act[a].todo)} |-> rules[r]]
            \/ Fault("remove") /\ rules' = rules
         /\ \/ /\ ActOk(act'[a]) /\ SameOp(act[a], act'[a])
               /\ act'[a].calls = act[a].calls /\ act'[a].phase = "remove"
               /\ act'[a].todo = Tail(act[a].todo)
               /\ act'[a].pending = <<>> /\ act'[a].attempted = <<>>
            \/ /\ \E res \in BOOLEAN : Opens(act[a], act'[a], res, rules')
               /\ Tail(act[a].todo) = <<>> \/ Fault("remove")
<1> DEFINE c == act[a]
           d == act'[a]
           t == Tail(c.todo)
           e(ok) == [c EXCEPT !.todo = t, !.ok = ok]
<1>1. ActOk(c) /\ c.phase = "remove" /\ IsABag(rules) BY DEF TypeInv, RemoveCopies
<1>2. c \in ActRec /\ c.todo # <<>> /\ c.op \in Deleting /\ c.op # "idle" /\ c.vm \in Vm
      /\ c.attempted = <<>> /\ c.pending = <<>>
  BY <1>1 DEF ActOk
<1>3. c.ok \in BOOLEAN /\ c.todo \in Seq(Rule) BY <1>2 DEF ActRec
<1>4. Head(c.todo) \in Rule /\ t \in Seq(Rule) BY <1>2, <1>3, SeqParts
<1>5. /\ \/ rules' = [r \in DOMAIN rules \ {Head(c.todo)} |-> rules[r]]
         \/ Fault("remove") /\ rules' = rules
      /\ \E ok \in BOOLEAN :
           \/ d = IF t = <<>> THEN Returned(c, ok, rules') ELSE e(ok)
           \/ Fault("remove") /\ d = Returned(c, ok, rules')
  <2>1. \/ /\ rules' = [r \in DOMAIN rules \ {Head(c.todo)} |-> rules[r]]
           /\ d = IF t = <<>> THEN Returned(c, c.ok, rules') ELSE e(c.ok)
        \/ /\ Fault("remove") /\ rules' = rules
           /\ \/ d = IF t = <<>> THEN Returned(c, FALSE, rules') ELSE e(FALSE)
              \/ d = Returned(c, FALSE, rules')
    BY DEF RemoveCopies, SetAct, TypeInv
  <2> HIDE DEF e, t, d
  <2> QED BY <2>1, <1>3
<1>6. act' = [act EXCEPT ![a] = d] /\ UNCHANGED <<vms, ports>>
  BY DEF RemoveCopies, SetAct, TypeInv
<1>7. IsABag(rules')
  <2>1. IsABag([r \in DOMAIN rules \ {Head(c.todo)} |-> rules[r]]) BY <1>1, BagDrop
  <2> QED BY <1>1, <1>5, <2>1
<1> HIDE DEF t, c, d
<1>8. PICK ok \in BOOLEAN :
         \/ d = IF t = <<>> THEN Returned(c, ok, rules') ELSE e(ok)
         \/ Fault("remove") /\ d = Returned(c, ok, rules')
  BY <1>5
<1>9. CASE d = Returned(c, ok, rules') /\ (t = <<>> \/ Fault("remove"))
  <2>1. Opens(c, d, ok, rules') BY <1>1, <1>2, <1>7, <1>9, ReturnedIs
  <2> QED BY <2>1, <1>1, <1>2, <1>4, <1>5, <1>6, <1>9 DEF c, d, t
<1>10. CASE d = e(ok) /\ t # <<>>
  <2> DEFINE f == e(ok)
  <2>1. /\ f \in ActRec /\ SameOp(c, f) /\ f.calls = c.calls
        /\ f.todo = t /\ f.pending = c.pending /\ f.phase = c.phase
        /\ f.attempted = c.attempted
    BY <1>2, <1>4 DEF ActRec, SameOp
  <2>2. d = f BY <1>10
  <2> HIDE DEF f
  <2>3. ActOk(d) BY <1>1, <1>2, <1>10, <2>1, <2>2 DEF ActOk, SameOp
  <2> QED BY <2>1, <2>2, <2>3, <1>1, <1>2, <1>4, <1>5, <1>6 DEF c, d, t
<1> QED BY <1>8, <1>9, <1>10

-----------------------------------------------------------------------------
(* Type correctness.                                                        *)

\* Among Cardinality(vms) + 3 numbers one is the id of nobody: the rows and
\* the two actors use at most Cardinality(vms) + 2.
LEMMA NewIdIsFresh ==
  ASSUME IsFiniteSet(vms)
  PROVE  NewId \in Nat /\ NewId >= 1 /\ Fresh(NewId)
<1> DEFINE N == Cardinality(vms)
           ids == {v.id : v \in vms}
           w == act["worker"].vm.id
           l == act["loop"].vm.id
           used == (ids \cup {w}) \cup {l}
<1>1. N \in Nat BY FS_CardinalityType
<1>2. IsFiniteSet(ids) /\ Cardinality(ids) <= N
  <2> DEFINE f == [v \in vms |-> v.id]
  <2>1. f \in Surjection(vms, ids) BY DEF Surjection
  <2> QED BY <2>1, FS_Surjection
<1>3. Cardinality(ids) \in Nat BY <1>2, FS_CardinalityType
<1> HIDE DEF ids, N
<1>4. IsFiniteSet(ids \cup {w}) /\ Cardinality(ids \cup {w}) <= N + 1
  <2>1. Cardinality(ids \cup {w}) = IF w \in ids THEN Cardinality(ids) ELSE Cardinality(ids) + 1
    BY <1>2, FS_AddElement
  <2> QED BY <1>1, <1>2, <1>3, <2>1, FS_AddElement
<1>5. Cardinality(ids \cup {w}) \in Nat BY <1>4, FS_CardinalityType
<1>6. IsFiniteSet(used) /\ Cardinality(used) <= N + 2
  <2> DEFINE u == ids \cup {w}
  <2> HIDE DEF u, w, l
  <2>1. IsFiniteSet(u \cup {l})
        /\ Cardinality(u \cup {l}) = IF l \in u THEN Cardinality(u) ELSE Cardinality(u) + 1
    BY <1>4, FS_AddElement DEF u
  <2>2. Cardinality(u) \in Nat /\ Cardinality(u) <= N + 1 BY <1>4, <1>5 DEF u
  <2>3. Cardinality(u \cup {l}) <= N + 2 BY <1>1, <2>1, <2>2
  <2> QED BY <2>1, <2>3 DEF u
<1>7. Cardinality(used) \in Nat BY <1>6, FS_CardinalityType
<1> HIDE DEF used
<1>8. ~(1..(N + 3) \subseteq used)
  <2>1. Cardinality(1..(N + 3)) = N + 3 BY <1>1, FS_Interval
  <2> SUFFICES ASSUME 1..(N + 3) \in SUBSET used PROVE FALSE OBVIOUS
  <2>2. Cardinality(1..(N + 3)) <= Cardinality(used) BY <1>6, FS_Subset
  <2> QED BY <1>1, <1>6, <1>7, <2>1, <2>2
<1>9. \E n \in 1..(N + 3) : Fresh(n)
  <2>1. PICK n \in 1..(N + 3) : n \notin used BY <1>8
  <2>2. Fresh(n) BY <2>1 DEF Fresh, used, ids, w, l, Actors
  <2> QED BY <2>2
<1>10. NewId \in 1..(N + 3) /\ Fresh(NewId) BY <1>9 DEF NewId, N
<1> QED BY <1>1, <1>10

\* The row ReserveVm inserts.
NewVm(vmid, ip) == [id |-> NewId, vmid |-> vmid, ip |-> ip, ready |-> FALSE]

LEMMA ReserveVmIs ==
  ASSUME TypeInv, NEW vmid \in Vmids, NEW ip \in Ips, ReserveVm(vmid, ip)
  PROVE  LET v == NewVm(vmid, ip) IN
         /\ v \in Vm /\ v.id = NewId /\ v.vmid = vmid /\ v.ip = ip /\ ~v.ready
         /\ Fresh(v.id)
         /\ act["worker"] = Idle
         /\ \A x \in vms : x.vmid # vmid /\ x.ip # ip
         /\ \A p \in ToSet(DefaultPorts(v)) : p.external \notin Externals
         /\ vms' = vms \cup {v} /\ ports' = ports \cup ToSet(DefaultPorts(v))
         /\ rules' = rules
         /\ act' = [act EXCEPT !["worker"] = act'["worker"]]
         /\ ActOk(act'["worker"]) /\ act'["worker"].op = "create"
         /\ act'["worker"].vm = v /\ act'["worker"].ports = {}
         /\ act'["worker"].phase = "check" /\ act'["worker"].todo = DefaultCall(v)
         /\ act'["worker"].calls = <<>> /\ act'["worker"].pending = <<>>
         /\ act'["worker"].attempted = <<>>
         /\ act'["worker"].before = [r \in ToSet(DefaultCall(v)) |-> Copies(r, rules)]
<1> DEFINE v == NewVm(vmid, ip)
<1>1. NewId \in Nat /\ Fresh(NewId) BY NewIdIsFresh DEF TypeInv
<1>2. v \in Vm /\ v.id = NewId /\ v.vmid = vmid /\ v.ip = ip /\ v.ready = FALSE
  BY <1>1 DEF NewVm, Vm
<1>3. /\ act["worker"] = Idle
      /\ \A x \in vms : x.vmid # vmid /\ x.ip # ip
      /\ \A p \in ToSet(DefaultPorts(v)) : p.external \notin Externals
      /\ vms' = vms \cup {v} /\ ports' = ports \cup ToSet(DefaultPorts(v))
      /\ act' = [act EXCEPT !["worker"] = Begin("create", v, {}, <<DefaultCall(v)>>)]
      /\ rules' = rules
  BY DEF ReserveVm, SetAct, NewVm
<1>4. act \in [Actors -> ActRec] /\ "worker" \in Actors BY DEF TypeInv, Actors
<1> HIDE DEF v
<1>5. <<DefaultCall(v)>> \in CallSeq BY <1>2, DefaultCallType
<1>6. "create" \in Adding \cup Deleting /\ IsABag(rules) BY DEF Adding, TypeInv
<1>7. Begun(Begin("create", v, {}, <<DefaultCall(v)>>), "create", v, {}, <<DefaultCall(v)>>)
  BY <1>2, <1>5, <1>6, BeginIs
<1> DEFINE d == Begin("create", v, {}, <<DefaultCall(v)>>)
           dc == DefaultCall(v)
<1>8. act'["worker"] = d /\ act' = [act EXCEPT !["worker"] = act'["worker"]]
  <2> HIDE DEF d
  <2> QED BY <1>3, <1>4 DEF d
<1> HIDE DEF d, dc
<1>9. /\ ActOk(d) /\ d.op = "create" /\ d.vm = v /\ d.ports = {}
      /\ d.pending = <<>> /\ d.attempted = <<>>
      /\ <<dc>> # <<>> =>
           /\ d.phase = "check" /\ d.todo = Head(<<dc>>) /\ d.calls = Tail(<<dc>>)
           /\ d.before = [r \in ToSet(Head(<<dc>>)) |-> Copies(r, rules)]
  BY <1>7 DEF Begun, Adding, d, dc
<1>10. <<dc>> # <<>> /\ Head(<<dc>>) = dc /\ Tail(<<dc>>) = <<>> OBVIOUS
<1>11. /\ d.phase = "check" /\ d.todo = dc /\ d.calls = <<>>
       /\ d.before = [r \in ToSet(dc) |-> Copies(r, rules)]
  BY <1>9, <1>10
<1> QED BY <1>1, <1>2, <1>3, <1>8, <1>9, <1>11 DEF v, dc

LEMMA CreateEndIs ==
  ASSUME TypeInv, CreateEnd
  PROVE  LET c == act["worker"] IN
         /\ c.op = "create" /\ c.phase = "end" /\ c.vm \in Vm
         /\ ports' = ports /\ rules' = rules
         /\ act' = [act EXCEPT !["worker"] = act'["worker"]]
         /\ \/ /\ c.ok /\ Startable(c.vm) /\ act'["worker"] = Idle
               /\ vms' = (vms \ {c.vm}) \cup {[c.vm EXCEPT !.ready = TRUE]}
            \/ /\ vms' = vms
               /\ Begun(act'["worker"], "undo", c.vm, {},
                        IF c.ok THEN <<DefaultCall(c.vm)>> ELSE <<>>)
<1> DEFINE c == act["worker"]
           calls == IF c.ok THEN <<DefaultCall(c.vm)>> ELSE <<>>
           d == Begin("undo", c.vm, {}, calls)
<1>0. c.op = "create" /\ c.phase = "end" /\ ports' = ports /\ rules' = rules
  BY DEF CreateEnd
<1>1. act \in [Actors -> ActRec] /\ "worker" \in Actors /\ ActOk(c) BY DEF TypeInv, Actors
<1>2. c.vm \in Vm BY <1>0, <1>1 DEF ActOk
<1>3. calls \in CallSeq BY <1>2, DefaultCallType DEF CallSeq
<1>4. "undo" \in Adding \cup Deleting /\ IsABag(rules) BY DEF Deleting, TypeInv
<1>5. \/ /\ c.ok /\ Startable(c.vm) /\ act' = [act EXCEPT !["worker"] = Idle]
         /\ vms' = (vms \ {c.vm}) \cup {[c.vm EXCEPT !.ready = TRUE]}
      \/ vms' = vms /\ act' = [act EXCEPT !["worker"] = d]
  BY DEF CreateEnd, SetAct
<1> HIDE DEF calls
<1>6. Begun(d, "undo", c.vm, {}, calls) BY <1>2, <1>3, <1>4, BeginIs
<1> HIDE DEF d
<1>7. CASE vms' = vms /\ act' = [act EXCEPT !["worker"] = d]
  <2>1. act'["worker"] = d BY <1>1, <1>7
  <2> QED BY <1>0, <1>2, <1>6, <1>7, <2>1 DEF calls
<1>8. CASE /\ c.ok /\ Startable(c.vm) /\ act' = [act EXCEPT !["worker"] = Idle]
           /\ vms' = (vms \ {c.vm}) \cup {[c.vm EXCEPT !.ready = TRUE]}
  <2>1. act'["worker"] = Idle BY <1>1, <1>8
  <2> QED BY <1>0, <1>2, <1>8, <2>1
<1> QED BY <1>5, <1>7, <1>8

LEMMA UndoEndIs ==
  ASSUME TypeInv, UndoEnd
  PROVE  LET c == act["worker"] IN
         /\ c.op = "undo" /\ c.phase = "end" /\ c.vm \in Vm
         /\ vms' = vms \ {c.vm} /\ ports' = ports \ PortsOf(c.vm) /\ rules' = rules
         /\ act'["worker"] = Idle /\ act' = [act EXCEPT !["worker"] = Idle]
BY DEF UndoEnd, SetAct, TypeInv, Actors, ActOk

\* An operation of the event loop begins with the records it works on.
LoopBegins(op, v, ps, calls) ==
  /\ v \in vms /\ act["loop"] = Idle /\ (v.ready \/ Early)
  /\ vms' = vms /\ rules' = rules
  /\ act' = [act EXCEPT !["loop"] = act'["loop"]]
  /\ Begun(act'["loop"], op, v, ps, calls)

LEMMA LoopBeginsIs ==
  ASSUME TypeInv, NEW op \in {"add", "delete", "restore", "delete_vm"}, NEW v \in vms,
         NEW ps \in SUBSET Port, NEW calls \in CallSeq,
         LoopFree(v), vms' = vms, rules' = rules,
         SetAct("loop", Begin(op, v, ps, calls))
  PROVE  LoopBegins(op, v, ps, calls)
<1> DEFINE d == Begin(op, v, ps, calls)
<1>1. act \in [Actors -> ActRec] /\ "loop" \in Actors BY DEF TypeInv, Actors
<1>2. op \in Adding \cup Deleting /\ IsABag(rules) /\ v \in Vm
  BY DEF Adding, Deleting, TypeInv
<1>3. Begun(d, op, v, ps, calls) BY <1>2, BeginIs
<1>4. act' = [act EXCEPT !["loop"] = d] BY DEF SetAct
<1> HIDE DEF d
<1>5. act'["loop"] = d BY <1>1, <1>4
<1> QED BY <1>3, <1>4, <1>5 DEF LoopBegins, LoopFree

\* The record add_custom_port inserts.
NewPort(v, internal, ext, protocol, source) ==
  [vm |-> v.id, internal |-> internal, external |-> ext, protocols |-> <<protocol>>,
   source |-> source, is_default |-> FALSE]

LEMMA AddPortIs ==
  ASSUME TypeInv, NEW v \in vms, NEW i \in Internals, NEW pr \in Protocols,
         NEW s \in Sources, AddPort(v, i, pr, s)
  PROVE  \E ext \in FreeExts :
           LET p == NewPort(v, i, ext, pr, s) IN
           /\ p \in Port /\ p.vm = v.id /\ p.external = ext /\ ~p.is_default
           /\ p.protocols = <<pr>>
           /\ ports' = ports \cup {p}
           /\ CallsFor(p, v.ip) \in CallSeq
           /\ LoopBegins("add", v, {p}, CallsFor(p, v.ip))
<1>1. PICK ext \in FreeExts :
        LET p == NewPort(v, i, ext, pr, s) IN
        ports' = ports \cup {p} /\ SetAct("loop", Begin("add", v, {p}, CallsFor(p, v.ip)))
  BY DEF AddPort, NewPort
<1> DEFINE p == NewPort(v, i, ext, pr, s)
<1>2. v \in Vm BY DEF TypeInv
<1>3. ext \in CustomExts /\ ext \in Nat /\ i \in Nat BY PortAssumption DEF FreeExts
<1>4. <<pr>> \in Seq(Protocols) OBVIOUS
<1>5. p \in Port /\ p.vm = v.id /\ p.external = ext /\ ~p.is_default /\ p.protocols = <<pr>>
  BY <1>2, <1>3, <1>4 DEF NewPort, Port, Vm
<1>6. ports' = ports \cup {p} /\ SetAct("loop", Begin("add", v, {p}, CallsFor(p, v.ip)))
  BY <1>1
<1> HIDE DEF p
<1>7. CallsFor(p, v.ip) \in CallSeq BY <1>2, <1>5, CallsForType DEF Vm
<1>8. LoopBegins("add", v, {p}, CallsFor(p, v.ip))
  <2>1. LoopFree(v) /\ vms' = vms /\ rules' = rules BY DEF AddPort
  <2> QED BY <1>5, <1>6, <1>7, <2>1, LoopBeginsIs
<1> QED BY <1>5, <1>6, <1>7, <1>8 DEF p

LEMMA DeletePortIs ==
  ASSUME TypeInv, NEW v \in vms, NEW p \in PortsOf(v), DeletePort(v, p)
  PROVE  /\ p \in ports /\ p \in Port /\ p.vm = v.id /\ ports' = ports
         /\ CallsFor(p, v.ip) \in CallSeq
         /\ LoopBegins("delete", v, {p}, CallsFor(p, v.ip))
<1>1. p \in ports /\ p.vm = v.id BY DEF PortsOf
<1>2. v \in Vm /\ p \in Port BY <1>1 DEF TypeInv
<1>3. CallsFor(p, v.ip) \in CallSeq BY <1>2, CallsForType DEF Vm
<1>4. LoopFree(v) /\ vms' = vms /\ rules' = rules /\ ports' = ports
      /\ SetAct("loop", Begin("delete", v, {p}, CallsFor(p, v.ip)))
  BY DEF DeletePort
<1> QED BY <1>1, <1>2, <1>3, <1>4, LoopBeginsIs

LEMMA RestoreDefaultsIs ==
  ASSUME TypeInv, NEW v \in vms, RestoreDefaults(v)
  PROVE  /\ v \in Vm /\ Missing(v) \subseteq ToSet(DefaultPorts(v))
         /\ Missing(v) \subseteq Port /\ ports' = ports
         /\ \A p \in Missing(v) : p.external \notin Externals
         /\ RestoreCalls(v) \in CallSeq
         /\ LoopBegins("restore", v, Missing(v), RestoreCalls(v))
<1>1. v \in Vm BY DEF TypeInv
<1>2. Missing(v) \subseteq ToSet(DefaultPorts(v)) /\ RestoreCalls(v) \in CallSeq
  BY <1>1, RestoreCallsType
<1>3. Missing(v) \subseteq Port BY <1>1, <1>2, DefaultPortsType
<1>4. LoopFree(v) /\ vms' = vms /\ rules' = rules /\ ports' = ports
      /\ SetAct("loop", Begin("restore", v, Missing(v), RestoreCalls(v)))
      /\ \A p \in Missing(v) : p.external \notin Externals
  BY DEF RestoreDefaults
<1> QED BY <1>1, <1>2, <1>3, <1>4, LoopBeginsIs

LEMMA DeleteVmIs ==
  ASSUME TypeInv, NEW v \in vms, DeleteVm(v)
  PROVE  /\ v \in Vm /\ ports' = ports
         /\ DeleteVmCalls(v) \in CallSeq
         /\ LoopBegins("delete_vm", v, {}, DeleteVmCalls(v))
<1>1. v \in Vm BY DEF TypeInv
<1>2. DeleteVmCalls(v) \in CallSeq BY <1>1, DeleteVmCallsType DEF TypeInv
<1>3. LoopFree(v) /\ vms' = vms /\ rules' = rules /\ ports' = ports
      /\ SetAct("loop", Begin("delete_vm", v, {}, DeleteVmCalls(v)))
  BY DEF DeleteVm
<1> QED BY <1>1, <1>2, <1>3, LoopBeginsIs

\* The ends of the event loop's operations.
LEMMA LoopEndsIs ==
  ASSUME TypeInv, AddPortEnd \/ DeletePortEnd \/ RestoreEnd \/ DeleteVmEnd
  PROVE  LET c == act["loop"] IN
         /\ c.phase = "end" /\ c.op \in {"add", "delete", "restore", "delete_vm"}
         /\ c.vm \in Vm /\ c.ports \subseteq Port
         /\ rules' = rules
         /\ act'["loop"] = Idle /\ act' = [act EXCEPT !["loop"] = Idle]
         /\ c.op # "delete_vm" => vms' = vms
         /\ c.op = "delete_vm" =>
              vms' = {x \in vms : x.id # c.vm.id} /\ ports' = ports \ PortsOf(c.vm)
         /\ c.op = "delete" => ports' = ports \ c.ports
         /\ c.op = "add" => ports' = IF c.ok THEN ports ELSE ports \ c.ports
         /\ c.op = "restore" =>
              ports' = IF /\ \E v \in vms : v.id = c.vm.id
                          /\ \A p \in c.ports : p.external \notin Externals
                       THEN ports \cup c.ports ELSE ports
<1>1. act \in [Actors -> ActRec] /\ "loop" \in Actors /\ ActOk(act["loop"])
  BY DEF TypeInv, Actors
<1>2. act["loop"].phase = "end" /\ act["loop"].op \in {"add", "delete", "restore", "delete_vm"}
      /\ rules' = rules /\ act' = [act EXCEPT !["loop"] = Idle]
  BY DEF AddPortEnd, DeletePortEnd, RestoreEnd, DeleteVmEnd, LoopAt, SetAct
<1>3. act["loop"].vm \in Vm /\ act["loop"].ports \subseteq Port
  BY <1>1, <1>2 DEF ActOk, ActRec
<1>4. act'["loop"] = Idle BY <1>1, <1>2
<1>5. CASE AddPortEnd BY <1>2, <1>3, <1>4, <1>5 DEF AddPortEnd, LoopAt
<1>6. CASE DeletePortEnd BY <1>2, <1>3, <1>4, <1>6 DEF DeletePortEnd, LoopAt
<1>7. CASE RestoreEnd BY <1>2, <1>3, <1>4, <1>7 DEF RestoreEnd, LoopAt
<1>8. CASE DeleteVmEnd BY <1>2, <1>3, <1>4, <1>8 DEF DeleteVmEnd, LoopAt
<1> QED BY <1>5, <1>6, <1>7, <1>8

LEMMA ActStep ==
  ASSUME TypeInv, NEW a \in Actors, act' = [act EXCEPT ![a] = act'[a]],
         ActOk(act'[a]), act'[a].op \in OpsOf(a), RestoresDefaults(act'[a])
  PROVE  /\ act' \in [Actors -> ActRec]
         /\ \A b \in Actors :
              ActOk(act'[b]) /\ act'[b].op \in OpsOf(b) /\ RestoresDefaults(act'[b])
         /\ \A b \in Actors : b # a => act'[b] = act[b]
<1>1. act'[a] \in ActRec BY DEF ActOk
<1>2. \A b \in Actors : b # a => act'[b] = act[b] BY DEF TypeInv
<1> QED BY <1>1, <1>2 DEF TypeInv

\* A command keeps its actor's operation.
LEMMA CommandActs ==
  ASSUME TypeInv, NEW a \in Actors, Command(a)
  PROVE  /\ UNCHANGED <<vms, ports>>
         /\ act' = [act EXCEPT ![a] = act'[a]]
         /\ ActOk(act'[a]) /\ SameOp(act[a], act'[a])
         /\ act[a].op # "idle" /\ act[a].vm \in Vm
         /\ IsABag(rules') /\ DOMAIN rules' \subseteq Rule
<1>0. ActOk(act[a]) /\ IsABag(rules) /\ DOMAIN rules \subseteq Rule BY DEF TypeInv
<1>1. CASE CheckRule(a)
  <2>1. ActOk(act'[a]) /\ SameOp(act[a], act'[a]) BY <1>1, CheckRuleIs DEF CheckedOne, Opens
  <2> QED BY <1>0, <1>1, <2>1, CheckRuleIs DEF ActOk, Adding
<1>2. CASE AddRule(a)
  <2>1. ActOk(act'[a]) /\ SameOp(act[a], act'[a]) BY <1>2, AddRuleIs DEF TriedOne, Opens
  <2> DEFINE r == Head(act[a].pending)
  <2>2. r \in Rule /\ (rules' = rules \/ rules' = rules (+) SetToBag({r})) BY <1>2, AddRuleIs
  <2> HIDE DEF r
  <2>3. IsABag(rules') /\ DOMAIN rules' \subseteq Rule
    <3>1. IsABag(rules (+) SetToBag({r})) /\ DOMAIN (rules (+) SetToBag({r})) = DOMAIN rules \cup {r}
      BY <1>0, BagAdd
    <3> QED BY <1>0, <2>2, <3>1
  <2> QED BY <1>0, <1>2, <2>1, <2>3, AddRuleIs DEF ActOk, Adding
<1>3. CASE RollbackRule(a)
  <2>1. ActOk(act'[a]) /\ SameOp(act[a], act'[a]) BY <1>3, RollbackRuleIs DEF Opens
  <2> DEFINE r == Last(act[a].attempted)
  <2>2. rules' = rules \/ rules' = rules (-) SetToBag({r}) BY <1>3, RollbackRuleIs
  <2> HIDE DEF r
  <2>3. IsABag(rules') /\ DOMAIN rules' \subseteq Rule
    <3>1. IsABag(rules (-) SetToBag({r})) /\ DOMAIN (rules (-) SetToBag({r})) \subseteq DOMAIN rules
      BY <1>0, BagTake
    <3> QED BY <1>0, <2>2, <3>1
  <2> QED BY <1>0, <1>3, <2>1, <2>3, RollbackRuleIs DEF ActOk, Adding
<1>4. CASE RemoveCopies(a)
  <2>1. ActOk(act'[a]) /\ SameOp(act[a], act'[a]) BY <1>4, RemoveCopiesIs DEF Opens
  <2> DEFINE r == Head(act[a].todo)
  <2>2. rules' = rules \/ rules' = [e \in DOMAIN rules \ {r} |-> rules[e]]
    BY <1>4, RemoveCopiesIs
  <2> HIDE DEF r
  <2>3. IsABag(rules') /\ DOMAIN rules' \subseteq Rule
    <3>1. IsABag([e \in DOMAIN rules \ {r} |-> rules[e]])
          /\ DOMAIN [e \in DOMAIN rules \ {r} |-> rules[e]] \subseteq DOMAIN rules
      BY <1>0, BagDrop
    <3> QED BY <1>0, <2>2, <3>1
  <2> QED BY <1>0, <1>4, <2>1, <2>3, RemoveCopiesIs DEF ActOk, Deleting
<1> QED BY <1>1, <1>2, <1>3, <1>4 DEF Command

LEMMA TypeStep == TypeInv /\ [Next]_vars => TypeInv'
<1> SUFFICES ASSUME TypeInv, [Next]_vars PROVE TypeInv' OBVIOUS
<1> USE DEF Actors
<1>0. /\ vms \subseteq Vm /\ IsFiniteSet(vms) /\ ports \subseteq Port /\ IsFiniteSet(ports)
      /\ \A p \in ports : p.external \in CustomExts \/ p.is_default
      /\ IsABag(rules) /\ DOMAIN rules \subseteq Rule
      /\ \A a \in Actors :
           ActOk(act[a]) /\ act[a].op \in OpsOf(a) /\ RestoresDefaults(act[a])
  BY DEF TypeInv
<1>a. \A P \in SUBSET ports : IsFiniteSet(ports \ P) /\ IsFiniteSet(ports)
  <2>1. \A P : ports \ P \in SUBSET ports OBVIOUS
  <2> QED BY <1>0, <2>1, FS_Subset
<1>b. Idle.op \in OpsOf("worker") /\ Idle.op \in OpsOf("loop") /\ ActOk(Idle)
      /\ RestoresDefaults(Idle)
  BY IdleIs DEF RestoresDefaults, OpsOf, WorkerOps, LoopOps
<1>c. \A v \in Vm : [v EXCEPT !.ready = TRUE] \in Vm BY DEF Vm
<1>1. ASSUME NEW vmid \in Vmids, NEW ip \in Ips, ReserveVm(vmid, ip) PROVE TypeInv'
  <2> DEFINE v == NewVm(vmid, ip)
             D == ToSet(DefaultPorts(v))
  <2>1. /\ v \in Vm /\ vms' = vms \cup {v} /\ ports' = ports \cup D /\ rules' = rules
        /\ act' = [act EXCEPT !["worker"] = act'["worker"]]
        /\ ActOk(act'["worker"]) /\ act'["worker"].op = "create"
    BY <1>1, ReserveVmIs
  <2> HIDE DEF v
  <2>2. D \subseteq Port /\ IsFiniteSet(D) /\ \A p \in D : p.is_default
    BY <2>1, DefaultPortsType
  <2> HIDE DEF D
  <2>3. IsFiniteSet(vms') BY <1>0, <2>1, FS_AddElement
  <2>4. IsFiniteSet(ports') BY <1>0, <2>1, <2>2, FS_Union
  <2>5. act'["worker"].op \in OpsOf("worker") /\ RestoresDefaults(act'["worker"])
    BY <2>1 DEF OpsOf, WorkerOps, RestoresDefaults
  <2>6. /\ act' \in [Actors -> ActRec]
        /\ \A b \in Actors :
             ActOk(act'[b]) /\ act'[b].op \in OpsOf(b) /\ RestoresDefaults(act'[b])
    BY <2>1, <2>5, ActStep
  <2> QED BY <1>0, <2>1, <2>2, <2>3, <2>4, <2>6 DEF TypeInv
<1>2. ASSUME CreateEnd PROVE TypeInv'
  <2> DEFINE c == act["worker"]
  <2>1. /\ c.vm \in Vm /\ ports' = ports /\ rules' = rules
        /\ act' = [act EXCEPT !["worker"] = act'["worker"]]
        /\ vms' = vms \/ vms' = (vms \ {c.vm}) \cup {[c.vm EXCEPT !.ready = TRUE]}
        /\ ActOk(act'["worker"]) /\ act'["worker"].op \in OpsOf("worker")
        /\ RestoresDefaults(act'["worker"])
    BY <1>2, <1>b, CreateEndIs DEF Begun, OpsOf, WorkerOps, RestoresDefaults
  <2> HIDE DEF c
  <2>2. vms' \subseteq Vm /\ IsFiniteSet(vms')
    <3>1. IsFiniteSet(vms \ {c.vm}) BY <1>0, FS_RemoveElement
    <3>2. IsFiniteSet((vms \ {c.vm}) \cup {[c.vm EXCEPT !.ready = TRUE]})
      BY <3>1, FS_AddElement
    <3> QED BY <1>0, <1>c, <2>1, <3>2
  <2>3. /\ act' \in [Actors -> ActRec]
        /\ \A b \in Actors :
             ActOk(act'[b]) /\ act'[b].op \in OpsOf(b) /\ RestoresDefaults(act'[b])
    BY <2>1, ActStep
  <2> QED BY <1>0, <2>1, <2>2, <2>3 DEF TypeInv
<1>3. ASSUME UndoEnd PROVE TypeInv'
  <2> DEFINE c == act["worker"]
  <2>1. /\ vms' = vms \ {c.vm} /\ ports' = ports \ PortsOf(c.vm) /\ rules' = rules
        /\ act'["worker"] = Idle /\ act' = [act EXCEPT !["worker"] = Idle]
    BY <1>3, UndoEndIs
  <2> HIDE DEF c
  <2>2. IsFiniteSet(vms') BY <1>0, <2>1, FS_RemoveElement
  <2>3. IsFiniteSet(ports')
    <3>1. ports' \in SUBSET ports BY <2>1
    <3> QED BY <1>0, <3>1, FS_Subset
  <2>4. /\ act' \in [Actors -> ActRec]
        /\ \A b \in Actors :
             ActOk(act'[b]) /\ act'[b].op \in OpsOf(b) /\ RestoresDefaults(act'[b])
    BY <1>b, <2>1, ActStep
  <2> QED BY <1>0, <2>1, <2>2, <2>3, <2>4 DEF TypeInv
<1>4. ASSUME NEW op \in {"add", "delete", "restore", "delete_vm"}, NEW v, NEW ps, NEW calls,
             op = "restore" => ps \subseteq ToSet(DefaultPorts(v)),
             LoopBegins(op, v, ps, calls), IsFiniteSet(ports'), ports' \subseteq Port,
             \A p \in ports' : p.external \in CustomExts \/ p.is_default
      PROVE  TypeInv'
  <2>1. /\ vms' = vms /\ rules' = rules /\ act' = [act EXCEPT !["loop"] = act'["loop"]]
        /\ ActOk(act'["loop"]) /\ act'["loop"].op \in OpsOf("loop")
        /\ RestoresDefaults(act'["loop"])
    BY <1>4 DEF LoopBegins, Begun, OpsOf, LoopOps, RestoresDefaults
  <2>2. /\ act' \in [Actors -> ActRec]
        /\ \A b \in Actors :
             ActOk(act'[b]) /\ act'[b].op \in OpsOf(b) /\ RestoresDefaults(act'[b])
    BY <2>1, ActStep
  <2> QED BY <1>0, <1>4, <2>1, <2>2 DEF TypeInv
<1>5. ASSUME NEW v \in vms, NEW i \in Internals, NEW pr \in Protocols, NEW s \in Sources,
             AddPort(v, i, pr, s)
      PROVE  TypeInv'
  <2>1. PICK ext \in FreeExts :
           LET p == NewPort(v, i, ext, pr, s) IN
           /\ p \in Port /\ p.external = ext /\ ports' = ports \cup {p}
           /\ LoopBegins("add", v, {p}, CallsFor(p, v.ip))
    BY <1>5, AddPortIs
  <2> DEFINE p == NewPort(v, i, ext, pr, s)
  <2>2. p \in Port /\ p.external \in CustomExts /\ ports' = ports \cup {p}
    BY <2>1 DEF FreeExts
  <2>2a. LoopBegins("add", v, {p}, CallsFor(p, v.ip)) BY <2>1
  <2> HIDE DEF p
  <2>3. IsFiniteSet(ports') BY <1>0, <2>2, FS_AddElement
  <2> QED BY <1>0, <1>4, <2>2, <2>2a, <2>3
<1>6. ASSUME NEW v \in vms, NEW p \in PortsOf(v), DeletePort(v, p) PROVE TypeInv'
  BY <1>0, <1>4, <1>6, DeletePortIs
<1>7. ASSUME NEW v \in vms, RestoreDefaults(v) PROVE TypeInv'
  BY <1>0, <1>4, <1>7, RestoreDefaultsIs
<1>8. ASSUME NEW v \in vms, DeleteVm(v) PROVE TypeInv'
  BY <1>0, <1>4, <1>8, DeleteVmIs
<1>9. ASSUME AddPortEnd \/ DeletePortEnd \/ RestoreEnd \/ DeleteVmEnd PROVE TypeInv'
  <2> DEFINE c == act["loop"]
  <2>1. /\ c.op \in {"add", "delete", "restore", "delete_vm"} /\ c.ports \subseteq Port
        /\ rules' = rules /\ act'["loop"] = Idle /\ act' = [act EXCEPT !["loop"] = Idle]
        /\ vms' \subseteq vms
        /\ ports' \subseteq ports \/ (c.op = "restore" /\ ports' = ports \cup c.ports)
    BY <1>9, LoopEndsIs
  <2>2. /\ act' \in [Actors -> ActRec]
        /\ \A b \in Actors :
             ActOk(act'[b]) /\ act'[b].op \in OpsOf(b) /\ RestoresDefaults(act'[b])
    BY <1>b, <2>1, ActStep
  <2>3. c.op = "restore" => IsFiniteSet(c.ports) /\ \A p \in c.ports : p.is_default
    <3> SUFFICES ASSUME c.op = "restore"
                 PROVE  IsFiniteSet(c.ports) /\ \A p \in c.ports : p.is_default
        OBVIOUS
    <3>1. c.vm \in Vm BY <1>9, LoopEndsIs
    <3>2. c.ports \in SUBSET ToSet(DefaultPorts(c.vm)) BY <1>0 DEF RestoresDefaults
    <3> HIDE DEF c
    <3>3. IsFiniteSet(ToSet(DefaultPorts(c.vm)))
          /\ \A p \in ToSet(DefaultPorts(c.vm)) : p.is_default
      BY <3>1, DefaultPortsType
    <3> QED BY <3>2, <3>3, FS_Subset
  <2> HIDE DEF c
  <2>4. IsFiniteSet(vms') BY <1>0, <2>1, FS_Subset
  <2>5. IsFiniteSet(ports')
    <3>1. CASE ports' \subseteq ports BY <1>0, <3>1, FS_Subset
    <3>2. CASE c.op = "restore" /\ ports' = ports \cup c.ports
      BY <1>0, <2>3, <3>2, FS_Union
    <3> QED BY <2>1, <3>1, <3>2
  <2> QED BY <1>0, <2>1, <2>2, <2>3, <2>4, <2>5 DEF TypeInv
<1>10. ASSUME NEW a \in Actors, Command(a) PROVE TypeInv'
  <2>1. /\ UNCHANGED <<vms, ports>>
        /\ act' = [act EXCEPT ![a] = act'[a]]
        /\ ActOk(act'[a]) /\ SameOp(act[a], act'[a])
        /\ IsABag(rules') /\ DOMAIN rules' \subseteq Rule
    BY <1>10, CommandActs
  <2>2. act'[a].op \in OpsOf(a) /\ RestoresDefaults(act'[a])
    BY <1>0, <2>1 DEF SameOp, RestoresDefaults
  <2>3. /\ act' \in [Actors -> ActRec]
        /\ \A b \in Actors :
             ActOk(act'[b]) /\ act'[b].op \in OpsOf(b) /\ RestoresDefaults(act'[b])
    BY <2>1, <2>2, ActStep
  <2> QED BY <1>0, <2>1, <2>3 DEF TypeInv
<1>11. ASSUME UNCHANGED vars PROVE TypeInv' BY <1>11 DEF TypeInv, vars
<1> QED BY <1>1, <1>2, <1>3, <1>5, <1>6, <1>7, <1>8, <1>9, <1>10, <1>11
     DEF Next, WorkerStep, LoopStep

LEMMA TypeStart == Init => TypeInv
<1> SUFFICES ASSUME Init PROVE TypeInv OBVIOUS
<1>1. vms = {} /\ ports = {} /\ rules = EmptyBag /\ act = [a \in Actors |-> Idle] BY DEF Init
<1>2. IsFiniteSet({}) BY FS_EmptySet
<1>3. IsABag(rules) /\ DOMAIN rules = {} BY <1>1 DEF EmptyBag, SetToBag, IsABag
<1>4. ActOk(Idle) /\ Idle \in ActRec /\ Idle.op = "idle" BY IdleIs DEF ActOk
<1>5. RestoresDefaults(Idle) BY <1>4 DEF RestoresDefaults
<1> QED BY <1>1, <1>2, <1>3, <1>4, <1>5 DEF TypeInv, OpsOf, WorkerOps, LoopOps

LEMMA TypeInvariant == Spec => []TypeInv
BY TypeStart, TypeStep, PTL DEF Spec

\* The rows and records have their types, the gateway holds rules only, and
\* an actor's lists are lists of rules, with nothing left over in a phase
\* that has no use for them.
THEOREM TypeCorrect == Spec => []TypeOK
<1>1. TypeInv => TypeOK
  <2> SUFFICES ASSUME TypeInv PROVE TypeOK OBVIOUS
  <2>1. DOMAIN act = Actors BY DEF TypeInv
  <2>2. ASSUME NEW a \in Actors
        PROVE  LET c == act[a] IN
               /\ c.op \in {"idle"} \cup Adding \cup Deleting
               /\ c.phase \in {"idle", "check", "add", "rollback", "remove", "end"}
               /\ c.op = "idle" <=> c.phase = "idle"
               /\ c.op # "idle" => c.vm \in Vm
               /\ c.ports \subseteq Port
               /\ c.calls \in Seq(Seq(Rule))
               /\ \A q \in {c.todo, c.pending, c.attempted} : q \in Seq(Rule)
               /\ c.ok \in BOOLEAN
    <3>1. ActOk(act[a]) BY DEF TypeInv
    <3> QED BY <3>1 DEF ActOk, ActRec, CallSeq, Phases
  <2> QED BY <2>1, <2>2 DEF TypeInv, TypeOK, BagToSet
<1> QED BY TypeInvariant, <1>1, PTL

-----------------------------------------------------------------------------
(* Rows and records: whose is which.                                        *)

\* Two rows share neither id nor VMID nor IP, two records no external port;
\* a record belongs to a row; and an actor that works on a row still in the
\* table works on that row: no other row has got its id.
SameVm(u, v) == u.id = v.id /\ u.vmid = v.vmid /\ u.ip = v.ip

RowInv ==
  /\ \A u, v \in vms : u.id = v.id \/ u.vmid = v.vmid \/ u.ip = v.ip => u = v
  /\ \A p \in ports : \E v \in vms : v.id = p.vm
  /\ \A p, q \in ports : p.external = q.external => p = q
  /\ act["worker"].op # "idle" =>
       /\ ~act["worker"].vm.ready
       /\ \A v \in vms : v.id = act["worker"].vm.id => v = act["worker"].vm
  /\ act["loop"].op # "idle" =>
       \A v \in vms : v.id = act["loop"].vm.id => SameVm(v, act["loop"].vm)

LEMMA DefaultExternals ==
  ASSUME NEW v \in Vm, NEW p \in ToSet(DefaultPorts(v)), NEW q \in ToSet(DefaultPorts(v)),
         p.external = q.external
  PROVE  p = q
<1>1. PICK i \in 1..Len(Defaults) : p = DefaultPort(Defaults[i], v) BY DefaultPortsType
<1>2. PICK j \in 1..Len(Defaults) : q = DefaultPort(Defaults[j], v) BY DefaultPortsType
<1> DEFINE R == [internal: Nat, protocols: Seq(Protocols), offset: Nat]
<1>3. Defaults \in Seq(R) BY PortAssumption
<1> HIDE DEF R
<1>4. Defaults[i] \in R /\ Defaults[j] \in R /\ DOMAIN Defaults = 1..Len(Defaults) BY <1>3
<1>5. Defaults[i].offset \in Nat /\ Defaults[j].offset \in Nat BY <1>4 DEF R
<1>6. v.vmid \in Nat BY PortAssumption DEF Vm
<1>7. p.external = Defaults[i].offset + v.vmid /\ q.external = Defaults[j].offset + v.vmid
  BY <1>1, <1>2 DEF DefaultPort
<1>8. Defaults[i].offset = Defaults[j].offset
  <2>1. \A x, y, z \in Nat : x + z = y + z => x = y OBVIOUS
  <2>2. Defaults[i].offset + v.vmid = Defaults[j].offset + v.vmid BY <1>7
  <2> QED BY <1>5, <1>6, <2>1, <2>2
<1>9. i = j BY <1>4, <1>8, PortAssumption
<1> QED BY <1>1, <1>2, <1>9

LEMMA RowStart == Init => RowInv
<1> SUFFICES ASSUME Init PROVE RowInv OBVIOUS
<1>1. vms = {} /\ ports = {} /\ act = [a \in Actors |-> Idle] BY DEF Init
<1>2. act["worker"].op = "idle" /\ act["loop"].op = "idle" BY <1>1, IdleIs DEF Actors
<1> QED BY <1>1, <1>2 DEF RowInv

LEMMA RowStep == TypeInv /\ RowInv /\ [Next]_vars => RowInv'
<1> SUFFICES ASSUME TypeInv, RowInv, [Next]_vars PROVE RowInv' OBVIOUS
<1> DEFINE w == act["worker"]
           l == act["loop"]
<1>0. /\ \A u, v \in vms : u.id = v.id \/ u.vmid = v.vmid \/ u.ip = v.ip => u = v
      /\ \A p \in ports : \E v \in vms : v.id = p.vm
      /\ \A p, q \in ports : p.external = q.external => p = q
      /\ w.op # "idle" => ~w.vm.ready /\ \A v \in vms : v.id = w.vm.id => v = w.vm
      /\ l.op # "idle" => \A v \in vms : v.id = l.vm.id => SameVm(v, l.vm)
  BY DEF RowInv
<1>a. act \in [Actors -> ActRec] /\ "worker" \in Actors /\ "loop" \in Actors
      /\ vms \subseteq Vm /\ ports \subseteq Port
  BY DEF TypeInv, Actors
<1>b. Idle.op = "idle" BY IdleIs
<1>1. ASSUME NEW vmid \in Vmids, NEW ip \in Ips, ReserveVm(vmid, ip) PROVE RowInv'
  <2> DEFINE v == NewVm(vmid, ip)
             D == ToSet(DefaultPorts(v))
  <2>0. /\ v \in Vm /\ v.vmid = vmid /\ v.ip = ip /\ ~v.ready /\ Fresh(v.id)
        /\ act'["worker"].vm = v
    BY <1>1, ReserveVmIs
  <2>1. /\ v \in Vm /\ v.vmid = vmid /\ v.ip = ip /\ ~v.ready /\ Fresh(v.id)
        /\ \A x \in vms : x.vmid # vmid /\ x.ip # ip
        /\ \A p \in D : p.external \notin Externals
        /\ vms' = vms \cup {v} /\ ports' = ports \cup D
        /\ act' = [act EXCEPT !["worker"] = act'["worker"]]
    BY <1>1, <2>0, ReserveVmIs
  <2>1a. act'["worker"].vm = v BY <2>0
  <2> HIDE DEF v
  <2>2. \A p \in D : p.vm = v.id BY <2>1, DefaultPortsType
  <2>3. \A p, q \in D : p.external = q.external => p = q BY <2>1, DefaultExternals
  <2>4. act'["loop"] = l BY <1>a, <2>1
  <2> HIDE DEF D, l, w
  <2>5. \A x \in vms : x.id # v.id BY <2>1 DEF Fresh
  <2>6. l.vm.id # v.id BY <1>a, <2>1 DEF Fresh, l
  <2>7. \A p \in ports, q \in D : p.external # q.external BY <2>1 DEF Externals
  <2>8. \A x, y \in vms' : x.id = y.id \/ x.vmid = y.vmid \/ x.ip = y.ip => x = y
    BY <1>0, <2>1, <2>5
  <2>9. \A p \in ports' : \E x \in vms' : x.id = p.vm BY <1>0, <2>1, <2>2
  <2>10. \A p, q \in ports' : p.external = q.external => p = q BY <1>0, <2>1, <2>3, <2>7
  <2>11. \A x \in vms' : x.id = act'["worker"].vm.id => x = act'["worker"].vm
    BY <2>1, <2>1a, <2>5
  <2>12. l.op # "idle" => \A x \in vms' : x.id = l.vm.id => SameVm(x, l.vm)
    BY <1>0, <2>1, <2>6
  <2> QED BY <2>1, <2>1a, <2>4, <2>8, <2>9, <2>10, <2>11, <2>12 DEF RowInv
<1>2. ASSUME CreateEnd PROVE RowInv'
  <2>0. w.op = "create" /\ w.vm \in Vm BY <1>2, CreateEndIs
  <2>1. ports' = ports /\ act'["loop"] = l BY <1>2, <1>a, CreateEndIs
  <2>2. CASE vms' = vms /\ act'["worker"].vm = w.vm
    BY <1>0, <2>0, <2>1, <2>2 DEF RowInv
  <2>3. CASE /\ Startable(w.vm) /\ act'["worker"] = Idle
             /\ vms' = (vms \ {w.vm}) \cup {[w.vm EXCEPT !.ready = TRUE]}
    <3> DEFINE x == w.vm
               y == [w.vm EXCEPT !.ready = TRUE]
    <3>1. x \in vms BY <2>3 DEF Startable
    <3>2. y.id = x.id /\ y.vmid = x.vmid /\ y.ip = x.ip BY <2>0 DEF Vm
    <3>3. vms' = (vms \ {x}) \cup {y} BY <2>3
    <3> HIDE DEF x, y, w, l
    <3>4. \A u, v \in vms' : u.id = v.id \/ u.vmid = v.vmid \/ u.ip = v.ip => u = v
      BY <1>0, <3>1, <3>2, <3>3
    <3>5. \A p \in ports : \E v \in vms' : v.id = p.vm
      BY <1>0, <3>2, <3>3
    <3>6. l.op # "idle" => \A v \in vms' : v.id = l.vm.id => SameVm(v, l.vm)
      BY <1>0, <3>1, <3>2, <3>3 DEF SameVm
    <3> QED BY <1>0, <1>b, <2>1, <2>3, <3>4, <3>5, <3>6 DEF RowInv
  <2> QED BY <1>2, <2>2, <2>3, CreateEndIs DEF Begun
<1>3. ASSUME UndoEnd PROVE RowInv'
  <2>1. /\ w.op = "undo" /\ w.vm \in Vm
        /\ vms' = vms \ {w.vm} /\ ports' = ports \ PortsOf(w.vm)
        /\ act'["worker"] = Idle /\ act'["loop"] = l
    BY <1>3, <1>a, UndoEndIs
  <2>2. \A p \in ports' : \E v \in vms' : v.id = p.vm
    <3> SUFFICES ASSUME NEW p \in ports' PROVE \E v \in vms' : v.id = p.vm OBVIOUS
    <3>1. p \in ports /\ p.vm # w.vm.id BY <2>1 DEF PortsOf
    <3>2. PICK v \in vms : v.id = p.vm BY <1>0, <3>1
    <3> QED BY <2>1, <3>1, <3>2
  <2> HIDE DEF w, l
  <2> QED BY <1>0, <1>b, <2>1, <2>2 DEF RowInv
<1>4. ASSUME NEW op, NEW v, NEW ps, NEW calls, LoopBegins(op, v, ps, calls),
             \A p \in ports' : \E x \in vms : x.id = p.vm,
             \A p, q \in ports' : p.external = q.external => p = q
      PROVE  RowInv'
  <2>1. /\ v \in vms /\ vms' = vms /\ act'["worker"] = w /\ act'["loop"].vm = v
    BY <1>4, <1>a DEF LoopBegins, Begun
  <2>2. \A x \in vms : x.id = v.id => SameVm(x, v) BY <1>0, <2>1 DEF SameVm
  <2> HIDE DEF w, l
  <2> QED BY <1>0, <1>4, <2>1, <2>2 DEF RowInv
<1>5. ASSUME NEW v \in vms, NEW i \in Internals, NEW pr \in Protocols, NEW s \in Sources,
             AddPort(v, i, pr, s)
      PROVE  RowInv'
  <2>1. PICK ext \in FreeExts :
           LET p == NewPort(v, i, ext, pr, s) IN
           /\ p.vm = v.id /\ p.external = ext /\ ports' = ports \cup {p}
           /\ LoopBegins("add", v, {p}, CallsFor(p, v.ip))
    BY <1>5, AddPortIs
  <2> DEFINE p == NewPort(v, i, ext, pr, s)
  <2>2. p.vm = v.id /\ p.external = ext /\ ports' = ports \cup {p}
        /\ LoopBegins("add", v, {p}, CallsFor(p, v.ip))
    BY <2>1
  <2> HIDE DEF p
  <2>3. \A q \in ports : q.external # p.external BY <2>2 DEF FreeExts, Externals
  <2>4. \A q \in ports' : \E x \in vms : x.id = q.vm BY <1>0, <2>2
  <2>5. \A q, r \in ports' : q.external = r.external => q = r BY <1>0, <2>2, <2>3
  <2> QED BY <1>4, <2>2, <2>4, <2>5
<1>6. ASSUME NEW v \in vms, NEW p \in PortsOf(v), DeletePort(v, p) PROVE RowInv'
  <2>1. ports' = ports /\ LoopBegins("delete", v, {p}, CallsFor(p, v.ip))
    BY <1>6, DeletePortIs
  <2> QED BY <1>0, <1>4, <2>1
<1>7. ASSUME NEW v \in vms, RestoreDefaults(v) PROVE RowInv'
  BY <1>0, <1>4, <1>7, RestoreDefaultsIs
<1>8. ASSUME NEW v \in vms, DeleteVm(v) PROVE RowInv'
  BY <1>0, <1>4, <1>8, DeleteVmIs
<1>9. ASSUME AddPortEnd \/ DeletePortEnd \/ RestoreEnd \/ DeleteVmEnd PROVE RowInv'
  <2>1. /\ l.op \in {"add", "delete", "restore", "delete_vm"} /\ l.vm \in Vm
        /\ act'["loop"] = Idle /\ act'["worker"] = w
        /\ l.op # "delete_vm" => vms' = vms
        /\ l.op = "delete_vm" =>
             vms' = {x \in vms : x.id # l.vm.id} /\ ports' = ports \ PortsOf(l.vm)
        /\ l.op \in {"delete", "add"} => ports' \subseteq ports
        /\ l.op = "restore" =>
             ports' = IF /\ \E v \in vms : v.id = l.vm.id
                         /\ \A p \in l.ports : p.external \notin Externals
                      THEN ports \cup l.ports ELSE ports
    BY <1>9, <1>a, LoopEndsIs
  <2>2. l.op = "restore" => l.ports \subseteq ToSet(DefaultPorts(l.vm))
    BY <1>a DEF TypeInv, RestoresDefaults
  <2> HIDE DEF w, l
  <2>3. \A p \in ports' : \E v \in vms' : v.id = p.vm
    <3>1. CASE l.op = "delete_vm"
      <4> SUFFICES ASSUME NEW p \in ports' PROVE \E v \in vms' : v.id = p.vm OBVIOUS
      <4>1. p \in ports /\ p.vm # l.vm.id BY <2>1, <3>1 DEF PortsOf
      <4>2. PICK v \in vms : v.id = p.vm BY <1>0, <4>1
      <4> QED BY <2>1, <3>1, <4>1, <4>2
    <3>2. CASE l.op \in {"delete", "add"} BY <1>0, <2>1, <3>2
    <3>3. CASE l.op = "restore"
      <4>1. \A p \in l.ports : p.vm = l.vm.id BY <2>1, <2>2, <3>3, DefaultPortsType
      <4> QED BY <1>0, <2>1, <3>3, <4>1
    <3> QED BY <2>1, <3>1, <3>2, <3>3
  <2>4. \A p, q \in ports' : p.external = q.external => p = q
    <3>1. CASE ports' \subseteq ports BY <1>0, <3>1
    <3>2. CASE l.op = "restore" /\ ports' = ports \cup l.ports
               /\ \A p \in l.ports : p.external \notin Externals
      <4>1. \A p, q \in l.ports : p.external = q.external => p = q
        BY <2>1, <2>2, <3>2, DefaultExternals
      <4>2. \A p \in ports, q \in l.ports : p.external # q.external
        BY <3>2 DEF Externals
      <4> QED BY <1>0, <3>2, <4>1, <4>2
    <3> QED BY <2>1, <3>1, <3>2
  <2>5. vms' \subseteq vms BY <2>1
  <2> QED BY <1>0, <1>b, <2>1, <2>3, <2>4, <2>5 DEF RowInv
<1>10. ASSUME NEW a \in Actors, Command(a) PROVE RowInv'
  <2>1. /\ vms' = vms /\ ports' = ports /\ act' = [act EXCEPT ![a] = act'[a]]
        /\ act'[a].op = act[a].op /\ act'[a].vm = act[a].vm
    BY <1>10, CommandActs DEF SameOp
  <2>2. /\ act'["worker"].op = w.op /\ act'["worker"].vm = w.vm
        /\ act'["loop"].op = l.op /\ act'["loop"].vm = l.vm
    BY <1>a, <2>1 DEF Actors
  <2> HIDE DEF w, l
  <2> QED BY <1>0, <2>1, <2>2 DEF RowInv
<1>11. ASSUME UNCHANGED vars PROVE RowInv' BY <1>11 DEF RowInv, vars
<1> QED BY <1>1, <1>2, <1>3, <1>5, <1>6, <1>7, <1>8, <1>9, <1>10, <1>11
     DEF Next, WorkerStep, LoopStep

-----------------------------------------------------------------------------
(* The lists of an operation.                                               *)

\* The rules an actor still has to do with.
ListRules(c) ==
  ToSet(c.todo) \cup ToSet(c.pending) \cup ToSet(c.attempted) \cup RulesIn(c.calls)

\* The rules its operation deals in.
OwnRules(c) ==
  IF c.op \in {"create", "undo"} THEN DefaultRules(c.vm)
  ELSE IF c.op = "delete_vm" THEN {r \in Rule : r.ip = c.vm.ip}
  ELSE UNION {RulesOf(p, c.vm.ip) : p \in c.ports}

\* An operation touches no other rules, and create and add make one call.
ListsOk(c) ==
  c.op # "idle" =>
    /\ ListRules(c) \subseteq OwnRules(c)
    /\ c.phase \in {"check", "add", "rollback"} => DOMAIN c.before \subseteq OwnRules(c)
    /\ c.op \in {"create", "add"} => c.calls = <<>>
    /\ c.op = "delete_vm" => c.ports = {}

ListInv == \A a \in Actors : ListsOk(act[a])

LEMMA NoRules ==
  /\ ToSet(<<>>) = {} /\ RulesIn(<<>>) = {}
BY DEF ToSet, RulesIn

LEMMA DefaultRulesType ==
  ASSUME NEW v \in Vm, NEW r \in DefaultRules(v)
  PROVE  r \in Rule /\ r.ip = v.ip
<1>1. PICK p \in ToSet(DefaultPorts(v)) : r \in RulesOf(p, v.ip) BY DEF DefaultRules
<1>2. p \in Port /\ v.ip \in Ips BY DefaultPortsType DEF Vm
<1> QED BY <1>1, <1>2, RuleFields

\* They lead to the VM the operation works on.
LEMMA OwnRulesType ==
  ASSUME NEW c, c.vm \in Vm, c.ports \subseteq Port, NEW r \in OwnRules(c)
  PROVE  r \in Rule /\ r.ip = c.vm.ip
<1> DEFINE v == c.vm
<1>0. v \in Vm /\ v.ip \in Ips BY DEF Vm
<1>1. CASE c.op \in {"create", "undo"}
  <2>1. r \in DefaultRules(v) BY <1>1 DEF OwnRules
  <2> HIDE DEF v
  <2>2. r \in Rule /\ r.ip = v.ip BY <1>0, <2>1, DefaultRulesType
  <2> QED BY <2>2 DEF v
<1>2. CASE c.op = "delete_vm" BY <1>2 DEF OwnRules
<1>3. CASE c.op \notin {"create", "undo", "delete_vm"}
  <2>1. PICK p \in c.ports : r \in RulesOf(p, v.ip) BY <1>3 DEF OwnRules
  <2> HIDE DEF v
  <2>2. r \in Rule /\ r.ip = v.ip BY <1>0, <2>1, RuleFields
  <2> QED BY <2>2 DEF v
<1> QED BY <1>1, <1>2, <1>3

LEMMA SameOwn ==
  ASSUME NEW c, NEW d, SameOp(c, d)
  PROVE  OwnRules(d) = OwnRules(c)
BY DEF SameOp, OwnRules

\* What an operation begins with.
LEMMA BegunLists ==
  ASSUME NEW d, NEW op, NEW v, NEW ps, NEW calls \in CallSeq, Begun(d, op, v, ps, calls)
  PROVE  /\ ListRules(d) = RulesIn(calls)
         /\ d.phase \in {"check", "add", "rollback"} => DOMAIN d.before \subseteq RulesIn(calls)
         /\ calls = <<>> \/ Tail(calls) = <<>> => d.calls = <<>>
         /\ d.phase \in {"check", "remove"} => ToSet(d.todo) \cup RulesIn(d.calls) = RulesIn(calls)
         /\ d.phase \in {"check", "remove", "end"}
         /\ d.phase = "end" => d.ok /\ RulesIn(calls) = {}
<1>1. CASE calls = <<>>
  BY <1>1, NoRules DEF Begun, ListRules
<1>2. CASE calls # <<>>
  <2>1. RulesIn(calls) = ToSet(Head(calls)) \cup RulesIn(Tail(calls)) BY <1>2, CallParts
  <2> QED BY <1>2, <2>1, NoRules DEF Begun, ListRules
<1> QED BY <1>1, <1>2

\* A call returned: the lists of the next are those of its calls.
LEMMA OpensLists ==
  ASSUME NEW c, c.calls \in CallSeq, NEW d, NEW res, NEW found, Opens(c, d, res, found)
  PROVE  /\ ListRules(d) = RulesIn(c.calls)
         /\ d.phase \in {"check", "add", "rollback"} => DOMAIN d.before \subseteq RulesIn(c.calls)
         /\ c.calls = <<>> => d.calls = <<>>
         /\ ToSet(d.todo) \cup RulesIn(d.calls) = RulesIn(c.calls)
<1>1. CASE c.calls = <<>>
  BY <1>1, NoRules DEF Opens, ListRules
<1>2. CASE c.calls # <<>>
  <2> DEFINE k == c.calls
  <2>0. k \in CallSeq /\ k # <<>> BY <1>2
  <2> HIDE DEF k
  <2>1. RulesIn(k) = ToSet(Head(k)) \cup RulesIn(Tail(k)) BY <2>0, CallParts
  <2>2. /\ d.todo = Head(k) /\ d.calls = Tail(k) /\ d.pending = <<>> /\ d.attempted = <<>>
        /\ d.before = [r \in ToSet(Head(k)) |-> Copies(r, found)]
    BY <1>2 DEF Opens, k
  <2>3. DOMAIN d.before = ToSet(Head(k)) BY <2>2
  <2>4. ListRules(d) = RulesIn(k) BY <2>1, <2>2, NoRules DEF ListRules
  <2> QED BY <1>2, <2>1, <2>2, <2>3, <2>4 DEF k
<1> QED BY <1>1, <1>2

\* A command shortens the lists.
LEMMA ListsShrink ==
  ASSUME TypeInv, NEW a \in Actors, Command(a)
  PROVE  /\ ListRules(act'[a]) \subseteq ListRules(act[a])
         /\ act'[a].phase \in {"check", "add", "rollback"} =>
              DOMAIN act'[a].before \subseteq
                (IF act[a].phase \in {"check", "add", "rollback"}
                 THEN DOMAIN act[a].before ELSE {}) \cup ListRules(act[a])
         /\ act[a].calls = <<>> => act'[a].calls = <<>>
<1> DEFINE c == act[a]
           d == act'[a]
<1>0. ActOk(c) /\ c \in ActRec BY DEF TypeInv, ActOk
<1>1. c.calls \in CallSeq /\ c.todo \in Seq(Rule) /\ c.pending \in Seq(Rule)
      /\ c.attempted \in Seq(Rule)
  BY <1>0 DEF ActRec
<1>2. \A res, found : Opens(c, d, res, found) =>
        /\ ListRules(d) \subseteq ListRules(c)
        /\ d.phase \in {"check", "add", "rollback"} => DOMAIN d.before \subseteq ListRules(c)
        /\ c.calls = <<>> => d.calls = <<>>
  <2> HIDE DEF c, d
  <2> TAKE res, found
  <2> HAVE Opens(c, d, res, found)
  <2>1. /\ ListRules(d) = RulesIn(c.calls)
        /\ d.phase \in {"check", "add", "rollback"} => DOMAIN d.before \subseteq RulesIn(c.calls)
        /\ c.calls = <<>> => d.calls = <<>>
    BY <1>1, OpensLists
  <2> QED BY <2>1 DEF ListRules
<1>3. CASE CheckRule(a)
  <2>1. CASE CheckedOne(c, d)
    <3>1. c.phase = "check" /\ c.todo # <<>> BY <1>3, CheckRuleIs
    <3> HIDE DEF c, d
    <3>2. Head(c.todo) \in Rule /\ ToSet(c.todo) = {Head(c.todo)} \cup ToSet(Tail(c.todo))
      BY <1>1, <3>1, SeqParts
    <3>3. ToSet(Append(c.pending, Head(c.todo))) = ToSet(c.pending) \cup {Head(c.todo)}
      BY <1>1, <3>2, SeqElements
    <3>4. ToSet(d.pending) \subseteq ToSet(c.pending) \cup {Head(c.todo)}
      BY <2>1, <3>3 DEF CheckedOne
    <3>5. ListRules(d) \subseteq ListRules(c)
      BY <2>1, <3>2, <3>4, NoRules DEF CheckedOne, ListRules
    <3> QED BY <2>1, <3>1, <3>5 DEF CheckedOne, c, d
  <2> QED BY <1>2, <1>3, <2>1, CheckRuleIs
<1>4. CASE AddRule(a)
  <2>1. CASE TriedOne(c, d)
    <3>1. c.phase = "add" /\ c.pending # <<>> BY <1>4, AddRuleIs
    <3> HIDE DEF c, d
    <3>2. Head(c.pending) \in Rule
          /\ ToSet(c.pending) = {Head(c.pending)} \cup ToSet(Tail(c.pending))
      BY <1>1, <3>1, SeqParts
    <3>3. ToSet(d.attempted) = ToSet(c.attempted) \cup {Head(c.pending)}
      BY <1>1, <2>1, <3>2, SeqElements DEF TriedOne
    <3>4. ListRules(d) \subseteq ListRules(c)
      BY <2>1, <3>2, <3>3, NoRules DEF TriedOne, ListRules
    <3> QED BY <2>1, <3>1, <3>4 DEF TriedOne, c, d
  <2> QED BY <1>2, <1>4, <2>1, AddRuleIs
<1>5. CASE RollbackRule(a)
  <2>0. c.phase = "rollback" /\ c.attempted # <<>> BY <1>5, RollbackRuleIs
  <2>1. CASE /\ d.calls = c.calls /\ d.before = c.before /\ d.pending = c.pending
             /\ d.todo = <<>> /\ d.phase = "rollback" /\ d.attempted = Front(c.attempted)
    <3> HIDE DEF c, d
    <3>1. ToSet(c.attempted) = ToSet(Front(c.attempted)) \cup {Last(c.attempted)}
      BY <1>1, <2>0, SeqParts
    <3>2. ListRules(d) \subseteq ListRules(c) BY <2>1, <3>1, NoRules DEF ListRules
    <3> QED BY <2>0, <2>1, <3>2 DEF c, d
  <2> QED BY <1>2, <1>5, <2>1, RollbackRuleIs
<1>6. CASE RemoveCopies(a)
  <2>0. c.phase = "remove" /\ c.todo # <<>> BY <1>6, RemoveCopiesIs
  <2>1. CASE /\ d.calls = c.calls /\ d.phase = "remove" /\ d.todo = Tail(c.todo)
             /\ d.pending = <<>> /\ d.attempted = <<>>
    <3> HIDE DEF c, d
    <3>1. ToSet(c.todo) = {Head(c.todo)} \cup ToSet(Tail(c.todo)) BY <1>1, <2>0, SeqParts
    <3>2. ListRules(d) \subseteq ListRules(c) BY <2>1, <3>1, NoRules DEF ListRules
    <3> QED BY <2>1, <3>2 DEF c, d
  <2> QED BY <1>2, <1>6, <2>1, RemoveCopiesIs
<1> QED BY <1>3, <1>4, <1>5, <1>6 DEF Command

LEMMA TailOfOne ==
  ASSUME NEW S, NEW s \in Seq(S), Len(s) = 1
  PROVE  Tail(s) = <<>>
<1>1. s # <<>> OBVIOUS
<1> DEFINE t == Tail(s)
<1>2. t \in Seq(S) /\ Len(t) = 0 BY <1>1
<1> HIDE DEF t
<1>3. t = <<>> BY <1>2
<1> QED BY <1>3 DEF t

LEMMA ListStart == Init => ListInv
<1> SUFFICES ASSUME Init PROVE ListInv OBVIOUS
<1>1. \A a \in Actors : act[a].op = "idle" BY IdleIs DEF Init
<1> QED BY <1>1 DEF ListInv, ListsOk

\* What an operation begins with is its own.
LEMMA BegunOk ==
  ASSUME NEW d, NEW op, NEW v, NEW ps, NEW calls \in CallSeq, Begun(d, op, v, ps, calls),
         RulesIn(calls) \subseteq OwnRules(d),
         op \in {"create", "add"} => calls = <<>> \/ Tail(calls) = <<>>,
         op = "delete_vm" => ps = {}
  PROVE  ListsOk(d)
<1>1. d.op = op /\ d.ports = ps BY DEF Begun
<1> QED BY <1>1, BegunLists DEF ListsOk

LEMMA ListStep == TypeInv /\ ListInv /\ [Next]_vars => ListInv'
<1> SUFFICES ASSUME TypeInv, ListInv, [Next]_vars PROVE ListInv' OBVIOUS
<1>a. act \in [Actors -> ActRec] /\ "worker" \in Actors /\ "loop" \in Actors
      /\ vms \subseteq Vm /\ ports \subseteq Port /\ IsFiniteSet(ports)
  BY DEF TypeInv, Actors
<1>b. ListsOk(Idle) BY IdleIs DEF ListsOk
<1>c. ASSUME NEW a \in Actors, act' = [act EXCEPT ![a] = act'[a]], ListsOk(act'[a])
      PROVE  ListInv'
  <2>1. \A b \in Actors : b # a => act'[b] = act[b] BY <1>a, <1>c
  <2> QED BY <1>c, <2>1 DEF ListInv
<1>1. ASSUME NEW vmid \in Vmids, NEW ip \in Ips, ReserveVm(vmid, ip) PROVE ListInv'
  <2> DEFINE v == NewVm(vmid, ip)
             d == act'["worker"]
  <2>1. /\ v \in Vm /\ act' = [act EXCEPT !["worker"] = d] /\ ActOk(d) /\ d.op = "create"
        /\ d.vm = v /\ d.todo = DefaultCall(v)
        /\ d.calls = <<>> /\ d.pending = <<>> /\ d.attempted = <<>>
        /\ d.before = [r \in ToSet(DefaultCall(v)) |-> Copies(r, rules)]
    BY <1>1, ReserveVmIs
  <2>2. DOMAIN d.before = ToSet(DefaultCall(v)) BY <2>1
  <2> HIDE DEF v, d
  <2>3. ToSet(DefaultCall(v)) = DefaultRules(v) BY <2>1, DefaultCallType
  <2>4. OwnRules(d) = DefaultRules(v) BY <2>1 DEF OwnRules
  <2>5. ListsOk(d) BY <2>1, <2>2, <2>3, <2>4, NoRules DEF ListsOk, ListRules
  <2> QED BY <1>a, <1>c, <2>1, <2>5 DEF d
<1>2. ASSUME CreateEnd PROVE ListInv'
  <2> DEFINE d == act'["worker"]
             v == act["worker"].vm
             calls == IF act["worker"].ok THEN <<DefaultCall(v)>> ELSE <<>>
  <2>1. /\ v \in Vm /\ act' = [act EXCEPT !["worker"] = d]
        /\ d = Idle \/ Begun(d, "undo", v, {}, calls)
    BY <1>2, CreateEndIs
  <2>2. calls \in CallSeq /\ RulesIn(calls) \subseteq DefaultRules(v)
    <3>1. <<DefaultCall(v)>> \in CallSeq /\ RulesIn(<<DefaultCall(v)>>) = DefaultRules(v)
      BY <2>1, DefaultCallType
    <3> QED BY <3>1, NoRules DEF CallSeq
  <2> HIDE DEF d, v, calls
  <2>3. CASE Begun(d, "undo", v, {}, calls)
    <3>1. d.op = "undo" /\ d.vm = v BY <2>3 DEF Begun
    <3>2. OwnRules(d) = DefaultRules(v) BY <3>1 DEF OwnRules
    <3>3. ListsOk(d) BY <2>2, <2>3, <3>2, BegunOk
    <3> QED BY <1>a, <1>c, <2>1, <3>3 DEF d
  <2> QED BY <1>a, <1>b, <1>c, <2>1, <2>3 DEF d
<1>3. ASSUME UndoEnd PROVE ListInv' BY <1>3, <1>a, <1>b, <1>c, UndoEndIs
<1>4. ASSUME NEW op, NEW v, NEW ps, NEW calls \in CallSeq, LoopBegins(op, v, ps, calls),
             op \notin {"create", "undo"}, 
             op = "delete_vm" => ps = {} /\ RulesIn(calls) \subseteq {r \in Rule : r.ip = v.ip},
             op # "delete_vm" => RulesIn(calls) \subseteq UNION {RulesOf(p, v.ip) : p \in ps},
             op = "add" => calls = <<>> \/ Tail(calls) = <<>>
      PROVE  ListInv'
  <2> DEFINE d == act'["loop"]
  <2>1. Begun(d, op, v, ps, calls) /\ act' = [act EXCEPT !["loop"] = d]
    BY <1>4 DEF LoopBegins
  <2> HIDE DEF d
  <2>2. d.op = op /\ d.vm = v /\ d.ports = ps BY <2>1 DEF Begun
  <2>3. RulesIn(calls) \subseteq OwnRules(d) BY <1>4, <2>2 DEF OwnRules
  <2>4. ListsOk(d) BY <1>4, <2>1, <2>3, BegunOk
  <2> QED BY <1>a, <1>c, <2>1, <2>4 DEF d
<1>5. ASSUME NEW v \in vms, NEW i \in Internals, NEW pr \in Protocols, NEW s \in Sources,
             AddPort(v, i, pr, s)
      PROVE  ListInv'
  <2>1. PICK ext \in FreeExts :
           LET p == NewPort(v, i, ext, pr, s) IN
           /\ p \in Port /\ p.protocols = <<pr>>
           /\ CallsFor(p, v.ip) \in CallSeq
           /\ LoopBegins("add", v, {p}, CallsFor(p, v.ip))
    BY <1>5, AddPortIs
  <2> DEFINE p == NewPort(v, i, ext, pr, s)
             k == CallsFor(p, v.ip)
  <2>2. p \in Port /\ p.protocols = <<pr>> /\ k \in CallSeq /\ LoopBegins("add", v, {p}, k)
    BY <2>1
  <2> HIDE DEF p
  <2>3. v.ip \in Ips BY <1>a DEF Vm
  <2>4. RulesIn(k) = RulesOf(p, v.ip) /\ Len(k) = Len(p.protocols)
    BY <2>2, <2>3, CallsForType
  <2>5. Len(k) = 1 BY <2>2, <2>4
  <2> HIDE DEF k
  <2>6. Tail(k) = <<>>
    <3>1. k \in Seq(Seq(Rule)) BY <2>2 DEF CallSeq
    <3> QED BY <2>5, <3>1, TailOfOne
  <2>7. RulesIn(k) \subseteq UNION {RulesOf(q, v.ip) : q \in {p}} BY <2>4
  <2> QED BY <1>4, <2>2, <2>6, <2>7
<1>6. ASSUME NEW v \in vms, NEW p \in PortsOf(v), DeletePort(v, p) PROVE ListInv'
  <2>1. p \in Port /\ CallsFor(p, v.ip) \in CallSeq
        /\ LoopBegins("delete", v, {p}, CallsFor(p, v.ip))
    BY <1>6, DeletePortIs
  <2>2. v.ip \in Ips BY <1>a DEF Vm
  <2>3. RulesIn(CallsFor(p, v.ip)) \subseteq UNION {RulesOf(q, v.ip) : q \in {p}}
    BY <2>1, <2>2, CallsForType
  <2>4. "delete" \notin {"create", "undo"} /\ "delete" # "delete_vm" /\ "delete" # "add"
    OBVIOUS
  <2> QED BY <1>4, <2>1, <2>3, <2>4
<1>7. ASSUME NEW v \in vms, RestoreDefaults(v) PROVE ListInv'
  <2>1. v \in Vm /\ RestoreCalls(v) \in CallSeq
        /\ LoopBegins("restore", v, Missing(v), RestoreCalls(v))
    BY <1>7, RestoreDefaultsIs
  <2>2. RulesIn(RestoreCalls(v)) = UNION {RulesOf(p, v.ip) : p \in Missing(v)}
    BY <2>1, RestoreCallsType
  <2> QED BY <1>4, <2>1, <2>2
<1>8. ASSUME NEW v \in vms, DeleteVm(v) PROVE ListInv'
  <2>1. v \in Vm /\ DeleteVmCalls(v) \in CallSeq
        /\ LoopBegins("delete_vm", v, {}, DeleteVmCalls(v))
    BY <1>8, DeleteVmIs
  <2>2. \A r \in RulesIn(DeleteVmCalls(v)) : r \in Rule /\ r.ip = v.ip
    <3> SUFFICES ASSUME NEW r \in RulesIn(DeleteVmCalls(v)) PROVE r \in Rule /\ r.ip = v.ip
      OBVIOUS
    <3>1. PICK p \in PortsOf(v) \cup ToSet(DefaultPorts(v)) : r \in RulesOf(p, v.ip)
      BY <1>a, <2>1, DeleteVmCallsType
    <3>2. p \in Port /\ v.ip \in Ips BY <1>a, <2>1, DefaultPortsType DEF PortsOf, Vm
    <3> QED BY <3>1, <3>2, RuleFields
  <2>3. RulesIn(DeleteVmCalls(v)) \subseteq {r \in Rule : r.ip = v.ip} BY <2>2
  <2> QED BY <1>4, <2>1, <2>3
<1>9. ASSUME AddPortEnd \/ DeletePortEnd \/ RestoreEnd \/ DeleteVmEnd PROVE ListInv'
  BY <1>9, <1>a, <1>b, <1>c, LoopEndsIs
<1>10. ASSUME NEW a \in Actors, Command(a) PROVE ListInv'
  <2> DEFINE c == act[a]
             d == act'[a]
  <2>1. act' = [act EXCEPT ![a] = d] /\ SameOp(c, d) /\ c.op # "idle"
    BY <1>10, CommandActs
  <2>2. /\ ListRules(d) \subseteq ListRules(c)
        /\ d.phase \in {"check", "add", "rollback"} =>
             DOMAIN d.before \subseteq
               (IF c.phase \in {"check", "add", "rollback"} THEN DOMAIN c.before ELSE {})
                 \cup ListRules(c)
        /\ c.calls = <<>> => d.calls = <<>>
    BY <1>10, ListsShrink
  <2>3. ListsOk(c) BY DEF ListInv
  <2> HIDE DEF c, d
  <2>4. OwnRules(d) = OwnRules(c) /\ d.op = c.op /\ d.ports = c.ports
    BY <2>1, SameOwn DEF SameOp
  <2>5. ListsOk(d) BY <2>1, <2>2, <2>3, <2>4 DEF ListsOk
  <2> QED BY <1>c, <2>1, <2>5 DEF d
<1>11. ASSUME UNCHANGED vars PROVE ListInv' BY <1>11 DEF ListInv, vars
<1> QED BY <1>1, <1>2, <1>3, <1>5, <1>6, <1>7, <1>8, <1>9, <1>10, <1>11
     DEF Next, WorkerStep, LoopStep

-----------------------------------------------------------------------------
(* Custom ports keep their rules.                                           *)

\* No default port lies among the custom ones, 30000..39999 of
\* allocate_random_port: base_port + offset + VMID stays below.
CustomApart ==
  \A i \in DOMAIN Defaults, u \in Vmids : Defaults[i].offset + u \notin CustomExts

\* A command changes only rules on its actor's lists.
LEMMA CopiesStay ==
  ASSUME TypeInv, NEW a \in Actors, Command(a), NEW r, r \notin ListRules(act[a])
  PROVE  Copies(r, rules') = Copies(r, rules)
<1> DEFINE c == act[a]
<1>0. IsABag(rules) /\ c \in ActRec BY DEF TypeInv
<1>1. /\ c.todo \in Seq(Rule) /\ c.attempted \in Seq(Rule) /\ c.pending \in Seq(Rule)
      /\ r \notin ToSet(c.todo) /\ r \notin ToSet(c.pending) /\ r \notin ToSet(c.attempted)
  BY <1>0 DEF ActRec, ListRules
<1> HIDE DEF c
<1>2. CASE CheckRule(a) BY <1>2, CheckRuleIs
<1>3. CASE AddRule(a)
  <2>1. c.pending # <<>>
        /\ (rules' = rules \/ rules' = rules (+) SetToBag({Head(c.pending)}))
    BY <1>3, AddRuleIs DEF c
  <2>2. r # Head(c.pending) BY <1>1, <2>1, SeqParts
  <2> DEFINE x == Head(c.pending)
  <2> HIDE DEF x
  <2>3. Copies(r, rules (+) SetToBag({x})) = Copies(r, rules) BY <1>0, <2>2, BagAdd DEF x
  <2> QED BY <2>1, <2>3 DEF x
<1>4. CASE RollbackRule(a)
  <2>1. c.attempted # <<>>
        /\ (rules' = rules \/ rules' = rules (-) SetToBag({Last(c.attempted)}))
    BY <1>4, RollbackRuleIs DEF c
  <2>2. r # Last(c.attempted) BY <1>1, <2>1, SeqParts
  <2> DEFINE x == Last(c.attempted)
  <2> HIDE DEF x
  <2>3. Copies(r, rules (-) SetToBag({x})) = Copies(r, rules) BY <1>0, <2>2, BagTake DEF x
  <2> QED BY <2>1, <2>3 DEF x
<1>5. CASE RemoveCopies(a)
  <2>1. c.todo # <<>>
        /\ (rules' = rules \/ rules' = [e \in DOMAIN rules \ {Head(c.todo)} |-> rules[e]])
    BY <1>5, RemoveCopiesIs DEF c
  <2>2. r # Head(c.todo) BY <1>1, <2>1, SeqParts
  <2> DEFINE x == Head(c.todo)
  <2> HIDE DEF x
  <2>3. Copies(r, [e \in DOMAIN rules \ {x} |-> rules[e]]) = Copies(r, rules)
    BY <1>0, <2>2, BagDrop DEF x
  <2> QED BY <2>1, <2>3 DEF x
<1> QED BY <1>2, <1>3, <1>4, <1>5 DEF Command

LEMMA RuleStays ==
  ASSUME TypeInv, NEW a \in Actors, Command(a), NEW r \in DOMAIN rules,
         r \notin ListRules(act[a])
  PROVE  r \in DOMAIN rules'
<1>1. IsABag(rules) /\ IsABag(rules') BY CommandActs DEF TypeInv
<1>2. Copies(r, rules) > 0 BY <1>1, CopiesCount
<1>3. Copies(r, rules') > 0 BY <1>2, CopiesStay
<1> QED BY <1>1, <1>3, CopiesCount

LEMMA DefaultsApart ==
  ASSUME CustomApart, NEW v \in Vm
  PROVE  /\ \A p \in ToSet(DefaultPorts(v)) : p.external \notin CustomExts
         /\ \A r \in DefaultRules(v) : r.chain = "PREROUTING" => r.dport \notin CustomExts
<1>1. \A p \in ToSet(DefaultPorts(v)) : p \in Port /\ p.external \notin CustomExts
  <2> SUFFICES ASSUME NEW p \in ToSet(DefaultPorts(v))
               PROVE  p \in Port /\ p.external \notin CustomExts
    OBVIOUS
  <2>1. PICK n \in 1..Len(Defaults) : p = DefaultPort(Defaults[n], v) BY DefaultPortsType
  <2>2. n \in DOMAIN Defaults BY PortAssumption
  <2>3. p.external = Defaults[n].offset + v.vmid BY <2>1 DEF DefaultPort
  <2> QED BY <2>2, <2>3, DefaultPortsType DEF CustomApart, Vm
<1>2. ASSUME NEW r \in DefaultRules(v), r.chain = "PREROUTING" PROVE r.dport \notin CustomExts
  <2>1. PICK p \in ToSet(DefaultPorts(v)) : r \in RulesOf(p, v.ip) BY DEF DefaultRules
  <2>2. p \in Port /\ v.ip \in Ips BY <1>1 DEF Vm
  <2>3. r.dport = p.external BY <1>2, <2>1, <2>2, RuleFields
  <2> QED BY <1>1, <2>3
<1> QED BY <1>1, <1>2

\* Whose rules the worker and restore_default_ports touch: default ones.
LEMMA ListsApart ==
  ASSUME CustomApart, TypeInv, ListInv, NEW a \in Actors,
         act[a].op \in {"create", "undo", "restore"},
         NEW r \in ListRules(act[a]), r.chain = "PREROUTING"
  PROVE  r.dport \notin CustomExts
<1> DEFINE c == act[a]
           v == c.vm
<1>1. ActOk(c) /\ ListsOk(c) /\ RestoresDefaults(c) BY DEF TypeInv, ListInv
<1>2. v \in Vm BY <1>1 DEF ActOk
<1>3. r \in OwnRules(c) BY <1>1 DEF ListsOk
<1>4. r \in DefaultRules(v)
  <2>1. CASE c.op \in {"create", "undo"} BY <1>3, <2>1 DEF OwnRules
  <2>2. CASE c.op = "restore"
    <3>1. PICK p \in c.ports : r \in RulesOf(p, v.ip) BY <1>3, <2>2 DEF OwnRules
    <3>2. p \in ToSet(DefaultPorts(v)) BY <1>1, <2>2 DEF RestoresDefaults
    <3> QED BY <3>1, <3>2 DEF DefaultRules
  <2> QED BY <2>1, <2>2
<1> HIDE DEF v, c
<1> QED BY <1>2, <1>4, DefaultsApart

\* The DNAT rules the event loop touches lead to no custom port but those it
\* works on.
ForeignInv ==
  LET l == act["loop"] IN
  l.op # "idle" =>
    \A r \in ListRules(l), p \in ports :
      r.chain = "PREROUTING" /\ ~p.is_default /\ p.external = r.dport =>
        p \in l.ports \/ (l.op = "delete_vm" /\ p.vm = l.vm.id)

LEMMA ForeignStart == Init => ForeignInv
BY IdleIs DEF Init, ForeignInv, Actors

LEMMA ForeignStep ==
  ASSUME CustomApart
  PROVE  TypeInv /\ RowInv /\ ListInv /\ ForeignInv /\ [Next]_vars => ForeignInv'
<1> SUFFICES ASSUME TypeInv, RowInv, ListInv, ForeignInv, [Next]_vars PROVE ForeignInv' OBVIOUS
<1> DEFINE l == act["loop"]
<1>a. /\ act \in [Actors -> ActRec] /\ "worker" \in Actors /\ "loop" \in Actors
      /\ vms \subseteq Vm /\ ports \subseteq Port /\ IsFiniteSet(ports)
      /\ \A p \in ports : p.external \in CustomExts \/ p.is_default
      /\ \A p, q \in ports : p.external = q.external => p = q
  BY DEF TypeInv, Actors, RowInv
<1>b. l.op # "idle" =>
        \A r \in ListRules(l), p \in ports :
          r.chain = "PREROUTING" /\ ~p.is_default /\ p.external = r.dport =>
            p \in l.ports \/ (l.op = "delete_vm" /\ p.vm = l.vm.id)
  BY DEF ForeignInv
<1>c. ASSUME act'["loop"] = l,
             \A p \in ports' : p \in ports \/ p.is_default
      PROVE  ForeignInv'
  BY <1>b, <1>c DEF ForeignInv
<1>1. ASSUME NEW vmid \in Vmids, NEW ip \in Ips, ReserveVm(vmid, ip) PROVE ForeignInv'
  <2> DEFINE v == NewVm(vmid, ip)
  <2>1. /\ v \in Vm /\ ports' = ports \cup ToSet(DefaultPorts(v))
        /\ act' = [act EXCEPT !["worker"] = act'["worker"]]
    BY <1>1, ReserveVmIs
  <2> HIDE DEF v
  <2>2. \A p \in ToSet(DefaultPorts(v)) : p.is_default BY <2>1, DefaultPortsType
  <2> QED BY <1>a, <1>c, <2>1, <2>2
<1>2. ASSUME CreateEnd PROVE ForeignInv'
  <2>1. ports' = ports /\ act' = [act EXCEPT !["worker"] = act'["worker"]]
    BY <1>2, CreateEndIs
  <2> QED BY <1>a, <1>c, <2>1
<1>3. ASSUME UndoEnd PROVE ForeignInv'
  <2>1. ports' \subseteq ports /\ act' = [act EXCEPT !["worker"] = act'["worker"]]
    BY <1>3, UndoEndIs
  <2> QED BY <1>a, <1>c, <2>1
<1>4. ASSUME NEW op, NEW v, NEW ps, NEW calls \in CallSeq, LoopBegins(op, v, ps, calls),
             \A r \in RulesIn(calls), p \in ports' :
               r.chain = "PREROUTING" /\ ~p.is_default /\ p.external = r.dport =>
                 p \in ps \/ (op = "delete_vm" /\ p.vm = v.id)
      PROVE  ForeignInv'
  <2> DEFINE d == act'["loop"]
  <2>1. Begun(d, op, v, ps, calls) BY <1>4 DEF LoopBegins
  <2>2. d.op = op /\ d.vm = v /\ d.ports = ps BY <2>1 DEF Begun
  <2>3. ListRules(d) = RulesIn(calls) BY <2>1, BegunLists
  <2> HIDE DEF d
  <2>4. \A r \in ListRules(d), p \in ports' :
          r.chain = "PREROUTING" /\ ~p.is_default /\ p.external = r.dport =>
            p \in d.ports \/ (d.op = "delete_vm" /\ p.vm = d.vm.id)
    BY <1>4, <2>2, <2>3
  <2> QED BY <2>4 DEF ForeignInv, d
<1>5. ASSUME NEW v \in vms, NEW i \in Internals, NEW pr \in Protocols, NEW s \in Sources,
             AddPort(v, i, pr, s)
      PROVE  ForeignInv'
  <2>1. PICK ext \in FreeExts :
           LET p == NewPort(v, i, ext, pr, s) IN
           /\ p \in Port /\ p.external = ext /\ ports' = ports \cup {p}
           /\ CallsFor(p, v.ip) \in CallSeq
           /\ LoopBegins("add", v, {p}, CallsFor(p, v.ip))
    BY <1>5, AddPortIs
  <2> DEFINE p == NewPort(v, i, ext, pr, s)
             k == CallsFor(p, v.ip)
  <2>2. p \in Port /\ p.external = ext /\ ports' = ports \cup {p} /\ k \in CallSeq
        /\ LoopBegins("add", v, {p}, k)
    BY <2>1
  <2> HIDE DEF p
  <2>3. v.ip \in Ips BY <1>a DEF Vm
  <2>4. RulesIn(k) = RulesOf(p, v.ip) BY <2>2, <2>3, CallsForType
  <2>5. \A r \in RulesIn(k) : r.chain = "PREROUTING" => r.dport = p.external
    BY <2>2, <2>3, <2>4, RuleFields
  <2>6. \A q \in ports : q.external # p.external BY <2>2 DEF FreeExts, Externals
  <2>7. \A r \in RulesIn(k), q \in ports' :
          r.chain = "PREROUTING" /\ q.external = r.dport => q = p
    BY <2>2, <2>5, <2>6
  <2> HIDE DEF k
  <2> QED BY <1>4, <2>2, <2>7
<1>6. ASSUME NEW v \in vms, NEW p \in PortsOf(v), DeletePort(v, p) PROVE ForeignInv'
  <2> DEFINE k == CallsFor(p, v.ip)
  <2>1. p \in ports /\ p \in Port /\ ports' = ports /\ k \in CallSeq
        /\ LoopBegins("delete", v, {p}, k)
    BY <1>6, DeletePortIs
  <2>2. v.ip \in Ips BY <1>a DEF Vm
  <2>3. RulesIn(k) = RulesOf(p, v.ip) BY <2>1, <2>2, CallsForType
  <2>4. \A r \in RulesIn(k) : r.chain = "PREROUTING" => r.dport = p.external
    BY <2>1, <2>2, <2>3, RuleFields
  <2>5. \A r \in RulesIn(k), q \in ports' :
          r.chain = "PREROUTING" /\ q.external = r.dport => q = p
    BY <1>a, <2>1, <2>4
  <2> HIDE DEF k
  <2> QED BY <1>4, <2>1, <2>5
<1>7. ASSUME NEW v \in vms, RestoreDefaults(v) PROVE ForeignInv'
  <2> DEFINE k == RestoreCalls(v)
  <2>1. v \in Vm /\ ports' = ports /\ Missing(v) \subseteq ToSet(DefaultPorts(v))
        /\ k \in CallSeq /\ LoopBegins("restore", v, Missing(v), k)
    BY <1>7, RestoreDefaultsIs
  <2>2. RulesIn(k) \subseteq DefaultRules(v)
    <3>1. RulesIn(k) = UNION {RulesOf(p, v.ip) : p \in Missing(v)} BY <2>1, RestoreCallsType
    <3> QED BY <2>1, <3>1 DEF DefaultRules
  <2>3. \A r \in RulesIn(k) : r.chain = "PREROUTING" => r.dport \notin CustomExts
    BY <2>1, <2>2, DefaultsApart
  <2> HIDE DEF k
  <2>4. \A r \in RulesIn(k), p \in ports' :
          ~(r.chain = "PREROUTING" /\ ~p.is_default /\ p.external = r.dport)
    BY <1>a, <2>1, <2>3
  <2> QED BY <1>4, <2>1, <2>4
<1>8. ASSUME NEW v \in vms, DeleteVm(v) PROVE ForeignInv'
  <2> DEFINE k == DeleteVmCalls(v)
  <2>1. v \in Vm /\ ports' = ports /\ k \in CallSeq /\ LoopBegins("delete_vm", v, {}, k)
    BY <1>8, DeleteVmIs
  <2>2. ASSUME NEW r \in RulesIn(k), NEW q \in ports', r.chain = "PREROUTING",
               ~q.is_default, q.external = r.dport
        PROVE  q.vm = v.id
    <3>1. PICK p \in PortsOf(v) \cup ToSet(DefaultPorts(v)) : r \in RulesOf(p, v.ip)
      BY <1>a, <2>1, DeleteVmCallsType
    <3>2. p \in Port /\ v.ip \in Ips BY <1>a, <2>1, DefaultPortsType DEF PortsOf, Vm
    <3>3. p.external = q.external BY <2>2, <3>1, <3>2, RuleFields
    <3>4. q.external \in CustomExts BY <1>a, <2>1, <2>2
    <3>5. p \in PortsOf(v) BY <2>1, <3>1, <3>3, <3>4, DefaultsApart
    <3>6. p \in ports /\ p.vm = v.id BY <3>5 DEF PortsOf
    <3> QED BY <1>a, <2>1, <3>3, <3>6
  <2> HIDE DEF k
  <2> QED BY <1>4, <2>1, <2>2
<1>9. ASSUME AddPortEnd \/ DeletePortEnd \/ RestoreEnd \/ DeleteVmEnd PROVE ForeignInv'
  BY <1>9, IdleIs, LoopEndsIs DEF ForeignInv
<1>10. ASSUME NEW a \in Actors, Command(a) PROVE ForeignInv'
  <2>1. ports' = ports /\ act' = [act EXCEPT ![a] = act'[a]] /\ SameOp(act[a], act'[a])
    BY <1>10, CommandActs
  <2>2. CASE a = "worker" BY <1>a, <1>c, <2>1, <2>2
  <2>3. CASE a = "loop"
    <3> DEFINE d == act'["loop"]
    <3>1. ListRules(d) \subseteq ListRules(l) BY <1>10, <2>3, ListsShrink
    <3>2. SameOp(l, d) BY <2>1, <2>3
    <3> HIDE DEF d, l
    <3>3. d.op # "idle" =>
            \A r \in ListRules(d), p \in ports :
              r.chain = "PREROUTING" /\ ~p.is_default /\ p.external = r.dport =>
                p \in d.ports \/ (d.op = "delete_vm" /\ p.vm = d.vm.id)
      BY <1>b, <3>1, <3>2 DEF SameOp
    <3> QED BY <2>1, <3>3 DEF ForeignInv, d
  <2> QED BY <2>2, <2>3 DEF Actors
<1>11. ASSUME UNCHANGED vars PROVE ForeignInv' BY <1>11 DEF ForeignInv, vars
<1> QED BY <1>1, <1>2, <1>3, <1>5, <1>6, <1>7, <1>8, <1>9, <1>10, <1>11
     DEF Next, WorkerStep, LoopStep

\* The DNAT rule of a custom port.
DnatOf(p, ip) == CustomRules(p, p.protocols[1], ip)[1]

\* add_custom_port brings its DNAT rule to the gateway unless the call fails:
\* the rule waits to be inspected or added, or it is there.
Adds(c, p) ==
  LET r == DnatOf(p, c.vm.ip)
      there == r \in DOMAIN rules
  IN /\ c.phase = "check" => there \/ r \in ToSet(c.todo) \cup ToSet(c.pending)
     /\ c.phase = "add" => there \/ r \in ToSet(c.pending)
     /\ c.phase = "end" /\ c.ok => there

AddInv ==
  LET l == act["loop"] IN
  l.op = "add" =>
    \E p \in Port :
      /\ l.ports = {p} /\ p.vm = l.vm.id
      /\ ~p.is_default /\ p.external \in CustomExts /\ DOMAIN p.protocols = {1}
      /\ Adds(l, p)

LEMMA DnatOfType ==
  ASSUME NEW p \in Port, NEW ip \in Ips, DOMAIN p.protocols = {1}
  PROVE  /\ DnatOf(p, ip) \in RulesOf(p, ip)
         /\ DnatOf(p, ip).chain = "PREROUTING" /\ DnatOf(p, ip).dport = p.external
<1>1. p.protocols[1] \in Protocols /\ p.protocols[1] \in ToSet(p.protocols)
  BY DEF Port, ToSet
<1>2. DnatOf(p, ip) = Dnat(Normalize(p.source), p.protocols[1], p.external, ip, p.internal)
      /\ DnatOf(p, ip) \in ToSet(CustomRules(p, p.protocols[1], ip))
  BY <1>1, CustomRulesType DEF DnatOf
<1> QED BY <1>1, <1>2 DEF RulesOf, Dnat

\* A command of add_custom_port's call.
LEMMA AddsStep ==
  ASSUME TypeInv, ListInv, NEW a \in Actors, Command(a), act[a].op = "add", NEW p,
         Adds(act[a], p)
  PROVE  Adds(act[a], p)'
<1> DEFINE c == act[a]
           d == act'[a]
           r == DnatOf(p, c.vm.ip)
<1>0. ActOk(c) /\ c \in ActRec /\ ListsOk(c) /\ IsABag(rules) BY DEF TypeInv, ActOk, ListInv
<1>1. c.calls = <<>> /\ c.calls \in CallSeq /\ c.todo \in Seq(Rule) /\ c.pending \in Seq(Rule)
  BY <1>0 DEF ListsOk, ActRec
<1>2. d.vm = c.vm BY CommandActs DEF SameOp
<1>3. /\ c.phase = "check" => r \in DOMAIN rules \/ r \in ToSet(c.todo) \cup ToSet(c.pending)
      /\ c.phase = "add" => r \in DOMAIN rules \/ r \in ToSet(c.pending)
  BY DEF Adds
<1>4. SUFFICES /\ d.phase = "check" =>
                    r \in DOMAIN rules' \/ r \in ToSet(d.todo) \cup ToSet(d.pending)
               /\ d.phase = "add" => r \in DOMAIN rules' \/ r \in ToSet(d.pending)
               /\ d.phase = "end" /\ d.ok => r \in DOMAIN rules'
  BY <1>2 DEF Adds
<1>5. \A res, found : Opens(c, d, res, found) => d.phase = "end" /\ d.ok = res
  BY <1>1 DEF Opens
<1> HIDE DEF c, d, r
<1>6. CASE CheckRule(a)
  <2>0. c.phase = "check" /\ c.todo # <<>> /\ rules' = rules BY <1>6, CheckRuleIs DEF c
  <2>1. Head(c.todo) \in Rule /\ ToSet(c.todo) = {Head(c.todo)} \cup ToSet(Tail(c.todo))
    BY <1>1, <2>0, SeqParts
  <2>2. CASE CheckedOne(c, d)
    <3>1. ToSet(Append(c.pending, Head(c.todo))) = ToSet(c.pending) \cup {Head(c.todo)}
      BY <1>1, <2>1, SeqElements
    <3>2. \/ Head(c.todo) \in DOMAIN rules /\ ToSet(d.pending) = ToSet(c.pending)
          \/ ToSet(d.pending) = ToSet(c.pending) \cup {Head(c.todo)}
      BY <2>2, <3>1 DEF CheckedOne, BagIn, BagToSet
    <3>3. d.todo = Tail(c.todo) /\ d.phase = IF Tail(c.todo) = <<>> THEN "add" ELSE "check"
      BY <2>2 DEF CheckedOne
    <3> QED BY <1>3, <2>0, <2>1, <3>2, <3>3, NoRules
  <2>3. CASE /\ Opens(c, d, TRUE, rules) /\ Tail(c.todo) = <<>> /\ c.pending = <<>>
             /\ BagIn(Head(c.todo), rules)
    <3>1. d.phase = "end" BY <1>5, <2>3
    <3>2. Head(c.todo) \in DOMAIN rules BY <2>3 DEF BagIn, BagToSet
    <3> QED BY <1>3, <2>0, <2>1, <2>3, <3>1, <3>2, NoRules
  <2>4. CASE Opens(c, d, FALSE, rules) BY <1>5, <2>4
  <2> QED BY <1>6, <2>2, <2>3, <2>4, CheckRuleIs DEF c, d
<1>7. CASE AddRule(a)
  <2> DEFINE x == Head(c.pending)
             b == rules (+) SetToBag({x})
  <2>0. c.phase = "add" /\ c.pending # <<>> /\ x \in Rule BY <1>7, AddRuleIs DEF c
  <2>1. ToSet(c.pending) = {x} \cup ToSet(Tail(c.pending)) BY <1>1, <2>0, SeqParts
  <2>2. DOMAIN b = DOMAIN rules \cup {x} BY <1>0, BagAdd
  <2>3. \/ TriedOne(c, d) /\ d.phase = "add" /\ rules' = b
        \/ TriedOne(c, d) /\ d.phase = "rollback"
        \/ Opens(c, d, TRUE, rules') /\ Tail(c.pending) = <<>> /\ rules' = b
    BY <1>7, AddRuleIs DEF c, d
  <2> HIDE DEF x, b
  <2>4. CASE TriedOne(c, d) /\ d.phase = "add" /\ rules' = b
    <3>1. d.pending = Tail(c.pending) BY <2>4 DEF TriedOne
    <3> QED BY <1>3, <2>0, <2>1, <2>2, <2>4, <3>1
  <2>5. CASE Opens(c, d, TRUE, rules') /\ Tail(c.pending) = <<>> /\ rules' = b
    <3>1. d.phase = "end" BY <1>5, <2>5
    <3> QED BY <1>3, <2>0, <2>1, <2>2, <2>5, <3>1, NoRules
  <2> QED BY <2>3, <2>4, <2>5
<1>8. CASE RollbackRule(a)
  <2>1. d.phase = "rollback" \/ Opens(c, d, FALSE, rules') BY <1>8, RollbackRuleIs DEF c, d
  <2> QED BY <1>5, <2>1
<1>9. CASE RemoveCopies(a)
  <2>1. FALSE BY <1>9, RemoveCopiesIs DEF Deleting
  <2> QED BY <2>1
<1> QED BY <1>6, <1>7, <1>8, <1>9 DEF Command

LEMMA AddStart == Init => AddInv
BY IdleIs DEF Init, AddInv, Actors

LEMMA AddStep ==
  ASSUME CustomApart
  PROVE  TypeInv /\ ListInv /\ AddInv /\ [Next]_vars => AddInv'
<1> SUFFICES ASSUME TypeInv, ListInv, AddInv, [Next]_vars PROVE AddInv' OBVIOUS
<1> DEFINE l == act["loop"]
<1>a. /\ act \in [Actors -> ActRec] /\ "worker" \in Actors /\ "loop" \in Actors
      /\ vms \subseteq Vm
  BY DEF TypeInv, Actors
<1>b. ASSUME act'["loop"] = l,
             l.op = "add" => \A r : r.chain = "PREROUTING" /\ r.dport \in CustomExts
                                      => (r \in DOMAIN rules => r \in DOMAIN rules')
      PROVE  AddInv'
  <2> SUFFICES ASSUME l.op = "add"
               PROVE  \E p \in Port :
                        /\ l.ports = {p} /\ p.vm = l.vm.id
                        /\ ~p.is_default /\ p.external \in CustomExts
                        /\ DOMAIN p.protocols = {1} /\ Adds(l, p)'
    BY <1>b DEF AddInv
  <2>1. PICK p \in Port : /\ l.ports = {p} /\ p.vm = l.vm.id
                          /\ ~p.is_default /\ p.external \in CustomExts
                          /\ DOMAIN p.protocols = {1} /\ Adds(l, p)
    BY DEF AddInv
  <2>2. l.vm.ip \in Ips BY DEF TypeInv, ActOk, Vm, Actors
  <2> DEFINE r == DnatOf(p, l.vm.ip)
  <2>3. r.chain = "PREROUTING" /\ r.dport = p.external BY <2>1, <2>2, DnatOfType
  <2>4. r \in DOMAIN rules => r \in DOMAIN rules' BY <1>b, <2>1, <2>3
  <2>5. Adds(l, p)' BY <1>b, <2>1, <2>4 DEF Adds
  <2> QED BY <2>1, <2>5
<1>c. ASSUME act'["loop"] = l, rules' = rules PROVE AddInv'
  BY <1>b, <1>c
<1>1. ASSUME NEW vmid \in Vmids, NEW ip \in Ips, ReserveVm(vmid, ip) PROVE AddInv'
  <2>1. rules' = rules /\ act' = [act EXCEPT !["worker"] = act'["worker"]]
    BY <1>1, ReserveVmIs
  <2> QED BY <1>a, <1>c, <2>1
<1>2. ASSUME CreateEnd PROVE AddInv'
  <2>1. rules' = rules /\ act' = [act EXCEPT !["worker"] = act'["worker"]]
    BY <1>2, CreateEndIs
  <2> QED BY <1>a, <1>c, <2>1
<1>3. ASSUME UndoEnd PROVE AddInv' BY <1>3, <1>a, <1>c, UndoEndIs
<1>4. ASSUME NEW op, NEW v, NEW ps, NEW calls, LoopBegins(op, v, ps, calls), op # "add"
      PROVE  AddInv'
  BY <1>4 DEF LoopBegins, Begun, AddInv
<1>5. ASSUME NEW v \in vms, NEW i \in Internals, NEW pr \in Protocols, NEW s \in Sources,
             AddPort(v, i, pr, s)
      PROVE  AddInv'
  <2>1. PICK ext \in FreeExts :
           LET p == NewPort(v, i, ext, pr, s) IN
           /\ p \in Port /\ p.vm = v.id /\ p.external = ext /\ ~p.is_default
           /\ p.protocols = <<pr>>
           /\ CallsFor(p, v.ip) \in CallSeq
           /\ LoopBegins("add", v, {p}, CallsFor(p, v.ip))
    BY <1>5, AddPortIs
  <2> DEFINE p == NewPort(v, i, ext, pr, s)
             k == CallsFor(p, v.ip)
             d == act'["loop"]
  <2>2. /\ p \in Port /\ p.vm = v.id /\ p.external = ext /\ ~p.is_default /\ p.protocols = <<pr>>
        /\ k \in CallSeq /\ Begun(d, "add", v, {p}, k)
    BY <2>1 DEF LoopBegins
  <2> HIDE DEF p, d
  <2>3. v.ip \in Ips BY <1>a DEF Vm
  <2>4. DOMAIN p.protocols = {1}
    <3>1. DOMAIN <<pr>> = {1} OBVIOUS
    <3> QED BY <2>2, <3>1
  <2>5. RulesIn(k) = RulesOf(p, v.ip) BY <2>2, <2>3, CallsForType
  <2> HIDE DEF k
  <2>6. d.op = "add" /\ d.vm = v /\ d.ports = {p} BY <2>2 DEF Begun
  <2>7. DnatOf(p, v.ip) \in RulesIn(k) BY <2>2, <2>3, <2>4, <2>5, DnatOfType
  <2>8. RulesIn(k) = ToSet(d.todo) /\ d.phase = "check"
    <3>1. Tail(k) = <<>> \/ k = <<>> => d.calls = <<>> BY <2>2, BegunLists
    <3>2a. ActOk(d) BY <2>2 DEF Begun
    <3>2. /\ d.phase \in {"check", "remove", "end"}
          /\ (d.phase = "end" => RulesIn(k) = {})
          /\ (d.phase \in {"check", "remove"} => ToSet(d.todo) \cup RulesIn(d.calls) = RulesIn(k))
      BY <2>2, BegunLists
    <3>3. d.phase = "check" BY <2>6, <2>7, <3>2, <3>2a DEF ActOk, Deleting
    <3>4. d.calls = <<>>
      <4>1. k \in Seq(Seq(Rule)) BY <2>2 DEF CallSeq
      <4>2. Len(k) = Len(p.protocols) BY <2>2, <2>3, CallsForType DEF k
      <4>3. Len(p.protocols) = 1 BY <2>2
      <4> QED BY <3>1, <4>1, <4>2, <4>3, TailOfOne
    <3> QED BY <3>2, <3>3, <3>4, NoRules
  <2>9. ext \in CustomExts BY DEF FreeExts
  <2>10. \E q \in Port : /\ d.ports = {q} /\ q.vm = d.vm.id /\ ~q.is_default /\ q.external \in CustomExts
                         /\ DOMAIN q.protocols = {1} /\ Adds(act["loop"], q)'
    <3>1. Adds(act["loop"], p)' BY <2>6, <2>7, <2>8 DEF Adds, d
    <3> QED BY <2>2, <2>4, <2>6, <2>9, <3>1
  <2> QED BY <2>10 DEF AddInv, d
<1>6. ASSUME NEW v \in vms, NEW p \in PortsOf(v), DeletePort(v, p) PROVE AddInv'
  BY <1>4, <1>6, DeletePortIs
<1>7. ASSUME NEW v \in vms, RestoreDefaults(v) PROVE AddInv'
  BY <1>4, <1>7, RestoreDefaultsIs
<1>8. ASSUME NEW v \in vms, DeleteVm(v) PROVE AddInv'
  BY <1>4, <1>8, DeleteVmIs
<1>9. ASSUME AddPortEnd \/ DeletePortEnd \/ RestoreEnd \/ DeleteVmEnd PROVE AddInv'
  BY <1>9, IdleIs, LoopEndsIs DEF AddInv
<1>10. ASSUME NEW a \in Actors, Command(a) PROVE AddInv'
  <2>1. act' = [act EXCEPT ![a] = act'[a]] /\ SameOp(act[a], act'[a])
        /\ act[a].op # "idle" /\ act[a].op \in OpsOf(a)
    BY <1>10, CommandActs DEF TypeInv
  <2>2. CASE a = "worker"
    <3>1. act["worker"].op \in {"create", "undo", "restore"}
      BY <2>1, <2>2 DEF OpsOf, WorkerOps
    <3>2. \A r \in ListRules(act["worker"]) :
            r.chain = "PREROUTING" => r.dport \notin CustomExts
      BY <1>a, <3>1, ListsApart
    <3>3. \A r \in DOMAIN rules :
            r.chain = "PREROUTING" /\ r.dport \in CustomExts => r \in DOMAIN rules'
      BY <1>10, <2>2, <3>2, RuleStays
    <3> QED BY <1>a, <1>b, <2>1, <2>2, <3>3
  <2>3. CASE a = "loop" /\ l.op = "add"
    <3>1. PICK p \in Port : /\ l.ports = {p} /\ p.vm = l.vm.id
                            /\ ~p.is_default /\ p.external \in CustomExts
                            /\ DOMAIN p.protocols = {1} /\ Adds(l, p)
      BY <2>3 DEF AddInv
    <3>2. Adds(act["loop"], p)' BY <1>10, <2>3, <3>1, AddsStep
    <3> QED BY <2>1, <2>3, <3>1, <3>2 DEF AddInv, SameOp
  <2>4. CASE a = "loop" /\ l.op # "add" BY <2>1, <2>4 DEF AddInv, SameOp
  <2> QED BY <2>2, <2>3, <2>4 DEF Actors
<1>11. ASSUME UNCHANGED vars PROVE AddInv' BY <1>11, <1>c DEF vars
<1> QED BY <1>1, <1>2, <1>3, <1>5, <1>6, <1>7, <1>8, <1>9, <1>10, <1>11
     DEF Next, WorkerStep, LoopStep

\* The step that keeps every custom port served.
LEMMA ServedStep ==
  ASSUME CustomApart
  PROVE  /\ TypeInv /\ RowInv /\ ListInv /\ ForeignInv /\ AddInv /\ CustomPortServed
         /\ [Next]_vars
         => CustomPortServed'
<1> SUFFICES ASSUME TypeInv, RowInv, ListInv, ForeignInv, AddInv, CustomPortServed, [Next]_vars
             PROVE  CustomPortServed'
  OBVIOUS
<1> DEFINE l == act["loop"]
           D(p, n, v) == CustomRules(p, p.protocols[n], v.ip)[1]
           Away(c, p, v) == p \in c.ports \/ (c.op = "delete_vm" /\ c.vm.id = v.id)
<1>a. /\ act \in [Actors -> ActRec] /\ "worker" \in Actors /\ "loop" \in Actors
      /\ vms \subseteq Vm /\ ports \subseteq Port /\ IsFiniteSet(ports) /\ IsABag(rules)
      /\ \A p \in ports : p.external \in CustomExts \/ p.is_default
      /\ l.op # "idle" => l.vm \in Vm
  BY DEF TypeInv, Actors, ActOk
<1>b. ASSUME NEW v \in vms, NEW p \in ports, p.vm = v.id, ~p.is_default, ~Away(l, p, v),
             NEW n \in DOMAIN p.protocols
      PROVE  D(p, n, v) \in DOMAIN rules
  BY <1>b DEF CustomPortServed, PortsOf, BagIn, BagToSet
<1>c. SUFFICES ASSUME NEW v \in vms', NEW p \in ports', p.vm = v.id, ~p.is_default,
                      ~Away(act'["loop"], p, v), NEW n \in DOMAIN p.protocols
               PROVE  D(p, n, v) \in DOMAIN rules'
  <2>1. \A v \in vms', p \in ports' :
          p.vm = v.id /\ ~p.is_default /\ ~Away(act'["loop"], p, v) =>
            \A n \in DOMAIN p.protocols : D(p, n, v) \in DOMAIN rules'
    BY <1>c
  <2> QED BY <2>1 DEF CustomPortServed, PortsOf, BagIn, BagToSet
<1>d. Idle.op = "idle" /\ Idle.ports = {} BY IdleIs
<1>e. ASSUME \A u \in vms : u.ip = v.ip /\ u.id = v.id => ~Away(l, p, u), p \in ports,
             \E u \in vms : u.id = v.id /\ u.ip = v.ip, rules' = rules
      PROVE  D(p, n, v) \in DOMAIN rules'
  <2>1. PICK u \in vms : u.id = v.id /\ u.ip = v.ip BY <1>e
  <2>2. D(p, n, u) \in DOMAIN rules BY <1>b, <1>c, <1>e, <2>1
  <2> QED BY <1>e, <2>1, <2>2
<1> HIDE DEF D
<1>1. ASSUME NEW vmid \in Vmids, NEW ip \in Ips, ReserveVm(vmid, ip)
      PROVE  D(p, n, v) \in DOMAIN rules'
  <2> DEFINE u == NewVm(vmid, ip)
  <2>1. /\ u \in Vm /\ Fresh(u.id) /\ vms' = vms \cup {u} /\ rules' = rules
        /\ ports' = ports \cup ToSet(DefaultPorts(u))
        /\ act' = [act EXCEPT !["worker"] = act'["worker"]]
    BY <1>1, ReserveVmIs
  <2> HIDE DEF u
  <2>2. \A q \in ToSet(DefaultPorts(u)) : q.is_default BY <2>1, DefaultPortsType
  <2>3. p \in ports BY <1>c, <2>1, <2>2
  <2>4. PICK x \in vms : x.id = p.vm BY <2>3 DEF RowInv
  <2>5. v # u BY <1>c, <2>1, <2>4 DEF Fresh
  <2>6. act'["loop"] = l BY <1>a, <2>1
  <2> QED BY <1>c, <1>e, <2>1, <2>3, <2>5, <2>6
<1>2. ASSUME CreateEnd PROVE D(p, n, v) \in DOMAIN rules'
  <2> DEFINE x == act["worker"].vm
             y == [x EXCEPT !.ready = TRUE]
  <2>1. /\ x \in Vm /\ ports' = ports /\ rules' = rules
        /\ act' = [act EXCEPT !["worker"] = act'["worker"]]
        /\ vms' = vms \/ (Startable(x) /\ vms' = (vms \ {x}) \cup {y})
    BY <1>2, CreateEndIs
  <2>2. act'["loop"] = l BY <1>a, <2>1
  <2>3. y.id = x.id /\ y.ip = x.ip BY <2>1 DEF Vm
  <2> HIDE DEF x, y
  <2>4. \E u \in vms : u.id = v.id /\ u.ip = v.ip BY <1>c, <2>1, <2>3 DEF Startable
  <2> QED BY <1>c, <1>e, <2>1, <2>2, <2>4
<1>3. ASSUME UndoEnd PROVE D(p, n, v) \in DOMAIN rules'
  <2>1. /\ vms' \subseteq vms /\ ports' \subseteq ports /\ rules' = rules
        /\ act' = [act EXCEPT !["worker"] = act'["worker"]]
    BY <1>3, UndoEndIs
  <2>2. act'["loop"] = l BY <1>a, <2>1
  <2> QED BY <1>c, <1>e, <2>1, <2>2
<1>4. ASSUME l = Idle, vms' = vms, rules' = rules, p \in ports
      PROVE  D(p, n, v) \in DOMAIN rules'
  BY <1>4, <1>b, <1>c, <1>d
<1>5. ASSUME NEW u \in vms, NEW i \in Internals, NEW pr \in Protocols, NEW s \in Sources,
             AddPort(u, i, pr, s)
      PROVE  D(p, n, v) \in DOMAIN rules'
  <2>1. PICK ext \in FreeExts :
           LET q == NewPort(u, i, ext, pr, s) IN
           /\ ports' = ports \cup {q}
           /\ LoopBegins("add", u, {q}, CallsFor(q, u.ip))
    BY <1>5, AddPortIs
  <2> DEFINE q == NewPort(u, i, ext, pr, s)
  <2>2. ports' = ports \cup {q} /\ LoopBegins("add", u, {q}, CallsFor(q, u.ip)) BY <2>1
  <2> HIDE DEF q
  <2>3. q \in act'["loop"].ports BY <2>2 DEF LoopBegins, Begun
  <2>4. l = Idle /\ vms' = vms /\ rules' = rules BY <2>2 DEF LoopBegins
  <2>5. p \in ports BY <1>c, <2>2, <2>3
  <2> QED BY <1>4, <2>4, <2>5
<1>6. ASSUME NEW u \in vms, NEW q \in PortsOf(u), DeletePort(u, q)
      PROVE  D(p, n, v) \in DOMAIN rules'
  BY <1>4, <1>6, <1>c, DeletePortIs DEF LoopBegins
<1>7. ASSUME NEW u \in vms, RestoreDefaults(u) PROVE D(p, n, v) \in DOMAIN rules'
  BY <1>4, <1>7, <1>c, RestoreDefaultsIs DEF LoopBegins
<1>8. ASSUME NEW u \in vms, DeleteVm(u) PROVE D(p, n, v) \in DOMAIN rules'
  BY <1>4, <1>8, <1>c, DeleteVmIs DEF LoopBegins
<1>9. ASSUME AddPortEnd \/ DeletePortEnd \/ RestoreEnd \/ DeleteVmEnd
      PROVE  D(p, n, v) \in DOMAIN rules'
  <2>1. /\ l.phase = "end" /\ l.op \in {"add", "delete", "restore", "delete_vm"} /\ l.vm \in Vm
        /\ rules' = rules
        /\ l.op # "delete_vm" => vms' = vms
        /\ l.op = "delete_vm" =>
             vms' = {x \in vms : x.id # l.vm.id} /\ ports' = ports \ PortsOf(l.vm)
        /\ l.op = "delete" => ports' = ports \ l.ports
        /\ l.op = "add" => ports' = IF l.ok THEN ports ELSE ports \ l.ports
        /\ l.op = "restore" => ports' = ports \/ ports' = ports \cup l.ports
    BY <1>9, LoopEndsIs
  <2>2. l.op = "restore" => \A q \in l.ports : q.is_default
    BY <1>a, <2>1, DefaultPortsType DEF TypeInv, RestoresDefaults
  <2>3. p \in ports /\ v \in vms BY <1>c, <2>1, <2>2
  <2>4. CASE ~Away(l, p, v) BY <1>b, <1>c, <2>1, <2>3, <2>4
  <2>4a. l.op = "delete_vm" => l.ports = {} BY <1>a DEF ListInv, ListsOk
  <2>5. CASE l.op = "delete_vm" /\ l.vm.id = v.id BY <1>c, <2>1, <2>5
  <2>6. CASE p \in l.ports /\ l.op # "delete_vm"
    <3>1. l.op = "add" /\ l.ok BY <1>c, <2>1, <2>2, <2>6
    <3>2. PICK q \in Port : l.ports = {q} /\ q.vm = l.vm.id /\ DOMAIN q.protocols = {1} /\ Adds(l, q)
      BY <3>1 DEF AddInv
    <3>3. p = q /\ n = 1 BY <1>c, <2>6, <3>2
    <3>4. DnatOf(p, l.vm.ip) \in DOMAIN rules BY <2>1, <3>1, <3>2, <3>3 DEF Adds
    <3>5. p.vm = l.vm.id BY <3>2, <3>3
    <3>6. l.vm.ip = v.ip BY <1>c, <2>1, <2>3, <3>5 DEF RowInv, SameVm
    <3> QED BY <2>1, <3>3, <3>4, <3>6 DEF DnatOf, D
  <2> QED BY <2>4, <2>4a, <2>5, <2>6
<1>10. ASSUME NEW a \in Actors, Command(a) PROVE D(p, n, v) \in DOMAIN rules'
  <2>1. /\ vms' = vms /\ ports' = ports /\ act' = [act EXCEPT ![a] = act'[a]]
        /\ SameOp(act[a], act'[a]) /\ act[a].op # "idle" /\ act[a].op \in OpsOf(a)
    BY <1>10, CommandActs DEF TypeInv
  <2>2. act'["loop"].op = l.op /\ act'["loop"].vm = l.vm /\ act'["loop"].ports = l.ports
    BY <1>a, <2>1 DEF SameOp, Actors
  <2>3. ~Away(l, p, v) BY <1>c, <2>2
  <2>4. D(p, n, v) \in DOMAIN rules BY <1>b, <1>c, <2>1, <2>3
  <2>5. p \in Port /\ v.ip \in Ips /\ p.protocols[n] \in Protocols
        /\ p.external \in CustomExts
    BY <1>a, <1>c, <2>1 DEF Vm, Port
  <2>6. D(p, n, v).chain = "PREROUTING" /\ D(p, n, v).dport = p.external
    <3>1. D(p, n, v) = Dnat(Normalize(p.source), p.protocols[n], p.external, v.ip, p.internal)
      BY <2>5, CustomRulesType DEF D
    <3> QED BY <3>1 DEF Dnat
  <2>7. CASE a = "worker"
    <3>1. act["worker"].op \in {"create", "undo", "restore"}
      BY <2>1, <2>7 DEF OpsOf, WorkerOps
    <3>2. D(p, n, v) \notin ListRules(act["worker"])
      BY <1>a, <2>5, <2>6, <3>1, ListsApart
    <3> QED BY <1>10, <2>4, <2>7, <3>2, RuleStays
  <2>8. CASE a = "loop"
    <3>1. D(p, n, v) \notin ListRules(act["loop"])
      BY <1>c, <2>1, <2>3, <2>6, <2>8 DEF ForeignInv
    <3> QED BY <1>10, <2>4, <2>8, <3>1, RuleStays
  <2> QED BY <2>7, <2>8 DEF Actors
<1>11. ASSUME UNCHANGED vars PROVE D(p, n, v) \in DOMAIN rules'
  BY <1>11, <1>b, <1>c DEF vars
<1> QED BY <1>1, <1>2, <1>3, <1>5, <1>6, <1>7, <1>8, <1>9, <1>10, <1>11
     DEF Next, WorkerStep, LoopStep

LEMMA ServedStart == Init => CustomPortServed
BY DEF Init, CustomPortServed

\* A custom port the event loop is not working on keeps its DNAT rules,
\* whatever fails and whoever acts on the VM: add_custom_port drops a record
\* whose rules it could not add, and no call for other ports, of either
\* actor, takes the rules away.
THEOREM PortsAreServed ==
  ASSUME CustomApart
  PROVE  Spec => []CustomPortServed
<1>1. /\ TypeInv /\ RowInv /\ ListInv /\ ForeignInv /\ AddInv /\ CustomPortServed
      /\ [Next]_vars
      => /\ TypeInv' /\ RowInv' /\ ListInv' /\ ForeignInv' /\ AddInv' /\ CustomPortServed'
  BY TypeStep, RowStep, ListStep, ForeignStep, AddStep, ServedStep
<1>2. Init => TypeInv /\ RowInv /\ ListInv /\ ForeignInv /\ AddInv /\ CustomPortServed
  BY TypeStart, RowStart, ListStart, ForeignStart, AddStart, ServedStart
<1> QED BY <1>1, <1>2, PTL DEF Spec

-----------------------------------------------------------------------------
(* VMs that are ready: the two actors never work on the same one.           *)

\* As long as nobody acts on a VM whose creation is running, the worker's row
\* is in the table with exactly its default ports, the event loop's row is in
\* the table and ready, and the records add and delete work on are there.
OwnInv ==
  LET w == act["worker"]
      l == act["loop"]
  IN /\ w.op # "idle" => w.vm \in vms /\ PortsOf(w.vm) = ToSet(DefaultPorts(w.vm))
     /\ l.op # "idle" => l.vm \in vms /\ l.vm.ready /\ \A p \in l.ports : p.vm = l.vm.id
     /\ l.op \in {"add", "delete"} => l.ports \subseteq ports

LEMMA TwoVms ==
  ASSUME RowInv, OwnInv, act["worker"].op # "idle", act["loop"].op # "idle"
  PROVE  /\ act["worker"].vm # act["loop"].vm
         /\ act["worker"].vm.id # act["loop"].vm.id /\ act["worker"].vm.ip # act["loop"].vm.ip
BY DEF RowInv, OwnInv

LEMMA OwnStart == Init => OwnInv
BY IdleIs DEF Init, OwnInv, Actors

LEMMA OwnStep ==
  ASSUME ~Early
  PROVE  TypeInv /\ RowInv /\ OwnInv /\ [Next]_vars => OwnInv'
<1> SUFFICES ASSUME TypeInv, RowInv, OwnInv, [Next]_vars PROVE OwnInv' OBVIOUS
<1> DEFINE w == act["worker"]
           l == act["loop"]
           P(v) == {p \in ports' : p.vm = v.id}
<1>a. /\ act \in [Actors -> ActRec] /\ "worker" \in Actors /\ "loop" \in Actors
      /\ vms \subseteq Vm
  BY DEF TypeInv, Actors
<1>b. /\ w.op # "idle" => w.vm \in vms /\ PortsOf(w.vm) = ToSet(DefaultPorts(w.vm))
      /\ l.op # "idle" => l.vm \in vms /\ l.vm.ready /\ \A p \in l.ports : p.vm = l.vm.id
      /\ l.op \in {"add", "delete"} => l.ports \subseteq ports
      /\ w.op # "idle" => ~w.vm.ready
      /\ w.op # "idle" /\ l.op # "idle" => w.vm # l.vm /\ w.vm.id # l.vm.id
      /\ \A p \in ports : \E v \in vms : v.id = p.vm
      /\ \A u, v \in vms : u.id = v.id => u = v
  BY TwoVms DEF OwnInv, RowInv
<1>c. Idle.op = "idle" BY IdleIs
<1>d. ( /\ act'["worker"].op # "idle" =>
             act'["worker"].vm \in vms' /\ P(act'["worker"].vm) = ToSet(DefaultPorts(act'["worker"].vm))
        /\ act'["loop"].op # "idle" =>
             /\ act'["loop"].vm \in vms' /\ act'["loop"].vm.ready
             /\ \A p \in act'["loop"].ports : p.vm = act'["loop"].vm.id
        /\ act'["loop"].op \in {"add", "delete"} => act'["loop"].ports \subseteq ports')
      => OwnInv'
  BY DEF OwnInv, PortsOf
<1>1. CASE \E vmid \in Vmids, ip \in Ips : ReserveVm(vmid, ip)
  <2>0. PICK vmid \in Vmids, ip \in Ips : ReserveVm(vmid, ip) BY <1>1
  <2> DEFINE u == NewVm(vmid, ip)
  <2>1. /\ u \in Vm /\ Fresh(u.id) /\ vms' = vms \cup {u}
        /\ ports' = ports \cup ToSet(DefaultPorts(u))
        /\ act' = [act EXCEPT !["worker"] = act'["worker"]] /\ act'["worker"].vm = u
    BY <2>0, ReserveVmIs
  <2> HIDE DEF u
  <2>2. \A q \in ToSet(DefaultPorts(u)) : q.vm = u.id BY <2>1, DefaultPortsType
  <2>3. act'["loop"] = l BY <1>a, <2>1
  <2>4. \A p \in ports : p.vm # u.id BY <1>b, <2>1 DEF Fresh
  <2>5. P(u) = ToSet(DefaultPorts(u)) BY <2>1, <2>2, <2>4
  <2> HIDE DEF P
  <2> QED BY <1>b, <1>d, <2>1, <2>3, <2>5
<1>2. CASE CreateEnd
  <2>1. /\ w.op = "create" /\ ports' = ports
        /\ act' = [act EXCEPT !["worker"] = act'["worker"]]
        /\ \/ act'["worker"] = Idle
              /\ vms' = (vms \ {w.vm}) \cup {[w.vm EXCEPT !.ready = TRUE]}
           \/ vms' = vms /\ act'["worker"].vm = w.vm
    BY <1>2, CreateEndIs DEF Begun
  <2>2. act'["loop"] = l BY <1>a, <2>1
  <2>3. P(w.vm) = PortsOf(w.vm) BY <2>1 DEF PortsOf
  <2> HIDE DEF P
  <2> QED BY <1>b, <1>c, <1>d, <2>1, <2>2, <2>3
<1>3. CASE UndoEnd
  <2>1. /\ w.op = "undo" /\ vms' = vms \ {w.vm} /\ ports' = ports \ PortsOf(w.vm)
        /\ act'["worker"] = Idle /\ act'["loop"] = l
    BY <1>3, <1>a, UndoEndIs
  <2> QED BY <1>b, <1>c, <1>d, <2>1 DEF PortsOf
<1>4. ASSUME NEW op, NEW v, NEW ps, NEW calls, LoopBegins(op, v, ps, calls),
             \A p \in ps : p.vm = v.id, op \in {"add", "delete"} => ps \subseteq ports',
             \A p \in ports' : p.vm # v.id => p \in ports, ports \subseteq ports'
      PROVE  OwnInv'
  <2>1. /\ v \in vms /\ vms' = vms /\ v.ready /\ act'["worker"] = w
        /\ act'["loop"].op = op /\ act'["loop"].vm = v /\ act'["loop"].ports = ps
    BY <1>4, <1>a DEF LoopBegins, Begun
  <2>2. w.op # "idle" => w.vm # v /\ w.vm.id # v.id BY <1>b, <2>1
  <2>3. w.op # "idle" => P(w.vm) = PortsOf(w.vm) BY <1>4, <2>2 DEF PortsOf
  <2> HIDE DEF P
  <2> QED BY <1>4, <1>b, <1>d, <2>1, <2>3
<1>5. ASSUME NEW v \in vms, NEW i \in Internals, NEW pr \in Protocols, NEW s \in Sources,
             AddPort(v, i, pr, s)
      PROVE  OwnInv'
  <2>1. PICK ext \in FreeExts :
           LET p == NewPort(v, i, ext, pr, s) IN
           p.vm = v.id /\ ports' = ports \cup {p} /\ LoopBegins("add", v, {p}, CallsFor(p, v.ip))
    BY <1>5, AddPortIs
  <2> DEFINE p == NewPort(v, i, ext, pr, s)
  <2>2. p.vm = v.id /\ ports' = ports \cup {p} /\ LoopBegins("add", v, {p}, CallsFor(p, v.ip))
    BY <2>1
  <2> HIDE DEF p
  <2> QED BY <1>4, <2>2
<1>6. ASSUME NEW v \in vms, NEW p \in PortsOf(v), DeletePort(v, p) PROVE OwnInv'
  <2>1. /\ p \in ports /\ p.vm = v.id /\ ports' = ports
        /\ LoopBegins("delete", v, {p}, CallsFor(p, v.ip))
    BY <1>6, DeletePortIs
  <2> QED BY <1>4, <2>1
<1>7. ASSUME NEW v \in vms, RestoreDefaults(v) PROVE OwnInv'
  <2>1. /\ v \in Vm /\ Missing(v) \subseteq ToSet(DefaultPorts(v)) /\ ports' = ports
        /\ LoopBegins("restore", v, Missing(v), RestoreCalls(v))
    BY <1>7, RestoreDefaultsIs
  <2>2. \A p \in Missing(v) : p.vm = v.id BY <2>1, DefaultPortsType
  <2> QED BY <1>4, <2>1, <2>2
<1>8. ASSUME NEW v \in vms, DeleteVm(v) PROVE OwnInv' BY <1>4, <1>8, DeleteVmIs
<1>9. CASE AddPortEnd \/ DeletePortEnd \/ RestoreEnd \/ DeleteVmEnd
  <2>1. /\ l.op \in {"add", "delete", "restore", "delete_vm"}
        /\ act'["loop"] = Idle /\ act'["worker"] = w
        /\ l.op # "delete_vm" => vms' = vms
        /\ l.op = "delete_vm" =>
             vms' = {x \in vms : x.id # l.vm.id} /\ ports' = ports \ PortsOf(l.vm)
        /\ l.op = "delete" => ports' = ports \ l.ports
        /\ l.op = "add" => ports' = IF l.ok THEN ports ELSE ports \ l.ports
        /\ l.op = "restore" => ports' = ports \/ ports' = ports \cup l.ports
    BY <1>9, <1>a, LoopEndsIs
  <2>2. \A p : p.vm # l.vm.id => (p \in ports' <=> p \in ports)
    BY <1>b, <2>1 DEF PortsOf
  <2>3. w.op # "idle" => w.vm \in vms' /\ P(w.vm) = PortsOf(w.vm)
    BY <1>b, <2>1, <2>2 DEF PortsOf
  <2> HIDE DEF P
  <2> QED BY <1>b, <1>c, <1>d, <2>1, <2>3
<1>10. ASSUME NEW a \in Actors, Command(a) PROVE OwnInv'
  <2>1. /\ vms' = vms /\ ports' = ports /\ act' = [act EXCEPT ![a] = act'[a]]
        /\ SameOp(act[a], act'[a])
    BY <1>10, CommandActs
  <2>2. SameOp(w, act'["worker"]) /\ SameOp(l, act'["loop"])
    BY <1>a, <2>1 DEF SameOp, Actors
  <2>3. \A v : P(v) = PortsOf(v) BY <2>1 DEF PortsOf
  <2> HIDE DEF P
  <2> QED BY <1>b, <1>d, <2>1, <2>2, <2>3 DEF SameOp
<1>11. CASE UNCHANGED vars
  <2>1. \A v : P(v) = PortsOf(v) BY <1>11 DEF PortsOf, vars
  <2> HIDE DEF P
  <2> QED BY <1>11, <1>b, <1>d, <2>1 DEF vars
<1> QED BY <1>1, <1>2, <1>3, <1>5, <1>6, <1>7, <1>8, <1>9, <1>10, <1>11
     DEF Next, WorkerStep, LoopStep

-----------------------------------------------------------------------------
(* The rollback.                                                            *)

\* While a call adds rules, each of them is as the call found it and is left
\* alone, or it was absent and the call has attempted every copy there is.
RollOk(c, b) ==
  c.phase \in {"check", "add", "rollback"} =>
    \A r \in DOMAIN c.before :
      \/ /\ Copies(r, b) = c.before[r]
         /\ r \notin ToSet(c.pending) \cup ToSet(c.attempted)
      \/ c.before[r] = 0 /\ Copies(r, b) <= Occ(r, c.attempted)

RollInv == \A a \in Actors : RollOk(act[a], rules)

LEMMA BegunRolls ==
  ASSUME NEW d, NEW op, NEW v, NEW ps, NEW calls, Begun(d, op, v, ps, calls)
  PROVE  RollOk(d, rules)
<1>1. CASE calls = <<>> BY <1>1 DEF Begun, RollOk
<1>2. CASE calls # <<>>
  <2>1. d.before = [r \in ToSet(Head(calls)) |-> Copies(r, rules)]
        /\ d.pending = <<>> /\ d.attempted = <<>>
    BY <1>2 DEF Begun
  <2>2. \A r \in DOMAIN d.before : Copies(r, rules) = d.before[r] BY <2>1
  <2> QED BY <2>1, <2>2, NoRules DEF RollOk
<1> QED BY <1>1, <1>2

LEMMA OpensRolls ==
  ASSUME NEW c, NEW d, NEW res, NEW found, Opens(c, d, res, found)
  PROVE  RollOk(d, found)
<1>1. CASE c.calls = <<>> BY <1>1 DEF Opens, RollOk
<1>2. CASE c.calls # <<>>
  <2>1. d.before = [r \in ToSet(Head(c.calls)) |-> Copies(r, found)]
        /\ d.pending = <<>> /\ d.attempted = <<>>
    BY <1>2 DEF Opens
  <2>2. \A r \in DOMAIN d.before : Copies(r, found) = d.before[r] BY <2>1
  <2> QED BY <2>1, <2>2, NoRules DEF RollOk
<1> QED BY <1>1, <1>2

\* One -D of the rollback takes back what one -A may have added.
LEMMA TakenBack ==
  ASSUME TypeInv, NEW a \in Actors, RollbackRule(a), "rollback" \notin Faults,
         RollOk(act[a], rules)
  PROVE  \A r \in DOMAIN act[a].before :
           \/ /\ Copies(r, rules') = act[a].before[r]
              /\ r \notin ToSet(act[a].pending) \cup ToSet(act[a].attempted)
           \/ /\ act[a].before[r] = 0
              /\ Copies(r, rules') <= Occ(r, Front(act[a].attempted))
<1> DEFINE c == act[a]
           x == Last(c.attempted)
<1>0. IsABag(rules) /\ c \in ActRec /\ c.phase = "rollback" BY DEF TypeInv, RollbackRule
<1>1. c.attempted \in Seq(Rule) /\ c.attempted # <<>> /\ c.before \in Founds
      /\ rules' = rules (-) SetToBag({x})
  BY <1>0, RollbackRuleIs DEF ActRec, Fault
<1>2. TAKE r \in DOMAIN c.before
<1>3. \/ Copies(r, rules) = c.before[r] /\ r \notin ToSet(c.pending) \cup ToSet(c.attempted)
      \/ c.before[r] = 0 /\ Copies(r, rules) <= Occ(r, c.attempted)
  BY <1>0, <1>2 DEF RollOk
<1> HIDE DEF c
<1>4. x \in ToSet(c.attempted) BY <1>1, SeqParts
<1>5. /\ Copies(r, rules) \in Nat /\ Occ(r, c.attempted) \in Nat
      /\ Occ(r, Front(c.attempted)) \in Nat
  <2>1. Front(c.attempted) \in Seq(Rule) BY <1>1, SeqParts
  <2> QED BY <1>0, <1>1, <2>1, CopiesCount, OccIsNat
<1>6. Occ(r, c.attempted)
        = IF r = x THEN Occ(r, Front(c.attempted)) + 1 ELSE Occ(r, Front(c.attempted))
  BY <1>1, OccFront
<1>7. r \in DOMAIN rules <=> Copies(r, rules) > 0 BY <1>0, CopiesCount
<1>8. Copies(r, rules')
        = IF r = x /\ r \in DOMAIN rules THEN Copies(r, rules) - 1 ELSE Copies(r, rules)
  <2> HIDE DEF x
  <2> QED BY <1>0, <1>1, BagTake
<1> HIDE DEF x
<1>9. CASE r = x
  <2>1. c.before[r] = 0 /\ Copies(r, rules) <= Occ(r, c.attempted) BY <1>3, <1>4, <1>9
  <2>2. Copies(r, rules') <= Occ(r, Front(c.attempted))
    BY <1>5, <1>6, <1>7, <1>8, <1>9, <2>1
  <2> QED BY <2>1, <2>2 DEF c
<1>10. CASE r # x BY <1>3, <1>6, <1>8, <1>10 DEF c
<1> QED BY <1>9, <1>10

LEMMA RollCommand ==
  ASSUME TypeInv, NEW a \in Actors, Command(a), "rollback" \notin Faults,
         RollOk(act[a], rules)
  PROVE  RollOk(act'[a], rules')
<1> DEFINE c == act[a]
           d == act'[a]
<1>0. ActOk(c) /\ c \in ActRec /\ IsABag(rules) BY DEF TypeInv
<1>1. c.todo \in Seq(Rule) /\ c.pending \in Seq(Rule) /\ c.attempted \in Seq(Rule)
  BY <1>0 DEF ActRec
<1>2. CASE CheckRule(a)
  <2>0. c.phase = "check" /\ c.todo # <<>> /\ rules' = rules BY <1>2, CheckRuleIs
  <2>1. CASE CheckedOne(c, d)
    <3>1. c.attempted = <<>> BY <1>0, <2>0 DEF ActOk
    <3>2. \A r \in DOMAIN c.before :
            \/ Copies(r, rules) = c.before[r] /\ r \notin ToSet(c.pending)
            \/ c.before[r] = 0 /\ Copies(r, rules) <= Occ(r, c.attempted)
      BY <2>0, <3>1 DEF RollOk
    <3> DEFINE x == Head(c.todo)
    <3>3. x \in Rule BY <1>1, <2>0, SeqParts
    <3>4. /\ d.before = c.before /\ d.attempted = c.attempted
          /\ d.pending = IF BagIn(x, rules) THEN c.pending ELSE Append(c.pending, x)
      BY <2>1, <3>1 DEF CheckedOne
    <3> HIDE DEF c, d, x
    <3>5. ToSet(Append(c.pending, x)) = ToSet(c.pending) \cup {x} BY <1>1, <3>3, SeqElements
    <3>6. ~BagIn(x, rules) => Copies(x, rules) = 0 BY DEF Copies
    <3>7. \A r : Occ(r, c.attempted) \in Nat BY <1>1, OccIsNat
    <3>8. \A r \in DOMAIN d.before :
            \/ Copies(r, rules) = d.before[r] /\ r \notin ToSet(d.pending)
            \/ d.before[r] = 0 /\ Copies(r, rules) <= Occ(r, d.attempted)
      <4> TAKE r \in DOMAIN d.before
      <4>1. CASE BagIn(x, rules) BY <3>2, <3>4, <4>1
      <4>2. CASE ~BagIn(x, rules) /\ r # x BY <3>2, <3>4, <3>5, <4>2
      <4>3. CASE ~BagIn(x, rules) /\ r = x
        <5>1. Copies(r, rules) = 0 /\ 0 <= Occ(r, c.attempted) BY <3>6, <3>7, <4>3
        <5> QED BY <3>2, <3>4, <5>1
      <4> QED BY <4>1, <4>2, <4>3
    <3> QED BY <2>0, <3>1, <3>4, <3>8, NoRules DEF RollOk, d
  <2> QED BY <1>2, <2>0, <2>1, CheckRuleIs, OpensRolls
<1>3. CASE AddRule(a)
  <2> DEFINE x == Head(c.pending)
             b == rules (+) SetToBag({x})
  <2>0. c.phase = "add" /\ c.pending # <<>> /\ x \in Rule BY <1>3, AddRuleIs
  <2>1. CASE TriedOne(c, d) /\ (rules' = rules \/ rules' = b)
    <3>1. \A r \in DOMAIN c.before :
            \/ /\ Copies(r, rules) = c.before[r]
               /\ r \notin ToSet(c.pending) /\ r \notin ToSet(c.attempted)
            \/ c.before[r] = 0 /\ Copies(r, rules) <= Occ(r, c.attempted)
      BY <2>0 DEF RollOk
    <3>2. d.before = c.before /\ d.pending = Tail(c.pending)
          /\ d.attempted = Append(c.attempted, x)
      BY <2>1 DEF TriedOne
    <3>3. rules' = rules \/ rules' = b BY <2>1
    <3> HIDE DEF c, d, x
    <3>4. ToSet(c.pending) = {x} \cup ToSet(Tail(c.pending)) BY <1>1, <2>0, SeqParts DEF x
    <3>5. ToSet(d.attempted) = ToSet(c.attempted) \cup {x} BY <1>1, <2>0, <3>2, SeqElements
    <3>6. \A r : /\ Copies(r, rules) \in Nat /\ Occ(r, c.attempted) \in Nat
                 /\ Occ(r, d.attempted)
                      = IF r = x THEN Occ(r, c.attempted) + 1 ELSE Occ(r, c.attempted)
                 /\ Copies(r, b) = IF r = x THEN Copies(r, rules) + 1 ELSE Copies(r, rules)
      <4> TAKE r
      <4>1. Copies(r, rules) \in Nat BY <1>0, CopiesCount
      <4>2. Occ(r, c.attempted) \in Nat BY <1>1, OccIsNat
      <4>3. Occ(r, Append(c.attempted, x))
              = IF r = x THEN Occ(r, c.attempted) + 1 ELSE Occ(r, c.attempted)
        BY <1>1, <2>0, OccAppend
      <4>4. Copies(r, b) = IF r = x THEN Copies(r, rules) + 1 ELSE Copies(r, rules)
        BY <1>0, BagAdd
      <4> QED BY <3>2, <4>1, <4>2, <4>3, <4>4
    <3> HIDE DEF b
    <3>7. \A r \in DOMAIN d.before :
            \/ /\ Copies(r, rules') = d.before[r]
               /\ r \notin ToSet(d.pending) \cup ToSet(d.attempted)
            \/ d.before[r] = 0 /\ Copies(r, rules') <= Occ(r, d.attempted)
      <4> TAKE r \in DOMAIN d.before
      <4>1. CASE r = x
        <5>1. c.before[r] = 0 /\ Copies(r, rules) <= Occ(r, c.attempted)
          BY <3>1, <3>2, <3>4, <4>1
        <5>2. Copies(r, rules') <= Occ(r, d.attempted)
          <6> DEFINE n == Copies(r, rules)
                     m == Occ(r, c.attempted)
          <6>1. n \in Nat /\ m \in Nat /\ n <= m /\ Occ(r, d.attempted) = m + 1
                /\ (Copies(r, rules') = n \/ Copies(r, rules') = n + 1)
            BY <3>3, <3>6, <4>1, <5>1
          <6> HIDE DEF n, m
          <6> QED BY <6>1
        <5> QED BY <3>2, <5>1, <5>2
      <4>2. CASE r # x
        <5>1. Copies(r, rules') = Copies(r, rules) BY <3>3, <3>6, <4>2
        <5>2. Occ(r, d.attempted) = Occ(r, c.attempted) BY <3>6, <4>2
        <5>3. r \in ToSet(d.pending) => r \in ToSet(c.pending) BY <3>2, <3>4
        <5>4. r \in ToSet(d.attempted) => r \in ToSet(c.attempted) BY <3>5, <4>2
        <5> QED BY <3>1, <3>2, <5>1, <5>2, <5>3, <5>4
      <4> QED BY <4>1, <4>2
    <3> QED BY <3>7 DEF RollOk, d
  <2> QED BY <1>3, <2>1, AddRuleIs, OpensRolls
<1>4. CASE RollbackRule(a)
  <2>1. CASE /\ d.before = c.before /\ d.pending = c.pending
             /\ d.attempted = Front(c.attempted)
    <3>1. \A r \in DOMAIN c.before :
            \/ /\ Copies(r, rules') = c.before[r]
               /\ r \notin ToSet(c.pending) \cup ToSet(c.attempted)
            \/ c.before[r] = 0 /\ Copies(r, rules') <= Occ(r, Front(c.attempted))
      BY <1>4, TakenBack
    <3>2. c.attempted # <<>> BY <1>4, RollbackRuleIs
    <3> HIDE DEF c, d
    <3>3. ToSet(Front(c.attempted)) \subseteq ToSet(c.attempted) BY <1>1, <3>2, SeqParts
    <3> QED BY <2>1, <3>1, <3>3 DEF RollOk, d
  <2> QED BY <1>4, <2>1, RollbackRuleIs, OpensRolls
<1>5. CASE RemoveCopies(a)
  <2>1. ActOk(d) /\ SameOp(c, d) /\ c.op \in Deleting
    BY <1>5, RemoveCopiesIs, CommandActs DEF Command
  <2>2. d.phase \notin {"check", "add", "rollback"}
    BY <2>1 DEF ActOk, SameOp, Adding, Deleting
  <2> QED BY <2>2 DEF RollOk
<1> QED BY <1>2, <1>3, <1>4, <1>5 DEF Command

LEMMA RollStart == Init => RollInv
BY IdleIs DEF Init, RollInv, RollOk

LEMMA RollStep ==
  ASSUME ~Early, "rollback" \notin Faults
  PROVE  TypeInv /\ RowInv /\ ListInv /\ OwnInv /\ RollInv /\ [Next]_vars => RollInv'
<1> SUFFICES ASSUME TypeInv, RowInv, ListInv, OwnInv, RollInv, [Next]_vars PROVE RollInv'
  OBVIOUS
<1>a. /\ act \in [Actors -> ActRec] /\ "worker" \in Actors /\ "loop" \in Actors
      /\ vms \subseteq Vm
  BY DEF TypeInv, Actors
<1>b. \A a \in Actors : RollOk(act[a], rules) BY DEF RollInv
<1>c. ASSUME NEW a \in Actors, act' = [act EXCEPT ![a] = act'[a]], rules' = rules,
             RollOk(act'[a], rules)
      PROVE  RollInv'
  <2>1. \A b \in Actors : b # a => act'[b] = act[b] BY <1>a, <1>c
  <2> QED BY <1>b, <1>c, <2>1 DEF RollInv
<1>d. RollOk(Idle, rules) BY IdleIs DEF RollOk
<1>1. ASSUME NEW vmid \in Vmids, NEW ip \in Ips, ReserveVm(vmid, ip) PROVE RollInv'
  <2> DEFINE v == NewVm(vmid, ip)
             d == act'["worker"]
             dc == DefaultCall(v)
  <2>1. /\ act' = [act EXCEPT !["worker"] = d] /\ rules' = rules
        /\ d.pending = <<>> /\ d.attempted = <<>>
        /\ d.before = [r \in ToSet(dc) |-> Copies(r, rules)]
    BY <1>1, ReserveVmIs
  <2> HIDE DEF d, dc
  <2>2. \A r \in DOMAIN d.before : Copies(r, rules) = d.before[r] BY <2>1
  <2>3. RollOk(d, rules) BY <2>1, <2>2, NoRules DEF RollOk
  <2> QED BY <1>a, <1>c, <2>1, <2>3 DEF d
<1>2. ASSUME CreateEnd PROVE RollInv'
  <2> DEFINE d == act'["worker"]
             v == act["worker"].vm
             calls == IF act["worker"].ok THEN <<DefaultCall(v)>> ELSE <<>>
  <2>1. /\ act' = [act EXCEPT !["worker"] = d] /\ rules' = rules
        /\ d = Idle \/ Begun(d, "undo", v, {}, calls)
    BY <1>2, CreateEndIs
  <2> HIDE DEF d, v, calls
  <2>2. RollOk(d, rules) BY <1>d, <2>1, BegunRolls
  <2> QED BY <1>a, <1>c, <2>1, <2>2 DEF d
<1>3. ASSUME UndoEnd PROVE RollInv'
  <2>1. act'["worker"] = Idle /\ act' = [act EXCEPT !["worker"] = Idle] /\ rules' = rules
    BY <1>3, UndoEndIs
  <2> QED BY <1>a, <1>c, <1>d, <2>1
<1>4. ASSUME NEW op, NEW v, NEW ps, NEW calls, LoopBegins(op, v, ps, calls) PROVE RollInv'
  <2> DEFINE d == act'["loop"]
  <2>1. Begun(d, op, v, ps, calls) /\ act' = [act EXCEPT !["loop"] = d] /\ rules' = rules
    BY <1>4 DEF LoopBegins
  <2> HIDE DEF d
  <2>2. RollOk(d, rules) BY <2>1, BegunRolls
  <2> QED BY <1>a, <1>c, <2>1, <2>2 DEF d
<1>5. ASSUME NEW v \in vms, NEW i \in Internals, NEW pr \in Protocols, NEW s \in Sources,
             AddPort(v, i, pr, s)
      PROVE  RollInv'
  BY <1>4, <1>5, AddPortIs
<1>6. ASSUME NEW v \in vms, NEW p \in PortsOf(v), DeletePort(v, p) PROVE RollInv'
  BY <1>4, <1>6, DeletePortIs
<1>7. ASSUME NEW v \in vms, RestoreDefaults(v) PROVE RollInv' BY <1>4, <1>7, RestoreDefaultsIs
<1>8. ASSUME NEW v \in vms, DeleteVm(v) PROVE RollInv' BY <1>4, <1>8, DeleteVmIs
<1>9. ASSUME AddPortEnd \/ DeletePortEnd \/ RestoreEnd \/ DeleteVmEnd PROVE RollInv'
  <2>1. act'["loop"] = Idle /\ act' = [act EXCEPT !["loop"] = Idle] /\ rules' = rules
    BY <1>9, LoopEndsIs
  <2> QED BY <1>a, <1>c, <1>d, <2>1
<1>10. ASSUME NEW a \in Actors, Command(a) PROVE RollInv'
  <2>1. act' = [act EXCEPT ![a] = act'[a]] /\ act[a].op # "idle" BY <1>10, CommandActs
  <2>2. RollOk(act'[a], rules') BY <1>b, <1>10, RollCommand
  <2>3. ASSUME NEW b \in Actors, b # a PROVE RollOk(act'[b], rules')
    <3> DEFINE c == act[b]
    <3>1. act'[b] = c BY <1>a, <2>1, <2>3
    <3> SUFFICES ASSUME c.phase \in {"check", "add", "rollback"}
                 PROVE  \A r \in DOMAIN c.before : Copies(r, rules') = Copies(r, rules)
      BY <1>b, <3>1 DEF RollOk
    <3>2. ActOk(c) /\ ListsOk(c) /\ ActOk(act[a]) /\ ListsOk(act[a]) BY DEF TypeInv, ListInv
    <3>3. c.op # "idle" BY <3>2 DEF ActOk
    <3>4. c.vm.ip # act[a].vm.ip BY <2>1, <2>3, <3>3, TwoVms DEF Actors
    <3>5. c.vm \in Vm /\ c.ports \subseteq Port /\ act[a].vm \in Vm /\ act[a].ports \subseteq Port
      BY <2>1, <3>2, <3>3 DEF ActOk, ActRec
    <3>6. \A r \in DOMAIN c.before : r \in OwnRules(c) BY <3>2, <3>3 DEF ListsOk
    <3>7. \A r \in ListRules(act[a]) : r \in OwnRules(act[a]) BY <2>1, <3>2 DEF ListsOk
    <3>8. \A r \in DOMAIN c.before : r.ip = c.vm.ip
      <4> HIDE DEF c
      <4> QED BY <3>5, <3>6, OwnRulesType
    <3>9. \A r \in ListRules(act[a]) : r.ip = act[a].vm.ip BY <3>5, <3>7, OwnRulesType
    <3>10. \A r \in DOMAIN c.before : r \notin ListRules(act[a]) BY <3>4, <3>8, <3>9
    <3> QED BY <1>10, <3>10, CopiesStay
  <2> QED BY <2>2, <2>3 DEF RollInv
<1>11. ASSUME UNCHANGED vars PROVE RollInv' BY <1>11 DEF RollInv, vars
<1> QED BY <1>1, <1>2, <1>3, <1>5, <1>6, <1>7, <1>8, <1>9, <1>10, <1>11
     DEF Next, WorkerStep, LoopStep

\* What the step that ends a rollback leaves.
RollbackLeaves ==
  \A a \in Actors :
    act[a].phase = "rollback" /\ act'[a].phase # "rollback" =>
      \A r \in DOMAIN act[a].before : Copies(r, rules') = act[a].before[r]

\* Only the actor itself ends its rollback, with the -D of the last rule.
LEMMA RollbackEnds ==
  ASSUME TypeInv, Next, NEW a \in Actors, act[a].phase = "rollback",
         act'[a].phase # "rollback"
  PROVE  RollbackRule(a)
<1>a. /\ act \in [Actors -> ActRec] /\ "worker" \in Actors /\ "loop" \in Actors
      /\ \A b \in Actors : act[b].op = "idle" <=> act[b].phase = "idle"
      /\ Idle.phase = "idle"
  BY IdleIs DEF TypeInv, Actors, ActOk
<1>b. ASSUME NEW b \in Actors, act' = [act EXCEPT ![b] = act'[b]], act[b].phase # "rollback"
      PROVE  FALSE
  <2>1. b # a BY <1>b
  <2> QED BY <1>a, <1>b, <2>1
<1>1. ASSUME NEW vmid \in Vmids, NEW ip \in Ips, ReserveVm(vmid, ip) PROVE FALSE
  BY <1>a, <1>b, <1>1, ReserveVmIs
<1>2. ASSUME CreateEnd PROVE FALSE BY <1>a, <1>b, <1>2, CreateEndIs
<1>3. ASSUME UndoEnd PROVE FALSE
  <2>1. act["worker"].phase = "end" /\ act' = [act EXCEPT !["worker"] = act'["worker"]]
    BY <1>3, UndoEndIs
  <2> QED BY <1>a, <1>b, <2>1
<1>4. ASSUME NEW op, NEW v, NEW ps, NEW calls, LoopBegins(op, v, ps, calls) PROVE FALSE
  BY <1>a, <1>b, <1>4 DEF LoopBegins
<1>5. ASSUME NEW v \in vms, NEW i \in Internals, NEW pr \in Protocols, NEW s \in Sources,
             AddPort(v, i, pr, s)
      PROVE  FALSE
  BY <1>4, <1>5, AddPortIs
<1>6. ASSUME NEW v \in vms, NEW p \in PortsOf(v), DeletePort(v, p) PROVE FALSE
  BY <1>4, <1>6, DeletePortIs
<1>7. ASSUME NEW v \in vms, RestoreDefaults(v) PROVE FALSE BY <1>4, <1>7, RestoreDefaultsIs
<1>8. ASSUME NEW v \in vms, DeleteVm(v) PROVE FALSE BY <1>4, <1>8, DeleteVmIs
<1>9. ASSUME AddPortEnd \/ DeletePortEnd \/ RestoreEnd \/ DeleteVmEnd PROVE FALSE
  <2>1. act["loop"].phase = "end" /\ act' = [act EXCEPT !["loop"] = act'["loop"]]
    BY <1>9, LoopEndsIs
  <2> QED BY <1>a, <1>b, <2>1
<1>10. ASSUME NEW b \in Actors, Command(b) PROVE b = a /\ RollbackRule(a)
  <2>1. act' = [act EXCEPT ![b] = act'[b]] BY <1>10, CommandActs
  <2>2. b = a BY <1>a, <2>1
  <2> QED BY <1>10, <2>2 DEF Command, CheckRule, AddRule, RemoveCopies
<1> QED BY <1>1, <1>2, <1>3, <1>5, <1>6, <1>7, <1>8, <1>9, <1>10
     DEF Next, WorkerStep, LoopStep

\* When a call fails, its rollback leaves each of its rules with the copies
\* the call found: also when a -A was executed although the call raised, and
\* whatever the other actor did meanwhile.  Assumed: the commands of the
\* rollback itself succeed, and nobody acts on a VM whose creation is running.
THEOREM RollbackWorks ==
  ASSUME ~Early, "rollback" \notin Faults
  PROVE  Spec => RollbackRestores
<1>1. TypeInv /\ RowInv /\ ListInv /\ OwnInv /\ RollInv /\ [Next]_vars
      => TypeInv' /\ RowInv' /\ ListInv' /\ OwnInv' /\ RollInv'
  BY TypeStep, RowStep, ListStep, OwnStep, RollStep
<1>2. Init => TypeInv /\ RowInv /\ ListInv /\ OwnInv /\ RollInv
  BY TypeStart, RowStart, ListStart, OwnStart, RollStart
<1>3. TypeInv /\ RollInv /\ [Next]_vars => [RollbackLeaves]_vars
  <2> SUFFICES ASSUME TypeInv, RollInv, Next, NEW a \in Actors,
                      act[a].phase = "rollback", act'[a].phase # "rollback"
               PROVE  \A r \in DOMAIN act[a].before : Copies(r, rules') = act[a].before[r]
    BY DEF RollbackLeaves
  <2>1. RollbackRule(a) BY RollbackEnds
  <2>2. RollOk(act[a], rules) BY DEF RollInv
  <2>3. \A r \in DOMAIN act[a].before :
           \/ Copies(r, rules') = act[a].before[r]
           \/ act[a].before[r] = 0 /\ Copies(r, rules') <= Occ(r, Front(act[a].attempted))
    BY <2>1, <2>2, TakenBack
  <2>4. Front(act[a].attempted) = <<>> BY <2>1, RollbackRuleIs
  <2>5. IsABag(rules') BY <2>1, CommandActs DEF Command
  <2>6. \A r : Copies(r, rules') \in Nat BY <2>5, CopiesCount
  <2>7. \A r : Occ(r, <<>>) = 0 BY OccEmpty
  <2> TAKE r \in DOMAIN act[a].before
  <2>8. CASE act[a].before[r] = 0 /\ Copies(r, rules') <= Occ(r, Front(act[a].attempted))
    <3>1. Copies(r, rules') <= 0 BY <2>4, <2>7, <2>8
    <3>2. Copies(r, rules') = 0 BY <2>6, <3>1
    <3> QED BY <2>8, <3>2
  <2> QED BY <2>3, <2>8
<1> QED BY <1>1, <1>2, <1>3, PTL DEF Spec, RollbackRestores, RollbackLeaves

-----------------------------------------------------------------------------
(* Every rule has a record.                                                 *)

\* A record of the operation's VM that the operation leaves alone; ps: the
\* records.
KeptBy(r, c, ps) ==
  /\ c.op \in {"add", "delete"}
  /\ \E p \in ps \ c.ports : p.vm = c.vm.id /\ r \in RulesOf(p, c.vm.ip)

\* Why an operation will not leave rule r of its VM behind without a record:
\* another record needs the rule; or all its copies are attempted by the
\* call, which takes them back if it fails, or the call is done; or the rule
\* is still to be removed.  b: the rules on the gateway.
Held(r, c, ps, b) ==
  /\ c.op \in {"create", "add"} =>
       \/ KeptBy(r, c, ps)
       \/ c.phase \in {"add", "rollback"} /\ Copies(r, b) <= Occ(r, c.attempted)
       \/ c.phase = "end" /\ c.ok
  /\ c.op \in Deleting => KeptBy(r, c, ps) \/ r \in ToSet(c.todo) \cup RulesIn(c.calls)

Backed(r, v, ps) == \E p \in ps : p.vm = v.id /\ r \in RulesOf(p, v.ip)

\* Every rule is one of a record, and held by whoever works on its VM.
GateInv ==
  \A r \in DOMAIN rules : \E v \in vms :
    /\ r.ip = v.ip
    /\ Backed(r, v, ports \cup act["loop"].ports)
    /\ \A a \in Actors :
         act[a].op # "idle" /\ act[a].vm.id = v.id => Held(r, act[a], ports, rules)

\* Nobody takes a port of restore_default_ports before its COMMIT.
RestoreInv ==
  act["loop"].op = "restore" => \A p \in act["loop"].ports : p.external \notin Externals

\* The default ports of two VMs differ: VMIDs lie less than 1000 apart, the
\* distance of the offsets.
PortsApart ==
  \A i, j \in DOMAIN Defaults, u, w \in Vmids :
    Defaults[i].offset + u = Defaults[j].offset + w => i = j /\ u = w

LEMMA OthersDefaults ==
  ASSUME PortsApart, NEW u \in Vm, NEW v \in Vm, u.vmid # v.vmid,
         NEW p \in ToSet(DefaultPorts(u)), NEW q \in ToSet(DefaultPorts(v))
  PROVE  p.external # q.external
<1>1. PICK i \in 1..Len(Defaults) : p = DefaultPort(Defaults[i], u) BY DefaultPortsType
<1>2. PICK j \in 1..Len(Defaults) : q = DefaultPort(Defaults[j], v) BY DefaultPortsType
<1>3. p.external = Defaults[i].offset + u.vmid /\ q.external = Defaults[j].offset + v.vmid
  BY <1>1, <1>2 DEF DefaultPort
<1>4. i \in DOMAIN Defaults /\ j \in DOMAIN Defaults BY PortAssumption
<1> QED BY <1>3, <1>4 DEF PortsApart, Vm

LEMMA RestoreStart == Init => RestoreInv
BY IdleIs DEF Init, RestoreInv, Actors

LEMMA RestoreStep ==
  ASSUME ~Early, PortsApart
  PROVE  TypeInv /\ RowInv /\ OwnInv /\ RestoreInv /\ [Next]_vars => RestoreInv'
<1> SUFFICES ASSUME TypeInv, RowInv, OwnInv, RestoreInv, [Next]_vars PROVE RestoreInv'
  OBVIOUS
<1> DEFINE l == act["loop"]
<1>a. /\ act \in [Actors -> ActRec] /\ "worker" \in Actors /\ "loop" \in Actors
      /\ l.op = "restore" =>
           /\ l.vm \in vms /\ l.vm \in Vm /\ l.ports \subseteq ToSet(DefaultPorts(l.vm))
           /\ \A p \in l.ports, q \in ports : p.external # q.external
  BY DEF TypeInv, Actors, ActOk, RestoresDefaults, RestoreInv, Externals, OwnInv
<1>b. ASSUME act'["loop"] = l \/ SameOp(l, act'["loop"]),
             l.op = "restore" => \A p \in l.ports, q \in ports' : p.external # q.external
      PROVE  RestoreInv'
  BY <1>b DEF RestoreInv, SameOp, Externals
<1>c. ASSUME act'["loop"] = l \/ SameOp(l, act'["loop"]), ports' \subseteq ports
      PROVE  RestoreInv'
  BY <1>a, <1>b, <1>c
<1>1. ASSUME NEW vmid \in Vmids, NEW ip \in Ips, ReserveVm(vmid, ip) PROVE RestoreInv'
  <2> DEFINE u == NewVm(vmid, ip)
  <2>1. /\ u \in Vm /\ u.vmid = vmid /\ \A x \in vms : x.vmid # vmid
        /\ ports' = ports \cup ToSet(DefaultPorts(u))
        /\ act' = [act EXCEPT !["worker"] = act'["worker"]]
    BY <1>1, ReserveVmIs
  <2> HIDE DEF u
  <2>2. act'["loop"] = l BY <1>a, <2>1
  <2>3. ASSUME l.op = "restore", NEW p \in l.ports, NEW q \in ports'
        PROVE  p.external # q.external
    <3>1. CASE q \in ports BY <1>a, <2>3, <3>1
    <3>2. CASE q \in ToSet(DefaultPorts(u))
      <4> DEFINE v == l.vm
      <4>1. v \in Vm /\ v.vmid # u.vmid /\ p \in ToSet(DefaultPorts(v)) BY <1>a, <2>1, <2>3
      <4> HIDE DEF v
      <4> QED BY <2>1, <3>2, <4>1, OthersDefaults
    <3> QED BY <2>1, <2>3, <3>1, <3>2
  <2> QED BY <1>b, <2>2, <2>3
<1>2. ASSUME CreateEnd PROVE RestoreInv'
  <2>1. ports' = ports /\ act' = [act EXCEPT !["worker"] = act'["worker"]]
    BY <1>2, CreateEndIs
  <2> QED BY <1>a, <1>c, <2>1
<1>3. ASSUME UndoEnd PROVE RestoreInv'
  <2>1. ports' \subseteq ports /\ act' = [act EXCEPT !["worker"] = act'["worker"]]
    BY <1>3, UndoEndIs
  <2> QED BY <1>a, <1>c, <2>1
<1>4. ASSUME NEW op, NEW v, NEW ps, NEW calls, LoopBegins(op, v, ps, calls), op # "restore"
      PROVE  RestoreInv'
  BY <1>4 DEF LoopBegins, Begun, RestoreInv
<1>5. ASSUME NEW v \in vms, NEW i \in Internals, NEW pr \in Protocols, NEW s \in Sources,
             AddPort(v, i, pr, s)
      PROVE  RestoreInv'
  BY <1>4, <1>5, AddPortIs
<1>6. ASSUME NEW v \in vms, NEW p \in PortsOf(v), DeletePort(v, p) PROVE RestoreInv'
  BY <1>4, <1>6, DeletePortIs
<1>7. ASSUME NEW v \in vms, RestoreDefaults(v) PROVE RestoreInv'
  BY <1>7, RestoreDefaultsIs DEF LoopBegins, Begun, RestoreInv, Externals
<1>8. ASSUME NEW v \in vms, DeleteVm(v) PROVE RestoreInv' BY <1>4, <1>8, DeleteVmIs
<1>9. ASSUME AddPortEnd \/ DeletePortEnd \/ RestoreEnd \/ DeleteVmEnd PROVE RestoreInv'
  BY <1>9, IdleIs, LoopEndsIs DEF RestoreInv
<1>10. ASSUME NEW a \in Actors, Command(a) PROVE RestoreInv'
  <2>1. ports' = ports /\ act' = [act EXCEPT ![a] = act'[a]] /\ SameOp(act[a], act'[a])
    BY <1>10, CommandActs
  <2>2. act'["loop"] = l \/ SameOp(l, act'["loop"]) BY <1>a, <2>1
  <2> QED BY <1>c, <2>1, <2>2
<1>11. ASSUME UNCHANGED vars PROVE RestoreInv' BY <1>11, <1>c DEF vars
<1> QED BY <1>1, <1>2, <1>3, <1>5, <1>6, <1>7, <1>8, <1>9, <1>10, <1>11
     DEF Next, WorkerStep, LoopStep

\* A command keeps what holds a rule that stays.
LEMMA HeldStays ==
  ASSUME TypeInv, ListInv, "rollback" \notin Faults, "remove" \notin Faults,
         NEW a \in Actors, Command(a), NEW r \in DOMAIN rules, r \in DOMAIN rules',
         Held(r, act[a], ports, rules)
  PROVE  Held(r, act'[a], ports, rules')
<1> DEFINE c == act[a]
           d == act'[a]
<1>0. ActOk(c) /\ c \in ActRec /\ ListsOk(c) /\ IsABag(rules) BY DEF TypeInv, ListInv
<1>1. /\ c.calls \in CallSeq /\ c.todo \in Seq(Rule) /\ c.pending \in Seq(Rule)
      /\ c.attempted \in Seq(Rule)
  BY <1>0 DEF ActRec
<1>2. SameOp(c, d) /\ c.op # "idle" /\ IsABag(rules') BY CommandActs
<1>3. KeptBy(r, c, ports) => KeptBy(r, d, ports) BY <1>2 DEF KeptBy, SameOp
<1>4. CASE KeptBy(r, c, ports) BY <1>3, <1>4 DEF Held
<1>5. CASE c.op \in {"create", "add"} /\ ~KeptBy(r, c, ports)
  <2>1. c.calls = <<>> BY <1>2, <1>5, <1>0 DEF ListsOk
  <2>2. \A res, found : Opens(c, d, res, found) => d.phase = "end" /\ d.ok = res
    BY <2>1 DEF Opens
  <2>3. \/ c.phase \in {"add", "rollback"} /\ Copies(r, rules) <= Occ(r, c.attempted)
        \/ c.phase = "end"
    BY <1>5 DEF Held
  <2>4. d.op \notin Deleting BY <1>2, <1>5 DEF SameOp, Deleting
  <2>5. SUFFICES \/ d.phase \in {"add", "rollback"} /\ Copies(r, rules') <= Occ(r, d.attempted)
                 \/ d.phase = "end" /\ d.ok
    BY <2>4 DEF Held
  <2>6. Copies(r, rules) \in Nat /\ Occ(r, c.attempted) \in Nat
    BY <1>0, <1>1, CopiesCount, OccIsNat
  <2>7. CASE CheckRule(a) BY <2>3, <2>7, CheckRuleIs
  <2>8. CASE AddRule(a)
    <3> DEFINE x == Head(c.pending)
               b == rules (+) SetToBag({x})
    <3>1. /\ c.phase = "add" /\ x \in Rule
          /\ \/ /\ TriedOne(c, d) /\ d.phase \in {"add", "rollback"}
                /\ rules' = rules \/ rules' = b
             \/ Opens(c, d, TRUE, rules')
      BY <2>8, AddRuleIs
    <3>2. CASE Opens(c, d, TRUE, rules') BY <2>2, <3>2
    <3>3. CASE TriedOne(c, d) /\ d.phase \in {"add", "rollback"} /\ (rules' = rules \/ rules' = b)
      <4>1. d.attempted = Append(c.attempted, x) BY <3>3 DEF TriedOne
      <4> HIDE DEF c, d, x
      <4>2. Copies(r, b) = IF r = x THEN Copies(r, rules) + 1 ELSE Copies(r, rules)
        BY <1>0, BagAdd
      <4>3. Occ(r, d.attempted) = IF r = x THEN Occ(r, c.attempted) + 1 ELSE Occ(r, c.attempted)
        BY <1>1, <3>1, <4>1, OccAppend
      <4>4. Copies(r, rules) <= Occ(r, c.attempted) BY <2>3, <3>1
      <4> HIDE DEF b
      <4> DEFINE n == Copies(r, rules)
                 m == Occ(r, c.attempted)
      <4>5. n \in Nat /\ m \in Nat /\ n <= m /\ Copies(r, rules') \in {n, n + 1}
            /\ (r # x => Copies(r, rules') = n /\ Occ(r, d.attempted) = m)
            /\ (r = x => Occ(r, d.attempted) = m + 1)
        BY <2>6, <3>3, <4>2, <4>3, <4>4
      <4> HIDE DEF n, m
      <4>6. Copies(r, rules') <= Occ(r, d.attempted) BY <4>5
      <4> QED BY <3>3, <4>6 DEF d
    <3> QED BY <3>1, <3>2, <3>3
  <2>9. CASE RollbackRule(a)
    <3> DEFINE x == Last(c.attempted)
               b == rules (-) SetToBag({x})
               f == Front(c.attempted)
    <3>1. /\ c.phase = "rollback" /\ c.attempted # <<>> /\ rules' = b
          /\ \/ d.phase = "rollback" /\ d.attempted = f
             \/ f = <<>>
      BY <2>9, RollbackRuleIs DEF Fault
    <3>2. f \in Seq(Rule) BY <1>1, <3>1, SeqParts
    <3>3. Occ(r, c.attempted) = IF r = x THEN Occ(r, f) + 1 ELSE Occ(r, f)
      BY <1>1, <3>1, OccFront
    <3>4. Occ(r, f) \in Nat BY <3>2, OccIsNat
    <3> HIDE DEF x, f, d, c
    <3>5. Copies(r, b) = IF r = x /\ r \in DOMAIN rules THEN Copies(r, rules) - 1 ELSE Copies(r, rules)
      BY <1>0, BagTake
    <3> HIDE DEF b
    <3>6. Copies(r, rules) <= Occ(r, c.attempted) BY <2>3, <3>1
    <3>7. Copies(r, rules') <= Occ(r, f) BY <2>6, <3>1, <3>3, <3>4, <3>5, <3>6
    <3>8. f # <<>>
      <4>1. SUFFICES ASSUME f = <<>> PROVE FALSE OBVIOUS
      <4>2. Occ(r, f) = 0 BY <4>1, OccEmpty
      <4>3. Copies(r, rules') > 0 /\ Copies(r, rules') \in Nat BY <1>2, CopiesCount
      <4> QED BY <3>7, <4>2, <4>3
    <3> QED BY <3>1, <3>7, <3>8
  <2>10. CASE RemoveCopies(a) BY <2>3, <2>10, RemoveCopiesIs
  <2> QED BY <2>7, <2>8, <2>9, <2>10 DEF Command
<1>6. CASE c.op \in Deleting /\ ~KeptBy(r, c, ports)
  <2>1. r \in ToSet(c.todo) \cup RulesIn(c.calls) BY <1>6 DEF Held
  <2>2. RemoveCopies(a)
    BY <1>6, CheckRuleIs, AddRuleIs, RollbackRuleIs DEF Command, Adding, Deleting
  <2>3. d.op \notin {"create", "add"} BY <1>2, <1>6 DEF SameOp, Deleting
  <2>4. SUFFICES r \in ToSet(d.todo) \cup RulesIn(d.calls) BY <2>3 DEF Held
  <2>5. /\ c.todo # <<>> /\ rules' = [e \in DOMAIN rules \ {Head(c.todo)} |-> rules[e]]
        /\ \/ d.calls = c.calls /\ d.todo = Tail(c.todo)
           \/ (\E res \in BOOLEAN : Opens(c, d, res, rules')) /\ Tail(c.todo) = <<>>
    BY <2>2, RemoveCopiesIs DEF Fault
  <2> HIDE DEF c, d
  <2>6. ToSet(c.todo) = {Head(c.todo)} \cup ToSet(Tail(c.todo)) BY <1>1, <2>5, SeqParts
  <2>7. r # Head(c.todo) BY <2>5
  <2>8. CASE d.calls = c.calls /\ d.todo = Tail(c.todo) BY <2>1, <2>6, <2>7, <2>8
  <2>9. CASE (\E res \in BOOLEAN : Opens(c, d, res, rules')) /\ Tail(c.todo) = <<>>
    <3>1. r \in RulesIn(c.calls) BY <2>1, <2>6, <2>7, <2>9, NoRules
    <3>2. PICK res \in BOOLEAN : Opens(c, d, res, rules') BY <2>9
    <3> QED BY <1>1, <3>1, <3>2, OpensLists
  <2> QED BY <2>5, <2>8, <2>9
<1>7. CASE c.op = "restore" BY <1>2, <1>7 DEF Held, SameOp, Deleting
<1>8. c.op \in {"create", "add", "restore"} \cup Deleting
  BY <1>0, <1>2 DEF ActRec, Adding
<1> QED BY <1>4, <1>5, <1>6, <1>7, <1>8

\* A rule that was not there is one the call adds, and holds.
LEMMA HeldNew ==
  ASSUME TypeInv, ListInv, NEW a \in Actors, Command(a), NEW r \in DOMAIN rules',
         r \notin DOMAIN rules
  PROVE  /\ act[a].op \in Adding /\ r \in ListRules(act[a])
         /\ Held(r, act'[a], ports, rules')
<1> DEFINE c == act[a]
           d == act'[a]
           x == Head(c.pending)
<1>0. ActOk(c) /\ c \in ActRec /\ ListsOk(c) /\ IsABag(rules) /\ SameOp(c, d) /\ c.op # "idle"
  BY CommandActs DEF TypeInv, ListInv
<1>1. AddRule(a)
  <2>1. CASE CheckRule(a) BY <2>1, CheckRuleIs
  <2>2. CASE RollbackRule(a)
    <3> DEFINE y == Last(c.attempted)
    <3>1. rules' = rules \/ rules' = rules (-) SetToBag({y}) BY <2>2, RollbackRuleIs
    <3> HIDE DEF y
    <3>2. DOMAIN (rules (-) SetToBag({y})) \subseteq DOMAIN rules BY <1>0, BagTake
    <3> QED BY <3>1, <3>2
  <2>3. CASE RemoveCopies(a)
    <3> DEFINE y == Head(c.todo)
    <3>1. rules' = rules \/ rules' = [e \in DOMAIN rules \ {y} |-> rules[e]]
      BY <2>3, RemoveCopiesIs
    <3> HIDE DEF y
    <3> QED BY <3>1
  <2> QED BY <2>1, <2>2, <2>3 DEF Command
<1>2. /\ c.op \in Adding /\ c.pending # <<>> /\ x \in Rule
      /\ rules' = rules \/ rules' = rules (+) SetToBag({x})
      /\ \/ TriedOne(c, d) /\ d.phase \in {"add", "rollback"}
         \/ Opens(c, d, TRUE, rules')
  BY <1>1, AddRuleIs
<1>3. c.pending \in Seq(Rule) /\ c.attempted \in Seq(Rule) BY <1>0 DEF ActRec
<1>4. x \in ToSet(c.pending) BY <1>2, <1>3, SeqParts
<1> HIDE DEF c, d, x
<1>5. r = x /\ Copies(r, rules') = 1
  <2>1. DOMAIN (rules (+) SetToBag({x})) = DOMAIN rules \cup {x}
        /\ Copies(x, rules (+) SetToBag({x})) = Copies(x, rules) + 1
    BY <1>0, BagAdd
  <2>2. rules' = rules (+) SetToBag({x}) /\ r = x BY <1>2, <2>1
  <2>3. Copies(r, rules) = 0 BY DEF Copies, BagIn, BagToSet
  <2> QED BY <2>1, <2>2, <2>3
<1>6. r \in ListRules(c) BY <1>4, <1>5 DEF ListRules
<1>7. d.op \notin Deleting BY <1>0, <1>2 DEF SameOp, Adding, Deleting
<1>8. CASE TriedOne(c, d) /\ d.phase \in {"add", "rollback"}
  <2>1. d.attempted = Append(c.attempted, x) BY <1>8 DEF TriedOne, x, c, d
  <2>2. Occ(r, d.attempted) = Occ(r, c.attempted) + 1 /\ Occ(r, c.attempted) \in Nat
    <3>1. Occ(r, c.attempted) \in Nat BY <1>3, OccIsNat
    <3>2. Occ(r, Append(c.attempted, x))
            = IF r = x THEN Occ(r, c.attempted) + 1 ELSE Occ(r, c.attempted)
      BY <1>2, <1>3, OccAppend
    <3> QED BY <1>5, <2>1, <3>1, <3>2
  <2>3. Copies(r, rules') <= Occ(r, d.attempted) BY <1>5, <2>2
  <2> QED BY <1>2, <1>6, <1>7, <1>8, <2>3 DEF Held, c, d
<1>9. CASE Opens(c, d, TRUE, rules')
  <2>1. d.op \in {"create", "add"} => d.phase = "end" /\ d.ok
    BY <1>0, <1>9 DEF ListsOk, SameOp, Opens
  <2> QED BY <1>2, <1>6, <1>7, <2>1 DEF Held, c, d
<1> QED BY <1>2, <1>8, <1>9

\* What an operation's records hold, they hold as long as they are there.
LEMMA HeldByRecords ==
  ASSUME NEW r, NEW c, NEW ps, NEW qs, NEW b, {p \in ps : p.vm = c.vm.id} \subseteq qs,
         Held(r, c, ps, b)
  PROVE  Held(r, c, qs, b)
<1>1. KeptBy(r, c, ps) => KeptBy(r, c, qs) BY DEF KeptBy
<1> QED BY <1>1 DEF Held

LEMMA GateStart == Init => GateInv
BY DEF Init, GateInv, EmptyBag, SetToBag

\* GateInv of the next state, for each of the two actors.
LEMMA GateNext ==
  ASSUME \A r \in DOMAIN rules' : \E v \in vms' :
           /\ r.ip = v.ip
           /\ Backed(r, v, ports' \cup act'["loop"].ports)
           /\ act'["worker"].op # "idle" /\ act'["worker"].vm.id = v.id =>
                Held(r, act'["worker"], ports', rules')
           /\ act'["loop"].op # "idle" /\ act'["loop"].vm.id = v.id =>
                Held(r, act'["loop"], ports', rules')
  PROVE  GateInv'
<1>1. SUFFICES ASSUME NEW r \in DOMAIN rules'
               PROVE  \E v \in vms' :
                        /\ r.ip = v.ip
                        /\ Backed(r, v, ports' \cup act'["loop"].ports)
                        /\ \A a \in Actors :
                             act'[a].op # "idle" /\ act'[a].vm.id = v.id =>
                               Held(r, act'[a], ports', rules')
  BY DEF GateInv
<1>2. PICK v \in vms' :
           /\ r.ip = v.ip
           /\ Backed(r, v, ports' \cup act'["loop"].ports)
           /\ act'["worker"].op # "idle" /\ act'["worker"].vm.id = v.id =>
                Held(r, act'["worker"], ports', rules')
           /\ act'["loop"].op # "idle" /\ act'["loop"].vm.id = v.id =>
                Held(r, act'["loop"], ports', rules')
  OBVIOUS
<1>3. ASSUME NEW a \in Actors, act'[a].op # "idle", act'[a].vm.id = v.id
      PROVE  Held(r, act'[a], ports', rules')
  <2>1. CASE a = "worker" BY <1>2, <1>3, <2>1
  <2>2. CASE a = "loop" BY <1>2, <1>3, <2>2
  <2> QED BY <2>1, <2>2 DEF Actors
<1> QED BY <1>2, <1>3

\* The worker's own steps.
LEMMA GateReserve ==
  ASSUME TypeInv, OwnInv, GateInv, NEW vmid \in Vmids, NEW ip \in Ips, ReserveVm(vmid, ip)
  PROVE  GateInv'
<1> DEFINE l == act["loop"]
           u == NewVm(vmid, ip)
<1>0. act \in [Actors -> ActRec] /\ "worker" \in Actors /\ "loop" \in Actors
  BY DEF TypeInv, Actors
<1>1. /\ u.id = NewId /\ Fresh(u.id)
      /\ vms' = vms \cup {u} /\ ports' = ports \cup ToSet(DefaultPorts(u))
      /\ rules' = rules
      /\ act' = [act EXCEPT !["worker"] = act'["worker"]] /\ act'["worker"].vm = u
  BY ReserveVmIs
<1> HIDE DEF u
<1>2. act'["loop"] = l BY <1>0, <1>1
<1>3. SUFFICES ASSUME NEW r \in DOMAIN rules
               PROVE  \E v \in vms' :
                        /\ r.ip = v.ip
                        /\ Backed(r, v, ports' \cup l.ports)
                        /\ v.id # u.id
                        /\ l.op # "idle" /\ l.vm.id = v.id => Held(r, l, ports', rules)
  <2> DEFINE d == act'["worker"]
  <2>1. d.vm = u BY <1>1
  <2>2. ASSUME NEW r \in DOMAIN rules'
        PROVE  \E v \in vms' :
                 /\ r.ip = v.ip
                 /\ Backed(r, v, ports' \cup l.ports)
                 /\ d.op # "idle" /\ d.vm.id = v.id => Held(r, d, ports', rules')
                 /\ l.op # "idle" /\ l.vm.id = v.id => Held(r, l, ports', rules')
    BY <1>1, <2>1, <2>2
  <2> QED BY <1>2, <2>2, GateNext
<1>4. PICK v \in vms : /\ r.ip = v.ip
                       /\ Backed(r, v, ports \cup l.ports)
                       /\ l.op # "idle" /\ l.vm.id = v.id => Held(r, l, ports, rules)
  BY <1>0 DEF GateInv
<1>5. v \in vms' /\ v.id # u.id BY <1>1 DEF Fresh
<1>6. Backed(r, v, ports' \cup l.ports) BY <1>1, <1>4 DEF Backed
<1>7. l.op # "idle" /\ l.vm.id = v.id => Held(r, l, ports', rules)
  BY <1>1, <1>4, HeldByRecords
<1> QED BY <1>4, <1>5, <1>6, <1>7

LEMMA GateCreateEnd ==
  ASSUME TypeInv, RowInv, OwnInv, GateInv, CreateEnd
  PROVE  GateInv'
<1> DEFINE l == act["loop"]
           w == act["worker"]
           x == w.vm
           d == act'["worker"]
<1>0. act \in [Actors -> ActRec] /\ "worker" \in Actors /\ "loop" \in Actors
  BY DEF TypeInv, Actors
<1>1. /\ w.op = "create" /\ w.phase = "end" /\ x \in Vm /\ x \in vms
      /\ PortsOf(x) = ToSet(DefaultPorts(x))
      /\ ports' = ports /\ rules' = rules /\ act'["loop"] = l
  BY <1>0, CreateEndIs DEF OwnInv
<1>2. SUFFICES ASSUME NEW r \in DOMAIN rules
               PROVE  \E v \in vms' :
                        /\ r.ip = v.ip
                        /\ Backed(r, v, ports \cup l.ports)
                        /\ l.op # "idle" /\ l.vm.id = v.id => Held(r, l, ports, rules)
                        /\ d.op # "idle" /\ d.vm.id = v.id => Held(r, d, ports, rules)
  <2> HIDE DEF d, l
  <2> QED BY <1>1, GateNext DEF d
<1>3. PICK v \in vms : /\ r.ip = v.ip
                       /\ Backed(r, v, ports \cup l.ports)
                       /\ l.op # "idle" /\ l.vm.id = v.id => Held(r, l, ports, rules)
                       /\ w.vm.id = v.id => Held(r, w, ports, rules)
  BY <1>0, <1>1 DEF GateInv
<1>4. CASE d = Idle /\ vms' = (vms \ {x}) \cup {[x EXCEPT !.ready = TRUE]}
  <2> DEFINE y == [x EXCEPT !.ready = TRUE]
  <2>1. y.id = x.id /\ y.ip = x.ip BY <1>1 DEF Vm
  <2>2. d.op = "idle" BY <1>4, IdleIs
  <2>3. vms' = (vms \ {x}) \cup {y} BY <1>4
  <2> HIDE DEF x, y, l, d, w
  <2>4. CASE v = x
    <3>1. Backed(r, y, ports \cup l.ports) BY <1>3, <2>1, <2>4 DEF Backed
    <3> QED BY <1>3, <2>1, <2>2, <2>3, <2>4, <3>1
  <2>5. CASE v # x BY <1>3, <2>2, <2>3, <2>5
  <2> QED BY <2>4, <2>5
<1>5. CASE /\ vms' = vms
           /\ Begun(d, "undo", x, {}, IF w.ok THEN <<DefaultCall(x)>> ELSE <<>>)
  <2>1. SUFFICES ASSUME d.vm.id = v.id PROVE Held(r, d, ports, rules) BY <1>3, <1>5
  <2>2. d.op = "undo" /\ d.vm = x BY <1>5 DEF Begun
  <2>3. v = x BY <1>1, <2>1, <2>2 DEF RowInv
  <2>4. w.ok BY <1>1, <1>3, <2>3 DEF Held, KeptBy
  <2>5. r \in DefaultRules(x)
    <3>1. PICK p \in ports \cup l.ports : p.vm = x.id /\ r \in RulesOf(p, x.ip)
      BY <1>3, <2>3 DEF Backed
    <3>2. p \notin l.ports
      <4>1. SUFFICES ASSUME p \in l.ports PROVE FALSE OBVIOUS
      <4>2. l.op # "idle" BY <4>1, IdleIs DEF TypeInv, ActOk, Actors
      <4>3. p.vm = l.vm.id BY <4>1, <4>2 DEF OwnInv
      <4> QED BY <1>1, <3>1, <4>2, <4>3, TwoVms
    <3>3. p \in PortsOf(x) BY <3>1, <3>2 DEF PortsOf
    <3> QED BY <1>1, <3>1, <3>3 DEF DefaultRules
  <2>6. /\ <<DefaultCall(x)>> \in CallSeq /\ RulesIn(<<DefaultCall(x)>>) = DefaultRules(x)
        /\ Begun(d, "undo", x, {}, <<DefaultCall(x)>>)
    BY <1>1, <1>5, <2>4, DefaultCallType
  <2> HIDE DEF d, x
  <2>7. r \in ToSet(d.todo) \cup RulesIn(d.calls) BY <2>5, <2>6, BegunLists
  <2> QED BY <2>2, <2>7 DEF Held, Deleting
<1> QED BY <1>4, <1>5, CreateEndIs

LEMMA GateUndoEnd ==
  ASSUME TypeInv, RowInv, OwnInv, GateInv, UndoEnd
  PROVE  GateInv'
<1> DEFINE l == act["loop"]
           w == act["worker"]
<1>0. act \in [Actors -> ActRec] /\ "worker" \in Actors /\ "loop" \in Actors /\ ActOk(w)
  BY DEF TypeInv, Actors
<1>1. /\ w.op = "undo" /\ w.phase = "end"
      /\ vms' = vms \ {w.vm} /\ ports' = ports \ PortsOf(w.vm) /\ rules' = rules
      /\ act'["worker"] = Idle /\ act'["loop"] = l
  BY <1>0, UndoEndIs
<1>2. SUFFICES ASSUME NEW r \in DOMAIN rules
               PROVE  \E v \in vms' :
                        /\ r.ip = v.ip
                        /\ Backed(r, v, ports' \cup l.ports)
                        /\ l.op # "idle" /\ l.vm.id = v.id => Held(r, l, ports', rules)
  <2>1. act'["worker"].op = "idle" BY <1>1, IdleIs
  <2> QED BY <1>1, <2>1, GateNext
<1>3. PICK v \in vms : /\ r.ip = v.ip
                       /\ Backed(r, v, ports \cup l.ports)
                       /\ l.op # "idle" /\ l.vm.id = v.id => Held(r, l, ports, rules)
                       /\ w.vm.id = v.id => Held(r, w, ports, rules)
  BY <1>0, <1>1 DEF GateInv
<1>4. v.id # w.vm.id
  <2>1. SUFFICES ASSUME v.id = w.vm.id PROVE FALSE OBVIOUS
  <2>2. r \in ToSet(w.todo) \cup RulesIn(w.calls)
    BY <1>1, <1>3, <2>1 DEF Held, KeptBy, Deleting
  <2>3. w.todo = <<>> /\ w.calls = <<>> BY <1>0, <1>1 DEF ActOk
  <2> QED BY <2>2, <2>3, NoRules
<1>5. v \in vms' BY <1>1, <1>4
<1>6. {p \in ports : p.vm = v.id} \subseteq ports' BY <1>1, <1>4 DEF PortsOf
<1>7. Backed(r, v, ports' \cup l.ports) BY <1>3, <1>6 DEF Backed
<1>8. l.op # "idle" /\ l.vm.id = v.id => Held(r, l, ports', rules)
  BY <1>3, <1>6, HeldByRecords
<1> QED BY <1>3, <1>5, <1>7, <1>8

\* An operation of the event loop begins: the VM's records are held by it.
LEMMA GateBegins ==
  ASSUME TypeInv, RowInv, GateInv, NEW op, NEW v, NEW ps, NEW calls,
         LoopBegins(op, v, ps, calls), ports \subseteq ports',
         \A r \in DOMAIN rules, p \in PortsOf(v) :
           r \in RulesOf(p, v.ip) => Held(r, act'["loop"], ports', rules)
  PROVE  GateInv'
<1> DEFINE l == act["loop"]
           w == act["worker"]
<1>0. act \in [Actors -> ActRec] /\ "worker" \in Actors /\ "loop" \in Actors
  BY DEF TypeInv, Actors
<1>1. /\ v \in vms /\ vms' = vms /\ rules' = rules
      /\ l.ports = {} /\ act'["worker"] = w /\ act'["loop"].vm = v
  BY <1>0, IdleIs DEF LoopBegins, Begun
<1>2. ASSUME NEW r \in DOMAIN rules
      PROVE  \E x \in vms :
               /\ r.ip = x.ip
               /\ Backed(r, x, ports' \cup act'["loop"].ports)
               /\ w.op # "idle" /\ w.vm.id = x.id => Held(r, w, ports', rules)
               /\ v.id = x.id => Held(r, act'["loop"], ports', rules)
  <2>1. PICK x \in vms : /\ r.ip = x.ip
                         /\ Backed(r, x, ports)
                         /\ w.op # "idle" /\ w.vm.id = x.id => Held(r, w, ports, rules)
    BY <1>0, <1>1 DEF GateInv
  <2>2. Backed(r, x, ports' \cup act'["loop"].ports) BY <2>1 DEF Backed
  <2>3. w.op # "idle" /\ w.vm.id = x.id => Held(r, w, ports', rules)
    BY <2>1, HeldByRecords
  <2>4. ASSUME v.id = x.id PROVE Held(r, act'["loop"], ports', rules)
    <3>1. x = v BY <1>1, <2>4 DEF RowInv
    <3>2. PICK p \in PortsOf(v) : r \in RulesOf(p, v.ip)
      BY <2>1, <3>1 DEF Backed, PortsOf
    <3> QED BY <3>2
  <2> QED BY <2>1, <2>2, <2>3, <2>4
<1> QED BY <1>1, <1>2, GateNext

LEMMA GateLoopBegins ==
  ASSUME TypeInv, RowInv, GateInv, NEW v \in vms,
         \/ \E i \in Internals, pr \in Protocols, s \in Sources : AddPort(v, i, pr, s)
         \/ \E p \in PortsOf(v) : DeletePort(v, p)
         \/ RestoreDefaults(v)
         \/ DeleteVm(v)
  PROVE  GateInv'
<1>0. v \in Vm /\ ports \subseteq Port /\ IsFiniteSet(ports) BY DEF TypeInv
<1>1. ASSUME NEW i \in Internals, NEW pr \in Protocols, NEW s \in Sources,
             AddPort(v, i, pr, s)
      PROVE  GateInv'
  <2>1. PICK ext \in FreeExts :
           LET p == NewPort(v, i, ext, pr, s) IN
           /\ p.external = ext /\ ports' = ports \cup {p}
           /\ LoopBegins("add", v, {p}, CallsFor(p, v.ip))
    BY <1>1, AddPortIs
  <2> DEFINE p == NewPort(v, i, ext, pr, s)
  <2>2. /\ p.external = ext /\ ports' = ports \cup {p}
        /\ LoopBegins("add", v, {p}, CallsFor(p, v.ip))
    BY <2>1
  <2> HIDE DEF p
  <2>3. p \notin ports BY <2>2 DEF FreeExts, Externals
  <2>4. act'["loop"].op = "add" /\ act'["loop"].vm = v /\ act'["loop"].ports = {p}
    BY <2>2 DEF LoopBegins, Begun
  <2>5. ASSUME NEW r \in DOMAIN rules, NEW q \in PortsOf(v), r \in RulesOf(q, v.ip)
        PROVE  Held(r, act'["loop"], ports', rules)
    <3>1. q \in ports' \ {p} /\ q.vm = v.id BY <2>2, <2>3 DEF PortsOf
    <3>2. KeptBy(r, act'["loop"], ports') BY <2>4, <2>5, <3>1 DEF KeptBy
    <3> QED BY <2>4, <3>2 DEF Held, Deleting
  <2> QED BY <2>2, <2>5, GateBegins
<1>2. ASSUME NEW p \in PortsOf(v), DeletePort(v, p) PROVE GateInv'
  <2>1. /\ p \in Port /\ ports' = ports /\ CallsFor(p, v.ip) \in CallSeq
        /\ LoopBegins("delete", v, {p}, CallsFor(p, v.ip))
    BY <1>2, DeletePortIs
  <2>2. /\ act'["loop"].op = "delete" /\ act'["loop"].vm = v /\ act'["loop"].ports = {p}
        /\ Begun(act'["loop"], "delete", v, {p}, CallsFor(p, v.ip))
    BY <2>1 DEF LoopBegins, Begun
  <2>3. ASSUME NEW r \in DOMAIN rules, NEW q \in PortsOf(v), r \in RulesOf(q, v.ip)
        PROVE  Held(r, act'["loop"], ports', rules)
    <3>1. CASE q = p
      <4>1. r \in RulesIn(CallsFor(p, v.ip)) BY <1>0, <2>1, <2>3, <3>1, CallsForType DEF Vm
      <4> DEFINE d == act'["loop"]
                 calls == CallsFor(p, v.ip)
      <4>2. calls \in CallSeq /\ Begun(d, "delete", v, {p}, calls) /\ r \in RulesIn(calls)
        BY <2>1, <2>2, <4>1
      <4> HIDE DEF d, calls
      <4>3. r \in ToSet(d.todo) \cup RulesIn(d.calls) BY <4>2, BegunLists
      <4> QED BY <2>2, <4>3 DEF Held, d
    <3>2. CASE q # p
      <4>1. q \in ports' \ {p} /\ q.vm = v.id BY <2>1, <3>2 DEF PortsOf
      <4>2. KeptBy(r, act'["loop"], ports') BY <2>2, <2>3, <4>1 DEF KeptBy
      <4> QED BY <2>2, <4>2 DEF Held
    <3> QED BY <3>1, <3>2
  <2> QED BY <2>1, <2>3, GateBegins
<1>3. CASE RestoreDefaults(v)
  <2>1. ports' = ports /\ LoopBegins("restore", v, Missing(v), RestoreCalls(v))
    BY <1>3, RestoreDefaultsIs
  <2>2. act'["loop"].op = "restore" BY <2>1 DEF LoopBegins, Begun
  <2>3. \A r : Held(r, act'["loop"], ports', rules) BY <2>2 DEF Held, Deleting
  <2> QED BY <2>1, <2>3, GateBegins
<1>4. CASE DeleteVm(v)
  <2> DEFINE d == act'["loop"]
             calls == DeleteVmCalls(v)
  <2>1. /\ ports' = ports /\ calls \in CallSeq
        /\ LoopBegins("delete_vm", v, {}, calls)
        /\ \A p \in PortsOf(v) : RulesOf(p, v.ip) \subseteq RulesIn(calls)
    BY <1>0, <1>4, DeleteVmIs, DeleteVmCallsType
  <2>2. d.op = "delete_vm" /\ Begun(d, "delete_vm", v, {}, calls)
    BY <2>1 DEF LoopBegins, Begun
  <2> HIDE DEF calls
  <2>3. ASSUME NEW r \in DOMAIN rules, NEW q \in PortsOf(v), r \in RulesOf(q, v.ip)
        PROVE  Held(r, act'["loop"], ports', rules)
    <3>1. r \in RulesIn(calls) BY <2>1, <2>3
    <3> HIDE DEF d
    <3>2. r \in ToSet(d.todo) \cup RulesIn(d.calls) BY <2>1, <2>2, <3>1, BegunLists
    <3> QED BY <2>2, <3>2 DEF Held, d
  <2> QED BY <2>1, <2>3, GateBegins
<1> QED BY <1>1, <1>2, <1>3, <1>4

\* An operation of the event loop ends: what is left of its VM's rules has a
\* record.
LEMMA GateLoopEnds ==
  ASSUME TypeInv, RowInv, OwnInv, RestoreInv, GateInv,
         AddPortEnd \/ DeletePortEnd \/ RestoreEnd \/ DeleteVmEnd
  PROVE  GateInv'
<1> DEFINE l == act["loop"]
           w == act["worker"]
<1>0. act \in [Actors -> ActRec] /\ "worker" \in Actors /\ "loop" \in Actors /\ ActOk(l)
  BY DEF TypeInv, Actors
<1>1. /\ l.phase = "end" /\ l.op \in {"add", "delete", "restore", "delete_vm"}
      /\ l.vm \in vms /\ \A p \in l.ports : p.vm = l.vm.id
      /\ l.op \in {"add", "delete"} => l.ports \subseteq ports
      /\ rules' = rules /\ act'["loop"] = Idle /\ act'["worker"] = w
      /\ l.op # "delete_vm" => vms' = vms
      /\ l.op = "delete_vm" =>
           vms' = {x \in vms : x.id # l.vm.id} /\ ports' = ports \ PortsOf(l.vm)
      /\ l.op = "delete" => ports' = ports \ l.ports
      /\ l.op = "add" => ports' = IF l.ok THEN ports ELSE ports \ l.ports
      /\ l.op = "restore" => ports' = ports \cup l.ports
  BY <1>0, LoopEndsIs DEF OwnInv, RestoreInv
<1>2. ASSUME NEW r \in DOMAIN rules
      PROVE  \E v \in vms' :
               /\ r.ip = v.ip
               /\ Backed(r, v, ports')
               /\ w.op # "idle" /\ w.vm.id = v.id => Held(r, w, ports', rules)
  <2>1. PICK v \in vms : /\ r.ip = v.ip
                         /\ Backed(r, v, ports \cup l.ports)
                         /\ l.vm.id = v.id => Held(r, l, ports, rules)
                         /\ w.op # "idle" /\ w.vm.id = v.id => Held(r, w, ports, rules)
    BY <1>0, <1>1 DEF GateInv
  <2>2. CASE v.id # l.vm.id
    <3>1. v \in vms' BY <1>1, <2>2
    <3>2. {p \in ports : p.vm = v.id} \subseteq ports' BY <1>1, <2>2 DEF PortsOf
    <3>3. Backed(r, v, ports') BY <1>1, <2>1, <2>2, <3>2 DEF Backed
    <3>4. w.op # "idle" /\ w.vm.id = v.id => Held(r, w, ports', rules)
      BY <2>1, <3>2, HeldByRecords
    <3> QED BY <2>1, <3>1, <3>3, <3>4
  <2>3. CASE v.id = l.vm.id
    <3>1. v = l.vm /\ Held(r, l, ports, rules) BY <1>1, <2>1, <2>3 DEF RowInv
    <3>2. l.todo = <<>> /\ l.calls = <<>> BY <1>0, <1>1 DEF ActOk
    <3>3. l.op # "delete_vm"
      BY <3>1, <3>2, NoRules DEF Held, KeptBy, Deleting
    <3>4. l.op = "delete" => KeptBy(r, l, ports)
      BY <3>1, <3>2, NoRules DEF Held, Deleting
    <3>5. l.op = "add" => KeptBy(r, l, ports) \/ l.ok BY <1>1, <3>1 DEF Held
    <3>6. KeptBy(r, l, ports) => Backed(r, v, ports')
      <4>1. ports \ l.ports \subseteq ports' BY <1>1, <3>3
      <4> QED BY <3>1, <4>1 DEF KeptBy, Backed
    <3>7. Backed(r, v, ports')
      <4>1. CASE l.op = "delete" BY <3>4, <3>6, <4>1
      <4>2. CASE l.op = "restore" BY <1>1, <2>1, <4>2
      <4>3. CASE l.op = "add" /\ l.ok
        <5>1. ports \cup l.ports = ports' BY <1>1, <4>3
        <5> QED BY <2>1, <5>1
      <4>4. CASE l.op = "add" /\ ~l.ok BY <3>5, <3>6, <4>4
      <4> QED BY <1>1, <3>3, <4>1, <4>2, <4>3, <4>4
    <3>8. ~(w.op # "idle" /\ w.vm.id = v.id) BY <1>1, <2>3, TwoVms
    <3> QED BY <1>1, <2>1, <3>3, <3>7, <3>8
  <2> QED BY <2>2, <2>3
<1>3. act'["loop"].op = "idle" /\ act'["loop"].ports = {} BY <1>1, IdleIs
<1> QED BY <1>1, <1>2, <1>3, GateNext

\* A rule the call added leads to a record of the operation.
LEMMA AddedIsBacked ==
  ASSUME TypeInv, ListInv, OwnInv, NEW a \in Actors, act[a].op \in Adding,
         NEW r \in ListRules(act[a])
  PROVE  /\ act[a].vm \in vms /\ r.ip = act[a].vm.ip
         /\ Backed(r, act[a].vm, ports \cup act["loop"].ports)
<1> DEFINE c == act[a]
           v == c.vm
<1>0. /\ c \in ActRec /\ v \in Vm /\ c.ports \subseteq Port /\ c.op # "idle" /\ c.op \in OpsOf(a)
      /\ a = "worker" \/ a = "loop"
  BY DEF TypeInv, ActRec, ActOk, Adding, Actors
<1>1. r \in OwnRules(c) BY <1>0 DEF ListInv, ListsOk
<1>2. v \in vms BY <1>0 DEF OwnInv
<1>3. r.ip = v.ip BY <1>0, <1>1, OwnRulesType
<1>4. CASE a = "worker"
  <2>1. c.op = "create" BY <1>0, <1>4 DEF OpsOf, WorkerOps, Adding
  <2>2. PICK p \in ToSet(DefaultPorts(v)) : r \in RulesOf(p, v.ip)
    BY <1>1, <2>1 DEF OwnRules, DefaultRules
  <2>3. p \in PortsOf(v) BY <1>0, <1>4, <2>2 DEF OwnInv
  <2> QED BY <1>2, <1>3, <2>2, <2>3 DEF Backed, PortsOf
<1>5. CASE a = "loop"
  <2>1. c.op \in {"add", "restore"} BY <1>0, <1>5 DEF OpsOf, LoopOps, Adding
  <2>2. PICK p \in c.ports : r \in RulesOf(p, v.ip) BY <1>1, <2>1 DEF OwnRules
  <2>3. p.vm = v.id BY <1>0, <1>5, <2>2 DEF OwnInv
  <2> QED BY <1>2, <1>3, <1>5, <2>2, <2>3 DEF Backed
<1> QED BY <1>0, <1>4, <1>5

LEMMA GateCommand ==
  ASSUME TypeInv, RowInv, ListInv, OwnInv, GateInv,
         "rollback" \notin Faults, "remove" \notin Faults, NEW a \in Actors, Command(a)
  PROVE  GateInv'
<1> DEFINE c == act[a]
<1>1. /\ vms' = vms /\ ports' = ports /\ act' = [act EXCEPT ![a] = act'[a]]
      /\ SameOp(c, act'[a]) /\ c.op # "idle" /\ c.vm \in Vm
      /\ act \in [Actors -> ActRec] /\ "loop" \in Actors
  BY CommandActs DEF TypeInv, Actors
<1>2. act'["loop"].ports = act["loop"].ports BY <1>1 DEF SameOp
<1>3. \A b \in Actors : b # a => act'[b] = act[b] BY <1>1
<1>4. ASSUME NEW b \in Actors, b # a, act[b].op # "idle"
      PROVE  act[b].vm \in vms /\ c.vm \in vms /\ act[b].vm.id # c.vm.id /\ act[b].vm.ip # c.vm.ip
  BY <1>1, <1>4, TwoVms DEF Actors, OwnInv
<1>5. SUFFICES ASSUME NEW r \in DOMAIN rules'
               PROVE  \E v \in vms :
                        /\ r.ip = v.ip
                        /\ Backed(r, v, ports \cup act["loop"].ports)
                        /\ \A b \in Actors :
                             act'[b].op # "idle" /\ act'[b].vm.id = v.id =>
                               Held(r, act'[b], ports, rules')
  BY <1>1, <1>2 DEF GateInv
<1>6. CASE r \in DOMAIN rules
  <2>1. PICK v \in vms : /\ r.ip = v.ip
                         /\ Backed(r, v, ports \cup act["loop"].ports)
                         /\ \A b \in Actors : act[b].op # "idle" /\ act[b].vm.id = v.id =>
                              Held(r, act[b], ports, rules)
    BY <1>6 DEF GateInv
  <2>2. ASSUME NEW b \in Actors, act'[b].op # "idle", act'[b].vm.id = v.id
        PROVE  Held(r, act'[b], ports, rules')
    <3>1. CASE b = a
      <4>1. Held(r, c, ports, rules) BY <1>1, <2>1, <2>2, <3>1 DEF SameOp
      <4>2. Held(r, act'[a], ports, rules') BY <1>5, <1>6, <4>1, HeldStays
      <4> QED BY <3>1, <4>2
    <3>2. CASE b # a
      <4>1. act'[b] = act[b] /\ Held(r, act[b], ports, rules) BY <1>3, <2>1, <2>2, <3>2
      <4>2. act[b].vm = v /\ v.ip # c.vm.ip BY <1>4, <2>1, <2>2, <3>2, <4>1 DEF RowInv
      <4>3. r \notin ListRules(c)
        <5>1. SUFFICES ASSUME r \in ListRules(c) PROVE FALSE OBVIOUS
        <5>2. r \in OwnRules(c) /\ c.ports \subseteq Port
          BY <1>1, <5>1 DEF ListInv, ListsOk, ActRec
        <5> QED BY <1>1, <2>1, <4>2, <5>2, OwnRulesType
      <4>4. Copies(r, rules') = Copies(r, rules) BY <4>3, CopiesStay
      <4> QED BY <4>1, <4>4 DEF Held
    <3> QED BY <3>1, <3>2
  <2> QED BY <2>1, <2>2
<1>7. CASE r \notin DOMAIN rules
  <2>1. c.op \in Adding /\ r \in ListRules(c) /\ Held(r, act'[a], ports, rules')
    BY <1>5, <1>7, HeldNew
  <2>2. c.vm \in vms /\ r.ip = c.vm.ip /\ Backed(r, c.vm, ports \cup act["loop"].ports)
    BY <2>1, AddedIsBacked
  <2>3. ASSUME NEW b \in Actors, act'[b].op # "idle", act'[b].vm.id = c.vm.id
        PROVE  Held(r, act'[b], ports, rules')
    BY <1>3, <1>4, <2>1, <2>3
  <2> QED BY <2>2, <2>3
<1> QED BY <1>6, <1>7

LEMMA GateStep ==
  ASSUME "rollback" \notin Faults, "remove" \notin Faults
  PROVE  /\ TypeInv /\ RowInv /\ ListInv /\ OwnInv /\ RestoreInv /\ GateInv
         /\ [Next]_vars
         => GateInv'
<1> SUFFICES ASSUME TypeInv, RowInv, ListInv, OwnInv, RestoreInv, GateInv, [Next]_vars
             PROVE  GateInv'
  OBVIOUS
<1>1. CASE WorkerStep BY <1>1, GateReserve, GateCreateEnd, GateUndoEnd DEF WorkerStep
<1>2. CASE LoopStep BY <1>2, GateLoopBegins, GateLoopEnds DEF LoopStep
<1>3. CASE \E a \in Actors : Command(a) BY <1>3, GateCommand
<1>4. CASE UNCHANGED vars BY <1>4 DEF vars, GateInv, Held, KeptBy, Backed
<1> QED BY <1>1, <1>2, <1>3, <1>4 DEF Next

\* What the rules on the gateway rest on.
GateAll == TypeInv /\ RowInv /\ ListInv /\ OwnInv /\ RestoreInv /\ GateInv

LEMMA GateInvariant ==
  ASSUME ~Early, "rollback" \notin Faults, "remove" \notin Faults, PortsApart
  PROVE  Spec => []GateAll
<1>1. Init => GateAll
  BY TypeStart, RowStart, ListStart, OwnStart, RestoreStart, GateStart DEF GateAll
<1>2. GateAll /\ [Next]_vars => GateAll'
  BY TypeStep, RowStep, ListStep, OwnStep, RestoreStep, GateStep DEF GateAll
<1> QED BY <1>1, <1>2, PTL DEF Spec

\* Whatever fails and whichever ports share a rule, every rule on the gateway
\* belongs to a port record of a VM that exists, or to one that
\* restore_default_ports is about to commit.  Assumed: the commands of the
\* rollback and of DELETE succeed, nobody acts on a VM whose creation is
\* running, and the default ports of two VMs differ.
THEOREM NoStrayRules ==
  ASSUME ~Early, "rollback" \notin Faults, "remove" \notin Faults, PortsApart
  PROVE  Spec => []RulesBacked
<1>1. GateAll => RulesBacked
  <2> SUFFICES ASSUME GateAll, NEW r \in DOMAIN rules
               PROVE  \E v \in vms : \E p \in ports \cup act["loop"].ports :
                        p.vm = v.id /\ r \in ToSet(FlattenSeq(CallsFor(p, v.ip)))
    BY DEF RulesBacked, BagToSet
  <2>1. PICK v \in vms : Backed(r, v, ports \cup act["loop"].ports)
    BY DEF GateAll, GateInv
  <2>2. PICK p \in ports \cup act["loop"].ports : p.vm = v.id /\ r \in RulesOf(p, v.ip)
    BY <2>1 DEF Backed
  <2>3. p \in Port /\ v.ip \in Ips BY DEF GateAll, TypeInv, ActRec, Actors, Vm
  <2>4. ToSet(FlattenSeq(CallsFor(p, v.ip))) = RulesOf(p, v.ip) BY <2>3, CallsForType
  <2> QED BY <2>2, <2>4
<1> QED BY <1>1, GateInvariant, PTL

\* An external port never leads to two VMs: although ports and IPs are given
\* away again while the rules of their former owner are still being removed,
\* two DNAT rules of one port lead to one VM and one internal port.  Assumed:
\* what NoStrayRules assumes.
THEOREM OneOwner ==
  ASSUME ~Early, "rollback" \notin Faults, "remove" \notin Faults, PortsApart
  PROVE  Spec => []OneTarget
<1>1. GateAll => OneTarget
  <2> DEFINE l == act["loop"]
             all == ports \cup l.ports
  <2> SUFFICES ASSUME GateAll, NEW r \in DOMAIN rules, NEW s \in DOMAIN rules,
                      r.chain = "PREROUTING", s.chain = "PREROUTING", r.dport = s.dport
               PROVE  r.ip = s.ip /\ r.to = s.to
    BY DEF OneTarget, BagToSet
  <2>0. /\ vms \subseteq Vm /\ ports \subseteq Port /\ l \in ActRec /\ ActOk(l)
        /\ l.op \in LoopOps /\ RestoresDefaults(l) /\ all \subseteq Port
    BY DEF GateAll, TypeInv, ActRec, Actors, OpsOf
  <2>1. PICK v \in vms : \E p \in all : p.vm = v.id /\ r \in RulesOf(p, v.ip)
    BY DEF GateAll, GateInv, Backed
  <2>2. PICK p \in all : p.vm = v.id /\ r \in RulesOf(p, v.ip) BY <2>1
  <2>3. PICK u \in vms : \E q \in all : q.vm = u.id /\ s \in RulesOf(q, u.ip)
    BY DEF GateAll, GateInv, Backed
  <2>4. PICK q \in all : q.vm = u.id /\ s \in RulesOf(q, u.ip) BY <2>3
  <2>5. p \in Port /\ q \in Port /\ v.ip \in Ips /\ u.ip \in Ips BY <2>0 DEF Vm
  <2>6. /\ r.ip = v.ip /\ r.to = p.internal /\ p.external = r.dport
        /\ s.ip = u.ip /\ s.to = q.internal /\ q.external = s.dport
    BY <2>2, <2>4, <2>5, RuleFields
  <2>7. p = q
    <3>1. CASE p \in ports /\ q \in ports BY <2>6, <3>1 DEF GateAll, RowInv
    <3>2. CASE l.op = "restore" /\ l.ports \subseteq ToSet(DefaultPorts(l.vm))
      <4>1. \A x \in l.ports, y \in ports : x.external # y.external
        BY <3>2 DEF GateAll, RestoreInv, Externals
      <4>2. CASE p \in l.ports /\ q \in l.ports
        <5> DEFINE x == l.vm
        <5>1. x \in Vm BY <2>0, <3>2 DEF ActOk
        <5>2. p \in ToSet(DefaultPorts(x)) /\ q \in ToSet(DefaultPorts(x)) BY <3>2, <4>2
        <5> HIDE DEF x
        <5> QED BY <2>6, <5>1, <5>2, DefaultExternals
      <4> QED BY <2>6, <3>1, <4>1, <4>2
    <3>3. CASE l.op # "restore"
      <4>1. l.ports \subseteq ports
        BY <2>0, <3>3, IdleIs DEF GateAll, OwnInv, ListInv, ListsOk, Actors, LoopOps, ActOk
      <4> QED BY <3>1, <4>1
    <3> QED BY <2>0, <3>2, <3>3 DEF RestoresDefaults
  <2>8. v = u BY <2>2, <2>4, <2>7 DEF GateAll, RowInv
  <2> QED BY <2>6, <2>7, <2>8
<1> QED BY <1>1, GateInvariant, PTL
=============================================================================
