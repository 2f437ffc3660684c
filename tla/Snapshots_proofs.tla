-------------------------- MODULE Snapshots_proofs --------------------------
(* Proofs about Snapshots: the limits hold for any number of requests and    *)
(* any length of the calendar, and a night that goes as planned leaves no    *)
(* automatic snapshot but today's.                                           *)
EXTENDS Snapshots, FiniteSetTheorems, TLAPS

LEMMA Constants ==
  /\ MaxManual \in Nat /\ MaxTotal \in Nat /\ MaxManual + 1 <= MaxTotal
  /\ MaxDay \in Nat /\ PostgreSQL \in BOOLEAN
BY SnapshotAssumption

\* What the tasks of Proxmox are about exists, and Proxmox works on a snapshot
\* for one task at a time.
TaskInv ==
  /\ IsFiniteSet(snaps)
  /\ \A t \in tasks : t.snap \in snaps
  /\ \A t, u \in tasks : t.snap = u.snap => t = u

\* In a night that goes as planned so far, the automatic snapshots that are
\* left are being deleted.
NightInv ==
  nightly = "waiting" /\ kept =>
    \A s \in AutoOf(snaps) : [op |-> "delete", snap |-> s] \in tasks

-----------------------------------------------------------------------------
(* What the steps do to the snapshots and the tasks: five kinds of change.  *)

Same == snaps' = snaps /\ tasks' = tasks

Begins(new) ==
  /\ new \notin snaps
  /\ snaps' = snaps \cup {new}
  /\ tasks' = tasks \cup {[op |-> "create", snap |-> new]}

Deletes(S) ==
  /\ S \subseteq Free(snaps)
  /\ snaps' = snaps /\ tasks' = tasks \cup Deletion(S)

\* The change the requests of create_snapshot make.
LEMMA CheckKinds ==
  ASSUME NEW new \in Requested, CheckAndCreate(new)
  PROVE  \/ Same /\ kept' = kept
         \/ /\ Begins(new) /\ Creatable(new)
            /\ kept' => kept /\ (new.kind = "auto" => nightly # "waiting")
BY DEF CheckAndCreate, Same, Begins, Creatable, proxmox

LEMMA ServeKinds ==
  ASSUME NEW r \in Requests, Serve(r)
  PROVE  /\ auto' = auto /\ day' = day /\ nightly' = nightly
         /\ \/ Same /\ kept' = kept
            \/ \E new \in Requested :
                 /\ Begins(new) /\ Creatable(new)
                 /\ kept' => kept /\ (new.kind = "auto" => nightly # "waiting")
<1>1. CASE Handle(r)
  BY <1>1, CheckKinds DEF Handle, Same, proxmox
<1>2. CASE Granted(r)
  BY <1>2, CheckKinds DEF Granted
<1>3. CASE Respond(r) \/ Close(r)
  BY <1>3 DEF Respond, Close, Same, proxmox
<1> QED BY <1>1, <1>2, <1>3 DEF Serve

\* The nightly task deletes automatic snapshots Proxmox does not work on.
LEMMA DeleteKinds ==
  ASSUME TypeOK, DailyDelete
  PROVE  /\ auto' = auto /\ snaps' = snaps
         /\ Same \/ \E del \in SUBSET AutoOf(snaps) : Deletes(Free(del))
<1>1. CASE nightly' = "again"
  BY <1>1 DEF DailyDelete, Same
<1>2. CASE nightly' # "again"
  <2>1. PICK del \in SUBSET Outdated :
          tasks' = IF auto THEN tasks \cup Deletion(Free(del)) ELSE tasks
    BY <1>2 DEF DailyDelete
  <2>2. del \in SUBSET AutoOf(snaps) /\ Free(del) \subseteq Free(snaps)
    BY DEF Outdated, AutoOf, Free
  <2>3. CASE auto
    <3>1. Deletes(Free(del))
      BY <2>1, <2>2, <2>3 DEF DailyDelete, Deletes
    <3> QED BY <2>2, <3>1 DEF DailyDelete
  <2>4. CASE ~auto
    BY <2>1, <2>4 DEF DailyDelete, Same
  <2> QED BY <2>3, <2>4
<1> QED BY <1>1, <1>2

LEMMA CreateKinds ==
  ASSUME DailyCreate
  PROVE  Same \/ Begins(Nightly(day))
BY DEF DailyCreate, Same, Begins, proxmox

\* Every step, by its effect on Proxmox.
LEMMA Kinds ==
  ASSUME TypeOK, [Next]_vars
  PROVE  \/ Same
         \/ \E new \in Requested \cup {Nightly(day)} : Begins(new)
         \/ \E S \in SUBSET snaps : Deletes(S)
         \/ \E t \in tasks : TaskEnds(t)
<1>1. ASSUME NEW r \in Requests, Arrive(r) \/ Serve(r)
      PROVE  Same \/ \E new \in Requested : Begins(new)
  BY <1>1, ServeKinds DEF Arrive, Same, proxmox
<1>2. ASSUME NEW s \in snaps, DeleteSnapshot(s)  PROVE Deletes({s})
  BY <1>2 DEF DeleteSnapshot, Deletes
<1>3. ASSUME DailyDelete  PROVE Same \/ \E S \in SUBSET snaps : Deletes(S)
  <2>1. CASE Same
    BY <2>1
  <2>2. ASSUME NEW del \in SUBSET AutoOf(snaps), Deletes(Free(del))
        PROVE  \E S \in SUBSET snaps : Deletes(S)
    BY <2>2 DEF AutoOf, Free
  <2> QED BY <1>3, <2>1, <2>2, DeleteKinds
<1>4. CASE ToggleAuto \/ UNCHANGED vars
  BY <1>4 DEF ToggleAuto, vars, Same, proxmox
<1>5. CASE DailyCreate
  BY <1>5, CreateKinds
<1> QED BY <1>1, <1>2, <1>3, <1>4, <1>5 DEF Next

-----------------------------------------------------------------------------
(* Type correctness, and one task for a snapshot.                           *)

LEMMA SnapTypes ==
  ASSUME TypeOK
  PROVE  /\ Requested \subseteq Snap /\ Nightly(day) \in Snap
         /\ \A s \in Snap : [op |-> "create", snap |-> s] \in Task
         /\ \A s \in Snap : [op |-> "delete", snap |-> s] \in Task
         /\ \A S \in SUBSET Snap : Deletion(S) \subseteq Task
<1>1. Requested \subseteq Snap /\ Nightly(day) \in Snap
  BY DEF Snap, TypeOK
<1>2. \A s \in Snap : [op |-> "create", snap |-> s] \in Task /\ [op |-> "delete", snap |-> s] \in Task
  BY DEF Task
<1>3. \A S \in SUBSET Snap : Deletion(S) \subseteq Task
  BY <1>2 DEF Deletion
<1> QED BY <1>1, <1>2, <1>3

LEMMA ProxmoxType ==
  ASSUME TypeOK, TaskInv, [Next]_vars
  PROVE  /\ snaps' \subseteq Snap /\ tasks' \subseteq Task
         /\ TaskInv'
<1>1. CASE Same
  BY <1>1 DEF Same, TypeOK, TaskInv
<1>2. ASSUME NEW new \in Requested \cup {Nightly(day)}, Begins(new)
      PROVE  snaps' \subseteq Snap /\ tasks' \subseteq Task /\ TaskInv'
  <2> DEFINE t == [op |-> "create", snap |-> new]
  <2>1. new \in Snap /\ t \in Task
    BY SnapTypes
  <2>2. new \notin snaps /\ snaps' = snaps \cup {new} /\ tasks' = tasks \cup {t} /\ t.snap = new
    BY <1>2 DEF Begins
  <2> HIDE DEF t
  <2>3. \A u \in tasks : u.snap # new
    BY <2>2 DEF TaskInv
  <2>4. IsFiniteSet(snaps')
    BY <2>2, FS_AddElement DEF TaskInv
  <2> QED BY <2>1, <2>2, <2>3, <2>4 DEF TypeOK, TaskInv
<1>3. ASSUME NEW S \in SUBSET snaps, Deletes(S)
      PROVE  snaps' \subseteq Snap /\ tasks' \subseteq Task /\ TaskInv'
  <2>1. Deletion(S) \subseteq Task
    BY SnapTypes DEF TypeOK
  <2>2. snaps' = snaps /\ tasks' = tasks \cup Deletion(S)
    BY <1>3 DEF Deletes
  <2>3. \A t \in Deletion(S) : t.snap \in S /\ t.op = "delete"
    BY DEF Deletion
  <2>4. \A t, u \in Deletion(S) : t.snap = u.snap => t = u
    BY DEF Deletion
  <2>5. \A t \in Deletion(S), u \in tasks : t.snap # u.snap
    BY <1>3, <2>3 DEF Deletes, Free
  <2> QED BY <2>1, <2>2, <2>3, <2>4, <2>5 DEF TypeOK, TaskInv
<1>4. ASSUME NEW t \in tasks, TaskEnds(t)
      PROVE  snaps' \subseteq Snap /\ tasks' \subseteq Task /\ TaskInv'
  <2>1. tasks' = tasks \ {t} /\ (snaps' = snaps \/ snaps' = snaps \ {t.snap})
    BY <1>4 DEF TaskEnds
  <2>2. IsFiniteSet(snaps')
    BY <2>1, FS_RemoveElement DEF TaskInv
  <2> QED BY <2>1, <2>2 DEF TypeOK, TaskInv
<1> QED BY <1>1, <1>2, <1>3, <1>4, Kinds

Phases == {"none", "arrived", "blocked", "returned", "closing", "closed"}

\* At most one transaction holds the advisory lock.
LEMMA LockType ==
  ASSUME TypeOK, [Next]_vars
  PROVE  /\ phase' \in [Requests -> Phases]
         /\ lock' \subseteq Requests /\ Cardinality(lock') <= 1
<1>0. phase \in [Requests -> Phases] /\ lock \subseteq Requests /\ Cardinality(lock) <= 1
  BY DEF TypeOK, Phases
<1>1. \A r \in Requests : Cardinality({r}) = 1
  BY FS_Singleton
<1>2. \A r \in Requests : Cardinality(lock \ {r}) <= 1
  <2>1. TAKE r \in Requests
  <2>2. IsFiniteSet(lock)
    BY SnapshotAssumption, <1>0, FS_Subset
  <2>3. Cardinality(lock) \in Nat /\ Cardinality(lock \ {r}) \in Nat
        /\ Cardinality(lock \ {r}) <= Cardinality(lock)
    BY <2>2, FS_Subset, FS_CardinalityType
  <2> QED BY <1>0, <2>3
<1>3. ASSUME NEW r \in Requests, Arrive(r) \/ Serve(r)
      PROVE  /\ phase' \in [Requests -> Phases]
             /\ lock' \in {lock, {r}, lock \ {r}}
  <2>1. \E p \in Phases : phase' = [phase EXCEPT ![r] = p]
    BY <1>3 DEF Arrive, Serve, Handle, Granted, Respond, Close, Phases
  <2>2. lock' \in {lock, {r}, lock \ {r}}
    BY <1>3 DEF Arrive, Serve, Handle, Granted, Respond, Close
  <2> QED BY <1>0, <2>1, <2>2
<1>4. CASE \A r \in Requests : ~(Arrive(r) \/ Serve(r))
  BY <1>0, <1>4 DEF Next, DeleteSnapshot, TaskEnds, ToggleAuto, DailyDelete, DailyCreate,
     requests, vars
<1> QED BY <1>0, <1>1, <1>2, <1>3, <1>4

LEMMA ColumnType ==
  ASSUME TypeOK, [Next]_vars
  PROVE  /\ auto' \in BOOLEAN /\ kept' \in BOOLEAN
         /\ day' \in 0..MaxDay /\ nightly' \in {"asleep", "again", "waiting"}
<1>1. ASSUME NEW r \in Requests, Arrive(r) \/ Serve(r)
      PROVE  auto' = auto /\ day' = day /\ nightly' = nightly
  BY <1>1, ServeKinds DEF Arrive
<1>2. ASSUME NEW r \in Requests, Arrive(r) \/ Serve(r)
      PROVE  kept' \in BOOLEAN
  BY <1>2 DEF TypeOK, Arrive, Serve, Handle, Granted, Respond, Close, CheckAndCreate
<1>3. CASE DailyDelete
  <2>1. day' \in 0..MaxDay
    BY <1>3, Constants DEF TypeOK, DailyDelete
  <2> QED BY <1>3, <2>1 DEF TypeOK, DailyDelete
<1>4. CASE DailyCreate
  BY <1>4 DEF TypeOK, DailyCreate
<1>5. CASE ToggleAuto \/ UNCHANGED vars
  BY <1>5 DEF TypeOK, ToggleAuto, vars
<1>6. ASSUME NEW s \in snaps, DeleteSnapshot(s)
      PROVE  auto' = auto /\ day' = day /\ nightly' = nightly /\ kept' = kept
  BY <1>6 DEF DeleteSnapshot
<1>7. ASSUME NEW t \in tasks, TaskEnds(t)
      PROVE  auto' = auto /\ day' = day /\ nightly' = nightly /\ kept' \in BOOLEAN
  BY <1>7 DEF TaskEnds, TypeOK
<1> QED BY <1>1, <1>2, <1>3, <1>4, <1>5, <1>6, <1>7 DEF Next, TypeOK

LEMMA TypeStep ==
  ASSUME TypeOK, TaskInv, [Next]_vars  PROVE TypeOK' /\ TaskInv'
<1>1. \A t \in tasks' : t.snap \in snaps'
  BY ProxmoxType DEF TaskInv
<1> QED BY <1>1, ProxmoxType, LockType, ColumnType DEF TypeOK, Phases

LEMMA Begin == Init => TypeOK /\ TaskInv /\ NightInv
<1> SUFFICES ASSUME Init  PROVE TypeOK /\ TaskInv /\ NightInv
  OBVIOUS
<1>1. IsFiniteSet({}) /\ Cardinality({}) = 0
  BY FS_EmptySet
<1>2. /\ snaps = {} /\ tasks = {} /\ lock = {} /\ phase \in [Requests -> Phases]
      /\ auto = FALSE /\ kept = FALSE /\ day = 0 /\ nightly = "asleep"
  BY DEF Init, Phases
<1>3. day \in 0..MaxDay
  BY <1>2, Constants
<1>4. TypeOK
  <2>1. auto \in BOOLEAN /\ kept \in BOOLEAN
    BY <1>2
  <2>2. Cardinality(lock) <= 1 /\ lock \subseteq Requests
    BY <1>1, <1>2
  <2>3. snaps \subseteq Snap /\ tasks \subseteq Task /\ \A t \in tasks : t.op = "create" => t.snap \in snaps
    BY <1>2
  <2> QED BY <1>2, <1>3, <2>1, <2>2, <2>3 DEF TypeOK, Phases
<1>5. TaskInv /\ NightInv
  BY <1>1, <1>2 DEF TaskInv, NightInv
<1> QED BY <1>4, <1>5

\* Types, a lock that is held once, and no task about a snapshot that is gone.
THEOREM TypeCorrect == Spec => []TypeOK
<1>1. TypeOK /\ TaskInv /\ [Next]_vars => TypeOK' /\ TaskInv'
  BY TypeStep
<1> QED BY <1>1, Begin, PTL DEF Spec

-----------------------------------------------------------------------------
(* The night.                                                               *)

LEMMA NightStep ==
  ASSUME TypeOK, TaskInv, NightInv, [Next]_vars  PROVE NightInv'
<1> SUFFICES ASSUME nightly' = "waiting", kept', NEW s \in AutoOf(snaps')
             PROVE  [op |-> "delete", snap |-> s] \in tasks'
  BY DEF NightInv
<1> DEFINE d == [op |-> "delete", snap |-> s]
<1>0. s \in snaps' /\ s.kind = "auto" /\ d.snap = s /\ d.op = "delete"
  BY DEF AutoOf
<1>1. nightly = "waiting" /\ kept /\ s \in snaps => d \in tasks
  BY <1>0 DEF NightInv, AutoOf
<1>2. ASSUME NEW r \in Requests, Arrive(r) \/ Serve(r)  PROVE d \in tasks'
  <2>1. nightly = "waiting"
    BY <1>2, ServeKinds DEF Arrive
  <2>2. CASE Same /\ kept' = kept
    BY <1>0, <1>1, <2>1, <2>2 DEF Same
  <2>3. ASSUME NEW new \in Requested, Begins(new),
               kept' => kept /\ (new.kind = "auto" => nightly # "waiting")
        PROVE  d \in tasks'
    BY <1>0, <1>1, <2>1, <2>3 DEF Begins
  <2> QED BY <1>2, <2>2, <2>3, ServeKinds DEF Arrive, Same, proxmox
<1>3. ASSUME NEW x \in snaps, DeleteSnapshot(x)  PROVE d \in tasks'
  BY <1>0, <1>1, <1>3 DEF DeleteSnapshot
<1>4. ASSUME NEW t \in tasks, TaskEnds(t)  PROVE d \in tasks'
  <2>1. /\ nightly = "waiting" /\ kept /\ s \in snaps /\ tasks' = tasks \ {t}
    BY <1>0, <1>4 DEF TaskEnds
  <2>2. d \in tasks
    BY <1>1, <2>1
  <2>3. ASSUME t = d  PROVE FALSE
    <3>1. CASE snaps' = (IF t.op = "delete" THEN snaps \ {t.snap} ELSE snaps)
      BY <1>0, <2>3, <3>1
    <3>2. CASE kept' = (kept /\ t \notin AutoDeletions)
      BY <1>0, <2>2, <2>3, <3>2 DEF AutoDeletions
    <3> QED BY <1>4, <3>1, <3>2 DEF TaskEnds
  <2> QED BY <2>1, <2>2, <2>3
<1>5. CASE DailyDelete
  <2>0. snaps' = snaps /\ s \in Outdated
    BY <1>0, <1>5 DEF DailyDelete, Outdated, AutoOf
  <2>1. PICK del \in SUBSET Outdated :
          /\ kept' = (auto /\ del = Outdated /\ Free(del) = del)
          /\ tasks' = IF auto THEN tasks \cup Deletion(Free(del)) ELSE tasks
    BY <1>5 DEF DailyDelete
  <2>2. s \in Free(del) /\ tasks' = tasks \cup Deletion(Free(del))
    BY <2>0, <2>1
  <2> QED BY <2>2 DEF Deletion
<1>6. CASE DailyCreate
  BY <1>6 DEF DailyCreate
<1>7. CASE ToggleAuto
  BY <1>7 DEF ToggleAuto, proxmox
<1>8. CASE UNCHANGED vars
  BY <1>0, <1>1, <1>8 DEF vars
<1>9. CASE \E x \in snaps : DeleteSnapshot(x)
  BY <1>3, <1>9
<1>10. CASE \E t \in tasks : TaskEnds(t)
  BY <1>4, <1>10
<1>11. CASE \E r \in Requests : Arrive(r) \/ Serve(r)
  BY <1>2, <1>11
<1> QED
  BY <1>5, <1>6, <1>7, <1>8, <1>9, <1>10, <1>11 DEF Next

\* When a night ends as planned, the deletions have left only manual
\* snapshots for today's to join.
LEMMA NightEnds ==
  ASSUME TypeOK, NightInv, [Next]_vars, nightly = "waiting", nightly' = "asleep", kept'
  PROVE  AutoOf(snaps) = {} /\ (Same \/ Begins(Nightly(day)))
<1>1. DailyCreate
  <2>1. \A r \in Requests : ~(Arrive(r) \/ Serve(r))
    BY ServeKinds DEF Arrive
  <2> QED BY <2>1 DEF Next, vars, DeleteSnapshot, TaskEnds, ToggleAuto, DailyDelete
<1>2. kept /\ AutoDeletions = {}
  BY <1>1 DEF DailyCreate
<1>3. AutoOf(snaps) = {}
  <2> SUFFICES ASSUME NEW s \in AutoOf(snaps)  PROVE FALSE
    OBVIOUS
  <2> DEFINE d == [op |-> "delete", snap |-> s]
  <2>1. d \in tasks
    BY <1>2 DEF NightInv
  <2>2. d.op = "delete" /\ d.snap.kind = "auto"
    BY DEF AutoOf
  <2> HIDE DEF d
  <2> QED BY <1>2, <2>1, <2>2 DEF AutoDeletions
<1> QED BY <1>1, <1>3, CreateKinds

\* A night that goes as planned leaves no automatic snapshot but today's,
\* for any calendar: also those made while auto was off, and those a user
\* gave an automatic name.
THEOREM NightReplaces == Spec => AutosReplaced
<1>1. TypeOK /\ TaskInv /\ NightInv /\ [Next]_vars => TypeOK' /\ TaskInv' /\ NightInv'
  BY TypeStep, NightStep
<1>2. TypeOK /\ NightInv /\ [Next]_vars =>
        (nightly = "waiting" /\ nightly' = "asleep" /\ kept' =>
           AutoOf(snaps') \subseteq {Nightly(day)})
  BY NightEnds DEF Same, Begins, AutoOf
<1> QED BY <1>1, <1>2, Begin, PTL DEF Spec, AutosReplaced

-----------------------------------------------------------------------------
(* The limits.                                                              *)

LEMMA Growth ==
  ASSUME IsFiniteSet(snaps), NEW new, Begins(new)
  PROVE  /\ Cardinality(snaps) \in Nat /\ Cardinality(ManualOf(snaps)) \in Nat
         /\ IsFiniteSet(ManualOf(snaps))
         /\ Cardinality(snaps') = Cardinality(snaps) + 1
         /\ Cardinality(ManualOf(snaps')) <= Cardinality(ManualOf(snaps)) + 1
         /\ new.kind # "manual" => ManualOf(snaps') = ManualOf(snaps)
<1>1. IsFiniteSet(ManualOf(snaps)) /\ Cardinality(ManualOf(snaps)) \in Nat
      /\ Cardinality(snaps) \in Nat
  BY FS_Subset, FS_CardinalityType DEF ManualOf
<1>2. new \notin snaps /\ snaps' = snaps \cup {new}
  BY DEF Begins
<1>3. Cardinality(snaps') = Cardinality(snaps) + 1
  BY <1>2, FS_AddElement
<1>4. CASE new.kind = "manual"
  <2>1. ManualOf(snaps') = ManualOf(snaps) \cup {new} /\ new \notin ManualOf(snaps)
    BY <1>2, <1>4 DEF ManualOf
  <2>2. Cardinality(ManualOf(snaps')) = Cardinality(ManualOf(snaps)) + 1
    BY <1>1, <2>1, FS_AddElement
  <2> QED BY <1>1, <1>3, <1>4, <2>2
<1>5. CASE new.kind # "manual"
  <2>1. ManualOf(snaps') = ManualOf(snaps)
    BY <1>2, <1>5 DEF ManualOf
  <2> QED BY <1>1, <1>3, <2>1
<1> QED BY <1>4, <1>5

\* Where there are fewer snapshots, there are no more manual ones.
LEMMA Shrinkage ==
  ASSUME IsFiniteSet(snaps), snaps' \subseteq snaps
  PROVE  /\ Cardinality(ManualOf(snaps')) <= Cardinality(ManualOf(snaps))
         /\ Cardinality(snaps') <= Cardinality(snaps)
         /\ Cardinality(snaps) \in Nat /\ Cardinality(snaps') \in Nat
         /\ Cardinality(ManualOf(snaps)) \in Nat /\ Cardinality(ManualOf(snaps')) \in Nat
<1>1. /\ IsFiniteSet(ManualOf(snaps)) /\ IsFiniteSet(snaps')
      /\ ManualOf(snaps') \subseteq ManualOf(snaps)
  BY FS_Subset DEF ManualOf
<1>2. IsFiniteSet(ManualOf(snaps'))
  BY <1>1, FS_Subset
<1> QED BY <1>1, <1>2, FS_Subset, FS_CardinalityType

LEMMA ManualLimit ==
  ASSUME TypeOK, TaskInv, [Next]_vars, Cardinality(ManualOf(snaps)) <= MaxManual
  PROVE  Cardinality(ManualOf(snaps')) <= MaxManual
<1>0. IsFiniteSet(snaps)
  BY DEF TaskInv
<1>1. ASSUME NEW new \in Requested, Begins(new), Creatable(new)
      PROVE  Cardinality(ManualOf(snaps')) <= MaxManual
  <2>1. Cardinality(ManualOf(snaps)) < MaxManual
    BY <1>1 DEF Creatable
  <2>2. /\ Cardinality(ManualOf(snaps)) \in Nat
        /\ Cardinality(ManualOf(snaps')) <= Cardinality(ManualOf(snaps)) + 1
        /\ Cardinality(ManualOf(snaps')) \in Nat
    <3>1. IsFiniteSet(ManualOf(snaps'))
      BY <1>0, <1>1, FS_AddElement, FS_Subset DEF Begins, ManualOf
    <3> QED BY <1>0, <1>1, <3>1, Growth, FS_CardinalityType
  <2> QED BY <2>1, <2>2, Constants
<1>2. ASSUME Begins(Nightly(day))  PROVE ManualOf(snaps') = ManualOf(snaps)
  BY <1>0, <1>2, Growth DEF Nightly
<1>3. ASSUME snaps' \subseteq snaps
      PROVE  Cardinality(ManualOf(snaps')) <= MaxManual
  BY <1>0, <1>3, Shrinkage, Constants
<1>4. ASSUME NEW r \in Requests, Arrive(r) \/ Serve(r)
      PROVE  \/ snaps' \subseteq snaps
             \/ \E new \in Requested : Begins(new) /\ Creatable(new)
  BY <1>4, ServeKinds DEF Arrive, Same, proxmox
<1>5. ASSUME ~\E r \in Requests : Arrive(r) \/ Serve(r)
      PROVE  snaps' \subseteq snaps \/ Begins(Nightly(day))
  <2>1. CASE DailyCreate
    BY <2>1, CreateKinds DEF Same
  <2>2. CASE DailyDelete
    BY <2>2 DEF DailyDelete
  <2>3. ASSUME NEW t \in tasks, TaskEnds(t)  PROVE snaps' \subseteq snaps
    BY <2>3 DEF TaskEnds
  <2> QED BY <1>5, <2>1, <2>2, <2>3 DEF Next, DeleteSnapshot, ToggleAuto, proxmox, vars
<1> QED BY <1>1, <1>2, <1>3, <1>4, <1>5

\* Once the nightly task sleeps after a night that went as planned, only a
\* request that counts all snapshots adds one.
LEMMA TotalLimit ==
  ASSUME TypeOK, TaskInv, NightInv, [Next]_vars, SnapshotLimit, kept', nightly' = "asleep"
  PROVE  Cardinality(snaps') <= MaxTotal
<1>0. IsFiniteSet(snaps) /\ Cardinality(snaps) \in Nat
  BY FS_CardinalityType DEF TaskInv
<1>1. CASE nightly = "waiting"
  <2>1. AutoOf(snaps) = {} /\ (Same \/ Begins(Nightly(day)))
    BY <1>1, NightEnds
  <2>2. snaps = ManualOf(snaps)
    BY <2>1 DEF AutoOf, ManualOf, TypeOK, Snap, Requested, Nightly
  <2>3. Cardinality(snaps) <= MaxManual
    BY <2>2 DEF SnapshotLimit
  <2>4. Cardinality(snaps') = Cardinality(snaps) \/ Cardinality(snaps') = Cardinality(snaps) + 1
    BY <1>0, <2>1, Growth DEF Same
  <2> QED BY <1>0, <2>3, <2>4, Constants
<1>2. CASE nightly # "waiting"
  <2>1. ASSUME NEW new \in Requested, Begins(new), Creatable(new)
        PROVE  Cardinality(snaps') <= MaxTotal
    BY <1>0, <2>1, Growth, Constants DEF Creatable
  <2>2. ASSUME snaps' \subseteq snaps, kept, nightly = "asleep"
        PROVE  Cardinality(snaps') <= MaxTotal
    BY <1>0, <2>2, Shrinkage, Constants DEF SnapshotLimit
  <2>3. ASSUME NEW r \in Requests, Arrive(r) \/ Serve(r)
        PROVE  \/ snaps' \subseteq snaps /\ kept /\ nightly = "asleep"
               \/ \E new \in Requested : Begins(new) /\ Creatable(new)
    BY <2>3, ServeKinds DEF Arrive, Same, proxmox
  <2>4. ASSUME ~\E r \in Requests : Arrive(r) \/ Serve(r)
        PROVE  snaps' \subseteq snaps /\ kept /\ nightly = "asleep"
    BY <1>2, <2>4 DEF Next, DeleteSnapshot, ToggleAuto, TaskEnds, DailyDelete, DailyCreate,
       proxmox, vars
  <2> QED BY <2>1, <2>2, <2>3, <2>4
<1> QED BY <1>1, <1>2

\* Overlapping requests and the nightly task keep the limits, for any number
\* of requests and nights: no more than MaxManual manual snapshots ever, and
\* no more than MaxTotal altogether after a night that went as planned,
\* although the nightly task checks no limit.
THEOREM LimitHolds == Spec => []SnapshotLimit
<1>1. Init => SnapshotLimit
  <2> SUFFICES ASSUME Init  PROVE SnapshotLimit
    OBVIOUS
  <2>1. Cardinality({}) = 0 /\ ManualOf(snaps) = {} /\ snaps = {}
    BY FS_EmptySet DEF Init, ManualOf
  <2> QED BY <2>1, Constants DEF SnapshotLimit
<1>2. TypeOK /\ TaskInv /\ NightInv /\ SnapshotLimit /\ [Next]_vars
        => TypeOK' /\ TaskInv' /\ NightInv' /\ SnapshotLimit'
  <2> SUFFICES ASSUME TypeOK, TaskInv, NightInv, SnapshotLimit, [Next]_vars
               PROVE  TypeOK' /\ TaskInv' /\ NightInv' /\ SnapshotLimit'
    OBVIOUS
  <2>1. Cardinality(ManualOf(snaps')) <= MaxManual
    BY ManualLimit DEF SnapshotLimit
  <2>2. kept' /\ nightly' = "asleep" => Cardinality(snaps') <= MaxTotal
    BY TotalLimit
  <2> QED BY <2>1, <2>2, TypeStep, NightStep DEF SnapshotLimit
<1> QED BY <1>1, <1>2, Begin, PTL DEF Spec
=============================================================================
