----------------------------- MODULE Snapshots -----------------------------
(***************************************************************************)
(* The snapshots of one VM: manual ones, at most MaxManual, created by     *)
(* requests that may arrive together, and the automatic ones the nightly   *)
(* task _daily_snapshot_loop deletes and creates.                          *)
(*                                                                         *)
(* Requests and the nightly task share the event loop.  create_snapshot    *)
(* checks and creates under _snapshot_create_guard.  On PostgreSQL that is *)
(* an advisory lock of the request's transaction, taken with a call that   *)
(* blocks the event loop, and kept until get_db closes the session, in a   *)
(* thread the event loop starts when it has dealt with the response.  On   *)
(* any other database it is an asyncio.Lock held without an await.         *)
(***************************************************************************)
EXTENDS Integers, FiniteSets

CONSTANTS
  Requests,    \* requests of create_snapshot
  Names,       \* names a user gives a snapshot
  AutoNames,   \* the names that begin with AUTO_SNAP_PREFIX a user may give as
               \* well; a number is the name of that day's automatic snapshot
  MaxManual,   \* 2 in the code
  MaxTotal,    \* 3
  MaxDay,      \* bound of the calendar
  PostgreSQL,  \* the guard is the advisory lock
  Faults       \* "task": Proxmox may refuse a request, and a task of it may
               \* fail or outlast the wait; "db": a query of the nightly task
               \* may fail

ASSUME SnapshotAssumption ==
  /\ IsFiniteSet(Requests) /\ IsFiniteSet(Names) /\ IsFiniteSet(AutoNames)
  /\ MaxManual \in Nat \ {0} /\ MaxTotal \in Nat /\ MaxManual < MaxTotal
  /\ MaxDay \in Nat
  /\ PostgreSQL \in BOOLEAN /\ Faults \subseteq {"task", "db"}

VARIABLES
  snaps,    \* the snapshots Proxmox lists, those being created included
  tasks,    \* the creations and deletions it has not finished
  auto,     \* column auto_snapshot
  day,      \* the date
  nightly,  \* _daily_snapshot_loop: asleep, between its two halves, or
            \* about to try both again
  kept,     \* the last night went as planned: auto stayed on, Proxmox did not
            \* refuse, fail or delay a deletion, and no user gave a snapshot
            \* an automatic name between its halves (history)
  phase,    \* of each request
  lock      \* the requests whose transaction holds the advisory lock

vars == <<snaps, tasks, auto, day, nightly, kept, phase, lock>>
proxmox == <<snaps, tasks>>
requests == <<phase, lock>>

\* A snapshot is automatic by its name, whoever made it.
Requested == [kind: {"manual"}, name: Names] \cup [kind: {"auto"}, name: AutoNames]
Nightly(d) == [kind |-> "auto", name |-> d]

Snap == Requested \cup {Nightly(d) : d \in 0..MaxDay}
Task == [op: {"create", "delete"}, snap: Snap]

ManualOf(S) == {s \in S : s.kind = "manual"}
AutoOf(S)   == {s \in S : s.kind = "auto"}

TypeOK ==
  /\ snaps \subseteq Snap /\ tasks \subseteq Task
  /\ \A t \in tasks : t.op = "create" => t.snap \in snaps
  /\ auto \in BOOLEAN /\ kept \in BOOLEAN
  /\ day \in 0..MaxDay /\ nightly \in {"asleep", "again", "waiting"}
  /\ phase \in [Requests -> {"none", "arrived", "blocked", "returned",
                             "closing", "closed"}]
  /\ lock \subseteq Requests /\ Cardinality(lock) <= 1

Init ==
  /\ snaps = {} /\ tasks = {}
  /\ auto = FALSE /\ day = 0 /\ nightly = "asleep" /\ kept = FALSE
  /\ phase = [r \in Requests |-> "none"] /\ lock = {}

\* The event loop runs nothing else while a request waits for the lock.
LoopRuns == \A r \in Requests : phase[r] # "blocked"

-----------------------------------------------------------------------------
(* create_snapshot.                                                         *)
Arrive(r) ==
  /\ phase[r] = "none"
  /\ phase' = [phase EXCEPT ![r] = "arrived"]
  /\ UNCHANGED <<proxmox, auto, day, nightly, kept, lock>>

Creatable_OneMore(new) ==
  /\ new \notin snaps
  /\ Cardinality(ManualOf(snaps)) <= MaxManual
  /\ Cardinality(snaps) < MaxTotal

Creatable(new) ==
  /\ new \notin snaps
  /\ Cardinality(ManualOf(snaps)) < MaxManual
  /\ Cardinality(snaps) < MaxTotal

\* Inside the guard: list, check, create; a refusal returns as well.
CheckAndCreate(new) ==
  \/ /\ Creatable(new)
     /\ snaps' = snaps \cup {new}
     /\ tasks' = tasks \cup {[op |-> "create", snap |-> new]}
     /\ kept' = (kept /\ (new.kind = "auto" => nightly # "waiting"))
  \/ /\ ~Creatable(new) \/ "task" \in Faults
     /\ UNCHANGED <<proxmox, kept>>

Handle(r) ==
  /\ LoopRuns /\ phase[r] = "arrived"
  /\ IF PostgreSQL /\ lock # {}
     THEN /\ phase' = [phase EXCEPT ![r] = "blocked"]
          /\ UNCHANGED <<proxmox, kept, lock>>
     ELSE /\ \E new \in Requested : CheckAndCreate(new)
          /\ phase' = [phase EXCEPT ![r] = "returned"]
          /\ lock' = IF PostgreSQL THEN {r} ELSE lock
  /\ UNCHANGED <<auto, day, nightly>>

\* The database grants the lock: the call returns and the handler goes on.
Granted(r) ==
  /\ phase[r] = "blocked" /\ lock = {}
  /\ \E new \in Requested : CheckAndCreate(new)
  /\ phase' = [phase EXCEPT ![r] = "returned"]
  /\ lock' = {r}
  /\ UNCHANGED <<auto, day, nightly>>

\* The event loop hands the rest of get_db to a thread ...
Respond(r) ==
  /\ LoopRuns /\ phase[r] = "returned"
  /\ phase' = [phase EXCEPT ![r] = "closing"]
  /\ UNCHANGED <<proxmox, auto, day, nightly, kept, lock>>

\* ... which closes the session: the transaction ends, the lock is released.
Close(r) ==
  /\ phase[r] = "closing"
  /\ phase' = [phase EXCEPT ![r] = "closed"]
  /\ lock' = lock \ {r}
  /\ UNCHANGED <<proxmox, auto, day, nightly, kept>>

-----------------------------------------------------------------------------
(* The other endpoints, and the tasks of Proxmox.                           *)

Free_All(S) == S
Free(S) == {s \in S : \A t \in tasks : t.snap # s}
Deletion(S) == {[op |-> "delete", snap |-> s] : s \in S}

DeleteSnapshot(s) ==
  /\ LoopRuns
  /\ s \in Free(snaps)
  /\ tasks' = tasks \cup Deletion({s})
  /\ UNCHANGED <<snaps, auto, day, nightly, kept, requests>>

ToggleAuto ==
  /\ LoopRuns
  /\ auto' = ~auto
  /\ kept' = (kept /\ nightly # "waiting")
  /\ UNCHANGED <<proxmox, day, nightly, requests>>

AutoDeletions == {t \in tasks : t.op = "delete" /\ t.snap.kind = "auto"}

\* A task ends; one that fails leaves, or takes back, what it was about.
TaskEnds(t) ==
  /\ tasks' = tasks \ {t}
  /\ \/ /\ snaps' = IF t.op = "delete" THEN snaps \ {t.snap} ELSE snaps
        /\ UNCHANGED kept
     \/ /\ "task" \in Faults
        /\ snaps' = IF t.op = "create" THEN snaps \ {t.snap} ELSE snaps
        /\ kept' = (kept /\ t \notin AutoDeletions)
  /\ UNCHANGED <<auto, day, nightly, requests>>

-----------------------------------------------------------------------------
(* _daily_snapshot_loop.                                                    *)

\* At midnight every automatic snapshot of a VM with auto on is deleted.
\* Proxmox refuses to delete one it is working on; a call that fails ends the
\* work on this VM.
Outdated_LastTwoDays == {Nightly(day), Nightly(day - 1)} \cap snaps
Outdated == AutoOf(snaps)

DailyDelete ==
  /\ LoopRuns /\ nightly \in {"asleep", "again"}
  /\ nightly = "asleep" => day < MaxDay
  /\ day' = IF nightly = "asleep" THEN day + 1 ELSE day
  /\ \/ /\ nightly' = "waiting"
        /\ \E del \in SUBSET Outdated :
             /\ del = Outdated \/ "task" \in Faults
             /\ kept' = (auto /\ del = Outdated /\ Free(del) = del)
             /\ tasks' = IF auto THEN tasks \cup Deletion(Free(del)) ELSE tasks
     \/ /\ "db" \in Faults
        /\ nightly' = "again"
        /\ UNCHANGED <<kept, tasks>>
  /\ UNCHANGED <<snaps, auto, requests>>

\* A minute later, when the deletions are done or were waited for long
\* enough, today's snapshot is created if auto is on now.  Proxmox refuses a
\* name it has.
DailyCreate ==
  LET new == Nightly(day) IN
  /\ LoopRuns /\ nightly = "waiting"
  /\ AutoDeletions = {} \/ "task" \in Faults
  /\ \/ /\ nightly' = "asleep"
        /\ kept' = (kept /\ AutoDeletions = {})
        /\ \/ /\ auto /\ new \notin snaps
              /\ snaps' = snaps \cup {new}
              /\ tasks' = tasks \cup {[op |-> "create", snap |-> new]}
           \/ /\ ~auto \/ new \in snaps \/ "task" \in Faults
              /\ UNCHANGED proxmox
     \/ /\ "db" \in Faults
        /\ nightly' = "again"
        /\ UNCHANGED <<proxmox, kept>>
  /\ UNCHANGED <<auto, day, requests>>

Serve(r) == Handle(r) \/ Granted(r) \/ Respond(r) \/ Close(r)

Next ==
  \/ \E r \in Requests : Arrive(r) \/ Serve(r)
  \/ \E s \in snaps : DeleteSnapshot(s)
  \/ \E t \in tasks : TaskEnds(t)
  \/ ToggleAuto \/ DailyDelete \/ DailyCreate

\* The event loop and the database serve every request in the end.
Spec == Init /\ [][Next]_vars /\ \A r \in Requests : WF_vars(Serve(r))

-----------------------------------------------------------------------------
(* Properties.                                                              *)

\* Requests that overlap each other and the nightly task never make more than
\* MaxManual manual snapshots, and, after a night that went as planned, never
\* more than MaxTotal altogether, although the nightly task checks no limit.
SnapshotLimit ==
  /\ Cardinality(ManualOf(snaps)) <= MaxManual
  /\ kept /\ nightly = "asleep" => Cardinality(snaps) <= MaxTotal

\* A night that goes as planned leaves no automatic snapshot but today's, also
\* when one had stayed from a time when auto was off, or a user gave its name.
AutosReplaced ==
  [][nightly = "waiting" /\ nightly' = "asleep" /\ kept' =>
       AutoOf(snaps') \subseteq {Nightly(day)}]_vars

\* A request of create_snapshot is answered.
EveryRequestAnswered ==
  \A r \in Requests : phase[r] = "arrived" ~> phase[r] = "closed"
=============================================================================
