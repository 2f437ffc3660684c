------------------------------ MODULE VmExpiry ------------------------------
(***************************************************************************)
(* The lifetime of a VM with an expiry date: created for Lease days,       *)
(* extended by its owner, stopped when it has expired, deleted Grace days  *)
(* later.                                                                  *)
(*                                                                         *)
(* The background task _expire_vms_loop makes a pass every hour: a thread  *)
(* stops the VMs in their grace period (_process_grace_vms), then the      *)
(* event loop, without an await, deletes those whose grace period is over, *)
(* announces coming expiries and discards old notices.  While the thread   *)
(* runs, the event loop serves the users: every endpoint that changes one  *)
(* of these VMs may run between two of the thread's steps.                 *)
(***************************************************************************)
EXTENDS Integers

CONSTANTS
  Vms,        \* the VMs with an expiry date: those of USER accounts
  Day,        \* units of time in a day
  Lease,      \* days a new VM is given, 7 in the code
  Extension,  \* days an extension adds, 14
  Window,     \* extend from so many days before the expiry, 7
  Grace,      \* EXPIRE_GRACE_DAYS, 3
  Soon,       \* days before the expiry the owner is told, 3
  Keep,       \* days a notice is kept, 15
  MaxNow,     \* bound of the clock
  Faults      \* the remote calls that may fail: "stop", "delete"

ASSUME ExpiryAssumption ==
  /\ {Day, Lease, Extension, Window, Grace, Soon, Keep} \subseteq Nat \ {0}
  /\ Grace < Extension /\ Grace < Keep
  /\ MaxNow \in Nat
  /\ Faults \subseteq {"stop", "delete"}

VARIABLES
  now,       \* the time
  vm,        \* the VM: "none", or its expiry date and whether it runs
  notices,   \* notifications about expiry the loop looks for again
  loop,      \* _expire_vms_loop and its thread
  lastPass,  \* when the last completed pass began
  excused    \* VMs an administrator started, or that could not be stopped,
             \* since they expired (history)

vars == <<now, vm, notices, loop, lastPass, excused>>

Gone   == [exists |-> FALSE, expires |-> 0, running |-> FALSE]
Vm     == [exists: BOOLEAN, expires: Nat, running: BOOLEAN]
Notice == [vm: Vms, kind: {"grace", "soon"}, created: Nat]

\* pc: "sleep", "notice" and "stop" of VM cur in the thread, "rest" on the
\* event loop; at: the pass's `now`; todo: VMs the thread has still to visit;
\* read: their expiry dates as loaded; reload: a COMMIT of the session has
\* discarded what it loaded.
Asleep == [pc |-> "sleep", at |-> 0, todo |-> {}, cur |-> {},
           read |-> [v \in Vms |-> 0], reload |-> FALSE]

TypeOK ==
  /\ now \in 0..MaxNow /\ lastPass \in -1..now
  /\ vm \in [Vms -> Vm]
  /\ notices \subseteq Notice
  /\ loop \in [pc: {"sleep", "notice", "stop", "rest"}, at: Nat,
               todo: SUBSET Vms, cur: SUBSET Vms, read: [Vms -> Nat],
               reload: BOOLEAN]
  /\ loop.at <= now /\ (loop.cur # {} <=> loop.pc \in {"notice", "stop"})
  /\ excused \subseteq Vms

Init ==
  /\ now = 0 /\ lastPass = -1
  /\ vm = [v \in Vms |-> Gone]
  /\ notices = {}
  /\ loop = Asleep
  /\ excused = {}

-----------------------------------------------------------------------------
(* The users.                                                               *)
Existing == {v \in Vms : vm[v].exists}

\* A row of create_vm for a USER account; a VM's name is not used again.
Create(v) ==
  /\ vm[v] = Gone /\ \A n \in notices : n.vm # v
  /\ v \notin loop.todo \cup loop.cur
  /\ vm' = [vm EXCEPT ![v] = [exists |-> TRUE, expires |-> now + Lease * Day,
                              running |-> TRUE]]
  /\ UNCHANGED <<now, notices, loop, lastPass, excused>>

\* timedelta.days rounds down, and so does \div.
DaysLeft(v) == (vm[v].expires - now) \div Day

Extendable_Always(v) == TRUE
Extendable(v) == DaysLeft(v) <= Window

Extend(v) ==
  /\ v \in Existing /\ Extendable(v)
  /\ vm' = [vm EXCEPT ![v].expires = @ + Extension * Day]
  /\ excused' = IF vm'[v].expires > now THEN excused \ {v} ELSE excused
  /\ UNCHANGED <<now, notices, loop, lastPass>>

Expired(v) == v \in Existing /\ vm[v].expires <= now

\* control_vm: only an administrator starts an expired VM.
MayStart_Any(v, admin) == TRUE
MayStart(v, admin) == admin \/ ~Expired(v)

PowerOn(v, admin) ==
  /\ v \in Existing /\ MayStart(v, admin) /\ ~vm[v].running
  /\ vm' = [vm EXCEPT ![v].running = TRUE]
  /\ excused' = IF admin /\ Expired(v) THEN excused \cup {v} ELSE excused
  /\ UNCHANGED <<now, notices, loop, lastPass>>

PowerOff(v) ==
  /\ v \in Existing /\ vm[v].running
  /\ vm' = [vm EXCEPT ![v].running = FALSE]
  /\ UNCHANGED <<now, notices, loop, lastPass, excused>>

Delete(v) ==
  /\ v \in Existing
  /\ vm' = [vm EXCEPT ![v] = Gone]
  /\ excused' = excused \ {v}
  /\ UNCHANGED <<now, notices, loop, lastPass>>

-----------------------------------------------------------------------------
(* The pass: the thread of _process_grace_vms.                              *)

InGrace(v, t) == /\ v \in Existing /\ vm[v].expires <= t
                 /\ vm[v].expires > t - Grace * Day

Visit_Stay(l) ==
  IF l.todo = {} THEN {[l EXCEPT !.pc = "rest"]}
  ELSE {[l EXCEPT !.pc = "notice", !.todo = @ \ {v}, !.cur = {v}] : v \in l.todo}

\* The loop over the VMs of the query, in no particular order.
Visit(l) ==
  IF l.todo = {} THEN {[l EXCEPT !.pc = "rest", !.cur = {}]}
  ELSE {[l EXCEPT !.pc = "notice", !.todo = @ \ {v}, !.cur = {v}] : v \in l.todo}

PassBegin ==
  /\ loop.pc = "sleep"
  /\ loop' \in Visit([Asleep EXCEPT !.at = now,
                        !.todo = {v \in Vms : InGrace(v, now)},
                        !.read = [v \in Vms |-> vm[v].expires]])
  /\ UNCHANGED <<now, vm, notices, lastPass, excused>>

\* After a COMMIT the session reads the row again, and raises if it is gone:
\* once more in the handler that logs the error, so that the pass ends.
RowLost(v) == loop.reload /\ ~vm[v].exists

PassAborted ==
  /\ \E v \in loop.cur : loop.pc \in {"notice", "stop"} /\ RowLost(v)
  /\ loop' = Asleep
  /\ UNCHANGED <<now, vm, notices, lastPass, excused>>

NoticeOf_Ever(v, e) == \E n \in notices : n.vm = v /\ n.kind = "grace"
NoticeOf(v, e) == \E n \in notices : n.vm = v /\ n.kind = "grace" /\ n.created >= e

GraceNotice(v) ==
  LET e == IF loop.reload THEN vm[v].expires ELSE loop.read[v] IN
  /\ loop.pc = "notice" /\ v \in loop.cur /\ ~RowLost(v)
  /\ IF NoticeOf(v, e) THEN UNCHANGED notices /\ loop' = [loop EXCEPT !.pc = "stop"]
     ELSE /\ notices' = notices \cup {[vm |-> v, kind |-> "grace", created |-> now]}
          /\ loop' = [loop EXCEPT !.pc = "stop", !.reload = TRUE]
  /\ UNCHANGED <<now, vm, lastPass, excused>>

\* The expiry date is not looked at again.
GraceStop(v) ==
  /\ loop.pc = "stop" /\ v \in loop.cur /\ ~RowLost(v)
  /\ \/ /\ vm' = [vm EXCEPT ![v].running = FALSE]
        /\ excused' = IF Expired(v) THEN excused \ {v} ELSE excused
     \/ /\ "stop" \in Faults /\ UNCHANGED vm
        /\ excused' = IF Expired(v) THEN excused \cup {v} ELSE excused
  /\ loop' \in Visit(loop)
  /\ UNCHANGED <<now, notices, lastPass>>

-----------------------------------------------------------------------------
(* The rest of the pass runs on the event loop without an await.            *)

Overdue_AsLoaded(v) == v \in Existing /\ loop.read[v] <= loop.at - Grace * Day
Overdue(v) == v \in Existing /\ vm[v].expires <= loop.at - Grace * Day

\* The calls of delete_vm that succeed.
Deletions == LET due == {v \in Vms : Overdue(v)} IN
             IF "delete" \in Faults THEN SUBSET due ELSE {due}

\* One notice a day for a VM that expires soon; VMs just deleted have none.
SoonNotices ==
  {[vm |-> v, kind |-> "soon", created |-> now] :
     v \in {v \in Existing :
              /\ vm[v].expires > loop.at
              /\ vm[v].expires <= loop.at + Soon * Day
              /\ ~\E n \in notices : /\ n.vm = v /\ n.kind = "soon"
                                     /\ n.created >= loop.at - (loop.at % Day)}}

Retained(n) == n.created >= loop.at - Keep * Day

PassRest ==
  /\ loop.pc = "rest"
  /\ \E del \in Deletions :
       /\ vm' = [v \in Vms |-> IF v \in del THEN Gone ELSE vm[v]]
       /\ excused' = excused \ del
  /\ notices' = {n \in notices \cup SoonNotices : Retained(n)}
  /\ lastPass' = loop.at
  /\ loop' = Asleep
  /\ UNCHANGED now

\* The pass fails in its rest, or the process stops there, some deletions and
\* the COMMIT of the announcements being done; it is begun again.
PassCutShort ==
  /\ loop.pc = "rest"
  /\ \E del \in SUBSET {v \in Vms : Overdue(v)} :
       /\ vm' = [v \in Vms |-> IF v \in del THEN Gone ELSE vm[v]]
       /\ excused' = excused \ del
  /\ notices' \in {notices, notices \cup SoonNotices}
  /\ loop' = Asleep
  /\ UNCHANGED <<now, lastPass>>

\* The process stops while the thread is at work, and is started again; the
\* loop begins with a pass.
Crash ==
  /\ loop.pc \in {"notice", "stop"}
  /\ loop' = Asleep
  /\ UNCHANGED <<now, vm, notices, lastPass, excused>>

\* A unit of time is longer than the loop's interval, EXPIRE_LOOP_INTERVAL:
\* a pass has been completed before the next unit begins.
Tick ==
  /\ now < MaxNow /\ loop.pc = "sleep" /\ lastPass = now
  /\ now' = now + 1
  /\ UNCHANGED <<vm, notices, loop, lastPass, excused>>

UserStep ==
  \E v \in Vms : \/ Create(v) \/ Extend(v) \/ Delete(v) \/ PowerOff(v)
                 \/ \E admin \in BOOLEAN : PowerOn(v, admin)

LoopStep ==
  \/ PassBegin \/ PassAborted \/ PassRest \/ PassCutShort \/ Crash
  \/ \E v \in Vms : GraceNotice(v) \/ GraceStop(v)

Next == UserStep \/ LoopStep \/ Tick

Spec == Init /\ [][Next]_vars

-----------------------------------------------------------------------------
(* Properties.                                                              *)
Removed(v) == loop.pc = "rest" /\ vm[v].exists /\ ~vm'[v].exists
              /\ loop'.pc = "sleep"

\* The loop deletes a VM only if its grace period is over by the date that is
\* valid at that moment: an extension during the pass saves it.
DeletedOnlyOverdue ==
  [][\A v \in Vms : Removed(v) => vm[v].expires + Grace * Day <= now]_vars

\* The owner of a VM the loop deletes was told after it expired, although
\* passes are cut short and old notices are discarded.
WarnedBeforeDeletion ==
  [][\A v \in Vms : Removed(v) =>
       \E n \in notices : n.vm = v /\ n.kind = "grace" /\ n.created >= vm[v].expires]_vars

\* After a pass no VM in its grace period runs, unless an administrator
\* started it or Proxmox refused: owners cannot undo what the loop did.
ExpiredIsDown ==
  \A v \in Vms : lastPass = now /\ InGrace(v, now) /\ v \notin excused =>
    ~vm[v].running

\* Nobody holds a VM for longer than its lease, or an extension on top of the
\* window, however extensions and passes follow each other.
LeaseBounded ==
  \A v \in Existing :
    \/ vm[v].expires - now <= Lease * Day
    \/ vm[v].expires - now < (Window + 1 + Extension) * Day
=============================================================================
