-------------------------- MODULE VmExpiry_proofs --------------------------
(* Proofs about VmExpiry: no owner holds a VM beyond the lease or one       *)
(* extension on top of the window; the loop deletes only what is overdue by *)
(* the date that is valid at that moment; nothing is overdue that its last  *)
(* pass did not warn about; and an expired VM stays down.                   *)
EXTENDS VmExpiry, TLAPS


\* Rounding down: a VM that may be extended has less than Window + 1 days.
LEMMA DaysLeftBound ==
  ASSUME NEW v \in Vms, vm[v].expires \in Int, now \in Int, Extendable(v)
  PROVE  vm[v].expires - now < (Window + 1) * Day
<1> DEFINE e == vm[v].expires - now
<1>1. e \in Int /\ Day \in Nat \ {0} /\ Window \in Nat
  BY ExpiryAssumption
<1>2. e \div Day <= Window
  BY DEF Extendable, DaysLeft
<1> HIDE DEF e
<1>3. e < (e \div Day + 1) * Day
  BY <1>1
<1>4. (e \div Day + 1) * Day <= (Window + 1) * Day
  <2>1. (e \div Day) \in Int
    BY <1>1
  <2> QED BY <1>1, <1>2, <2>1
<1>5. e < (Window + 1) * Day
  <2>1. (e \div Day + 1) * Day \in Int /\ (Window + 1) * Day \in Int
    BY <1>1
  <2> QED BY <1>1, <1>3, <1>4, <2>1
<1> QED
  BY <1>5 DEF e
-----------------------------------------------------------------------------
(* Type correctness.                                                        *)

LEMMA Sizes ==
  /\ Lease * Day \in Nat /\ Extension * Day \in Nat /\ Grace * Day \in Nat
  /\ Lease \in Nat /\ Extension \in Nat /\ Window \in Nat /\ Day \in Nat
  /\ MaxNow \in Nat
BY ExpiryAssumption

LEMMA AsleepType ==
  /\ Asleep.pc = "sleep" /\ Asleep.cur = {} /\ Asleep.at = 0
  /\ Asleep \in [pc: {"sleep", "notice", "stop", "rest"}, at: Nat,
                 todo: SUBSET Vms, cur: SUBSET Vms, read: [Vms -> Nat],
                 reload: BOOLEAN]
BY DEF Asleep

LoopType ==
  [pc: {"sleep", "notice", "stop", "rest"}, at: Nat, todo: SUBSET Vms,
   cur: SUBSET Vms, read: [Vms -> Nat], reload: BOOLEAN]

\* Going to the next VM keeps the time of the pass, and cur and pc together.
LEMMA VisitType ==
  ASSUME NEW l \in LoopType, NEW k \in Visit(l)
  PROVE  /\ k \in LoopType /\ k.at = l.at
         /\ k.cur # {} <=> k.pc \in {"notice", "stop"}
         /\ k.pc # "sleep"
<1>1. CASE l.todo = {}
  BY <1>1 DEF Visit, LoopType
<1>2. CASE l.todo # {}
  <2>1. PICK v \in l.todo :
          k = [l EXCEPT !.pc = "notice", !.todo = @ \ {v}, !.cur = {v}]
    BY <1>2 DEF Visit
  <2> QED BY <2>1 DEF LoopType
<1> QED BY <1>1, <1>2

LEMMA UserType ==
  ASSUME TypeOK, UserStep  PROVE TypeOK'
<1> USE Sizes DEF TypeOK, Vm
<1>1. PICK v \in Vms : \/ Create(v) \/ Extend(v) \/ Delete(v) \/ PowerOff(v)
                       \/ \E admin \in BOOLEAN : PowerOn(v, admin)
  BY DEF UserStep
<1>2. now' = now /\ notices' = notices /\ loop' = loop /\ lastPass' = lastPass
  BY <1>1 DEF Create, Extend, Delete, PowerOff, PowerOn
<1>3. vm' \in [Vms -> Vm] /\ excused' \subseteq Vms
  <2>1. CASE Create(v)
    <3>1. \A x \in Nat : now + x \in Nat
      BY DEF TypeOK
    <3>2. now + Lease * Day \in Nat
      BY <3>1, Sizes
    <3> QED BY <2>1, <3>2 DEF Create
  <2>2. CASE Extend(v)
    BY <2>2 DEF Extend
  <2>3. CASE Delete(v)
    BY <2>3 DEF Delete, Gone
  <2>4. CASE PowerOff(v)
    BY <2>4 DEF PowerOff
  <2>5. CASE \E admin \in BOOLEAN : PowerOn(v, admin)
    <3>1. PICK admin \in BOOLEAN : PowerOn(v, admin)
      BY <2>5
    <3>2. /\ vm' = [vm EXCEPT ![v].running = TRUE]
          /\ excused' = excused \cup {v} \/ excused' = excused
      BY <3>1 DEF PowerOn
    <3> QED BY <3>2
  <2> QED BY <1>1, <2>1, <2>2, <2>3, <2>4, <2>5
<1> QED BY <1>2, <1>3

LEMMA DeletionsOverdue ==
  \A del \in Deletions : del \subseteq {v \in Vms : Overdue(v)}
BY DEF Deletions

LEMMA LoopTypeStep ==
  ASSUME TypeOK, LoopStep  PROVE TypeOK'
<1> USE Sizes DEF TypeOK, Vm
<1>0. loop \in LoopType /\ Asleep \in LoopType /\ Asleep.at <= now
  BY AsleepType DEF LoopType
<1>1. CASE PassBegin
  <2> DEFINE l == [Asleep EXCEPT !.at = now, !.todo = {v \in Vms : InGrace(v, now)},
                                 !.read = [v \in Vms |-> vm[v].expires]]
  <2>1. l \in LoopType /\ l.at = now
    <3>1. /\ {v \in Vms : InGrace(v, now)} \in SUBSET Vms
          /\ [v \in Vms |-> vm[v].expires] \in [Vms -> Nat]
          /\ now \in Nat
      OBVIOUS
    <3> QED BY <1>0, <3>1 DEF LoopType
  <2>2. loop' \in Visit(l)
    BY <1>1 DEF PassBegin
  <2> HIDE DEF l
  <2>3. loop' \in LoopType /\ loop'.at = now
        /\ (loop'.cur # {} <=> loop'.pc \in {"notice", "stop"})
    BY <2>1, <2>2, VisitType
  <2> QED BY <1>1, <2>3 DEF PassBegin, LoopType
<1>2. CASE PassAborted \/ Crash
  BY <1>0, <1>2, AsleepType DEF PassAborted, Crash, LoopType
<1>3. CASE PassRest \/ PassCutShort
  <2>1. PICK del \in SUBSET Vms :
          /\ vm' = [v \in Vms |-> IF v \in del THEN Gone ELSE vm[v]]
          /\ excused' = excused \ del
    BY <1>3, DeletionsOverdue DEF PassRest, PassCutShort
  <2>2. Gone \in Vm
    BY DEF Gone
  <2>3. vm' \in [Vms -> Vm]
    BY <2>1, <2>2
  <2>4. notices' \subseteq Notice
    <3>1. now \in Nat /\ Existing \subseteq Vms
      BY DEF Existing
    <3>2. \A v \in Vms : [vm |-> v, kind |-> "soon", created |-> now] \in Notice
      BY <3>1 DEF Notice
    <3>3. SoonNotices \subseteq Notice
      BY <3>1, <3>2 DEF SoonNotices
    <3> QED BY <1>3, <3>3 DEF PassRest, PassCutShort
  <2> QED BY <1>0, <1>3, <2>1, <2>3, <2>4, AsleepType DEF PassRest, PassCutShort, LoopType
<1>4. ASSUME NEW v \in Vms, GraceNotice(v)  PROVE TypeOK'
  <2>1. /\ loop.pc = "notice" /\ v \in loop.cur
        /\ \/ loop' = [loop EXCEPT !.pc = "stop"]
           \/ loop' = [loop EXCEPT !.pc = "stop", !.reload = TRUE]
        /\ \/ notices' = notices
           \/ notices' = notices \cup {[vm |-> v, kind |-> "grace", created |-> now]}
    BY <1>4 DEF GraceNotice
  <2>2. loop' \in LoopType /\ loop'.at = loop.at /\ loop'.cur = loop.cur
        /\ loop'.pc = "stop"
    BY <1>0, <2>1 DEF LoopType
  <2>3. notices' \subseteq Notice
    BY <2>1 DEF Notice
  <2> QED BY <1>4, <2>1, <2>2, <2>3 DEF GraceNotice, LoopType
<1>5. ASSUME NEW v \in Vms, GraceStop(v)  PROVE TypeOK'
  <2>1. loop' \in LoopType /\ loop'.at = loop.at
        /\ (loop'.cur # {} <=> loop'.pc \in {"notice", "stop"})
    BY <1>0, <1>5, VisitType DEF GraceStop
  <2>2. vm' \in [Vms -> Vm] /\ excused' \subseteq Vms
    <3>1. /\ vm' = [vm EXCEPT ![v].running = FALSE] \/ vm' = vm
          /\ excused' \in {excused, excused \cup {v}, excused \ {v}}
      BY <1>5 DEF GraceStop
    <3>2. vm \in [Vms -> Vm] /\ vm[v] \in Vm
      BY DEF TypeOK
    <3>4. [vm[v] EXCEPT !.running = FALSE] \in Vm
      BY <3>2 DEF Vm
    <3>5. vm' = vm \/ vm' = [vm EXCEPT ![v] = [vm[v] EXCEPT !.running = FALSE]]
      BY <3>1
    <3>6. vm' \in [Vms -> Vm]
      BY <3>2, <3>4, <3>5
    <3>3. excused' \subseteq Vms
      BY <3>1
    <3> QED BY <3>3, <3>6
  <2> QED BY <1>5, <2>1, <2>2 DEF GraceStop, LoopType
<1> QED
  BY <1>1, <1>2, <1>3, <1>4, <1>5 DEF LoopStep

\* The time of a pass is never ahead of the clock, and the loop's locals have
\* their types: the thread and the endpoints never meet a VM they cannot read.
THEOREM TypeCorrect == Spec => []TypeOK
<1>1. Init => TypeOK
  BY Sizes, AsleepType DEF Init, TypeOK, Vm, Gone
<1>2. TypeOK /\ [Next]_vars => TypeOK'
  <2> SUFFICES ASSUME TypeOK, [Next]_vars  PROVE TypeOK'
    OBVIOUS
  <2>1. CASE Tick
    BY <2>1, Sizes DEF Tick, TypeOK
  <2>2. CASE UNCHANGED vars
    BY <2>2 DEF vars, TypeOK
  <2> QED BY <2>1, <2>2, UserType, LoopTypeStep DEF Next
<1> QED BY <1>1, <1>2, PTL DEF Spec

-----------------------------------------------------------------------------
(* What the clock, the extension and the loop do to the expiry dates.       *)

\* Deleting a VM only when it is overdue follows from the query the event
\* loop makes after the thread has ended, and from pass times being past.
LEMMA OverdueStep ==
  ASSUME TypeOK, [Next]_vars, NEW v \in Vms, Removed(v)
  PROVE  vm[v].expires + Grace * Day <= now
<1>1. PassRest \/ PassCutShort
  <2>1. loop.pc = "rest" /\ loop'.pc = "sleep"
    BY DEF Removed
  <2>2. ~UserStep /\ ~Tick /\ ~UNCHANGED vars
    BY <2>1 DEF UserStep, Create, Extend, Delete, PowerOff, PowerOn, Tick, vars
  <2>3. ~Crash /\ ~PassBegin /\ ~PassAborted
    BY <2>1 DEF Crash, PassBegin, PassAborted
  <2>4. \A x \in Vms : ~GraceNotice(x) /\ ~GraceStop(x)
    BY <2>1 DEF GraceNotice, GraceStop
  <2> QED BY <2>2, <2>3, <2>4 DEF Next, LoopStep
<1>2. Overdue(v)
  <2>1. PICK del \in SUBSET {x \in Vms : Overdue(x)} :
          vm' = [x \in Vms |-> IF x \in del THEN Gone ELSE vm[x]]
    BY <1>1, DeletionsOverdue DEF PassRest, PassCutShort
  <2> QED BY <2>1 DEF Removed
<1>3. vm[v].expires <= loop.at - Grace * Day /\ loop.at <= now
  BY <1>2 DEF Overdue, TypeOK
<1>4. vm[v].expires \in Int /\ loop.at \in Int /\ now \in Int /\ Grace * Day \in Int
  BY Sizes DEF TypeOK, Vm
<1> QED
  BY <1>3, <1>4

\* The expiry loop never deletes a VM before the grace period of its current
\* expiry date is over, for any number of VMs and any order of extensions.
THEOREM NoEarlyDeletion == Spec => DeletedOnlyOverdue
<1>1. TypeOK /\ [Next]_vars => \A v \in Vms : Removed(v) => vm[v].expires + Grace * Day <= now
  BY OverdueStep
<1> QED BY <1>1, TypeCorrect, PTL DEF Spec, DeletedOnlyOverdue

\* A step leaves a VM's expiry date alone, removes the VM, creates it with a
\* fresh lease, or extends it inside the window.
LEMMA ExpiryStep ==
  ASSUME TypeOK, [Next]_vars, NEW v \in Vms, vm'[v].exists
  PROVE  \/ vm[v].exists /\ vm'[v].expires = vm[v].expires
         \/ vm'[v].expires = now + Lease * Day
         \/ /\ vm[v].exists /\ Extendable(v)
            /\ vm'[v].expires = vm[v].expires + Extension * Day
<1> USE DEF TypeOK, Vm
<1>1. CASE UserStep
  <2>1. PICK x \in Vms : \/ Create(x) \/ Extend(x) \/ Delete(x) \/ PowerOff(x)
                         \/ \E admin \in BOOLEAN : PowerOn(x, admin)
    BY <1>1 DEF UserStep
  <2>2. CASE Create(x)
    BY <2>2 DEF Create
  <2>3. CASE Extend(x)
    BY <2>3 DEF Extend, Existing
  <2>4. CASE Delete(x)
    BY <2>4 DEF Delete, Gone
  <2>5. CASE PowerOff(x) \/ \E admin \in BOOLEAN : PowerOn(x, admin)
    BY <2>5 DEF PowerOff, PowerOn
  <2> QED BY <2>1, <2>2, <2>3, <2>4, <2>5
<1>2. CASE PassRest \/ PassCutShort
  <2>1. PICK del \in SUBSET Vms : vm' = [x \in Vms |-> IF x \in del THEN Gone ELSE vm[x]]
    BY <1>2, DeletionsOverdue DEF PassRest, PassCutShort
  <2> QED BY <2>1 DEF Gone
<1>3. CASE \E x \in Vms : GraceStop(x)
  <2>1. PICK x \in Vms : vm' = [vm EXCEPT ![x].running = FALSE] \/ vm' = vm
    BY <1>3 DEF GraceStop
  <2> QED BY <2>1
<1>4. CASE PassBegin \/ PassAborted \/ Crash \/ Tick \/ UNCHANGED vars
           \/ \E x \in Vms : GraceNotice(x)
  BY <1>4 DEF PassBegin, PassAborted, Crash, Tick, vars, GraceNotice
<1> QED BY <1>1, <1>2, <1>3, <1>4 DEF Next, LoopStep

LEMMA BoundStep ==
  ASSUME TypeOK, LeaseBounded, [Next]_vars  PROVE LeaseBounded'
<1> SUFFICES ASSUME NEW v \in Vms, vm'[v].exists
             PROVE  \/ vm'[v].expires - now' <= Lease * Day
                    \/ vm'[v].expires - now' < (Window + 1 + Extension) * Day
  BY DEF LeaseBounded, Existing
<1> DEFINE a == Lease * Day
           b == (Window + 1 + Extension) * Day
           c == Extension * Day
           d == (Window + 1) * Day
<1>1. a \in Nat /\ b \in Nat /\ c \in Nat /\ d \in Nat /\ b = d + c
  BY Sizes
<1>2. now \in Nat /\ now' \in Nat /\ now <= now' /\ vm[v].expires \in Nat
  BY Sizes DEF TypeOK, Vm, Next, UserStep, LoopStep, Tick, vars, Create, Extend,
     Delete, PowerOff, PowerOn, PassBegin, PassAborted, PassRest, PassCutShort,
     Crash, GraceNotice, GraceStop
<1>3. vm[v].exists => vm[v].expires - now <= a \/ vm[v].expires - now < b
  BY DEF LeaseBounded, Existing
<1>4. vm[v].exists /\ Extendable(v) => vm[v].expires - now < d
  BY <1>2, DaysLeftBound
<1>5. \/ vm[v].exists /\ vm'[v].expires = vm[v].expires
      \/ vm'[v].expires = now + a
      \/ vm[v].exists /\ Extendable(v) /\ vm'[v].expires = vm[v].expires + c
  BY ExpiryStep
<1> HIDE DEF a, b, c, d
<1>6. vm'[v].expires - now' <= a \/ vm'[v].expires - now' < b
  BY <1>1, <1>2, <1>3, <1>4, <1>5
<1> QED BY <1>6 DEF a, b

\* No VM has more than its lease, or the window, the fraction of a day that
\* rounding adds, and one extension, ahead of it.
THEOREM LeaseHolds == Spec => []LeaseBounded
<1>1. Init => LeaseBounded
  <2> SUFFICES ASSUME Init  PROVE LeaseBounded
    OBVIOUS
  <2>1. \A v \in Vms : ~vm[v].exists
    BY DEF Init, Gone
  <2> QED BY <2>1 DEF LeaseBounded, Existing
<1>2. TypeOK /\ LeaseBounded /\ [Next]_vars => LeaseBounded'
  BY BoundStep
<1> QED BY <1>1, <1>2, TypeCorrect, PTL DEF Spec

-----------------------------------------------------------------------------
(* What the passes have done by now.  The clock is at most one unit ahead   *)
(* of the last completed pass, the pass that runs has the time of the       *)
(* clock, and it has dealt with every expired VM it has not still to visit. *)

Unvisited == loop.todo \cup loop.cur

PassInv ==
  /\ lastPass \in {now - 1, now}
  /\ loop.pc # "sleep" => loop.at = now
  /\ \A x, y \in loop.cur : x = y
  /\ loop.pc = "rest" => loop.todo = {}

DownInv ==
  \A v \in Existing : vm[v].running /\ v \notin excused =>
    /\ vm[v].expires > lastPass
    /\ loop.pc # "sleep" => vm[v].expires > now \/ v \in Unvisited

LEMMA DayArithmetic ==
  /\ Grace * Day \in Nat /\ Extension * Day \in Nat /\ Keep * Day \in Nat
  /\ Lease * Day \in Nat /\ Lease * Day >= 1 /\ Grace * Day >= 1
  /\ Extension * Day >= Grace * Day + 1 /\ Keep * Day >= Grace * Day + 1
<1>1. /\ Day \in Nat /\ Grace \in Nat /\ Extension \in Nat /\ Keep \in Nat /\ Lease \in Nat
      /\ Day >= 1 /\ Grace >= 1 /\ Lease >= 1 /\ Extension >= Grace + 1 /\ Keep >= Grace + 1
  BY ExpiryAssumption
<1>2. \A m, n \in Nat : m >= n + 1 => m * Day >= n * Day + 1
  <2> SUFFICES ASSUME NEW m \in Nat, NEW n \in Nat, m >= n + 1
               PROVE  m * Day >= n * Day + 1
    OBVIOUS
  <2>1. PICK k \in Nat : m = n + 1 + k
    <3>1. m - n - 1 \in Nat /\ m = n + 1 + (m - n - 1)
      OBVIOUS
    <3> QED BY <3>1
  <2>2. m * Day = n * Day + Day + k * Day /\ k * Day \in Nat /\ n * Day \in Nat
    BY <1>1, <2>1
  <2> QED BY <1>1, <2>2
<1>3. \A m \in Nat : m >= 1 => m * Day >= 1
  <2>1. 0 * Day = 0
    BY <1>1
  <2> QED BY <1>2, <2>1
<1> QED BY <1>1, <1>2, <1>3

\* The thread goes to one VM it has still to visit, or has visited them all.
LEMMA VisitMoves ==
  ASSUME NEW l \in LoopType, NEW k \in Visit(l)
  PROVE  /\ k.todo \cup k.cur = l.todo /\ k.read = l.read /\ k.reload = l.reload
         /\ \A x, y \in k.cur : x = y
         /\ \/ k.pc = "rest" /\ k.todo = {}
            \/ k.pc = "notice"
<1>1. CASE l.todo = {}
  BY <1>1 DEF Visit, LoopType
<1>2. CASE l.todo # {}
  <2>1. PICK v \in l.todo :
          k = [l EXCEPT !.pc = "notice", !.todo = @ \ {v}, !.cur = {v}]
    BY <1>2 DEF Visit
  <2> QED BY <2>1 DEF LoopType
<1> QED BY <1>1, <1>2

\* What the start of a pass reads.
LEMMA PassBegins ==
  ASSUME TypeOK, PassBegin
  PROVE  /\ loop' \in LoopType /\ loop'.pc \in {"notice", "rest"} /\ loop'.at = now
         /\ loop'.todo \cup loop'.cur = {v \in Vms : InGrace(v, now)}
         /\ \A v \in Vms : loop'.read[v] = vm[v].expires
         /\ \A x, y \in loop'.cur : x = y
         /\ loop'.pc = "rest" => loop'.todo = {}
<1> DEFINE l == [Asleep EXCEPT !.at = now, !.todo = {v \in Vms : InGrace(v, now)},
                               !.read = [v \in Vms |-> vm[v].expires]]
<1>1. /\ l \in LoopType /\ l.at = now /\ l.todo = {v \in Vms : InGrace(v, now)}
      /\ \A v \in Vms : l.read[v] = vm[v].expires
  <2>1. Asleep \in LoopType
    BY AsleepType DEF LoopType
  <2>2. /\ {v \in Vms : InGrace(v, now)} \in SUBSET Vms
        /\ [v \in Vms |-> vm[v].expires] \in [Vms -> Nat]
        /\ now \in Nat
    BY Sizes DEF TypeOK, Vm
  <2> QED BY <2>1, <2>2 DEF LoopType
<1>2. loop' \in Visit(l)
  BY DEF PassBegin
<1> HIDE DEF l
<1> QED BY <1>1, <1>2, VisitType, VisitMoves

LEMMA PassInvStep ==
  ASSUME TypeOK, PassInv, [Next]_vars  PROVE PassInv'
<1> USE DEF PassInv
<1>0. loop \in LoopType /\ now \in Int /\ lastPass \in Int
  BY Sizes DEF TypeOK, LoopType
<1>1. CASE UserStep
  BY <1>1 DEF UserStep, Create, Extend, Delete, PowerOff, PowerOn
<1>2. CASE PassBegin
  BY <1>2, PassBegins DEF PassBegin
<1>3. CASE PassAborted \/ Crash \/ PassCutShort
  BY <1>3, AsleepType DEF PassAborted, Crash, PassCutShort
<1>4. CASE PassRest
  BY <1>4, AsleepType DEF PassRest
<1>5. ASSUME NEW v \in Vms, GraceNotice(v)  PROVE PassInv'
  <2>1. loop' = [loop EXCEPT !.pc = "stop"] \/ loop' = [loop EXCEPT !.pc = "stop", !.reload = TRUE]
    BY <1>5 DEF GraceNotice
  <2>2. loop'.cur = loop.cur /\ loop'.at = loop.at /\ loop'.pc = "stop"
    BY <1>0, <2>1 DEF LoopType
  <2> QED BY <1>5, <2>2 DEF GraceNotice
<1>6. ASSUME NEW v \in Vms, GraceStop(v)  PROVE PassInv'
  BY <1>0, <1>6, VisitType, VisitMoves DEF GraceStop
<1>7. CASE Tick
  BY <1>0, <1>7 DEF Tick
<1>8. CASE UNCHANGED vars
  BY <1>8 DEF vars
<1> QED BY <1>1, <1>2, <1>3, <1>4, <1>5, <1>6, <1>7, <1>8 DEF Next, LoopStep

\* Extending and starting a VM each change one column.
LEMMA ColumnsKept ==
  ASSUME TypeOK, NEW u \in Vms, NEW v \in Vms
  PROVE  /\ Extend(u) => vm'[v].exists = vm[v].exists /\ vm'[v].running = vm[v].running
         /\ vm' = [vm EXCEPT ![u].running = TRUE] =>
              vm'[v].exists = vm[v].exists /\ vm'[v].expires = vm[v].expires
<1>1. vm \in [Vms -> Vm] /\ vm[v] \in Vm
  BY DEF TypeOK
<1>2. ASSUME Extend(u)
      PROVE  vm'[v].exists = vm[v].exists /\ vm'[v].running = vm[v].running
  <2>1. vm' = [vm EXCEPT ![u].expires = @ + Extension * Day]
    BY <1>2 DEF Extend
  <2>2. CASE u = v
    BY <1>1, <2>1, <2>2 DEF Vm
  <2>3. CASE u # v
    BY <1>1, <2>1, <2>3
  <2> QED BY <2>2, <2>3
<1>3. ASSUME vm' = [vm EXCEPT ![u].running = TRUE]
      PROVE  vm'[v].exists = vm[v].exists /\ vm'[v].expires = vm[v].expires
  <2>2. CASE u = v
    BY <1>1, <1>3, <2>2 DEF Vm
  <2>3. CASE u # v
    BY <1>1, <1>3, <2>3
  <2> QED BY <2>2, <2>3
<1> QED BY <1>2, <1>3

\* Nothing an owner does makes an expired VM run; only an administrator
\* starts one, and that excuses it.
LEMMA UserDown ==
  ASSUME TypeOK, PassInv, DownInv, UserStep  PROVE DownInv'
<1> USE DEF TypeOK, Vm
<1>0. /\ now' = now /\ loop' = loop /\ lastPass' = lastPass
      /\ now \in Nat /\ lastPass \in Int /\ lastPass <= now
  BY Sizes DEF UserStep, Create, Extend, Delete, PowerOff, PowerOn
<1> SUFFICES ASSUME NEW v \in Vms, vm'[v].exists, vm'[v].running, v \notin excused'
             PROVE  /\ vm'[v].expires > lastPass
                    /\ loop.pc # "sleep" => vm'[v].expires > now \/ v \in Unvisited
  BY <1>0 DEF DownInv, Existing, Unvisited
<1>1. vm[v].exists /\ vm[v].running /\ v \notin excused =>
        /\ vm[v].expires > lastPass
        /\ loop.pc # "sleep" => vm[v].expires > now \/ v \in Unvisited
  BY DEF DownInv, Existing
<1>2. PICK x \in Vms : \/ Create(x) \/ Extend(x) \/ Delete(x) \/ PowerOff(x)
                       \/ \E admin \in BOOLEAN : PowerOn(x, admin)
  BY DEF UserStep
<1>3. CASE Create(x)
  <2>1. CASE v = x
    <3>1. vm'[v].expires = now + Lease * Day
      BY <1>3, <2>1 DEF Create
    <3> DEFINE d == Lease * Day
    <3>2. d \in Nat /\ d >= 1
      BY DayArithmetic
    <3> HIDE DEF d
    <3>3. now + d > now /\ now + d > lastPass
      BY <1>0, <3>2
    <3> QED BY <3>1, <3>3 DEF d
  <2> QED BY <1>1, <1>3, <2>1 DEF Create
<1>4. CASE Extend(x)
  <2>1. vm'[v].exists = vm[v].exists /\ vm'[v].running = vm[v].running
    BY <1>4, ColumnsKept
  <2>2. CASE v = x
    <3> DEFINE d == Extension * Day
    <3>1. vm'[v].expires = vm[v].expires + d /\ d \in Nat
      BY <1>4, <2>2, DayArithmetic DEF Extend
    <3> HIDE DEF d
    <3>2. vm'[v].expires >= vm[v].expires /\ vm[v].expires \in Nat /\ vm'[v].expires \in Nat
      BY <3>1
    <3>3. CASE vm'[v].expires > now
      BY <1>0, <3>2, <3>3
    <3>4. CASE ~(vm'[v].expires > now)
      <4>1. v \notin excused
        BY <1>4, <2>2, <3>4 DEF Extend
      <4> QED BY <1>0, <1>1, <2>1, <3>2, <4>1
    <3> QED BY <3>3, <3>4
  <2>3. CASE v # x
    BY <1>1, <1>4, <2>1, <2>3 DEF Extend
  <2> QED BY <2>2, <2>3
<1>5. CASE Delete(x)
  <2>1. v # x
    BY <1>5 DEF Delete, Gone
  <2> QED BY <1>1, <1>5, <2>1 DEF Delete
<1>6. CASE PowerOff(x)
  <2>1. v # x
    BY <1>6 DEF PowerOff, Existing
  <2> QED BY <1>1, <1>6, <2>1 DEF PowerOff
<1>7. ASSUME NEW admin \in BOOLEAN, PowerOn(x, admin)
      PROVE  /\ vm'[v].expires > lastPass
             /\ loop.pc # "sleep" => vm'[v].expires > now \/ v \in Unvisited
  <2>1. vm'[v].expires = vm[v].expires /\ vm'[v].exists = vm[v].exists
    <3>1. vm' = [vm EXCEPT ![x].running = TRUE]
      BY <1>7 DEF PowerOn
    <3> QED BY <3>1, ColumnsKept
  <2>2. CASE v = x
    <3>1. ~Expired(v)
      BY <1>7, <2>2 DEF PowerOn, MayStart
    <3> QED BY <1>0, <2>1, <3>1 DEF Expired, Existing
  <2>3. CASE v # x
    BY <1>1, <1>7, <2>1, <2>3 DEF PowerOn
  <2> QED BY <2>2, <2>3
<1> QED BY <1>2, <1>3, <1>4, <1>5, <1>6, <1>7

\* The thread leaves an expired VM down or excused, and only then drops it.
LEMMA LoopDown ==
  ASSUME TypeOK, PassInv, DownInv, LoopStep  PROVE DownInv'
<1> USE DEF TypeOK, Vm
<1>0. /\ loop \in LoopType /\ now \in Nat /\ lastPass \in Int /\ lastPass <= now
      /\ now' = now /\ lastPass \in {now - 1, now}
  BY Sizes DEF LoopType, PassInv, LoopStep, PassBegin, PassAborted, PassRest, PassCutShort,
     Crash, GraceNotice, GraceStop
<1> SUFFICES ASSUME NEW v \in Vms, vm'[v].exists, vm'[v].running, v \notin excused'
             PROVE  /\ vm'[v].expires > lastPass'
                    /\ loop'.pc # "sleep" => vm'[v].expires > now \/ v \in loop'.todo \cup loop'.cur
  BY <1>0 DEF DownInv, Existing, Unvisited
<1>1. vm[v].exists /\ vm[v].running /\ v \notin excused =>
        /\ vm[v].expires > lastPass
        /\ loop.pc # "sleep" => vm[v].expires > now \/ v \in loop.todo \cup loop.cur
  BY DEF DownInv, Existing, Unvisited
<1>2. CASE PassBegin
  <2>1. vm' = vm /\ excused' = excused /\ lastPass' = lastPass
    BY <1>2 DEF PassBegin
  <2> DEFINE g == Grace * Day
  <2>2. g \in Nat /\ g >= 1 /\ vm[v].expires \in Nat
    BY DayArithmetic
  <2>3. v \in loop'.todo \cup loop'.cur <=> vm[v].expires <= now /\ vm[v].expires > now - g
    BY <1>2, <2>1, PassBegins DEF InGrace, Existing
  <2> HIDE DEF g
  <2>4. vm[v].expires > lastPass
    BY <1>1, <2>1
  <2>5. vm[v].expires > now - g
    BY <1>0, <2>2, <2>4
  <2>6. vm[v].expires > now \/ vm[v].expires <= now
    BY <1>0, <2>2
  <2> QED BY <2>1, <2>3, <2>4, <2>5, <2>6
<1>3. CASE PassAborted \/ Crash
  BY <1>1, <1>3, AsleepType DEF PassAborted, Crash
<1>4. CASE PassRest \/ PassCutShort
  <2>1. PICK del \in SUBSET Vms :
          /\ vm' = [x \in Vms |-> IF x \in del THEN Gone ELSE vm[x]]
          /\ excused' = excused \ del
    BY <1>4, DeletionsOverdue DEF PassRest, PassCutShort
  <2>2. v \notin del /\ vm'[v] = vm[v] /\ v \notin excused
    BY <2>1 DEF Gone
  <2>3. /\ loop.pc = "rest" /\ loop'.pc = "sleep" /\ loop.todo = {} /\ loop.at = now
        /\ loop.cur = {}
    BY <1>4, AsleepType DEF PassRest, PassCutShort, PassInv
  <2>4. vm[v].expires > lastPass /\ vm[v].expires > now
    BY <1>1, <2>2, <2>3
  <2>5. lastPass' = lastPass \/ lastPass' = now
    BY <1>4, <2>3 DEF PassRest, PassCutShort
  <2> QED BY <2>2, <2>3, <2>4, <2>5
<1>5. ASSUME NEW x \in Vms, GraceNotice(x)
      PROVE  /\ vm'[v].expires > lastPass'
             /\ loop'.pc # "sleep" => vm'[v].expires > now \/ v \in loop'.todo \cup loop'.cur
  <2>1. /\ loop' = [loop EXCEPT !.pc = "stop"] \/ loop' = [loop EXCEPT !.pc = "stop", !.reload = TRUE]
        /\ loop.pc = "notice" /\ vm' = vm /\ lastPass' = lastPass /\ excused' = excused
    BY <1>5 DEF GraceNotice
  <2>2. loop'.cur = loop.cur /\ loop'.todo = loop.todo
    BY <1>0, <2>1 DEF LoopType
  <2> QED BY <1>1, <2>1, <2>2
<1>6. ASSUME NEW x \in Vms, GraceStop(x)
      PROVE  /\ vm'[v].expires > lastPass'
             /\ loop'.pc # "sleep" => vm'[v].expires > now \/ v \in loop'.todo \cup loop'.cur
  <2>1. /\ loop.pc = "stop" /\ x \in loop.cur /\ lastPass' = lastPass
        /\ loop'.todo \cup loop'.cur = loop.todo
    BY <1>0, <1>6, VisitMoves DEF GraceStop
  <2>2. vm'[v].expires = vm[v].expires /\ vm'[v].exists = vm[v].exists
    BY <1>6 DEF GraceStop
  <2>3. CASE v = x
    <3>1. vm' = vm /\ (Expired(v) => excused' = excused \cup {v})
      BY <1>6, <2>3 DEF GraceStop
    <3>2. ~(vm[v].expires <= now)
      BY <2>2, <3>1 DEF Expired, Existing
    <3>3. vm[v].expires > now
      BY <1>0, <3>2
    <3> QED BY <1>0, <2>1, <2>2, <3>3
  <2>4. CASE v # x
    <3>1. v \notin loop.cur
      BY <2>1, <2>4 DEF PassInv
    <3>2. vm'[v] = vm[v] /\ v \notin excused
      BY <1>6, <2>4 DEF GraceStop
    <3> QED BY <1>1, <2>1, <3>1, <3>2
  <2> QED BY <2>3, <2>4
<1> QED BY <1>2, <1>3, <1>4, <1>5, <1>6 DEF LoopStep

LEMMA DownStep ==
  ASSUME TypeOK, PassInv, DownInv, [Next]_vars  PROVE DownInv'
<1>1. CASE Tick
  BY <1>1, AsleepType, Sizes DEF Tick, DownInv, Existing, TypeOK, Unvisited
<1>2. CASE UNCHANGED vars
  BY <1>2 DEF vars, DownInv, Existing, Unvisited
<1> QED BY <1>1, <1>2, UserDown, LoopDown DEF Next

LEMMA PassesBegin == Init => PassInv /\ DownInv
<1> SUFFICES ASSUME Init  PROVE PassInv /\ DownInv
  OBVIOUS
<1>1. Existing = {}
  BY DEF Init, Existing, Gone
<1> QED BY <1>1, AsleepType DEF Init, PassInv, DownInv

\* When a pass has ended, a VM whose grace period has begun is down, unless an
\* administrator started it or Proxmox refused to stop it: whatever the owners
\* do while the thread of _process_grace_vms is at work.
THEOREM ExpiredStaysDown == Spec => []ExpiredIsDown
<1>1. TypeOK /\ PassInv /\ DownInv => ExpiredIsDown
  BY DEF TypeOK, Vm, DownInv, ExpiredIsDown, InGrace
<1>2. TypeOK /\ PassInv /\ DownInv /\ [Next]_vars => PassInv' /\ DownInv'
  BY PassInvStep, DownStep
<1> QED BY <1>1, <1>2, PassesBegin, TypeCorrect, PTL DEF Spec
-----------------------------------------------------------------------------
(* Who has been told.  If deletions do not fail, a pass removes every VM    *)
(* that is overdue, so that an extension always reaches past the clock, and *)
(* a notice is discarded only when its VM is gone.                          *)

Unannounced == loop.todo \cup (IF loop.pc = "notice" THEN loop.cur ELSE {})

Warned(v) == NoticeOf(v, vm[v].expires)

Told(v) ==
  /\ vm[v].expires > lastPass - Grace * Day
  /\ vm[v].expires <= lastPass => Warned(v)
  /\ loop.pc # "sleep" =>
       /\ vm[v].expires <= now => Warned(v) \/ v \in Unannounced
       /\ v \in Unvisited => loop.read[v] = vm[v].expires \/ vm[v].expires > now

WarnInv == \A v \in Existing : Told(v)

LEMMA ToldKept ==
  ASSUME NEW v \in Vms, Told(v), vm'[v].expires = vm[v].expires, now' = now,
         loop' = loop, lastPass' = lastPass, notices \subseteq notices'
  PROVE  Told(v)'
<1>1. Warned(v) => Warned(v)'
  BY DEF Warned, NoticeOf
<1>2. Unannounced' = Unannounced /\ Unvisited' = Unvisited
  BY DEF Unannounced, Unvisited
<1> QED BY <1>1, <1>2 DEF Told

\* Nothing is asked of a VM that expires after the clock.
LEMMA ToldAhead ==
  ASSUME TypeOK', PassInv', NEW v \in Vms, vm'[v].expires > now'
  PROVE  Told(v)'
<1> DEFINE g == Grace * Day
<1>1. /\ g \in Nat /\ now' \in Nat /\ lastPass' \in Int /\ lastPass' <= now'
      /\ vm'[v].expires \in Nat
  BY DayArithmetic, Sizes DEF TypeOK, Vm
<1> HIDE DEF g
<1>2. /\ vm'[v].expires > lastPass' - g /\ ~(vm'[v].expires <= lastPass')
      /\ ~(vm'[v].expires <= now')
  BY <1>1
<1> QED BY <1>2 DEF Told, g

LEMMA UserWarn ==
  ASSUME TypeOK, PassInv, WarnInv, UserStep  PROVE WarnInv'
<1> USE DEF TypeOK, Vm
<1>0. /\ now' = now /\ loop' = loop /\ lastPass' = lastPass /\ notices' = notices
      /\ now \in Nat /\ lastPass \in Int /\ lastPass \in {now - 1, now}
  BY Sizes DEF PassInv, UserStep, Create, Extend, Delete, PowerOff, PowerOn
<1>1. TypeOK' /\ PassInv'
  BY <1>0, UserType DEF PassInv
<1> SUFFICES ASSUME NEW v \in Vms, vm'[v].exists
             PROVE  \/ vm[v].exists /\ vm'[v].expires = vm[v].expires
                    \/ vm'[v].expires > now'
  BY <1>0, <1>1, ToldKept, ToldAhead DEF WarnInv, Existing
<1> DEFINE g == Grace * Day
           x == Extension * Day
           d == Lease * Day
<1>2. g \in Nat /\ x \in Nat /\ x >= g + 1 /\ d \in Nat /\ d >= 1
  BY DayArithmetic
<1>3. vm[v].exists => vm[v].expires > lastPass - g /\ vm[v].expires \in Nat
  BY DEF WarnInv, Existing, Told
<1>4. PICK u \in Vms : \/ Create(u) \/ Extend(u) \/ Delete(u) \/ PowerOff(u)
                       \/ \E admin \in BOOLEAN : PowerOn(u, admin)
  BY DEF UserStep
<1>5. CASE Create(u)
  <2>1. vm'[u].expires = now + d
    BY <1>5 DEF Create
  <2> HIDE DEF d
  <2>2. vm'[u].expires > now
    BY <1>0, <1>2, <2>1
  <2> QED BY <1>0, <1>5, <2>2 DEF Create
<1>6. CASE Extend(u)
  <2>1. vm'[u].expires = vm[u].expires + x /\ u \in Existing
    BY <1>6 DEF Extend
  <2> HIDE DEF x, g
  <2>2. v = u => vm'[u].expires > now
    BY <1>0, <1>2, <1>3, <2>1 DEF Existing
  <2>3. v # u => vm'[v] = vm[v]
    BY <1>6 DEF Extend
  <2> QED BY <1>0, <2>2, <2>3
<1>7. CASE Delete(u)
  BY <1>7 DEF Delete, Gone
<1>8. CASE PowerOff(u) \/ \E admin \in BOOLEAN : PowerOn(u, admin)
  BY <1>8 DEF PowerOff, PowerOn
<1> QED BY <1>4, <1>5, <1>6, <1>7, <1>8

LEMMA ThreadWarn ==
  ASSUME TypeOK, PassInv, WarnInv,
         \/ PassBegin \/ PassAborted \/ Crash
         \/ \E v \in Vms : GraceNotice(v) \/ GraceStop(v)
  PROVE  WarnInv'
<1> USE DEF TypeOK, Vm
<1>0. /\ now' = now /\ lastPass' = lastPass /\ notices \subseteq notices'
      /\ now \in Nat /\ lastPass \in Int /\ lastPass \in {now - 1, now} /\ loop \in LoopType
      /\ \A v \in Vms : vm'[v].exists = vm[v].exists /\ vm'[v].expires = vm[v].expires
  BY Sizes DEF PassInv, LoopType, PassBegin, PassAborted, Crash, GraceNotice, GraceStop
<1> SUFFICES ASSUME NEW v \in Vms, vm[v].exists, Told(v)
             PROVE  loop'.pc # "sleep" =>
                      /\ vm[v].expires <= now => Warned(v)' \/ v \in Unannounced'
                      /\ v \in Unvisited' => loop'.read[v] = vm[v].expires \/ vm[v].expires > now
  <2>1. \A v \in Vms : Warned(v) => Warned(v)'
    BY <1>0 DEF Warned, NoticeOf
  <2> QED BY <1>0, <2>1 DEF WarnInv, Existing, Told
<1>1. Warned(v) => Warned(v)'
  BY <1>0 DEF Warned, NoticeOf
<1>2. CASE PassBegin
  <2> DEFINE g == Grace * Day
  <2>1. g \in Nat /\ g >= 1 /\ vm[v].expires \in Nat /\ vm[v].expires > lastPass - g
        /\ (vm[v].expires <= lastPass => Warned(v))
    BY DayArithmetic DEF Told
  <2>2. /\ v \in loop'.todo \cup loop'.cur <=> vm[v].expires <= now /\ vm[v].expires > now - g
        /\ loop'.read[v] = vm[v].expires
    BY <1>2, PassBegins DEF InGrace, Existing
  <2>3. CASE loop'.pc = "notice"
    <3>1. v \in Unannounced' <=> vm[v].expires <= now /\ vm[v].expires > now - g
      BY <2>2, <2>3 DEF Unannounced
    <3> HIDE DEF g
    <3>2. vm[v].expires <= now /\ ~(vm[v].expires > now - g) => vm[v].expires <= lastPass
      BY <1>0, <2>1
    <3> QED BY <1>1, <2>1, <2>2, <3>1, <3>2
  <2>4. CASE loop'.pc = "rest"
    <3>1. loop'.todo = {} /\ loop'.cur = {}
      BY <1>2, <2>4, PassBegins, LoopTypeStep DEF LoopStep
    <3> HIDE DEF g
    <3>2. vm[v].expires <= now => vm[v].expires <= lastPass
      BY <1>0, <2>1, <2>2, <3>1
    <3> QED BY <1>1, <2>1, <2>2, <3>2
  <2> QED BY <1>2, <2>3, <2>4, PassBegins
<1>3. CASE PassAborted \/ Crash
  BY <1>3, AsleepType DEF PassAborted, Crash
<1>4. ASSUME NEW u \in Vms, GraceNotice(u)
      PROVE  /\ vm[v].expires <= now => Warned(v)' \/ v \in Unannounced'
             /\ v \in Unvisited' => loop'.read[v] = vm[v].expires \/ vm[v].expires > now
  <2>1. /\ loop' = [loop EXCEPT !.pc = "stop"] \/ loop' = [loop EXCEPT !.pc = "stop", !.reload = TRUE]
        /\ loop.pc = "notice" /\ u \in loop.cur /\ vm' = vm
    BY <1>4 DEF GraceNotice
  <2>2. /\ loop'.cur = loop.cur /\ loop'.todo = loop.todo /\ loop'.read = loop.read
        /\ loop'.pc = "stop"
    BY <1>0, <2>1 DEF LoopType
  <2>3. v \in loop.cur => v = u
    BY <2>1 DEF PassInv
  <2>4. /\ vm[v].expires <= now => Warned(v) \/ v \in loop.todo \cup loop.cur
        /\ v \in Unvisited => loop.read[v] = vm[v].expires \/ vm[v].expires > now
    BY <2>1 DEF Told, Unannounced
  <2>5. v = u /\ vm[v].expires <= now => Warned(v)'
    <3> SUFFICES ASSUME v = u, vm[v].expires <= now  PROVE Warned(v)'
      OBVIOUS
    <3>1. loop.read[v] = vm[v].expires
      BY <1>0, <2>1, <2>4 DEF Unvisited
    <3> DEFINE n == [vm |-> v, kind |-> "grace", created |-> now]
    <3>2. NoticeOf(v, vm[v].expires) \/ n \in notices'
      BY <1>4, <3>1 DEF GraceNotice
    <3>3. n.vm = v /\ n.kind = "grace" /\ n.created >= vm[v].expires
      BY <1>0
    <3> HIDE DEF n
    <3> QED BY <1>0, <1>1, <2>1, <3>2, <3>3 DEF Warned, NoticeOf
  <2> QED BY <1>1, <2>2, <2>3, <2>4, <2>5 DEF Unannounced, Unvisited
<1>5. ASSUME NEW u \in Vms, GraceStop(u)
      PROVE  /\ vm[v].expires <= now => Warned(v)' \/ v \in Unannounced'
             /\ v \in Unvisited' => loop'.read[v] = vm[v].expires \/ vm[v].expires > now
  <2>1. loop.pc = "stop" /\ loop' \in Visit(loop)
    BY <1>5 DEF GraceStop
  <2>2. /\ loop'.todo \cup loop'.cur = loop.todo /\ loop'.read = loop.read
        /\ \/ loop'.pc = "notice"
           \/ loop'.pc = "rest" /\ loop'.todo = {}
    BY <1>0, <2>1, VisitMoves
  <2>3. loop'.pc = "rest" => loop'.cur = {}
    BY <1>5, LoopTypeStep DEF LoopStep
  <2>4. Unannounced' = loop.todo /\ Unvisited' = loop.todo
    BY <2>2, <2>3 DEF Unannounced, Unvisited
  <2>5. /\ vm[v].expires <= now => Warned(v) \/ v \in loop.todo
        /\ v \in loop.todo => loop.read[v] = vm[v].expires \/ vm[v].expires > now
    BY <2>1 DEF Told, Unannounced, Unvisited
  <2> QED BY <1>1, <2>2, <2>4, <2>5
<1> QED BY <1>2, <1>3, <1>4, <1>5

\* The rest of a pass discards a notice only if it is older than Keep days,
\* and then its VM was overdue and is gone, or was extended.
LEMMA RestWarn ==
  ASSUME TypeOK, PassInv, WarnInv, PassRest \/ PassCutShort, "delete" \notin Faults
  PROVE  WarnInv'
<1> USE DEF TypeOK, Vm
<1> DEFINE g == Grace * Day
           k == Keep * Day
<1>0. /\ now' = now /\ now \in Nat /\ lastPass \in Int /\ lastPass <= now
      /\ loop.pc = "rest" /\ loop'.pc = "sleep" /\ loop.todo = {} /\ loop.cur = {}
      /\ loop.at = now /\ g \in Nat /\ k \in Nat /\ k >= g + 1 /\ g >= 1
  BY AsleepType, DayArithmetic, Sizes DEF PassInv, PassRest, PassCutShort
<1>1. PICK del \in SUBSET Vms :
        /\ vm' = [v \in Vms |-> IF v \in del THEN Gone ELSE vm[v]]
        /\ PassRest => del = {v \in Vms : Overdue(v)}
  BY DeletionsOverdue DEF PassRest, PassCutShort, Deletions
<1> SUFFICES ASSUME NEW v \in Vms, vm'[v].exists  PROVE Told(v)'
  BY DEF WarnInv, Existing
<1>2. v \notin del /\ vm'[v] = vm[v] /\ vm[v].exists /\ vm[v].expires \in Nat
  BY <1>1 DEF Gone
<1>3. /\ vm[v].expires > lastPass - g
      /\ vm[v].expires <= now => Warned(v)
  BY <1>0, <1>2 DEF WarnInv, Existing, Told, Unannounced
<1>4. CASE PassCutShort
  <2>1. lastPass' = lastPass /\ notices \subseteq notices'
    BY <1>4 DEF PassCutShort
  <2>2. Warned(v) => Warned(v)'
    BY <1>2, <2>1 DEF Warned, NoticeOf
  <2>3. vm[v].expires <= lastPass => vm[v].expires <= now
    BY <1>0, <1>2
  <2> QED BY <1>0, <1>2, <1>3, <2>1, <2>2, <2>3 DEF Told
<1>5. CASE PassRest
  <2>1. lastPass' = now /\ ~Overdue(v)
    BY <1>0, <1>1, <1>2, <1>5 DEF PassRest
  <2>2. ~(vm[v].expires <= now - g)
    BY <1>0, <1>2, <2>1 DEF Overdue, Existing
  <2> HIDE DEF g, k
  <2>3. vm[v].expires > now - g
    BY <1>0, <1>2, <2>2
  <2>4. ASSUME vm[v].expires <= now  PROVE Warned(v)'
    <3>1. PICK n \in notices : n.vm = v /\ n.kind = "grace" /\ n.created >= vm[v].expires
      BY <1>3, <2>4 DEF Warned, NoticeOf
    <3>2. n.created \in Nat
      BY DEF Notice
    <3>3. n.created >= now - k
      BY <1>0, <1>2, <2>3, <3>1, <3>2
    <3>4. Retained(n)
      BY <1>0, <3>3 DEF Retained, k
    <3>5. n \in notices'
      BY <1>5, <3>4 DEF PassRest
    <3> QED BY <1>2, <3>1, <3>5 DEF Warned, NoticeOf
  <2> QED BY <1>0, <1>2, <2>1, <2>3, <2>4 DEF Told, g
<1> QED BY <1>4, <1>5

LEMMA WarnStep ==
  ASSUME TypeOK, PassInv, WarnInv, [Next]_vars, "delete" \notin Faults
  PROVE  WarnInv'
<1>1. CASE Tick
  BY <1>1, Sizes DEF Tick, WarnInv, Told, Existing, TypeOK, Warned, NoticeOf
<1>2. CASE UNCHANGED vars
  BY <1>2, ToldKept DEF vars, WarnInv, Existing
<1> QED BY <1>1, <1>2, UserWarn, ThreadWarn, RestWarn DEF Next, LoopStep

LEMMA WarnedStep ==
  ASSUME TypeOK, PassInv, WarnInv, [Next]_vars, NEW v \in Vms, Removed(v)
  PROVE  \E n \in notices : n.vm = v /\ n.kind = "grace" /\ n.created >= vm[v].expires
<1>1. /\ loop.pc = "rest" /\ v \in Existing /\ loop.todo = {} /\ loop.cur = {}
  BY DEF Removed, Existing, TypeOK, PassInv
<1> DEFINE g == Grace * Day
<1>2. vm[v].expires + g <= now /\ g \in Nat /\ vm[v].expires \in Nat /\ now \in Nat
  BY OverdueStep, DayArithmetic, Sizes DEF TypeOK, Vm
<1> HIDE DEF g
<1>3. vm[v].expires <= now
  BY <1>2
<1> QED BY <1>1, <1>3 DEF WarnInv, Told, Warned, NoticeOf, Unannounced

\* If deletions do not fail, the owner of every VM the loop deletes has been
\* told since it expired: through crashes, passes cut short, extensions while
\* the thread holds old dates, and the cleanup of old notices.
THEOREM WarnedFirst ==
  ASSUME "delete" \notin Faults  PROVE Spec => WarnedBeforeDeletion
<1>1. Init => WarnInv
  <2> SUFFICES ASSUME Init  PROVE WarnInv
    OBVIOUS
  <2>1. Existing = {}
    BY DEF Init, Existing, Gone
  <2> QED BY <2>1 DEF WarnInv
<1>2. TypeOK /\ PassInv /\ WarnInv /\ [Next]_vars => PassInv' /\ WarnInv'
  BY PassInvStep, WarnStep
<1>3. TypeOK /\ PassInv /\ WarnInv /\ [Next]_vars =>
        \A v \in Vms : Removed(v) =>
          \E n \in notices : n.vm = v /\ n.kind = "grace" /\ n.created >= vm[v].expires
  BY WarnedStep
<1>4. Init => PassInv
  BY PassesBegin
<1> QED BY <1>1, <1>2, <1>3, <1>4, TypeCorrect, PTL DEF Spec, WarnedBeforeDeletion
=============================================================================
