------------------------ MODULE VmProvisioning_proofs ------------------------
(***************************************************************************)
(* Theorems about VmProvisioning for every set of jobs, accounts, VMIDs    *)
(* and IPs.  Those that hold under every failure and crash come first;     *)
(* each of the others names the failures it excludes.                      *)
(***************************************************************************)
EXTENDS VmProvisioning, FiniteSetTheorems, SequenceTheorems, TLAPS

-----------------------------------------------------------------------------
(* The inductive invariant, in named parts.                                 *)

HasVmid == {"reserve", "clone", "wait", "config", "nat", "start", "ready",
            "complete", "cleanPve", "cleanNat", "cleanRow"}

\* The locals of create_vm and delete_vm hold real values where they are used.
LocalsInv ==
  /\ w.pc \in HasVmid => w.vmid \in Vmids
  /\ w.pc \in HasVmid \ {"reserve"} => w.ip \in Ips
  /\ d.pc # "idle" => d.vmid \in Vmids /\ d.ip \in Ips

\* Primary keys; the VMID chosen by the worker is still free in the table.
RowsInv ==
  /\ \A r \in rows : r.id < nextId
  /\ \A r, s \in rows : r.id = s.id => r = s
  /\ w.pc = "reserve" => \A r \in rows : r.vmid # w.vmid

\* The queue and the worker hold undecided jobs, and no job twice.
JobsInv ==
  /\ \A n \in 1..Len(queue) : status[queue[n]] \in Active
  /\ \A m, n \in 1..Len(queue) : queue[m] = queue[n] => m = n
  /\ w.pc # "idle" => /\ status[w.job] \in Active
                      /\ \A n \in 1..Len(queue) : queue[n] # w.job

\* Between the recheck and the insert nobody else inserts.
QuotaInv ==
  /\ IsFiniteSet(rows)
  /\ w.pc \in {"select", "reserve"} => HasRoom(JobUser[w.job])

-----------------------------------------------------------------------------
(* Type correctness.                                                        *)
TypeInv == TypeOK /\ LocalsInv

LEMMA InitType == Init => TypeInv
BY ConstAssumption
   DEF Init, TypeInv, TypeOK, LocalsInv, HasVmid, JobStatus, PveVm, PveState,
       NoVm, Worker, IdleWorker, CreatePc, CleanupPc, Deleter, IdleDeleter

LEMMA EnqueueType ==
  ASSUME TypeInv, NEW j \in Jobs, Enqueue(j)  PROVE TypeInv'
<1>1. Cardinality({k \in Jobs : status[k] # "none"}) \in Nat
  BY FS_Subset, FS_CardinalityType, ConstAssumption
<1> QED
  BY <1>1, ConstAssumption
     DEF TypeInv, TypeOK, LocalsInv, Enqueue, jobVars, rowVars, JobStatus

LEMMA Templates ==
  /\ IdleWorker \in Worker /\ IdleWorker.pc = "idle"
  /\ IdleDeleter \in Deleter /\ IdleDeleter.pc = "idle"
  /\ NoVm \in PveVm
BY DEF IdleWorker, Worker, IdleDeleter, Deleter, NoVm, PveVm, PveState

\* What the steps of create_vm leave in its locals, Proxmox and the tables.
WorkerLocals ==
  /\ w' \in Worker /\ w'.job \in Jobs
  /\ w'.pc \in HasVmid => w'.vmid \in Vmids
  /\ w'.pc \in HasVmid \ {"reserve"} => w'.ip \in Ips

LEMMA WorkerType == ASSUME TypeInv, WorkerStep  PROVE TypeInv'
<1> USE DEF TypeInv, TypeOK, LocalsInv, HasVmid, jobVars, rowVars, At, Goto
<1>1. CASE Claim
  <2>1. queue # <<>> BY <1>1 DEF Claim
  <2>2. Head(queue) \in Jobs /\ Tail(queue) \in Seq(Jobs)
    BY <2>1
  <2>3. /\ w' \in Worker
        /\ w'.pc # "idle" => w'.job \in Jobs
        /\ w'.pc \notin HasVmid
    <3>1. \A j \in Jobs : /\ [IdleWorker EXCEPT !.pc = "check", !.job = j] \in Worker
                          /\ [IdleWorker EXCEPT !.pc = "fail", !.job = j] \in Worker
      BY DEF Worker, IdleWorker, CreatePc, CleanupPc
    <3>2. \/ w' = IdleWorker
          \/ w' = [IdleWorker EXCEPT !.pc = "check", !.job = Head(queue)]
          \/ w' = [IdleWorker EXCEPT !.pc = "fail", !.job = Head(queue)]
      BY <1>1 DEF Claim
    <3> QED BY <2>2, <3>1, <3>2, Templates DEF IdleWorker
  <2>4. status' \in [Jobs -> JobStatus]
    BY <1>1, <2>2 DEF Claim, JobStatus
  <2> QED
    BY <1>1, <2>2, <2>3, <2>4 DEF Claim
<1>2. CASE CheckLimit
  BY <1>2 DEF CheckLimit, Worker, CreatePc, CleanupPc
<1>3. CASE SelectVmid
  BY <1>3 DEF SelectVmid, Worker, CreatePc, CleanupPc
<1>4. CASE ReserveRow
  <2>1. WorkerLocals
    <3>1. CASE \E i \in FreeIps : w' = [w EXCEPT !.pc = "clone", !.ip = i, !.row = nextId]
      BY <1>4, <3>1 DEF ReserveRow, FreeIps, Worker, CreatePc, CleanupPc, WorkerLocals
    <3>2. CASE w' = [w EXCEPT !.pc = "fail"]
      BY <1>4, <3>2 DEF ReserveRow, Worker, CreatePc, CleanupPc, WorkerLocals
    <3> QED BY <1>4, <3>1, <3>2 DEF ReserveRow
  <2>2. rows' \subseteq Row /\ nextId' \in Nat
    <3>1. ASSUME NEW i \in FreeIps
          PROVE  [id |-> nextId, vmid |-> w.vmid, ip |-> i,
                  job |-> w.job, ready |-> FALSE] \in Row
      BY <1>4 DEF ReserveRow, FreeIps, Row
    <3>2. \/ /\ nextId' = nextId + 1
             /\ \E i \in FreeIps :
                  rows' = rows \cup {[id |-> nextId, vmid |-> w.vmid, ip |-> i,
                                     job |-> w.job, ready |-> FALSE]}
          \/ nextId' = nextId /\ rows' = rows
      BY <1>4 DEF ReserveRow
    <3> QED BY <3>1, <3>2
  <2> QED
    BY <1>4, <2>1, <2>2 DEF ReserveRow, WorkerLocals
<1>5. CASE ClonePost
  <2>1. WorkerLocals
    <3>1. \/ w' = [w EXCEPT !.pc = "wait", !.cloned = TRUE]
          \/ w' = [w EXCEPT !.pc = "cleanPve"]
      BY <1>5 DEF ClonePost
    <3> QED BY <1>5, <3>1 DEF ClonePost, Worker, CreatePc, CleanupPc, WorkerLocals
  <2>2. pve' \in [Vmids -> PveVm]
    <3>1. [state |-> "cloning", job |-> w.job, ip |-> NoIp] \in PveVm
      BY <1>5 DEF ClonePost, PveVm, PveState
    <3> QED BY <1>5, <3>1 DEF ClonePost
  <2> QED
    BY <1>5, <2>1, <2>2 DEF ClonePost, WorkerLocals
<1>6. CASE WaitForClone
  BY <1>6 DEF WaitForClone, Worker, CreatePc, CleanupPc
<1>7. CASE Configure
  <2>1. WorkerLocals
    BY <1>7 DEF Configure, Worker, CreatePc, CleanupPc, WorkerLocals
  <2>2. pve' \in [Vmids -> PveVm]
    <3>1. w.vmid \in Vmids /\ w.ip \in Ips
      BY <1>7 DEF Configure
    <3>2. [pve[w.vmid] EXCEPT !.ip = w.ip] \in PveVm
      BY <3>1 DEF PveVm
    <3>3. \/ pve' = pve
          \/ pve' = [pve EXCEPT ![w.vmid] = [pve[w.vmid] EXCEPT !.ip = w.ip]]
      BY <1>7 DEF Configure
    <3> QED BY <3>1, <3>2, <3>3
  <2> QED
    BY <1>7, <2>1, <2>2 DEF Configure, WorkerLocals
<1>8. CASE AddNat
  <2>1. WorkerLocals
    BY <1>8 DEF AddNat, Worker, CreatePc, CleanupPc, WorkerLocals
  <2>2. nat' \subseteq Vmids \X Ips
    BY <1>8 DEF AddNat
  <2> QED
    BY <1>8, <2>1, <2>2 DEF AddNat, WorkerLocals
<1>9. CASE Start
  <2>1. WorkerLocals
    BY <1>9 DEF Start, Worker, CreatePc, CleanupPc, WorkerLocals
  <2>2. pve' \in [Vmids -> PveVm]
    <3>1. w.vmid \in Vmids
      BY <1>9 DEF Start
    <3>2. [pve[w.vmid] EXCEPT !.state = "running"] \in PveVm
      BY <3>1 DEF PveVm, PveState
    <3>3. \/ pve' = pve
          \/ pve' = [pve EXCEPT ![w.vmid] = [pve[w.vmid] EXCEPT !.state = "running"]]
      BY <1>9 DEF Start
    <3> QED BY <3>1, <3>2, <3>3
  <2> QED
    BY <1>9, <2>1, <2>2 DEF Start, WorkerLocals
<1>10. CASE MarkReady
  <2>1. WorkerLocals
    BY <1>10 DEF MarkReady, Worker, CreatePc, CleanupPc, WorkerLocals
  <2>2. rows' \subseteq Row
    <3>1. \A r \in rows : [r EXCEPT !.ready = TRUE] \in Row
      BY DEF Row
    <3> QED BY <1>10, <3>1 DEF MarkReady
  <2>3. delivered' \in [Jobs -> Nat]
    <3>1. \/ delivered' = [delivered EXCEPT ![w.job] = @ + 1]
          \/ delivered' = delivered
      BY <1>10 DEF MarkReady
    <3> QED BY <3>1
  <2> QED
    BY <1>10, <2>1, <2>2, <2>3 DEF MarkReady, WorkerLocals
<1>11. CASE Complete
  <2>1. /\ w' \in Worker
        /\ w'.pc # "idle" => w'.job \in Jobs
        /\ w'.pc \notin HasVmid
    <3>1. \/ w' = IdleWorker
          \/ w' = [w EXCEPT !.pc = "fail"]
      BY <1>11 DEF Complete
    <3>2. w.job \in Jobs
      BY <1>11 DEF Complete
    <3> QED BY <3>1, <3>2, Templates DEF Worker, CleanupPc
  <2>2. status' \in [Jobs -> JobStatus] /\ jobVmid' \in [Jobs -> Vmids \cup {NoVmid}]
    BY <1>11 DEF Complete, JobStatus
  <2> QED
    BY <1>11, <2>1, <2>2 DEF Complete
<1>12. CASE CleanPve
  <2>1. WorkerLocals
    BY <1>12 DEF CleanPve, Worker, CreatePc, CleanupPc, WorkerLocals
  <2>2. pve' \in [Vmids -> PveVm]
    <3>1. NoVm \in PveVm
      BY DEF NoVm, PveVm, PveState
    <3> QED BY <1>12, <3>1 DEF CleanPve
  <2> QED
    BY <1>12, <2>1, <2>2 DEF CleanPve, WorkerLocals
<1>13. CASE CleanNat
  BY <1>13 DEF CleanNat, Worker, CreatePc, CleanupPc
<1>14. CASE CleanRow
  BY <1>14 DEF CleanRow, Worker, CreatePc, CleanupPc
<1>15. CASE RecordFailure
  BY <1>15 DEF RecordFailure, Worker, IdleWorker, CreatePc, CleanupPc, JobStatus
<1> QED
  BY <1>1, <1>2, <1>3, <1>4, <1>5, <1>6, <1>7, <1>8, <1>9, <1>10, <1>11,
     <1>12, <1>13, <1>14, <1>15 DEF WorkerStep

LEMMA DeleteType ==
  ASSUME TypeInv, (\E r \in rows : DeleteBegin(r)) \/ DeleteStep
  PROVE  TypeInv'
<1> USE DEF TypeInv, TypeOK, LocalsInv, jobVars, rowVars, Deleter
<1>1. ASSUME NEW r \in rows, DeleteBegin(r)  PROVE TypeInv'
  BY <1>1 DEF DeleteBegin, Row
<1>2. CASE DeleteStop
  <2>1. pve' \in [Vmids -> PveVm]
    <3>1. \A m \in PveVm : [m EXCEPT !.state = "stopped"] \in PveVm
      BY DEF PveVm, PveState
    <3>2. \/ pve' = pve
          \/ pve' = [pve EXCEPT ![d.vmid] = [pve[d.vmid] EXCEPT !.state = "stopped"]]
      BY <1>2 DEF DeleteStop
    <3>3. d.vmid \in Vmids
      BY <1>2 DEF DeleteStop
    <3>4. [pve[d.vmid] EXCEPT !.state = "stopped"] \in PveVm
      BY <3>1, <3>3
    <3> QED BY <3>2, <3>3, <3>4
  <2>2. d' \in Deleter /\ d'.vmid \in Vmids /\ d'.ip \in Ips
    BY <1>2 DEF DeleteStop
  <2> QED
    BY <1>2, <2>1, <2>2 DEF DeleteStop
<1>3. CASE DeleteDestroy
  <2>1. pve' \in [Vmids -> PveVm]
    <3>1. NoVm \in PveVm
      BY DEF NoVm, PveVm, PveState
    <3> QED BY <1>3, <3>1 DEF DeleteDestroy
  <2>2. d' \in Deleter /\ (d'.pc # "idle" => d'.vmid \in Vmids /\ d'.ip \in Ips)
    <3>1. d' = IdleDeleter \/ d' = [d EXCEPT !.pc = "unnat"]
      BY <1>3 DEF DeleteDestroy
    <3>2. [d EXCEPT !.pc = "unnat"] \in Deleter /\ d.vmid \in Vmids /\ d.ip \in Ips
      BY <1>3 DEF DeleteDestroy
    <3>3. CASE d' = IdleDeleter
      BY <3>3, Templates
    <3> QED BY <3>1, <3>2, <3>3
  <2> QED
    BY <1>3, <2>1, <2>2 DEF DeleteDestroy
<1>4. CASE DeleteNat
  BY <1>4 DEF DeleteNat
<1>5. CASE DeleteCommit
  BY <1>5 DEF DeleteCommit, IdleDeleter
<1> QED
  BY <1>1, <1>2, <1>3, <1>4, <1>5 DEF DeleteStep

LEMMA FunctionIsSeq ==
  ASSUME NEW S, NEW T, S \subseteq T, NEW n, n \in Nat
  PROVE  \A q \in [1..n -> S] : q \in Seq(T)
OBVIOUS

LEMMA EnvironmentType ==
  ASSUME TypeInv, (\E v \in Vmids : CloneDone(v)) \/ Crash \/ Restart
  PROVE  TypeInv'
<1> USE DEF TypeInv, TypeOK, LocalsInv, jobVars, rowVars
<1>1. ASSUME NEW v \in Vmids, CloneDone(v)  PROVE TypeInv'
  <2>1. pve' \in [Vmids -> PveVm]
    <3>1. \A m \in PveVm : [m EXCEPT !.state = "stopped"] \in PveVm
      BY DEF PveVm, PveState
    <3>2. \/ pve' = [pve EXCEPT ![v] = NoVm]
          \/ pve' = [pve EXCEPT ![v] = [pve[v] EXCEPT !.state = "stopped"]]
      BY <1>1 DEF CloneDone
    <3>3. NoVm \in PveVm /\ [pve[v] EXCEPT !.state = "stopped"] \in PveVm
      BY <3>1, Templates
    <3> QED BY <3>2, <3>3
  <2> QED
    BY <1>1, <2>1 DEF CloneDone
<1>2. CASE Crash
  <2>1. w' \in Worker /\ w'.pc = "idle" /\ d' \in Deleter /\ d'.pc = "idle"
    BY <1>2, Templates DEF Crash
  <2>2. crashes' \in Nat /\ queue' \in Seq(Jobs)
    <3>1. crashes' = crashes + 1 /\ queue' = <<>>
      BY <1>2 DEF Crash
    <3> QED BY <3>1
  <2> QED
    BY <1>2, <2>1, <2>2 DEF Crash, HasVmid
<1>3. CASE Restart
  <2>1. Pending \subseteq Jobs /\ Cardinality(Pending) \in Nat
    BY FS_Subset, FS_CardinalityType, ConstAssumption DEF Pending
  <2>2. \A q \in [1..Cardinality(Pending) -> Pending] : q \in Seq(Jobs)
    BY <2>1, FunctionIsSeq
  <2>3. queue' \in Seq(Jobs)
    BY <1>3, <2>2 DEF Restart
  <2>4. status' \in [Jobs -> JobStatus]
    <3>1. \/ status' = [j \in Jobs |-> IF j \in Pending THEN "queued" ELSE status[j]]
          \/ status' = status
      BY <1>3 DEF Restart
    <3> QED BY <3>1 DEF JobStatus
  <2> QED
    BY <1>3, <2>3, <2>4 DEF Restart
<1> QED
  BY <1>1, <1>2, <1>3

LEMMA TypeInductive == Spec => []TypeInv
<1>1. TypeInv /\ [Next]_vars => TypeInv'
  <2> SUFFICES ASSUME TypeInv, [Next]_vars  PROVE TypeInv'
    OBVIOUS
  <2>1. CASE UNCHANGED vars
    BY <2>1 DEF vars, TypeInv, TypeOK, LocalsInv
  <2> QED
    BY <2>1, EnqueueType, WorkerType, DeleteType, EnvironmentType DEF Next
<1> QED
  BY <1>1, InitType, PTL DEF Spec

\* TypeOK: every variable of the model keeps its type through every operation
\* of the queue, create_vm, delete_vm and the restart, and create_vm and
\* delete_vm never use a VMID or an IP they have not obtained.
THEOREM TypeCorrect == Spec => []TypeOK
<1>1. TypeInv => TypeOK
  BY DEF TypeInv
<1> QED
  BY <1>1, TypeInductive, PTL

-----------------------------------------------------------------------------
(* VMIDs, ports and internal IPs are never shared, and the quota holds.     *)

LEMMA ClaimPc ==
  ASSUME Claim  PROVE w'.pc \in {"idle", "check", "fail"}
<1>1. \A j : /\ [IdleWorker EXCEPT !.pc = "check", !.job = j].pc = "check"
             /\ [IdleWorker EXCEPT !.pc = "fail", !.job = j].pc = "fail"
  BY DEF IdleWorker
<1>2. \/ w' = IdleWorker
      \/ \E j : w' = [IdleWorker EXCEPT !.pc = "check", !.job = j]
      \/ \E j : w' = [IdleWorker EXCEPT !.pc = "fail", !.job = j]
  BY DEF Claim
<1> QED
  BY <1>1, <1>2, Templates

\* What any step but SelectVmid, ReserveRow and MarkReady does to the table.
RowsOnlyShrink ==
  /\ rows' \subseteq rows /\ nextId' = nextId
  /\ w'.pc = "reserve" => w.pc = "reserve" /\ w'.vmid = w.vmid

LEMMA StepOnRows ==
  ASSUME TypeInv, [Next]_vars
  PROVE  RowsOnlyShrink \/ SelectVmid \/ ReserveRow \/ MarkReady
<1> USE DEF TypeInv, TypeOK, Worker, RowsOnlyShrink, rowVars
<1>1. CASE WorkerStep
  <2>1. Claim => RowsOnlyShrink
    BY ClaimPc DEF Claim
  <2>2. CheckLimit \/ WaitForClone \/ AddNat => RowsOnlyShrink
    BY DEF CheckLimit, WaitForClone, AddNat, At, Goto
  <2>3. ClonePost => RowsOnlyShrink
    BY DEF ClonePost, At, Goto
  <2>5. Configure => RowsOnlyShrink
    BY DEF Configure, At, Goto
  <2>6. Start => RowsOnlyShrink
    BY DEF Start, At, Goto
  <2>7. Complete => RowsOnlyShrink
    BY DEF Complete, At, Goto, IdleWorker
  <2>8. RecordFailure => RowsOnlyShrink
    BY DEF RecordFailure, At, Goto, IdleWorker
  <2>4. CleanPve \/ CleanNat \/ CleanRow => RowsOnlyShrink
    BY DEF CleanPve, CleanNat, CleanRow, At, Goto
  <2> QED
    BY <1>1, <2>1, <2>2, <2>3, <2>4, <2>5, <2>6, <2>7, <2>8 DEF WorkerStep
<1>2. CASE \E r \in rows : DeleteBegin(r)
  BY <1>2 DEF DeleteBegin
<1>3. CASE DeleteStep
  BY <1>3 DEF DeleteStep, DeleteStop, DeleteDestroy, DeleteNat, DeleteCommit
<1>4. CASE (\E j \in Jobs : Enqueue(j)) \/ (\E v \in Vmids : CloneDone(v)) \/ Restart
  BY <1>4 DEF Enqueue, CloneDone, Restart
<1>5. CASE Crash
  BY <1>5 DEF Crash, IdleWorker
<1>6. CASE UNCHANGED vars
  BY <1>6 DEF vars
<1> QED
  BY <1>1, <1>2, <1>3, <1>4, <1>5, <1>6 DEF Next

\* The replacement of a row by its ready version.
ReadyVersion(r) == [r EXCEPT !.ready = TRUE]

LEMMA ReadyVersionKeeps ==
  ASSUME NEW r \in Row
  PROVE  /\ ReadyVersion(r) \in Row
         /\ ReadyVersion(r).id = r.id /\ ReadyVersion(r).vmid = r.vmid
         /\ ReadyVersion(r).ip = r.ip /\ ReadyVersion(r).job = r.job
BY DEF ReadyVersion, Row

LEMMA MarkReadyRows ==
  ASSUME MarkReady
  PROVE  /\ nextId' = nextId
         /\ w'.pc \in {"complete", "cleanPve"} \/ w \notin Worker
         /\ \/ rows' = rows
            \/ \E r \in rows : rows' = (rows \ {r}) \cup {ReadyVersion(r)}
BY DEF MarkReady, ReadyVersion, Goto, Worker

UniqueInv == RowsInv /\ AddressesUnique

LEMMA UniqueStep ==
  ASSUME TypeInv, UniqueInv, [Next]_vars  PROVE UniqueInv'
<1> USE DEF UniqueInv, RowsInv, AddressesUnique
<1>1. CASE RowsOnlyShrink
  BY <1>1 DEF RowsOnlyShrink
<1>2. CASE SelectVmid
  <2>1. rows' = rows /\ nextId' = nextId
    BY <1>2 DEF SelectVmid, rowVars
  <2>2. w'.pc = "reserve" => w'.vmid \in Selectable
    BY <1>2 DEF SelectVmid, IsLeast, Goto, At, TypeInv, TypeOK, Worker
  <2> QED
    BY <2>1, <2>2 DEF Selectable
<1>3. CASE ReserveRow
  <2>1. w.pc = "reserve" /\ w'.pc # "reserve"
    BY <1>3 DEF ReserveRow, At, Goto, TypeInv, TypeOK, Worker
  <2>2. CASE UNCHANGED rowVars
    BY <2>1, <2>2 DEF rowVars
  <2>3. ASSUME NEW i \in FreeIps, nextId' = nextId + 1,
               rows' = rows \cup {[id |-> nextId, vmid |-> w.vmid, ip |-> i,
                                  job |-> w.job, ready |-> FALSE]}
        PROVE  UniqueInv'
    <3> DEFINE new == [id |-> nextId, vmid |-> w.vmid, ip |-> i,
                       job |-> w.job, ready |-> FALSE]
    <3>1. \A r \in rows : r.id \in Nat /\ r.id < nextId /\ r.vmid # new.vmid /\ r.ip # new.ip
      BY <2>1 DEF FreeIps, TypeInv, TypeOK, Row
    <3>2. new.id = nextId /\ nextId \in Nat
      BY DEF TypeInv, TypeOK
    <3>3. rows' = rows \cup {new} /\ nextId' = nextId + 1
      BY <2>3
    <3> HIDE DEF new
    <3>4. RowsInv'
      BY <2>1, <3>1, <3>2, <3>3
    <3>5. AddressesUnique'
      BY <3>1, <3>3
    <3> QED BY <3>4, <3>5
  <2> QED
    BY <1>3, <2>2, <2>3 DEF ReserveRow
<1>4. CASE MarkReady
  <2>1. w'.pc # "reserve" /\ nextId' = nextId /\ rows \subseteq Row
    BY <1>4, MarkReadyRows DEF TypeInv, TypeOK
  <2>2. CASE rows' = rows
    BY <2>1, <2>2
  <2>3. ASSUME NEW r \in rows, rows' = (rows \ {r}) \cup {ReadyVersion(r)}
        PROVE  UniqueInv'
    <3>1. /\ ReadyVersion(r).id = r.id /\ ReadyVersion(r).vmid = r.vmid
          /\ ReadyVersion(r).ip = r.ip
      BY <2>1, ReadyVersionKeeps
    <3> QED BY <2>1, <2>3, <3>1
  <2> QED
    BY <1>4, <2>2, <2>3, MarkReadyRows
<1> QED
  BY <1>1, <1>2, <1>3, <1>4, StepOnRows

LEMMA UniqueInductive == Spec => []UniqueInv
<1>1. Init => UniqueInv
  BY DEF Init, UniqueInv, RowsInv, AddressesUnique, IdleWorker
<1>2. TypeInv /\ UniqueInv /\ [Next]_vars => UniqueInv'
  BY UniqueStep
<1> QED
  BY <1>1, <1>2, TypeInductive, PTL DEF Spec

\* AddressesUnique: the VMID chosen by _select_vmid and the IP chosen by
\* _allocate_internal_ip are still unused when the record is committed,
\* because only the one worker inserts; so no two VM records ever share a
\* VMID, an external port or an internal IP, crashes and failures included.
THEOREM NoSharedAddress == Spec => []AddressesUnique
<1>1. UniqueInv => AddressesUnique
  BY DEF UniqueInv
<1> QED
  BY <1>1, UniqueInductive, PTL

-----------------------------------------------------------------------------
(* The quota.                                                               *)

\* Between CheckLimit and ReserveRow the worker keeps its job.
LEMMA StepOnQuota ==
  ASSUME TypeInv, [Next]_vars, w'.pc \in {"select", "reserve"}
  PROVE  /\ ~ReserveRow /\ ~MarkReady /\ w'.job = w.job
         /\ w.pc \in {"select", "reserve"} \/ HasRoom(JobUser[w.job])
<1> USE DEF TypeInv, TypeOK, Worker
<1>1. ~Claim
  BY ClaimPc
<1>2. CheckLimit => w'.job = w.job /\ HasRoom(JobUser[w.job])
  BY DEF CheckLimit, Goto
<1>3. SelectVmid => w'.job = w.job /\ w.pc = "select"
  BY DEF SelectVmid, Goto, At
<1>4. ~ReserveRow /\ ~ClonePost /\ ~WaitForClone
  BY DEF ReserveRow, ClonePost, WaitForClone, Goto
<1>5. ~Configure /\ ~AddNat /\ ~Start
  BY DEF Configure, AddNat, Start, Goto
<1>6. ~MarkReady /\ ~Complete /\ ~RecordFailure /\ ~Crash
  BY Templates DEF MarkReady, Complete, RecordFailure, Crash, Goto
<1>7. ~CleanPve /\ ~CleanNat /\ ~CleanRow
  BY DEF CleanPve, CleanNat, CleanRow, Goto
<1>8. (\E r \in rows : DeleteBegin(r)) \/ DeleteStep => w' = w
  BY DEF DeleteBegin, DeleteStep, DeleteStop, DeleteDestroy, DeleteNat, DeleteCommit
<1>9. (\E j \in Jobs : Enqueue(j)) \/ (\E v \in Vmids : CloneDone(v)) \/ Restart
      \/ UNCHANGED vars => w' = w
  BY DEF Enqueue, CloneDone, Restart, vars
<1> QED
  BY <1>1, <1>2, <1>3, <1>4, <1>5, <1>6, <1>7, <1>8, <1>9 DEF Next, WorkerStep

LEMMA AddsAtMostOne ==
  ASSUME NEW S, NEW x, IsFiniteSet(S)
  PROVE  /\ Cardinality(S \cup {x}) \in Nat
         /\ Cardinality(S \cup {x}) <= Cardinality(S) + 1
<1>1. Cardinality(S) \in Nat
  BY FS_CardinalityType
<1>2. Cardinality(S \cup {x}) = IF x \in S THEN Cardinality(S) ELSE Cardinality(S) + 1
  BY FS_AddElement
<1> QED
  BY <1>1, <1>2

\* A step that only removes rows, or marks one ready, adds to no account.
LEMMA CountsDoNotGrow ==
  ASSUME TypeInv, IsFiniteSet(rows), RowsOnlyShrink \/ SelectVmid \/ MarkReady
  PROVE  /\ IsFiniteSet(rows)'
         /\ \A u : Cardinality(RowsOf(u))' <= Cardinality(RowsOf(u))
<1>1. CASE rows' \subseteq rows
  <2>1. IsFiniteSet(rows')
    BY <1>1, FS_Subset
  <2>2. ASSUME NEW u
        PROVE  Cardinality(RowsOf(u)') <= Cardinality(RowsOf(u))
    <3>1. RowsOf(u)' \subseteq RowsOf(u) /\ RowsOf(u) \subseteq rows
      BY <1>1 DEF RowsOf
    <3> QED BY <3>1, FS_Subset
  <2> QED BY <2>1, <2>2
<1>2. ASSUME NEW r \in rows, rows' = (rows \ {r}) \cup {ReadyVersion(r)}
      PROVE  /\ IsFiniteSet(rows')
             /\ \A u : Cardinality(RowsOf(u)') <= Cardinality(RowsOf(u))
  <2>1. IsFiniteSet(rows')
    BY <1>2, FS_RemoveElement, FS_AddElement
  <2>2. ReadyVersion(r).job = r.job
    BY ReadyVersionKeeps DEF TypeInv, TypeOK
  <2>3. ASSUME NEW u
        PROVE  Cardinality(RowsOf(u)') <= Cardinality(RowsOf(u))
    <3>1. IsFiniteSet(RowsOf(u)) /\ Cardinality(RowsOf(u)) \in Nat
      BY FS_Subset, FS_CardinalityType DEF RowsOf
    <3>2. CASE JobUser[r.job] = u
      <4>1. RowsOf(u)' = (RowsOf(u) \ {r}) \cup {ReadyVersion(r)} /\ r \in RowsOf(u)
        BY <1>2, <2>2, <3>2 DEF RowsOf
      <4>2. /\ IsFiniteSet(RowsOf(u) \ {r})
            /\ Cardinality(RowsOf(u) \ {r}) = Cardinality(RowsOf(u)) - 1
        BY <3>1, <4>1, FS_RemoveElement
      <4>3. Cardinality((RowsOf(u) \ {r}) \cup {ReadyVersion(r)})
              <= Cardinality(RowsOf(u) \ {r}) + 1
        BY <4>2, AddsAtMostOne
      <4> QED BY <3>1, <4>1, <4>2, <4>3
    <3>3. CASE JobUser[r.job] # u
      <4>1. RowsOf(u)' = RowsOf(u)
        BY <1>2, <2>2, <3>3 DEF RowsOf
      <4> QED BY <3>1, <4>1
    <3> QED BY <3>2, <3>3
  <2> QED BY <2>1, <2>3
<1>3. \/ rows' \subseteq rows
      \/ \E r \in rows : rows' = (rows \ {r}) \cup {ReadyVersion(r)}
  BY MarkReadyRows DEF RowsOnlyShrink, SelectVmid, rowVars
<1> QED
  BY <1>1, <1>2, <1>3

LEMMA QuotaStep ==
  ASSUME TypeInv, QuotaInv, UserVmLimit, [Next]_vars
  PROVE  QuotaInv' /\ UserVmLimit'
<1> USE ConstAssumption
<1>1. CASE ReserveRow
  <2>1. w'.pc \notin {"select", "reserve"} /\ w.pc = "reserve"
    BY <1>1, StepOnQuota DEF ReserveRow, At
  <2>2. CASE rows' = rows
    BY <2>1, <2>2 DEF QuotaInv, UserVmLimit, RowsOf
  <2>3. ASSUME NEW new, new.job = w.job, rows' = rows \cup {new}
        PROVE  IsFiniteSet(rows') /\ UserVmLimit'
    <3>1. IsFiniteSet(rows')
      BY <2>3, FS_AddElement DEF QuotaInv
    <3>2. ASSUME NEW u \in Limited
          PROVE  Cardinality(RowsOf(u)') <= MaxVms
      <4>1. IsFiniteSet(RowsOf(u)) /\ Cardinality(RowsOf(u)) \in Nat
        BY FS_Subset, FS_CardinalityType DEF RowsOf, QuotaInv
      <4>2. CASE JobUser[w.job] = u
        <5>1. RowsOf(u)' = RowsOf(u) \cup {new}
          BY <2>3, <4>2 DEF RowsOf
        <5>2. Cardinality(RowsOf(u)) < MaxVms
          BY <2>1, <4>2 DEF QuotaInv, HasRoom
        <5>3. /\ Cardinality(RowsOf(u) \cup {new}) <= Cardinality(RowsOf(u)) + 1
              /\ Cardinality(RowsOf(u) \cup {new}) \in Nat
          BY <4>1, AddsAtMostOne
        <5> QED BY <4>1, <5>1, <5>2, <5>3
      <4>3. CASE JobUser[w.job] # u
        <5>1. RowsOf(u)' = RowsOf(u)
          BY <2>3, <4>3 DEF RowsOf
        <5> QED BY <5>1 DEF UserVmLimit
      <4> QED BY <4>2, <4>3
    <3> QED BY <3>1, <3>2 DEF UserVmLimit
  <2>4. rows' = rows \/ \E new : new.job = w.job /\ rows' = rows \cup {new}
    BY <1>1 DEF ReserveRow, rowVars
  <2> QED
    BY <2>1, <2>2, <2>3, <2>4 DEF QuotaInv
<1>2. CASE RowsOnlyShrink \/ SelectVmid \/ MarkReady
  <2>1. /\ IsFiniteSet(rows')
        /\ \A u : /\ Cardinality(RowsOf(u)') <= Cardinality(RowsOf(u))
                  /\ Cardinality(RowsOf(u)) \in Nat
                  /\ Cardinality(RowsOf(u)') \in Nat
    <3>1. /\ IsFiniteSet(rows')
          /\ \A u : Cardinality(RowsOf(u)') <= Cardinality(RowsOf(u))
      BY <1>2, CountsDoNotGrow DEF QuotaInv
    <3>2. \A u : IsFiniteSet(RowsOf(u)) /\ IsFiniteSet(RowsOf(u)')
      BY <3>1, FS_Subset DEF RowsOf, QuotaInv
    <3> QED BY <3>1, <3>2, FS_CardinalityType
  <2>2. UserVmLimit'
    BY <2>1 DEF UserVmLimit
  <2>3. w'.pc \in {"select", "reserve"} => HasRoom(JobUser[w.job])'
    <3>1. ASSUME w'.pc \in {"select", "reserve"}
          PROVE  w'.job = w.job /\ HasRoom(JobUser[w.job])
      BY <3>1, StepOnQuota DEF QuotaInv
    <3>2. \A u : HasRoom(u) => HasRoom(u)'
      BY <2>1 DEF HasRoom
    <3> QED BY <3>1, <3>2
  <2> QED BY <2>1, <2>2, <2>3 DEF QuotaInv
<1> QED
  BY <1>1, <1>2, StepOnRows

LEMMA QuotaInductive == Spec => [](QuotaInv /\ UserVmLimit)
<1>1. Init => QuotaInv /\ UserVmLimit
  <2>1. ASSUME rows = {}  PROVE \A u : RowsOf(u) = {}
    BY <2>1 DEF RowsOf
  <2>2. \A u \in Limited : Init => Cardinality(RowsOf(u)) <= MaxVms
    <3>1. ASSUME NEW u \in Limited, Init  PROVE Cardinality(RowsOf(u)) = 0
      <4>1. RowsOf(u) = {}
        BY <2>1, <3>1 DEF Init
      <4> QED BY <4>1, FS_EmptySet
    <3> QED BY <3>1, ConstAssumption
  <2>3. Init => w.pc = "idle" /\ rows = {}
    BY Templates DEF Init
  <2> QED
    BY <2>2, <2>3, FS_EmptySet DEF QuotaInv, UserVmLimit
<1>2. TypeInv /\ QuotaInv /\ UserVmLimit /\ [Next]_vars => QuotaInv' /\ UserVmLimit'
  BY QuotaStep
<1> QED
  BY <1>1, <1>2, TypeInductive, PTL DEF Spec

\* UserVmLimit: create_vm counts the owner's records again before it chooses
\* VMID and IP, and because the one worker inserts, the count still holds at
\* the COMMIT; so no USER account ever owns more than MAX_VMS_PER_USER VMs,
\* for every number of accounts, jobs, failures and crashes.
THEOREM QuotaHolds == Spec => []UserVmLimit
BY QuotaInductive, PTL

-----------------------------------------------------------------------------
(* Decided jobs.                                                            *)

\* What the steps that decide, accept or claim no job do to the jobs.
JobsUntouched ==
  /\ UNCHANGED <<jobVars, queue>>
  /\ w'.pc = "idle" \/ (w.pc # "idle" /\ w'.job = w.job)

LEMMA StepOnJobs ==
  ASSUME TypeInv, [Next]_vars
  PROVE  \/ JobsUntouched \/ (\E j \in Jobs : Enqueue(j)) \/ Claim \/ Complete
         \/ RecordFailure \/ Crash \/ Restart
<1> USE DEF TypeInv, TypeOK, Worker, JobsUntouched, Goto, At, jobVars
<1>1. CheckLimit \/ SelectVmid \/ ReserveRow => JobsUntouched
  BY DEF CheckLimit, SelectVmid, ReserveRow
<1>2. ClonePost => JobsUntouched
  BY DEF ClonePost
<1>3. WaitForClone => JobsUntouched
  BY DEF WaitForClone
<1>4. Configure => JobsUntouched
  BY DEF Configure
<1>5. AddNat \/ CleanPve \/ CleanNat \/ CleanRow => JobsUntouched
  BY DEF AddNat, CleanPve, CleanNat, CleanRow
<1>6. Start => JobsUntouched
  BY DEF Start
<1>7. MarkReady => JobsUntouched
  BY DEF MarkReady
<1>8. (\E r \in rows : DeleteBegin(r)) \/ DeleteStep => JobsUntouched
  BY DEF DeleteBegin, DeleteStep, DeleteStop, DeleteDestroy, DeleteNat, DeleteCommit
<1>9. (\E v \in Vmids : CloneDone(v)) \/ UNCHANGED vars => JobsUntouched
  BY DEF CloneDone, vars
<1> QED
  BY <1>1, <1>2, <1>3, <1>4, <1>5, <1>6, <1>7, <1>8, <1>9 DEF Next, WorkerStep

\* A job without the COMPLETED commit has no VMID, and what waits or is being
\* worked on is undecided.
JobsIInv == JobsInv /\ VmidOnlyWhenCompleted

LEMMA AcceptedStep ==
  ASSUME TypeInv, JobsIInv, NEW j \in Jobs, Enqueue(j)  PROVE JobsIInv'
<1> USE DEF TypeInv, TypeOK, JobsIInv, JobsInv, Enqueue, Active
<1>1. /\ Len(queue') = Len(queue) + 1 /\ Len(queue) \in Nat
      /\ queue'[Len(queue) + 1] = j
      /\ \A n \in 1..Len(queue) : queue'[n] = queue[n] /\ queue[n] \in Jobs
  OBVIOUS
<1>2. /\ status'[j] = "queued" /\ \A k \in Jobs \ {j} : status'[k] = status[k]
      /\ status[j] = "none"
  OBVIOUS
<1>3. \A n \in 1..Len(queue) : queue[n] # j
  BY <1>2
<1>4. \A n \in 1..Len(queue') : n = Len(queue) + 1 \/ n \in 1..Len(queue)
  BY <1>1
<1>5. /\ \A n \in 1..Len(queue') : status'[queue'[n]] \in Active
      /\ \A m, n \in 1..Len(queue') : queue'[m] = queue'[n] => m = n
  BY <1>1, <1>2, <1>3, <1>4
<1>6. w'.pc # "idle" => /\ status'[w'.job] \in Active
                        /\ \A n \in 1..Len(queue') : queue'[n] # w'.job
  BY <1>1, <1>2, <1>3, <1>4
<1>7. VmidOnlyWhenCompleted'
  BY <1>2 DEF VmidOnlyWhenCompleted, jobVars
<1> QED BY <1>5, <1>6, <1>7

LEMMA ClaimStep ==
  ASSUME TypeInv, JobsIInv, Claim  PROVE JobsIInv'
<1> USE DEF TypeInv, TypeOK, JobsIInv, JobsInv
<1> DEFINE j == Head(queue)
<1>1. /\ Len(queue) \in Nat \ {0} /\ j \in Jobs /\ j = queue[1]
      /\ queue' = Tail(queue) /\ Len(queue') = Len(queue) - 1
      /\ \A n \in 1..Len(queue') : queue'[n] = queue[n + 1]
  BY DEF Claim
<1>2. status[j] \in Active /\ jobVmid[j] = NoVmid
  BY <1>1 DEF VmidOnlyWhenCompleted, Active
<1>3. \A n \in 1..Len(queue') : queue'[n] # j /\ status[queue'[n]] \in Active
                                /\ queue'[n] \in Jobs
  BY <1>1
<1>4. \A m, n \in 1..Len(queue') : queue'[m] = queue'[n] => m = n
  BY <1>1
<1>5. /\ status' = [status EXCEPT ![j] = "running"] \/ status' = status
      /\ w'.job = j \/ w'.pc = "idle"
      /\ jobVmid' = jobVmid
  <2>1. /\ [IdleWorker EXCEPT !.pc = "check", !.job = j].job = j
        /\ [IdleWorker EXCEPT !.pc = "fail", !.job = j].job = j
        /\ IdleWorker.pc = "idle"
    BY DEF IdleWorker
  <2>2. \/ /\ status' = [status EXCEPT ![j] = "running"]
           /\ w' = [IdleWorker EXCEPT !.pc = "check", !.job = j]
        \/ /\ status' = status
           /\ w' \in {[IdleWorker EXCEPT !.pc = "fail", !.job = j], IdleWorker}
    <3>1. CASE status[j] = "queued"
      BY <1>2, <3>1 DEF Claim
    <3>2. CASE status[j] # "queued"
      <4>1. [status EXCEPT ![j] = status[j]] = status
        BY <1>1
      <4> QED BY <1>2, <3>2, <4>1 DEF Claim
    <3> QED BY <3>1, <3>2
  <2> QED BY <2>1, <2>2 DEF Claim
<1> HIDE DEF j
<1>6. status'[j] \in Active /\ \A k \in Jobs \ {j} : status'[k] = status[k]
  BY <1>1, <1>2, <1>5 DEF Active
<1>7. VmidOnlyWhenCompleted'
  BY <1>2, <1>5, <1>6 DEF VmidOnlyWhenCompleted
<1> QED
  BY <1>3, <1>4, <1>5, <1>6, <1>7

LEMMA DecidedStep ==
  ASSUME TypeInv, JobsIInv, Complete \/ RecordFailure  PROVE JobsIInv'
<1> USE DEF TypeInv, TypeOK, JobsIInv, JobsInv, At
<1>1. /\ queue' = queue /\ w.job \in Jobs
      /\ w'.pc = "idle" \/ (status' = status /\ w'.job = w.job /\ w.pc # "idle")
      /\ \A k \in Jobs \ {w.job} : status'[k] = status[k] /\ jobVmid'[k] = jobVmid[k]
  <2>1. CASE Complete
    BY <2>1, Templates DEF Complete, Goto, Worker
  <2>2. CASE RecordFailure
    BY <2>2, Templates DEF RecordFailure
  <2> QED BY <2>1, <2>2
<1>2. \A n \in 1..Len(queue) : queue[n] # w.job /\ queue[n] \in Jobs
  BY DEF Complete, RecordFailure
<1>3. VmidOnlyWhenCompleted'
  BY <1>1 DEF Complete, RecordFailure, VmidOnlyWhenCompleted, Active
<1> QED
  BY <1>1, <1>2, <1>3

LEMMA RestartStep ==
  ASSUME TypeInv, JobsIInv, Crash \/ Restart, w.pc = "idle" \/ Crash
  PROVE  JobsIInv'
<1> USE DEF TypeInv, TypeOK, JobsIInv, JobsInv
<1>1. CASE Crash
  BY <1>1, Templates DEF Crash, jobVars, VmidOnlyWhenCompleted
<1>2. CASE Restart /\ w.pc = "idle"
  <2>1. PICK q \in [1..Cardinality(Pending) -> Pending] : InQueuedOrder(q) /\ queue' = q
    BY <1>2 DEF Restart
  <2>2. Cardinality(Pending) \in Nat
    BY FS_Subset, FS_CardinalityType, ConstAssumption DEF Pending
  <2>3. \A n \in 1..Len(queue') : queue'[n] \in Pending /\ n \in DOMAIN q
    <3> HIDE DEF TypeInv, TypeOK, JobsIInv, JobsInv
    <3>1. /\ DOMAIN q = 1..Cardinality(Pending)
          /\ \A n \in 1..Cardinality(Pending) : q[n] \in Pending
      BY <2>1
    <3>2. Len(q) = Cardinality(Pending)
      BY <2>1, <2>2
    <3> QED BY <2>1, <3>1, <3>2
  <2>4. \A k \in Jobs : /\ k \in Pending => status'[k] \in Active
                        /\ k \notin Pending => status'[k] = status[k]
    BY <1>2 DEF Restart, Pending, Active
  <2>5. ASSUME NEW m \in 1..Len(queue'), NEW n \in 1..Len(queue'), m < n
        PROVE  queue'[m] # queue'[n]
    <3>1. queuedAt[q[m]] < queuedAt[q[n]]
      BY <2>1, <2>3, <2>5 DEF InQueuedOrder
    <3>2. q[m] \in Jobs /\ q[n] \in Jobs
      BY <2>1, <2>3 DEF Pending
    <3> QED BY <2>1, <3>1, <3>2
  <2>6. \A m, n \in 1..Len(queue') : queue'[m] = queue'[n] => m = n
    <3>1. Len(queue') \in Nat
      BY <2>1, <2>2
    <3>2. \A m, n \in 1..Len(queue') : m = n \/ m < n \/ n < m
      BY <3>1
    <3> QED BY <2>5, <3>2
  <2>7. VmidOnlyWhenCompleted'
    BY <1>2, <2>4 DEF Restart, VmidOnlyWhenCompleted, Pending, Active
  <2> QED
    BY <1>2, <2>3, <2>4, <2>6, <2>7 DEF Restart, Pending
<1> QED
  BY <1>1, <1>2

\* The worker thread dies with the process.
IdleWhenDown == up \/ w.pc = "idle"

LEMMA IdleWhenDownStep ==
  ASSUME TypeInv, IdleWhenDown, [Next]_vars  PROVE IdleWhenDown'
<1> USE DEF IdleWhenDown
<1>1. CASE WorkerStep
  <2>1. /\ CheckLimit => up /\ up' = up
        /\ SelectVmid => up /\ up' = up
        /\ ReserveRow => up /\ up' = up
    BY Zenon DEF CheckLimit, SelectVmid, ReserveRow, At
  <2>7. Claim => up'
    <3>1. Claim => up /\ up' = up
      BY ZenonT(60) DEF Claim, At
    <3> QED BY <3>1
  <2>2. ClonePost \/ WaitForClone => up'
    BY DEF ClonePost, WaitForClone, At
  <2>3. Configure => up'
    BY DEF Configure, At
  <2>4. AddNat \/ Start => up'
    BY DEF AddNat, Start, At
  <2>5. MarkReady \/ Complete \/ RecordFailure => up'
    BY DEF MarkReady, Complete, RecordFailure, At
  <2>6. CleanPve \/ CleanNat \/ CleanRow => up'
    BY DEF CleanPve, CleanNat, CleanRow, At
  <2> QED
    BY <1>1, <2>1, <2>2, <2>3, <2>4, <2>5, <2>6, <2>7 DEF WorkerStep
<1>2. CASE Crash \/ Restart
  BY <1>2, Templates DEF Crash, Restart
<1>3. CASE ~WorkerStep /\ ~Crash /\ ~Restart
  BY <1>3 DEF Next, Enqueue, DeleteBegin, DeleteStep, DeleteStop, DeleteDestroy,
              DeleteNat, DeleteCommit, CloneDone, vars
<1> QED BY <1>1, <1>2, <1>3

LEMMA JobsStep ==
  ASSUME TypeInv, JobsIInv, IdleWhenDown, [Next]_vars  PROVE JobsIInv'
<1>1. CASE JobsUntouched
  BY <1>1 DEF JobsUntouched, jobVars, JobsIInv, JobsInv, VmidOnlyWhenCompleted
<1>2. CASE Restart
  BY <1>2, RestartStep DEF Restart, IdleWhenDown
<1> QED
  BY <1>1, <1>2, StepOnJobs, AcceptedStep, ClaimStep, DecidedStep, RestartStep

LEMMA JobsInductive == Spec => [](JobsIInv /\ IdleWhenDown)
<1>1. Init => JobsIInv /\ IdleWhenDown
  BY Templates DEF Init, JobsIInv, JobsInv, VmidOnlyWhenCompleted, IdleWhenDown
<1>2. TypeInv /\ JobsIInv /\ IdleWhenDown /\ [Next]_vars => JobsIInv' /\ IdleWhenDown'
  BY JobsStep, IdleWhenDownStep
<1> QED
  BY <1>1, <1>2, TypeInductive, PTL DEF Spec

\* VmidOnlyWhenCompleted: only the COMPLETED commit records a VMID, so no job
\* in another state has one, and the check for a VMID in
\* process_vm_creation_job never sees one.
THEOREM NoEarlyVmid == Spec => []VmidOnlyWhenCompleted
<1>1. JobsIInv => VmidOnlyWhenCompleted
  BY DEF JobsIInv
<1> QED
  BY <1>1, JobsInductive, PTL

\* TerminalStable: no step of the worker, of the recovery after a crash or of
\* a deletion takes a COMPLETED or FAILED job out of its state.
THEOREM DecisionsAreFinal == Spec => TerminalStable
<1> DEFINE Final == \A j \in Jobs : status[j] \in {"completed", "failed"} =>
                       status'[j] = status[j] /\ jobVmid'[j] = jobVmid[j]
<1>1. TypeInv /\ JobsIInv /\ [Next]_vars => [Final]_vars
  <2> SUFFICES ASSUME TypeInv, JobsIInv, [Next]_vars  PROVE Final
    OBVIOUS
  <2> USE DEF TypeInv, TypeOK, JobsIInv, JobsInv, Active, jobVars
  <2>1. CASE JobsUntouched \/ Crash
    BY <2>1 DEF JobsUntouched, Crash
  <2>2. CASE \E j \in Jobs : Enqueue(j)
    BY <2>2 DEF Enqueue
  <2>3. CASE Claim
    <3>1. status[Head(queue)] \in Active /\ Head(queue) \in Jobs
      <4>1. queue # <<>>
        BY <2>3 DEF Claim
      <4>2. Head(queue) = queue[1] /\ 1 \in 1..Len(queue) /\ Head(queue) \in Jobs
        BY <4>1
      <4> QED BY <4>2
    <3> QED BY <2>3, <3>1 DEF Claim
  <2>4. CASE Complete \/ RecordFailure
    BY <2>4 DEF Complete, RecordFailure, At
  <2>5. CASE Restart
    BY <2>5 DEF Restart, Pending
  <2> QED
    BY <2>1, <2>2, <2>3, <2>4, <2>5, StepOnJobs
<1> QED
  BY <1>1, TypeInductive, JobsInductive, PTL DEF Spec, TerminalStable

-----------------------------------------------------------------------------
(* What each step does to the worker's locals, field by field.              *)

Owning   == HasVmid \ {"reserve"}
Creating == {"wait", "config", "nat", "start", "ready"}

SameTask  == w'.job = w.job /\ w'.vmid = w.vmid /\ w'.ip = w.ip /\ w'.row = w.row
SameFlags == w'.cloned = w.cloned /\ w'.natAdded = w.natAdded

LEMMA Moves ==
  ASSUME TypeInv, NEW p, Goto(p)
  PROVE  w'.pc = p /\ SameTask /\ SameFlags
BY DEF TypeInv, TypeOK, Worker, Goto, SameTask, SameFlags

LEMMA FirstMoves ==
  ASSUME TypeInv
  PROVE  /\ Claim => /\ w.pc = "idle" /\ w'.pc \in {"idle", "check", "fail"}
                     /\ ~w'.natAdded
         /\ CheckLimit => /\ w.pc = "check" /\ w'.pc \in {"select", "fail"}
                          /\ SameTask /\ SameFlags
         /\ SelectVmid => /\ w.pc = "select" /\ SameFlags /\ w'.job = w.job
                          /\ \/ w'.pc = "reserve" /\ w'.vmid \in Selectable
                             \/ w'.pc = "fail" /\ SameTask
<1>1. Claim => w.pc = "idle" /\ w'.pc \in {"idle", "check", "fail"} /\ ~w'.natAdded
  <2> SUFFICES ASSUME Claim
               PROVE  w.pc = "idle" /\ w'.pc \in {"idle", "check", "fail"} /\ ~w'.natAdded
    OBVIOUS
  <2>1. \A j : /\ ~[IdleWorker EXCEPT !.pc = "check", !.job = j].natAdded
               /\ ~[IdleWorker EXCEPT !.pc = "fail", !.job = j].natAdded
               /\ ~IdleWorker.natAdded
    BY DEF IdleWorker
  <2>2. \/ w' = IdleWorker
        \/ \E j : w' = [IdleWorker EXCEPT !.pc = "check", !.job = j]
        \/ \E j : w' = [IdleWorker EXCEPT !.pc = "fail", !.job = j]
    BY DEF Claim
  <2>3. w.pc = "idle"
    BY DEF Claim, At
  <2> QED BY <2>1, <2>2, <2>3, ClaimPc
<1>2. CheckLimit => w.pc = "check" /\ w'.pc \in {"select", "fail"} /\ SameTask /\ SameFlags
  BY Moves DEF CheckLimit, At
<1>3. SelectVmid => /\ w.pc = "select" /\ SameFlags /\ w'.job = w.job
                    /\ \/ w'.pc = "reserve" /\ w'.vmid \in Selectable
                       \/ w'.pc = "fail" /\ SameTask
  BY Moves DEF SelectVmid, At, IsLeast, TypeInv, TypeOK, Worker, SameTask, SameFlags
<1> QED BY <1>1, <1>2, <1>3

NewRow(i) == [id |-> nextId, vmid |-> w.vmid, ip |-> i, job |-> w.job, ready |-> FALSE]

LEMMA ReserveMoves ==
  ASSUME TypeInv, ReserveRow
  PROVE  /\ w.pc = "reserve" /\ SameFlags /\ w'.job = w.job /\ w'.vmid = w.vmid
         /\ \/ /\ w'.pc = "clone" /\ w'.ip \in FreeIps /\ w'.row = nextId
               /\ nextId' = nextId + 1
               /\ rows' = rows \cup {NewRow(w'.ip)}
            \/ w'.pc = "fail" /\ SameTask /\ rows' = rows /\ nextId' = nextId
<1>1. w.pc = "reserve" /\ w \in Worker
  BY DEF ReserveRow, At, TypeInv, TypeOK
<1>2. ASSUME NEW i \in FreeIps, w' = [w EXCEPT !.pc = "clone", !.ip = i, !.row = nextId]
      PROVE  /\ w'.pc = "clone" /\ w'.ip = i /\ w'.row = nextId
             /\ SameFlags /\ w'.job = w.job /\ w'.vmid = w.vmid
  BY <1>1, <1>2 DEF Worker, SameFlags
<1>3. CASE Goto("fail")
  <2>1. w'.pc = "fail" /\ SameTask /\ SameFlags
    BY <1>3, Moves
  <2>2. UNCHANGED rowVars
    BY <1>2, <2>1 DEF ReserveRow
  <2> QED BY <1>1, <2>1, <2>2 DEF rowVars, SameTask
<1>4. CASE ~Goto("fail")
  <2>1. PICK i \in FreeIps :
          /\ rows' = rows \cup {NewRow(i)}
          /\ w' = [w EXCEPT !.pc = "clone", !.ip = i, !.row = nextId]
    BY <1>4 DEF ReserveRow, NewRow
  <2>2. nextId' = nextId + 1
    BY <1>4 DEF ReserveRow
  <2> QED BY <1>1, <1>2, <2>1, <2>2
<1> QED BY <1>3, <1>4

LEMMA CreateMoves ==
  ASSUME TypeInv
  PROVE  /\ ClonePost => /\ w.pc = "clone" /\ w'.pc \in {"wait", "cleanPve"}
                         /\ SameTask /\ w'.natAdded = w.natAdded
                         /\ w'.pc = "wait" => w'.cloned
                         /\ w'.pc = "cleanPve" => w'.cloned = w.cloned
         /\ WaitForClone => /\ w.pc = "wait" /\ w'.pc \in {"config", "cleanPve"}
                            /\ SameTask /\ SameFlags
         /\ Configure => /\ w.pc = "config" /\ w'.pc \in {"nat", "cleanPve"}
                         /\ SameTask /\ SameFlags
         /\ AddNat => /\ w.pc = "nat" /\ SameTask /\ w'.cloned = w.cloned
                      /\ \/ w'.pc = "start" /\ w'.natAdded
                         \/ w'.pc = "cleanPve" /\ w'.natAdded = w.natAdded
         /\ Start => /\ w.pc = "start" /\ w'.pc \in {"ready", "cleanPve"}
                     /\ SameTask /\ SameFlags
         /\ MarkReady => /\ w.pc = "ready" /\ w'.pc \in {"complete", "cleanPve"}
                         /\ SameTask /\ SameFlags
<1>1. ClonePost => /\ w.pc = "clone" /\ w'.pc \in {"wait", "cleanPve"}
                   /\ SameTask /\ w'.natAdded = w.natAdded
                   /\ w'.pc = "wait" => w'.cloned
                   /\ w'.pc = "cleanPve" => w'.cloned = w.cloned
  <2>1. ASSUME w' = [w EXCEPT !.pc = "wait", !.cloned = TRUE]
        PROVE  w'.pc = "wait" /\ w'.cloned /\ SameTask /\ w'.natAdded = w.natAdded
    BY <2>1 DEF TypeInv, TypeOK, Worker, SameTask
  <2>2. Goto("cleanPve") => w'.pc = "cleanPve" /\ SameTask /\ SameFlags
    BY Moves
  <2> QED BY <2>1, <2>2 DEF ClonePost, At, SameFlags
<1>2. WaitForClone => w.pc = "wait" /\ w'.pc \in {"config", "cleanPve"} /\ SameTask /\ SameFlags
  BY Moves DEF WaitForClone, At
<1>3. Configure => w.pc = "config" /\ w'.pc \in {"nat", "cleanPve"} /\ SameTask /\ SameFlags
  BY Moves DEF Configure, At
<1>4. AddNat => /\ w.pc = "nat" /\ SameTask /\ w'.cloned = w.cloned
                /\ \/ w'.pc = "start" /\ w'.natAdded
                   \/ w'.pc = "cleanPve" /\ w'.natAdded = w.natAdded
  <2>1. ASSUME w' = [w EXCEPT !.pc = "start", !.natAdded = TRUE]
        PROVE  w'.pc = "start" /\ w'.natAdded /\ SameTask /\ w'.cloned = w.cloned
    BY <2>1 DEF TypeInv, TypeOK, Worker, SameTask
  <2>2. Goto("cleanPve") => w'.pc = "cleanPve" /\ SameTask /\ SameFlags
    BY Moves
  <2> QED BY <2>1, <2>2 DEF AddNat, At, SameFlags
<1>5. Start => w.pc = "start" /\ w'.pc \in {"ready", "cleanPve"} /\ SameTask /\ SameFlags
  BY Moves DEF Start, At
<1>6. MarkReady => w.pc = "ready" /\ w'.pc \in {"complete", "cleanPve"} /\ SameTask /\ SameFlags
  BY Moves DEF MarkReady, At
<1> QED BY <1>1, <1>2, <1>3, <1>4, <1>5, <1>6

LEMMA LastMoves ==
  ASSUME TypeInv
  PROVE  /\ CleanPve => w.pc = "cleanPve" /\ w'.pc = "cleanNat" /\ SameTask /\ SameFlags
         /\ CleanNat => w.pc = "cleanNat" /\ w'.pc = "cleanRow" /\ SameTask /\ SameFlags
         /\ CleanRow => w.pc = "cleanRow" /\ w'.pc = "fail" /\ SameTask /\ SameFlags
         /\ Complete => /\ w.pc = "complete"
                        /\ \/ w' = IdleWorker
                           \/ w'.pc = "fail" /\ SameTask /\ SameFlags /\ Fault("db")
         /\ RecordFailure => w.pc = "fail" /\ w' = IdleWorker
         /\ Crash => w' = IdleWorker /\ d' = IdleDeleter
<1>1. CleanPve => w.pc = "cleanPve" /\ w'.pc = "cleanNat" /\ SameTask /\ SameFlags
  BY Moves DEF CleanPve, At
<1>2. CleanNat => w.pc = "cleanNat" /\ w'.pc = "cleanRow" /\ SameTask /\ SameFlags
  BY Moves DEF CleanNat, At
<1>3. CleanRow => w.pc = "cleanRow" /\ w'.pc = "fail" /\ SameTask /\ SameFlags
  BY Moves DEF CleanRow, At
<1>4. Complete => /\ w.pc = "complete"
                  /\ \/ w' = IdleWorker
                     \/ w'.pc = "fail" /\ SameTask /\ SameFlags /\ Fault("db")
  BY Moves DEF Complete, At
<1>5. RecordFailure => w.pc = "fail" /\ w' = IdleWorker
  BY DEF RecordFailure, At
<1>6. Crash => w' = IdleWorker /\ d' = IdleDeleter
  BY DEF Crash
<1> QED BY <1>1, <1>2, <1>3, <1>4, <1>5, <1>6

\* Only the worker and a crash touch the locals of create_vm.
LEMMA OthersLeaveWorker ==
  ASSUME [Next]_vars, ~WorkerStep, ~Crash
  PROVE  w' = w
BY DEF Next, Enqueue, DeleteBegin, DeleteStep, DeleteStop, DeleteDestroy, DeleteNat,
       DeleteCommit, CloneDone, Restart, vars

-----------------------------------------------------------------------------
(* No accepted job is forgotten, and jobs start in the order of acceptance. *)

HeldInv ==
  up => \A j \in Jobs :
          /\ status[j] = "queued" <=> \E n \in 1..Len(queue) : queue[n] = j
          /\ status[j] = "running" => w.pc # "idle" /\ w.job = j

LEMMA StillWorking ==
  ASSUME TypeInv, [Next]_vars, ~Claim, ~Complete, ~RecordFailure, ~Crash
  PROVE  w' = w \/ (w.pc # "idle" /\ w'.pc # "idle" /\ w'.job = w.job)
<1>1. CASE ~WorkerStep
  BY <1>1, OthersLeaveWorker
<1>2. CASE CheckLimit \/ SelectVmid \/ ReserveRow
  BY <1>2, FirstMoves, ReserveMoves DEF SameTask
<1>3. CASE ClonePost \/ WaitForClone \/ Configure \/ AddNat \/ Start \/ MarkReady
  BY <1>3, CreateMoves DEF SameTask
<1>4. CASE CleanPve \/ CleanNat \/ CleanRow
  BY <1>4, LastMoves DEF SameTask
<1> QED BY <1>1, <1>2, <1>3, <1>4 DEF WorkerStep

LEMMA OnlyRestartStarts ==
  ASSUME [Next]_vars, ~Restart, up'  PROVE up
<1>1. CASE WorkerStep
  <2>1. Claim => up
    BY DEF Claim, At
  <2>2. CheckLimit \/ SelectVmid \/ ReserveRow => up
    BY DEF CheckLimit, SelectVmid, ReserveRow, At
  <2>3. ClonePost \/ WaitForClone \/ Configure => up
    BY DEF ClonePost, WaitForClone, Configure, At
  <2>4. AddNat \/ Start \/ MarkReady => up
    BY DEF AddNat, Start, MarkReady, At
  <2>5. Complete \/ RecordFailure => up
    BY DEF Complete, RecordFailure, At
  <2>6. CleanPve \/ CleanNat \/ CleanRow => up
    BY DEF CleanPve, CleanNat, CleanRow, At
  <2> QED BY <1>1, <2>1, <2>2, <2>3, <2>4, <2>5, <2>6 DEF WorkerStep
<1>2. CASE ~WorkerStep
  BY <1>2 DEF Next, Enqueue, DeleteBegin, DeleteStep, DeleteStop, DeleteDestroy, DeleteNat,
              DeleteCommit, CloneDone, Crash, vars
<1> QED BY <1>1, <1>2

\* An enumeration of a set without repetition leaves nobody out.
LEMMA EnumerationComplete ==
  ASSUME NEW P, IsFiniteSet(P), NEW q \in [1..Cardinality(P) -> P],
         \A a, b \in 1..Cardinality(P) : a < b => q[a] # q[b]
  PROVE  \A x \in P : \E n \in 1..Cardinality(P) : q[n] = x
<1> DEFINE N == Cardinality(P)
<1>1. N \in Nat /\ IsFiniteSet(1..N) /\ Cardinality(1..N) = N
  <2>1. N \in Nat
    BY FS_CardinalityType
  <2> HIDE DEF N
  <2>2. Cardinality(1..N) = IF 1 > N THEN 0 ELSE N - 1 + 1
    BY <2>1, FS_Interval
  <2> QED BY <2>1, <2>2, FS_Interval
<1>2. \A a, b \in 1..N : q[a] = q[b] => a = b
  <2> HIDE DEF N
  <2>1. \A a, b \in 1..N : a < b \/ b < a \/ a = b
    BY <1>1
  <2> QED BY <2>1 DEF N
<1>3. q \in Injection(1..N, P)
  BY <1>2 DEF Injection, IsInjective
<1>4. q \in Surjection(1..N, P)
  BY <1>1, <1>3, FS_Injection
<1> QED BY <1>4 DEF Surjection

LEMMA HeldStep ==
  ASSUME TypeInv, JobsIInv, HeldInv, [Next]_vars, ~Fault("db")
  PROVE  HeldInv'
<1> SUFFICES ASSUME up'
             PROVE  \A j \in Jobs :
                      /\ status'[j] = "queued" <=> \E n \in 1..Len(queue') : queue'[n] = j
                      /\ status'[j] = "running" => w'.pc # "idle" /\ w'.job = j
  BY DEF HeldInv
<1>0. /\ status \in [Jobs -> JobStatus] /\ queue \in Seq(Jobs) /\ Len(queue) \in Nat
      /\ \A n \in 1..Len(queue) : queue[n] \in Jobs
  BY DEF TypeInv, TypeOK
<1>1. ASSUME ~Restart
      PROVE  \A j \in Jobs :
               /\ status[j] = "queued" <=> \E n \in 1..Len(queue) : queue[n] = j
               /\ status[j] = "running" => w.pc # "idle" /\ w.job = j
  BY <1>1, OnlyRestartStarts DEF HeldInv
<1>2. CASE JobsUntouched /\ ~Claim /\ ~Complete /\ ~RecordFailure /\ ~Crash /\ ~Restart
  BY <1>1, <1>2, StillWorking DEF JobsUntouched, jobVars
<1>3. ASSUME NEW k \in Jobs, Enqueue(k)
      PROVE  \A j \in Jobs :
               /\ status'[j] = "queued" <=> \E n \in 1..Len(queue') : queue'[n] = j
               /\ status'[j] = "running" => w'.pc # "idle" /\ w'.job = j
  <2>1. /\ Len(queue') = Len(queue) + 1 /\ queue'[Len(queue) + 1] = k
        /\ \A n \in 1..Len(queue) : queue'[n] = queue[n]
    BY <1>0, <1>3 DEF Enqueue
  <2>2. status'[k] = "queued" /\ (\A j \in Jobs \ {k} : status'[j] = status[j]) /\ w' = w
    BY <1>0, <1>3 DEF Enqueue
  <2>3. ~Restart
    BY <1>3 DEF Enqueue, Restart
  <2>4. status[k] = "none"
    BY <1>3 DEF Enqueue
  <2>5. \A n \in 1..Len(queue') : n \in 1..Len(queue) \/ n = Len(queue) + 1
    BY <1>0, <2>1
  <2>6. \A n \in 1..Len(queue) : n \in 1..Len(queue')
    BY <1>0, <2>1
  <2>7. Len(queue) + 1 \in 1..Len(queue')
    BY <1>0, <2>1
  <2> QED BY <1>1, <2>1, <2>2, <2>3, <2>4, <2>5, <2>6, <2>7
<1>4. CASE Claim
  <2> DEFINE h == Head(queue)
  <2>1. /\ Len(queue) >= 1 /\ h = queue[1] /\ h \in Jobs /\ queue' = Tail(queue)
        /\ Len(queue') = Len(queue) - 1
        /\ \A n \in 1..Len(queue') : queue'[n] = queue[n + 1]
    BY <1>0, <1>4 DEF Claim
  <2>2. ~Restart /\ w.pc = "idle"
    BY <1>4 DEF Claim, At, Restart
  <2>3. status[h] = "queued" /\ jobVmid[h] = NoVmid
    <3>1. 1 \in 1..Len(queue)
      BY <1>0, <2>1
    <3>2. status[h] = "queued"
      BY <1>1, <2>1, <2>2, <3>1
    <3> QED BY <2>1, <3>2 DEF JobsIInv, VmidOnlyWhenCompleted
  <2>4. status' = [status EXCEPT ![h] = "running"]
        /\ w' = [IdleWorker EXCEPT !.pc = "check", !.job = h]
    BY <1>4, <2>3 DEF Claim
  <2>5. w'.pc = "check" /\ w'.job = h
    BY <2>4 DEF IdleWorker
  <2>6. \A m, n \in 1..Len(queue) : queue[m] = queue[n] => m = n
    BY DEF JobsIInv, JobsInv
  <2> HIDE DEF h
  <2>7. status'[h] = "running" /\ \A j \in Jobs \ {h} : status'[j] = status[j]
    BY <1>0, <2>1, <2>4
  <2>8. \A n \in 1..Len(queue') : n + 1 \in 1..Len(queue) /\ n + 1 # 1
    BY <1>0, <2>1
  <2>9. \A n \in 1..Len(queue) : n # 1 => n - 1 \in 1..Len(queue') /\ queue'[n - 1] = queue[n]
    BY <1>0, <2>1
  <2>10. 1 \in 1..Len(queue)
    BY <1>0, <2>1
  <2>11. \A j \in Jobs : status'[j] = "running" => j = h
    BY <1>1, <2>2, <2>7
  <2>12. \A j \in Jobs : status'[j] = "queued" <=> \E n \in 1..Len(queue') : queue'[n] = j
    <3>1. ASSUME NEW j \in Jobs, status'[j] = "queued"
          PROVE  \E n \in 1..Len(queue') : queue'[n] = j
      <4>1. j # h /\ status[j] = "queued"
        BY <2>7, <3>1
      <4>2. PICK n \in 1..Len(queue) : queue[n] = j
        BY <1>1, <2>2, <4>1
      <4>3. n # 1
        BY <2>1, <4>1, <4>2
      <4> QED BY <2>9, <4>2, <4>3
    <3>2. ASSUME NEW j \in Jobs, NEW n \in 1..Len(queue'), queue'[n] = j
          PROVE  status'[j] = "queued"
      <4>1. queue[n + 1] = j /\ n + 1 \in 1..Len(queue) /\ n + 1 # 1
        BY <2>1, <2>8, <3>2
      <4>2. j # h
        BY <2>1, <2>6, <2>10, <4>1
      <4>3. status[j] = "queued"
        BY <1>1, <2>2, <4>1
      <4> QED BY <2>7, <4>2, <4>3
    <3> QED BY <3>1, <3>2
  <2> QED BY <2>5, <2>11, <2>12
<1>5. CASE Complete \/ RecordFailure
  <2>1. /\ queue' = queue /\ w.job \in Jobs /\ w.pc # "idle"
        /\ status'[w.job] \in {"completed", "failed"}
        /\ \A j \in Jobs \ {w.job} : status'[j] = status[j]
    BY <1>0, <1>5 DEF Complete, RecordFailure, At, TypeInv, TypeOK
  <2>2. \A n \in 1..Len(queue) : queue[n] # w.job
    BY <2>1 DEF JobsIInv, JobsInv
  <2>3. ~Restart
    BY <1>5 DEF Complete, RecordFailure, At, Restart
  <2> QED BY <1>1, <2>1, <2>2, <2>3
<1>6. CASE Crash
  BY <1>6 DEF Crash
<1>7. CASE Restart
  <2>1. PICK q \in [1..Cardinality(Pending) -> Pending] : InQueuedOrder(q) /\ queue' = q
    BY <1>7 DEF Restart
  <2>2. Pending \subseteq Jobs /\ IsFiniteSet(Pending) /\ Cardinality(Pending) \in Nat
    BY FS_Subset, FS_CardinalityType, ConstAssumption DEF Pending
  <2>3. DOMAIN q = 1..Cardinality(Pending) /\ Len(q) = Cardinality(Pending)
    BY <2>1, <2>2
  <2>4. \A a, b \in 1..Cardinality(Pending) : a < b => q[a] # q[b]
    <3> SUFFICES ASSUME NEW a \in 1..Cardinality(Pending), NEW b \in 1..Cardinality(Pending),
                        a < b, q[a] = q[b]
                 PROVE  FALSE
      OBVIOUS
    <3>1. queuedAt[q[a]] < queuedAt[q[b]] /\ q[a] \in Jobs
      BY <2>1, <2>2, <2>3 DEF InQueuedOrder
    <3>2. queuedAt[q[a]] \in Nat
      BY <3>1 DEF TypeInv, TypeOK
    <3> QED BY <3>1, <3>2
  <2>5. \A x \in Pending : \E n \in 1..Len(queue') : queue'[n] = x
    BY <2>1, <2>2, <2>3, <2>4, EnumerationComplete
  <2>6. \A n \in 1..Len(queue') : queue'[n] \in Pending
    BY <2>1, <2>3
  <2>7. \A j \in Jobs : status'[j] = IF j \in Pending THEN "queued" ELSE status[j]
    BY <1>7 DEF Restart
  <2> QED BY <2>5, <2>6, <2>7 DEF Pending, Active
<1> QED
  BY <1>2, <1>3, <1>4, <1>5, <1>6, <1>7, StepOnJobs

\* While COMMITs succeed, every job a user was told is QUEUED waits in the
\* memory queue, once, and a RUNNING job is the worker's, for any number of
\* crashes: _recover_pending_jobs finds them all.
THEOREM NoJobForgotten ==
  ASSUME "db" \notin Faults  PROVE Spec => []NoJobLost
<1>1. Init => HeldInv
  BY DEF Init, HeldInv
<1>2. TypeInv /\ JobsIInv /\ HeldInv /\ [Next]_vars => HeldInv'
  BY HeldStep DEF Fault
<1>3. JobsIInv /\ HeldInv => NoJobLost
  BY DEF JobsIInv, JobsInv, HeldInv, NoJobLost
<1> QED BY <1>1, <1>2, <1>3, TypeInductive, JobsInductive, PTL DEF Spec

Requested == {k \in Jobs : status[k] # "none"}

\* queued_at grows with every acceptance, and the queue is in its order.
FifoInv ==
  /\ \A j \in Requested : queuedAt[j] <= Cardinality(Requested)
  /\ \A m, n \in 1..Len(queue) : m < n => queuedAt[queue[m]] < queuedAt[queue[n]]

LEMMA RequestedOnce ==
  ASSUME TypeInv, JobsIInv, [Next]_vars, \A j \in Jobs : ~Enqueue(j)
  PROVE  Requested' = Requested /\ queuedAt' = queuedAt
<1> USE DEF TypeInv, TypeOK, Requested
<1>1. CASE JobsUntouched \/ Crash
  BY <1>1 DEF JobsUntouched, jobVars, Crash
<1>2. CASE Claim
  <2>1. Head(queue) \in Jobs /\ status[Head(queue)] \in Active
    <3>1. queue # <<>>
      BY <1>2 DEF Claim
    <3>2. Head(queue) = queue[1] /\ 1 \in 1..Len(queue) /\ Head(queue) \in Jobs
      BY <3>1
    <3> QED BY <3>2 DEF JobsIInv, JobsInv
  <2>2. \/ status' = status
        \/ \E s \in JobStatus \ {"none"} : status' = [status EXCEPT ![Head(queue)] = s]
    BY <1>2, <2>1 DEF Claim, JobStatus, Active
  <2>3. queuedAt' = queuedAt
    BY <1>2 DEF Claim
  <2> QED BY <2>1, <2>2, <2>3 DEF Active
<1>3. CASE Complete \/ RecordFailure
  <2>1. w.job \in Jobs /\ status[w.job] \in Active
    BY <1>3 DEF Complete, RecordFailure, At, JobsIInv, JobsInv
  <2>2. \/ status' = status
        \/ status' = [status EXCEPT ![w.job] = "completed"]
        \/ status' = [status EXCEPT ![w.job] = "failed"]
    BY <1>3 DEF Complete, RecordFailure
  <2>3. queuedAt' = queuedAt
    BY <1>3 DEF Complete, RecordFailure
  <2> QED BY <2>1, <2>2, <2>3 DEF Active
<1>4. CASE Restart
  <2>1. \/ status' = status
        \/ status' = [j \in Jobs |-> IF j \in Pending THEN "queued" ELSE status[j]]
    BY <1>4 DEF Restart
  <2>2. queuedAt' = queuedAt
    BY <1>4 DEF Restart
  <2> QED BY <2>1, <2>2 DEF Pending, Active
<1> QED BY <1>1, <1>2, <1>3, <1>4, StepOnJobs

LEMMA FifoStep ==
  ASSUME TypeInv, JobsIInv, FifoInv, [Next]_vars  PROVE FifoInv'
<1>0. /\ queue \in Seq(Jobs) /\ Len(queue) \in Nat /\ queuedAt \in [Jobs -> Nat]
      /\ \A n \in 1..Len(queue) : queue[n] \in Jobs
      /\ status \in [Jobs -> JobStatus]
  BY DEF TypeInv, TypeOK
<1>1. ASSUME NEW j \in Jobs, Enqueue(j)  PROVE FifoInv'
  <2> DEFINE N == Cardinality(Requested)
  <2>1. N \in Nat /\ IsFiniteSet(Requested)
    BY FS_Subset, FS_CardinalityType, ConstAssumption DEF Requested
  <2>2. /\ status' = [status EXCEPT ![j] = "queued"] /\ status[j] = "none"
        /\ queuedAt' = [queuedAt EXCEPT ![j] = N + 1]
        /\ queue' = Append(queue, j)
    BY <1>1 DEF Enqueue, Requested
  <2>3. Requested' = Requested \cup {j} /\ j \notin Requested
    BY <1>0, <2>2 DEF Requested
  <2>4. Cardinality(Requested') = N + 1
    BY <2>1, <2>3, FS_AddElement
  <2>5. /\ Len(queue') = Len(queue) + 1 /\ queue'[Len(queue) + 1] = j
        /\ \A n \in 1..Len(queue) : queue'[n] = queue[n]
    BY <1>0, <2>2
  <2>6. \A n \in 1..Len(queue) : queue[n] \in Requested
    BY <1>0 DEF JobsIInv, JobsInv, Active, Requested
  <2>7. queuedAt'[j] = N + 1 /\ \A k \in Requested : queuedAt'[k] = queuedAt[k]
    BY <1>0, <2>2, <2>3 DEF Requested
  <2>8. \A k \in Requested : queuedAt[k] <= N /\ queuedAt[k] \in Nat
    BY <1>0 DEF FifoInv, Requested
  <2> HIDE DEF N
  <2>9. \A k \in Requested' : queuedAt'[k] <= N + 1
    BY <2>1, <2>3, <2>7, <2>8
  <2>10. ASSUME NEW m \in 1..Len(queue'), NEW n \in 1..Len(queue'), m < n
         PROVE  queuedAt'[queue'[m]] < queuedAt'[queue'[n]]
    <3>1. m \in 1..Len(queue)
      BY <1>0, <2>5, <2>10
    <3>2. CASE n \in 1..Len(queue)
      BY <2>5, <2>6, <2>7, <2>10, <3>1, <3>2 DEF FifoInv
    <3>3. CASE n = Len(queue) + 1
      <4>1. queuedAt'[queue'[m]] <= N /\ queuedAt'[queue'[m]] \in Nat
        BY <2>5, <2>6, <2>7, <2>8, <3>1
      <4> QED BY <2>1, <2>5, <2>7, <3>3, <4>1
    <3> QED BY <1>0, <2>5, <3>2, <3>3
  <2> QED BY <2>4, <2>9, <2>10 DEF FifoInv
<1>2. CASE \A j \in Jobs : ~Enqueue(j)
  <2>1. Requested' = Requested /\ queuedAt' = queuedAt
    BY <1>2, RequestedOnce
  <2>2. CASE queue' = queue \/ queue' = <<>>
    BY <2>1, <2>2 DEF FifoInv
  <2>3. CASE Claim
    <3>1. /\ Len(queue') = Len(queue) - 1 /\ Len(queue) >= 1
          /\ \A n \in 1..Len(queue') : queue'[n] = queue[n + 1] /\ n + 1 \in 1..Len(queue)
      BY <1>0, <2>3 DEF Claim
    <3>2. \A m, n \in 1..Len(queue') : m < n => queuedAt[queue'[m]] < queuedAt[queue'[n]]
      BY <3>1 DEF FifoInv
    <3> QED BY <2>1, <3>2 DEF FifoInv
  <2>4. CASE Restart
    <3>1. PICK q \in [1..Cardinality(Pending) -> Pending] : InQueuedOrder(q) /\ queue' = q
      BY <2>4 DEF Restart
    <3>2. Cardinality(Pending) \in Nat
      BY FS_Subset, FS_CardinalityType, ConstAssumption DEF Pending
    <3>3. Len(q) = Cardinality(Pending) /\ DOMAIN q = 1..Len(q)
      BY <3>1, <3>2
    <3> QED BY <2>1, <3>1, <3>3 DEF FifoInv, InQueuedOrder
  <2> QED
    BY <1>2, <2>2, <2>3, <2>4, StepOnJobs DEF JobsUntouched, Complete, RecordFailure, Crash
<1> QED BY <1>1, <1>2

LEMMA StartsFirst ==
  ASSUME TypeInv, JobsIInv, HeldInv, FifoInv, [Next]_vars, ~Fault("db"),
         NEW j \in Jobs, NEW k \in Jobs, status[j] = "queued", status'[j] = "running",
         status[k] = "queued", queuedAt[k] < queuedAt[j]
  PROVE  FALSE
<1>1. CASE Claim
  <2>1. queue # <<>> /\ up /\ queue \in Seq(Jobs)
    BY <1>1 DEF Claim, At, TypeInv, TypeOK
  <2>2. Len(queue) \in Nat /\ 1 \in 1..Len(queue) /\ Head(queue) = queue[1] /\ queue[1] \in Jobs
    BY <2>1
  <2>3. j = queue[1]
    BY <1>1, <2>2 DEF Claim, TypeInv, TypeOK
  <2>4. PICK n \in 1..Len(queue) : queue[n] = k
    BY <2>1 DEF HeldInv
  <2>5. queuedAt[k] \in Nat /\ queuedAt[j] \in Nat
    BY DEF TypeInv, TypeOK
  <2>6. n = 1 \/ 1 < n
    BY <2>2
  <2> QED BY <2>2, <2>3, <2>4, <2>5, <2>6 DEF FifoInv
<1>2. CASE JobsUntouched \/ Crash
  BY <1>2 DEF JobsUntouched, jobVars, Crash
<1>3. CASE \E i \in Jobs : Enqueue(i)
  BY <1>3 DEF Enqueue, TypeInv, TypeOK
<1>4. CASE Complete \/ RecordFailure
  BY <1>4 DEF Complete, RecordFailure, TypeInv, TypeOK
<1>5. CASE Restart
  BY <1>5 DEF Restart
<1> QED BY <1>1, <1>2, <1>3, <1>4, <1>5, StepOnJobs

\* While COMMITs succeed, jobs are started in the order users were told they
\* were accepted, before and after any number of restarts.
THEOREM FirstComeFirstServed ==
  ASSUME "db" \notin Faults  PROVE Spec => StartedInOrder
<1>1. Init => HeldInv /\ FifoInv
  BY DEF Init, HeldInv, FifoInv, Requested
<1>2. TypeInv /\ JobsIInv /\ HeldInv /\ FifoInv /\ [Next]_vars => HeldInv' /\ FifoInv'
  BY HeldStep, FifoStep DEF Fault
<1>3. TypeInv /\ JobsIInv /\ HeldInv /\ FifoInv /\ [Next]_vars =>
        [\A j, k \in Jobs :
           /\ status[j] = "queued" /\ status'[j] = "running"
           /\ status[k] = "queued" /\ queuedAt[k] < queuedAt[j]
           => FALSE]_vars
  BY StartsFirst DEF Fault
<1> QED
  BY <1>1, <1>2, <1>3, TypeInductive, JobsInductive, PTL DEF Spec, StartedInOrder

-----------------------------------------------------------------------------
(* What each step does to the VMs in Proxmox.                               *)

OnlyChanges(x) == \A v \in Vmids : v # x => pve'[v] = pve[v]
SameOwner(x)   == pve'[x].job = pve[x].job /\ pve'[x].ip = pve[x].ip

LEMMA VmUpdate ==
  ASSUME TypeInv, NEW x \in Vmids
  PROVE  /\ \A m : pve' = [pve EXCEPT ![x] = m] => OnlyChanges(x) /\ pve'[x] = m
         /\ \A s : pve' = [pve EXCEPT ![x].state = s] =>
              OnlyChanges(x) /\ pve'[x].state = s /\ SameOwner(x)
         /\ \A i : pve' = [pve EXCEPT ![x].ip = i] =>
              /\ OnlyChanges(x) /\ pve'[x].ip = i
              /\ pve'[x].state = pve[x].state /\ pve'[x].job = pve[x].job
<1>1. pve \in [Vmids -> PveVm] /\ pve[x] \in PveVm
  BY DEF TypeInv, TypeOK
<1>2. \A m : pve' = [pve EXCEPT ![x] = m] => OnlyChanges(x) /\ pve'[x] = m
  BY <1>1 DEF OnlyChanges
<1>3. ASSUME NEW s, pve' = [pve EXCEPT ![x].state = s]
      PROVE  OnlyChanges(x) /\ pve'[x].state = s /\ SameOwner(x)
  <2>1. pve' = [pve EXCEPT ![x] = [pve[x] EXCEPT !.state = s]]
    BY <1>3
  <2>2. /\ [pve[x] EXCEPT !.state = s].state = s
        /\ [pve[x] EXCEPT !.state = s].job = pve[x].job
        /\ [pve[x] EXCEPT !.state = s].ip = pve[x].ip
    BY <1>1 DEF PveVm
  <2> QED BY <1>2, <2>1, <2>2 DEF SameOwner
<1>4. ASSUME NEW i, pve' = [pve EXCEPT ![x].ip = i]
      PROVE  /\ OnlyChanges(x) /\ pve'[x].ip = i
             /\ pve'[x].state = pve[x].state /\ pve'[x].job = pve[x].job
  <2>1. pve' = [pve EXCEPT ![x] = [pve[x] EXCEPT !.ip = i]]
    BY <1>4
  <2>2. /\ [pve[x] EXCEPT !.ip = i].ip = i
        /\ [pve[x] EXCEPT !.ip = i].state = pve[x].state
        /\ [pve[x] EXCEPT !.ip = i].job = pve[x].job
    BY <1>1 DEF PveVm
  <2> QED BY <1>2, <2>1, <2>2
<1> QED BY <1>2, <1>3, <1>4

\* A VM that the worker cloned, configured, started or cleaned up.
LEMMA WorkerVm ==
  ASSUME TypeInv
  PROVE  /\ ClonePost => \/ pve' = pve /\ w'.pc = "cleanPve"
                         \/ /\ pve[w.vmid].state = "absent" /\ OnlyChanges(w.vmid)
                            /\ pve'[w.vmid] = [state |-> "cloning", job |-> w.job, ip |-> NoIp]
                            /\ w'.pc = "wait" \/ Fault("lost")
         /\ Configure => \/ pve' = pve /\ w'.pc = "cleanPve"
                         \/ /\ pve[w.vmid].state # "absent" /\ OnlyChanges(w.vmid)
                            /\ pve'[w.vmid].state = pve[w.vmid].state
                            /\ pve'[w.vmid].job = pve[w.vmid].job
                            /\ pve'[w.vmid].ip = w.ip
         /\ Start => \/ pve' = pve /\ w'.pc = "cleanPve"
                     \/ /\ pve[w.vmid].state = "stopped" /\ OnlyChanges(w.vmid)
                        /\ pve'[w.vmid].state = "running" /\ SameOwner(w.vmid)
                        /\ w'.pc = "ready" \/ Fault("lost")
         /\ CleanPve => \/ pve' = pve /\ ((w.cloned /\ pve[w.vmid].state = "stopped") => Fault("pve"))
                        \/ /\ pve[w.vmid].state = "stopped" /\ OnlyChanges(w.vmid)
                           /\ pve'[w.vmid] = NoVm
<1>1. w.pc \in HasVmid => w.vmid \in Vmids
  BY DEF TypeInv, LocalsInv
<1>2. Goto("cleanPve") => w'.pc = "cleanPve"
  BY Moves
<1>3. ClonePost => \/ pve' = pve /\ w'.pc = "cleanPve"
                   \/ /\ pve[w.vmid].state = "absent" /\ OnlyChanges(w.vmid)
                      /\ pve'[w.vmid] = [state |-> "cloning", job |-> w.job, ip |-> NoIp]
                      /\ w'.pc = "wait" \/ Fault("lost")
  <2> SUFFICES ASSUME ClonePost
               PROVE  \/ pve' = pve /\ w'.pc = "cleanPve"
                      \/ /\ pve[w.vmid].state = "absent" /\ OnlyChanges(w.vmid)
                         /\ pve'[w.vmid] = [state |-> "cloning", job |-> w.job, ip |-> NoIp]
                         /\ w'.pc = "wait" \/ Fault("lost")
    OBVIOUS
  <2>1. w.vmid \in Vmids
    BY <1>1 DEF ClonePost, At, HasVmid
  <2>2. w' = [w EXCEPT !.pc = "wait", !.cloned = TRUE] => w'.pc = "wait"
    BY DEF TypeInv, TypeOK, Worker
  <2>3. \/ pve' = pve /\ Goto("cleanPve")
        \/ /\ pve[w.vmid].state = "absent"
           /\ pve' = [pve EXCEPT ![w.vmid] = [state |-> "cloning", job |-> w.job, ip |-> NoIp]]
           /\ w' = [w EXCEPT !.pc = "wait", !.cloned = TRUE] \/ Fault("lost")
    BY DEF ClonePost, MyVm
  <2> QED BY <1>2, <2>1, <2>2, <2>3, VmUpdate
<1>4. Configure => \/ pve' = pve /\ w'.pc = "cleanPve"
                   \/ /\ pve[w.vmid].state # "absent" /\ OnlyChanges(w.vmid)
                      /\ pve'[w.vmid].state = pve[w.vmid].state
                      /\ pve'[w.vmid].job = pve[w.vmid].job
                      /\ pve'[w.vmid].ip = w.ip
  <2>1. Configure => w.vmid \in Vmids
    BY <1>1 DEF Configure, At, HasVmid
  <2>2. Configure => \/ pve' = pve /\ Goto("cleanPve")
                     \/ /\ pve[w.vmid].state # "absent"
                        /\ pve' = [pve EXCEPT ![w.vmid].ip = w.ip]
    BY DEF Configure, MyVm
  <2> QED BY <1>2, <2>1, <2>2, VmUpdate
<1>5. Start => \/ pve' = pve /\ w'.pc = "cleanPve"
               \/ /\ pve[w.vmid].state = "stopped" /\ OnlyChanges(w.vmid)
                  /\ pve'[w.vmid].state = "running" /\ SameOwner(w.vmid)
                  /\ w'.pc = "ready" \/ Fault("lost")
  <2>1. Start => w.vmid \in Vmids
    BY <1>1 DEF Start, At, HasVmid
  <2>2. Start => \/ pve' = pve /\ Goto("cleanPve")
                 \/ /\ pve[w.vmid].state = "stopped"
                    /\ pve' = [pve EXCEPT ![w.vmid].state = "running"]
                    /\ Goto("ready") \/ Fault("lost")
    BY DEF Start, MyVm
  <2>3. Goto("ready") => w'.pc = "ready"
    BY Moves
  <2> QED BY <1>2, <2>1, <2>2, <2>3, VmUpdate
<1>6. CleanPve => \/ pve' = pve /\ ((w.cloned /\ pve[w.vmid].state = "stopped") => Fault("pve"))
                  \/ /\ pve[w.vmid].state = "stopped" /\ OnlyChanges(w.vmid)
                     /\ pve'[w.vmid] = NoVm
  <2>1. CleanPve => w.vmid \in Vmids
    BY <1>1 DEF CleanPve, At, HasVmid
  <2>2. CleanPve => \/ pve' = pve /\ ((w.cloned /\ pve[w.vmid].state = "stopped") => Fault("pve"))
                    \/ /\ pve[w.vmid].state = "stopped"
                       /\ pve' = [pve EXCEPT ![w.vmid] = NoVm]
    BY DEF CleanPve, MyVm
  <2> QED BY <2>1, <2>2, VmUpdate
<1> QED BY <1>3, <1>4, <1>5, <1>6

\* A VM that delete_vm stopped or destroyed, and a clone task that ended.
LEMMA OtherVm ==
  ASSUME TypeInv
  PROVE  /\ DeleteStop => \/ pve' = pve
                          \/ /\ pve[d.vmid].state = "running" /\ OnlyChanges(d.vmid)
                             /\ pve'[d.vmid].state = "stopped" /\ SameOwner(d.vmid)
         /\ DeleteDestroy => \/ pve' = pve /\ d' = IdleDeleter
                             \/ /\ pve[d.vmid].state = "stopped" /\ OnlyChanges(d.vmid)
                                /\ pve'[d.vmid] = NoVm
         /\ \A v \in Vmids : CloneDone(v) =>
              /\ pve[v].state = "cloning" /\ OnlyChanges(v)
              /\ \/ pve'[v].state = "stopped" /\ SameOwner(v)
                 \/ pve'[v] = NoVm
<1>1. d.pc # "idle" => d.vmid \in Vmids
  BY DEF TypeInv, LocalsInv
<1>2. DeleteStop => \/ pve' = pve
                    \/ /\ pve[d.vmid].state = "running" /\ OnlyChanges(d.vmid)
                       /\ pve'[d.vmid].state = "stopped" /\ SameOwner(d.vmid)
  <2>1. DeleteStop => d.vmid \in Vmids
    BY <1>1 DEF DeleteStop
  <2>2. DeleteStop => \/ pve' = pve
                      \/ /\ pve[d.vmid].state = "running"
                         /\ pve' = [pve EXCEPT ![d.vmid].state = "stopped"]
    BY DEF DeleteStop
  <2> QED BY <2>1, <2>2, VmUpdate
<1>3. DeleteDestroy => \/ pve' = pve /\ d' = IdleDeleter
                       \/ /\ pve[d.vmid].state = "stopped" /\ OnlyChanges(d.vmid)
                          /\ pve'[d.vmid] = NoVm
  <2>1. DeleteDestroy => d.vmid \in Vmids
    BY <1>1 DEF DeleteDestroy
  <2>2. DeleteDestroy => \/ pve' = pve /\ d' = IdleDeleter
                         \/ /\ pve[d.vmid].state = "stopped"
                            /\ pve' = [pve EXCEPT ![d.vmid] = NoVm]
    BY DEF DeleteDestroy
  <2> QED BY <2>1, <2>2, VmUpdate
<1>4. ASSUME NEW v \in Vmids, CloneDone(v)
      PROVE  /\ pve[v].state = "cloning" /\ OnlyChanges(v)
             /\ \/ pve'[v].state = "stopped" /\ SameOwner(v)
                \/ pve'[v] = NoVm
  BY <1>4, VmUpdate DEF CloneDone
<1> QED BY <1>2, <1>3, <1>4

LEMMA VmsUntouched ==
  ASSUME [Next]_vars, ~ClonePost, ~Configure, ~Start, ~CleanPve, ~DeleteStop,
         ~DeleteDestroy, \A v \in Vmids : ~CloneDone(v)
  PROVE  pve' = pve
<1>1. CASE Claim \/ CheckLimit \/ SelectVmid \/ ReserveRow
  BY <1>1 DEF Claim, CheckLimit, SelectVmid, ReserveRow
<1>2. CASE WaitForClone \/ AddNat \/ MarkReady \/ Complete
  BY <1>2 DEF WaitForClone, AddNat, MarkReady, Complete
<1>3. CASE CleanNat \/ CleanRow \/ RecordFailure
  BY <1>3 DEF CleanNat, CleanRow, RecordFailure
<1>4. CASE ~WorkerStep
  BY <1>4 DEF Next, Enqueue, DeleteBegin, DeleteStep, DeleteNat, DeleteCommit, Crash,
              Restart, vars
<1> QED BY <1>1, <1>2, <1>3, <1>4 DEF WorkerStep

\* Only clone.post brings a VM into being.
LEMMA AbsentStays ==
  ASSUME TypeInv, [Next]_vars, ~ClonePost,
         NEW v \in Vmids, pve[v].state = "absent"
  PROVE  pve'[v].state = "absent"
<1>1. NoVm.state = "absent"
  BY DEF NoVm
<1>2. CASE Configure \/ Start \/ CleanPve
  BY <1>1, <1>2, WorkerVm DEF OnlyChanges
<1>3. CASE DeleteStop \/ DeleteDestroy
  BY <1>1, <1>3, OtherVm DEF OnlyChanges
<1>4. CASE \E x \in Vmids : CloneDone(x)
  BY <1>1, <1>4, OtherVm DEF OnlyChanges
<1> QED BY <1>2, <1>3, <1>4, VmsUntouched

-----------------------------------------------------------------------------
(* The worker and delete_vm each own the record they work on.               *)

OwnRow  == \E r \in rows : r.id = w.row
Mine(r) == r.id = w.row /\ r.vmid = w.vmid /\ r.ip = w.ip /\ r.job = w.job

\* From the COMMIT of the record to the end of the cleanup: nobody else uses
\* its id, VMID or IP, and it is ready only when create_vm has returned.
WorkerOwn ==
  w.pc \in Owning =>
    /\ w.row < nextId
    /\ \A r \in rows : r.id = w.row \/ r.vmid = w.vmid \/ r.ip = w.ip =>
         Mine(r) /\ (r.ready => w.pc = "complete")

\* The VMID is unused in Proxmox up to clone.post, where the record cannot be
\* deleted; a record that delete_vm removed later left no VM behind.
VmidOwn ==
  /\ w.pc \in {"reserve", "clone"} => pve[w.vmid].state = "absent"
  /\ w.pc = "clone" => OwnRow
  /\ w.pc \in Owning /\ ~OwnRow => pve[w.vmid].state = "absent"

DeleterOwn ==
  /\ d.pc # "idle" =>
       /\ d.id < nextId
       /\ \A r \in rows : r.id = d.id => r.vmid = d.vmid /\ r.ip = d.ip
  /\ d.pc \in {"unnat", "commit"} =>
       \A r \in rows : r.id = d.id =>
         pve[d.vmid].state = "absent" /\ (w.pc = "clone" => w.row # d.id)

OwnInv == WorkerOwn /\ VmidOwn /\ DeleterOwn

\* The steps that take over or give up nothing.
WorkerOn ==
  \/ w' = w
  \/ w'.pc \notin HasVmid
  \/ /\ w.pc \in Owning \ {"complete"} /\ w'.pc \in Owning \ {"clone", "complete"}
     /\ SameTask
DeleterOn ==
  \/ d' = d
  \/ d'.pc = "idle"
  \/ /\ d.pc # "idle" /\ d'.id = d.id /\ d'.vmid = d.vmid /\ d'.ip = d.ip
     /\ d'.pc \in {"unnat", "commit"} => d.pc \in {"unnat", "commit"}
Quiet == UNCHANGED rowVars /\ WorkerOn /\ DeleterOn

LEMMA DeleterMoves ==
  ASSUME TypeInv
  PROVE  /\ DeleteStop => /\ d.pc = "stop" /\ d'.pc = "destroy" /\ w' = w
                          /\ d'.id = d.id /\ d'.vmid = d.vmid /\ d'.ip = d.ip
         /\ DeleteDestroy => /\ d.pc = "destroy" /\ w' = w
                             /\ \/ d' = IdleDeleter
                                \/ /\ d'.pc = "unnat" /\ d'.id = d.id
                                   /\ d'.vmid = d.vmid /\ d'.ip = d.ip
         /\ DeleteNat => /\ d.pc = "unnat" /\ d'.pc = "commit" /\ w' = w
                         /\ d'.id = d.id /\ d'.vmid = d.vmid /\ d'.ip = d.ip
         /\ DeleteCommit => d.pc = "commit" /\ d' = IdleDeleter /\ w' = w
<1>1. d \in Deleter
  BY DEF TypeInv, TypeOK
<1>2. ASSUME NEW p, d' = [d EXCEPT !.pc = p]
      PROVE  d'.pc = p /\ d'.id = d.id /\ d'.vmid = d.vmid /\ d'.ip = d.ip
  BY <1>1, <1>2 DEF Deleter
<1>3. DeleteStop => /\ d.pc = "stop" /\ d'.pc = "destroy" /\ w' = w
                    /\ d'.id = d.id /\ d'.vmid = d.vmid /\ d'.ip = d.ip
  BY <1>2 DEF DeleteStop
<1>4. DeleteDestroy => /\ d.pc = "destroy" /\ w' = w
                       /\ \/ d' = IdleDeleter
                          \/ /\ d'.pc = "unnat" /\ d'.id = d.id
                             /\ d'.vmid = d.vmid /\ d'.ip = d.ip
  BY <1>2 DEF DeleteDestroy
<1>5. DeleteNat => /\ d.pc = "unnat" /\ d'.pc = "commit" /\ w' = w
                   /\ d'.id = d.id /\ d'.vmid = d.vmid /\ d'.ip = d.ip
  BY <1>2 DEF DeleteNat
<1>6. DeleteCommit => d.pc = "commit" /\ d' = IdleDeleter /\ w' = w
  BY DEF DeleteCommit
<1> QED BY <1>3, <1>4, <1>5, <1>6

LEMMA DeleterIdle ==
  ASSUME [Next]_vars, ~DeleteStep, ~Crash, \A r \in rows : ~DeleteBegin(r)
  PROVE  d' = d
<1>1. CASE Claim \/ CheckLimit \/ SelectVmid \/ ReserveRow \/ ClonePost
  BY <1>1 DEF Claim, CheckLimit, SelectVmid, ReserveRow, ClonePost
<1>2. CASE WaitForClone \/ Configure \/ AddNat \/ Start \/ MarkReady \/ Complete
  BY <1>2 DEF WaitForClone, Configure, AddNat, Start, MarkReady, Complete
<1>3. CASE CleanPve \/ CleanNat \/ CleanRow \/ RecordFailure
  BY <1>3 DEF CleanPve, CleanNat, CleanRow, RecordFailure
<1>4. CASE ~WorkerStep
  BY <1>4 DEF Next, Enqueue, CloneDone, Restart, vars
<1> QED BY <1>1, <1>2, <1>3, <1>4 DEF WorkerStep

LEMMA RowsUntouched ==
  ASSUME [Next]_vars, ~ReserveRow, ~MarkReady, ~CleanRow, ~DeleteCommit
  PROVE  UNCHANGED rowVars
<1>1. CASE Claim \/ CheckLimit \/ SelectVmid \/ ClonePost \/ WaitForClone
  BY <1>1 DEF Claim, CheckLimit, SelectVmid, ClonePost, WaitForClone
<1>2. CASE Configure \/ AddNat \/ Start \/ Complete
  BY <1>2 DEF Configure, AddNat, Start, Complete
<1>3. CASE CleanPve \/ CleanNat \/ RecordFailure
  BY <1>3 DEF CleanPve, CleanNat, RecordFailure
<1>4. CASE ~WorkerStep
  BY <1>4 DEF Next, Enqueue, DeleteBegin, DeleteStep, DeleteStop, DeleteDestroy, DeleteNat,
              CloneDone, Crash, Restart, vars, rowVars
<1> QED BY <1>1, <1>2, <1>3, <1>4 DEF WorkerStep

LEMMA IdleTemplates == IdleWorker.pc \notin HasVmid /\ IdleDeleter.pc = "idle"
BY DEF IdleWorker, IdleDeleter, HasVmid

LEMMA OwnerKinds ==
  ASSUME TypeInv, [Next]_vars
  PROVE  \/ Quiet \/ SelectVmid \/ ReserveRow \/ ClonePost \/ MarkReady \/ CleanRow
         \/ (\E r \in rows : DeleteBegin(r)) \/ DeleteDestroy \/ DeleteCommit
<1> SUFFICES ASSUME ~SelectVmid, ~ReserveRow, ~ClonePost, ~MarkReady, ~CleanRow,
                    \A r \in rows : ~DeleteBegin(r), ~DeleteDestroy, ~DeleteCommit
             PROVE  Quiet
  OBVIOUS
<1>1. UNCHANGED rowVars
  BY RowsUntouched
<1>2. WorkerOn
  <2>1. CASE ~WorkerStep /\ ~Crash
    BY <2>1, OthersLeaveWorker DEF WorkerOn
  <2>2. CASE Crash \/ RecordFailure \/ Complete
    BY <2>2, LastMoves, IdleTemplates DEF WorkerOn, HasVmid
  <2>3. CASE Claim \/ CheckLimit
    BY <2>3, FirstMoves DEF WorkerOn, HasVmid
  <2>4. CASE WaitForClone \/ Configure \/ AddNat \/ Start
    BY <2>4, CreateMoves DEF WorkerOn, Owning, HasVmid
  <2>5. CASE CleanPve \/ CleanNat
    BY <2>5, LastMoves DEF WorkerOn, Owning, HasVmid
  <2> QED BY <2>1, <2>2, <2>3, <2>4, <2>5 DEF WorkerStep
<1>3. DeleterOn
  <2>1. CASE DeleteStop \/ DeleteNat
    BY <2>1, DeleterMoves DEF DeleterOn
  <2>2. CASE Crash
    BY <2>2, LastMoves, IdleTemplates DEF DeleterOn
  <2>3. CASE ~DeleteStep /\ ~Crash
    BY <2>3, DeleterIdle DEF DeleterOn
  <2> QED BY <2>1, <2>2, <2>3 DEF DeleteStep
<1> QED BY <1>1, <1>2, <1>3 DEF Quiet

LEMMA MarkReadyMoves ==
  ASSUME TypeInv, MarkReady
  PROVE  /\ nextId' = nextId /\ pve' = pve /\ d' = d /\ w.pc = "ready" /\ SameTask
         /\ \/ rows' = rows /\ w'.pc = "cleanPve" /\ delivered' = delivered
            \/ /\ w'.pc = "complete"
               /\ delivered' = [delivered EXCEPT ![w.job] = @ + 1]
               /\ \E r \in rows : r.id = w.row /\ rows' = (rows \ {r}) \cup {ReadyVersion(r)}
<1>1. Goto("cleanPve") => w'.pc = "cleanPve"
  BY Moves
<1>2. Goto("complete") => w'.pc = "complete"
  BY Moves
<1>3. w.pc = "ready" /\ SameTask
  BY CreateMoves
<1> QED BY <1>1, <1>2, <1>3 DEF MarkReady, ReadyVersion

LEMMA QuietOwn ==
  ASSUME TypeInv, OwnInv, [Next]_vars, Quiet, ~ClonePost  PROVE OwnInv'
<1>1. rows' = rows /\ nextId' = nextId
  BY DEF Quiet, rowVars
<1>2. w.pc \in HasVmid => w.vmid \in Vmids
  BY DEF TypeInv, LocalsInv
<1>3. d.pc # "idle" => d.vmid \in Vmids
  BY DEF TypeInv, LocalsInv
<1>4. \A v \in Vmids : pve[v].state = "absent" => pve'[v].state = "absent"
  BY AbsentStays
<1>5. WorkerOwn'
  <2>1. CASE w' = w
    BY <1>1, <2>1 DEF OwnInv, WorkerOwn, Mine
  <2>2. CASE w'.pc \notin HasVmid
    BY <2>2 DEF WorkerOwn, Owning, HasVmid
  <2>3. CASE w.pc \in Owning \ {"complete"} /\ SameTask
    BY <1>1, <2>3 DEF OwnInv, WorkerOwn, Mine, SameTask
  <2> QED BY <2>1, <2>2, <2>3 DEF Quiet, WorkerOn
<1>6. VmidOwn'
  <2>1. CASE w' = w
    BY <1>1, <1>2, <1>4, <2>1 DEF OwnInv, VmidOwn, OwnRow, Owning, HasVmid
  <2>2. CASE w'.pc \notin HasVmid
    BY <2>2 DEF VmidOwn, Owning, HasVmid
  <2>3. CASE w.pc \in Owning \ {"complete"} /\ w'.pc \in Owning \ {"clone", "complete"} /\ SameTask
    BY <1>1, <1>2, <1>4, <2>3 DEF OwnInv, VmidOwn, OwnRow, Owning, HasVmid, SameTask
  <2> QED BY <2>1, <2>2, <2>3 DEF Quiet, WorkerOn
<1>7. DeleterOwn'
  <2>1. w'.pc = "clone" => w' = w
    BY DEF Quiet, WorkerOn, HasVmid
  <2>2. CASE d' = d
    BY <1>1, <1>3, <1>4, <2>1, <2>2 DEF OwnInv, DeleterOwn
  <2>3. CASE d'.pc = "idle"
    BY <2>3 DEF DeleterOwn
  <2>4. CASE /\ d.pc # "idle" /\ d'.id = d.id /\ d'.vmid = d.vmid /\ d'.ip = d.ip
             /\ d'.pc \in {"unnat", "commit"} => d.pc \in {"unnat", "commit"}
    BY <1>1, <1>3, <1>4, <2>1, <2>4 DEF OwnInv, DeleterOwn
  <2> QED BY <2>2, <2>3, <2>4 DEF Quiet, DeleterOn
<1> QED BY <1>5, <1>6, <1>7 DEF OwnInv

LEMMA ReserveOwn ==
  ASSUME TypeInv, UniqueInv, OwnInv, ReserveRow  PROVE OwnInv'
<1>1. pve' = pve /\ d' = d
  BY DEF ReserveRow
<1>2. w.pc = "reserve" /\ w.vmid \in Vmids /\ pve[w.vmid].state = "absent"
  BY DEF ReserveRow, At, TypeInv, LocalsInv, HasVmid, OwnInv, VmidOwn
<1>3. CASE w'.pc = "fail" /\ rows' = rows /\ nextId' = nextId
  BY <1>1, <1>3 DEF OwnInv, WorkerOwn, VmidOwn, DeleterOwn, Owning, HasVmid
<1>4. CASE /\ w'.pc = "clone" /\ w'.ip \in FreeIps /\ w'.row = nextId
           /\ nextId' = nextId + 1 /\ rows' = rows \cup {NewRow(w'.ip)}
           /\ w'.job = w.job /\ w'.vmid = w.vmid
  <2> DEFINE new == NewRow(w'.ip)
  <2>1. /\ new.id = nextId /\ new.vmid = w.vmid /\ new.ip = w'.ip /\ new.job = w.job
        /\ ~new.ready
    BY DEF NewRow
  <2> HIDE DEF new
  <2>2. rows' = rows \cup {new} /\ nextId \in Nat
    BY <1>4 DEF new, TypeInv, TypeOK
  <2>3. \A r \in rows : r.id \in Nat /\ r.id < nextId /\ r.vmid # w.vmid /\ r.ip # w'.ip
    BY <1>2, <1>4 DEF FreeIps, UniqueInv, RowsInv, TypeInv, TypeOK, Row
  <2>4. WorkerOwn'
    BY <1>4, <2>1, <2>2, <2>3 DEF WorkerOwn, Mine
  <2>5. VmidOwn'
    BY <1>1, <1>2, <1>4, <2>1, <2>2 DEF VmidOwn, OwnRow
  <2>6. DeleterOwn'
    <3>1. d.pc # "idle" => d.id \in Nat /\ d.id < nextId
      BY DEF TypeInv, TypeOK, Deleter, OwnInv, DeleterOwn
    <3> QED BY <1>1, <1>4, <2>1, <2>2, <3>1 DEF OwnInv, DeleterOwn
  <2> QED BY <2>4, <2>5, <2>6 DEF OwnInv
<1> QED BY <1>3, <1>4, ReserveMoves

LEMMA CloneOwn ==
  ASSUME TypeInv, OwnInv, ClonePost  PROVE OwnInv'
<1>1. rows' = rows /\ nextId' = nextId /\ d' = d
  BY DEF ClonePost, rowVars
<1>2. w.pc = "clone" /\ w'.pc \in {"wait", "cleanPve"} /\ SameTask
  BY CreateMoves
<1>3. OwnRow /\ OwnRow'
  BY <1>1, <1>2 DEF OwnInv, VmidOwn, OwnRow, SameTask
<1>4. WorkerOwn'
  BY <1>1, <1>2 DEF OwnInv, WorkerOwn, Mine, SameTask, Owning, HasVmid
<1>5. VmidOwn'
  BY <1>2, <1>3 DEF VmidOwn
<1>6. DeleterOwn'
  <2>1. \A r \in rows : r.vmid = w.vmid => r.id = w.row
    BY <1>2 DEF OwnInv, WorkerOwn, Mine, Owning, HasVmid
  <2>2. d.pc # "idle" => d.vmid \in Vmids
    BY DEF TypeInv, LocalsInv
  <2>3. \A v \in Vmids : v # w.vmid => pve'[v] = pve[v]
    BY WorkerVm DEF OnlyChanges
  <2> QED BY <1>1, <1>2, <2>1, <2>2, <2>3 DEF OwnInv, DeleterOwn
<1> QED BY <1>4, <1>5, <1>6 DEF OwnInv

LEMMA ReadyOwn ==
  ASSUME TypeInv, OwnInv, MarkReady  PROVE OwnInv'
<1>1. nextId' = nextId /\ pve' = pve /\ d' = d /\ w.pc = "ready" /\ SameTask
  BY MarkReadyMoves
<1>2. CASE rows' = rows /\ w'.pc = "cleanPve"
  <2>1. WorkerOwn'
    BY <1>1, <1>2 DEF OwnInv, WorkerOwn, Mine, SameTask, Owning, HasVmid
  <2>2. VmidOwn'
    BY <1>1, <1>2 DEF OwnInv, VmidOwn, OwnRow, SameTask, Owning, HasVmid
  <2>3. DeleterOwn'
    BY <1>1, <1>2 DEF OwnInv, DeleterOwn
  <2> QED BY <2>1, <2>2, <2>3 DEF OwnInv
<1>3. ASSUME NEW r \in rows, r.id = w.row, rows' = (rows \ {r}) \cup {ReadyVersion(r)},
             w'.pc = "complete"
      PROVE  OwnInv'
  <2>1. /\ ReadyVersion(r).id = r.id /\ ReadyVersion(r).vmid = r.vmid
        /\ ReadyVersion(r).ip = r.ip /\ ReadyVersion(r).job = r.job
    BY ReadyVersionKeeps DEF TypeInv, TypeOK
  <2>2. \A s \in rows' : \E t \in rows : s.id = t.id /\ s.vmid = t.vmid /\ s.ip = t.ip
                                         /\ s.job = t.job
    BY <1>3, <2>1
  <2>3. WorkerOwn'
    <3>1. w.pc \in Owning
      BY <1>1 DEF Owning, HasVmid
    <3> QED BY <1>1, <1>3, <2>2, <3>1 DEF OwnInv, WorkerOwn, Mine, SameTask
  <2>4. VmidOwn'
    <3>1. OwnRow'
      BY <1>1, <1>3, <2>1 DEF OwnRow, SameTask
    <3> QED BY <1>3, <3>1 DEF VmidOwn
  <2>5. DeleterOwn'
    BY <1>1, <1>3, <2>2 DEF OwnInv, DeleterOwn
  <2> QED BY <2>3, <2>4, <2>5 DEF OwnInv
<1> QED BY <1>2, <1>3, MarkReadyMoves

LEMMA DestroyOwn ==
  ASSUME TypeInv, OwnInv, [Next]_vars, DeleteDestroy  PROVE OwnInv'
<1>1. rows' = rows /\ nextId' = nextId /\ w' = w /\ ~ClonePost
  BY DEF DeleteDestroy, rowVars, ClonePost, At, Deleter, TypeInv, TypeOK, IdleDeleter
<1>2. \A v \in Vmids : pve[v].state = "absent" => pve'[v].state = "absent"
  BY <1>1, AbsentStays
<1>3. WorkerOwn'
  BY <1>1 DEF OwnInv, WorkerOwn, Mine
<1>4. VmidOwn'
  <2>1. w.pc \in HasVmid => w.vmid \in Vmids
    BY DEF TypeInv, LocalsInv
  <2> QED BY <1>1, <1>2, <2>1 DEF OwnInv, VmidOwn, OwnRow, Owning, HasVmid
<1>5. DeleterOwn'
  <2>1. d.pc = "destroy"
    BY DeleterMoves
  <2>2. CASE d' = IdleDeleter
    BY <2>2, IdleTemplates DEF DeleterOwn
  <2>3. CASE d' # IdleDeleter
    <3>1. d'.pc = "unnat" /\ d'.id = d.id /\ d'.vmid = d.vmid /\ d'.ip = d.ip
      BY <2>3, DeleterMoves
    <3>2. pve[d.vmid].state = "stopped" /\ pve'[d.vmid].state = "absent"
      BY <2>3, OtherVm DEF NoVm
    <3>3. ASSUME NEW r \in rows, r.id = d.id, w.pc = "clone"
          PROVE  w.row # d.id
      <4>1. pve[w.vmid].state = "absent" /\ (r.id = w.row => r.vmid = w.vmid)
        BY <3>3 DEF OwnInv, VmidOwn, WorkerOwn, Mine, Owning, HasVmid
      <4>2. r.vmid = d.vmid
        BY <2>1, <3>3 DEF OwnInv, DeleterOwn
      <4> QED BY <3>2, <3>3, <4>1, <4>2
    <3> QED BY <1>1, <2>1, <3>1, <3>2, <3>3 DEF OwnInv, DeleterOwn
  <2> QED BY <2>2, <2>3
<1> QED BY <1>3, <1>4, <1>5 DEF OwnInv

LEMMA CommitOwn ==
  ASSUME TypeInv, OwnInv, DeleteCommit  PROVE OwnInv'
<1>1. /\ rows' \subseteq rows /\ nextId' = nextId /\ pve' = pve /\ w' = w
      /\ \A r \in rows : r \in rows' \/ r.id = d.id
  BY DEF DeleteCommit
<1>2. d.pc = "commit" /\ d'.pc = "idle"
  BY DeleterMoves, IdleTemplates
<1>3. WorkerOwn'
  BY <1>1 DEF OwnInv, WorkerOwn, Mine
<1>4. VmidOwn'
  <2>1. \A r \in rows : r.id = d.id =>
           r.vmid = d.vmid /\ pve[d.vmid].state = "absent" /\ (w.pc = "clone" => w.row # d.id)
    BY <1>2 DEF OwnInv, DeleterOwn
  <2>2. w.pc = "clone" => OwnRow'
    BY <1>1, <2>1 DEF OwnInv, VmidOwn, OwnRow
  <2>3. w.pc \in Owning /\ ~OwnRow' => pve[w.vmid].state = "absent"
    <3>1. ASSUME w.pc \in Owning, ~OwnRow', OwnRow  PROVE pve[w.vmid].state = "absent"
      <4>1. PICK r \in rows : r.id = w.row
        BY <3>1 DEF OwnRow
      <4>2. r.id = d.id
        BY <1>1, <3>1, <4>1 DEF OwnRow
      <4>3. r.vmid = w.vmid
        BY <3>1, <4>1 DEF OwnInv, WorkerOwn, Mine
      <4> QED BY <2>1, <4>2, <4>3
    <3> QED BY <3>1 DEF OwnInv, VmidOwn
  <2> QED BY <1>1, <2>2, <2>3 DEF OwnInv, VmidOwn
<1>5. DeleterOwn'
  BY <1>2 DEF DeleterOwn
<1> QED BY <1>3, <1>4, <1>5 DEF OwnInv

LEMMA OwnStep ==
  ASSUME TypeInv, UniqueInv, OwnInv, [Next]_vars  PROVE OwnInv'
<1>1. CASE SelectVmid
  <2>1. rows' = rows /\ nextId' = nextId /\ pve' = pve /\ d' = d
    BY <1>1 DEF SelectVmid, rowVars
  <2>2. \/ w'.pc = "reserve" /\ w'.vmid \in Selectable
        \/ w'.pc = "fail"
    BY <1>1, FirstMoves
  <2>3. WorkerOwn'
    BY <2>2 DEF WorkerOwn, Owning, HasVmid
  <2>4. VmidOwn'
    BY <2>1, <2>2 DEF VmidOwn, Owning, HasVmid, Selectable, FreeInProxmox
  <2>5. DeleterOwn'
    BY <2>1, <2>2 DEF OwnInv, DeleterOwn
  <2> QED BY <2>3, <2>4, <2>5 DEF OwnInv
<1>2. CASE CleanRow
  <2>1. rows' \subseteq rows /\ nextId' = nextId /\ pve' = pve /\ d' = d
    BY <1>2 DEF CleanRow
  <2>2. w'.pc = "fail"
    BY <1>2, LastMoves
  <2>3. WorkerOwn' /\ VmidOwn'
    BY <2>2 DEF WorkerOwn, VmidOwn, Owning, HasVmid
  <2>4. DeleterOwn'
    BY <2>1, <2>2 DEF OwnInv, DeleterOwn
  <2> QED BY <2>3, <2>4 DEF OwnInv
<1>3. ASSUME NEW r \in rows, DeleteBegin(r)  PROVE OwnInv'
  <2>1. rows' = rows /\ nextId' = nextId /\ pve' = pve /\ w' = w
    BY <1>3 DEF DeleteBegin, rowVars
  <2>2. d'.pc = "stop" /\ d'.id = r.id /\ d'.vmid = r.vmid /\ d'.ip = r.ip
    BY <1>3 DEF DeleteBegin
  <2>3. WorkerOwn' /\ VmidOwn'
    BY <2>1 DEF OwnInv, WorkerOwn, VmidOwn, OwnRow, Mine
  <2>4. DeleterOwn'
    BY <2>1, <2>2 DEF DeleterOwn, UniqueInv, RowsInv
  <2> QED BY <2>3, <2>4 DEF OwnInv
<1> QED
  BY <1>1, <1>2, <1>3, OwnerKinds, QuietOwn, ReserveOwn, CloneOwn, ReadyOwn, DestroyOwn,
     CommitOwn

LEMMA OwnInductive == Spec => []OwnInv
<1>1. Init => OwnInv
  <2>1. Init => w.pc = "idle" /\ d.pc = "idle"
    BY Templates DEF Init
  <2> QED BY <2>1 DEF OwnInv, WorkerOwn, VmidOwn, DeleterOwn, Owning, HasVmid
<1>2. TypeInv /\ UniqueInv /\ OwnInv /\ [Next]_vars => OwnInv'
  BY OwnStep
<1> QED BY <1>1, <1>2, TypeInductive, UniqueInductive, PTL DEF Spec

-----------------------------------------------------------------------------
(* The VM that is being created, and the VMs that are ready.                *)

\* An unused VMID carries nothing of its last VM.
EmptyInv == \A v \in Vmids : pve[v].state = "absent" => pve[v] = NoVm

\* What create_vm has already achieved for the VM of its job.
BuildInv ==
  /\ w.pc \in {"config", "nat", "start"} => pve[w.vmid].state \in {"stopped", "absent"}
  /\ w.pc = "wait" => pve[w.vmid].state # "running"
  /\ w.pc \in Creating /\ pve[w.vmid].state # "absent" =>
       /\ pve[w.vmid].job = w.job
       /\ w.pc \in {"nat", "start", "ready"} => pve[w.vmid].ip = w.ip

LEMMA EmptyStep ==
  ASSUME TypeInv, EmptyInv, [Next]_vars  PROVE EmptyInv'
<1>1. CASE ClonePost
  <2>1. pve' = pve \/ (OnlyChanges(w.vmid) /\ pve'[w.vmid].state = "cloning")
    BY <1>1, WorkerVm
  <2> QED BY <2>1 DEF EmptyInv, OnlyChanges
<1>2. CASE Configure \/ Start \/ CleanPve
  BY <1>2, WorkerVm DEF EmptyInv, OnlyChanges
<1>3. CASE DeleteStop \/ DeleteDestroy
  BY <1>3, OtherVm DEF EmptyInv, OnlyChanges
<1>4. CASE \E x \in Vmids : CloneDone(x)
  BY <1>4, OtherVm DEF EmptyInv, OnlyChanges
<1> QED BY <1>1, <1>2, <1>3, <1>4, VmsUntouched DEF EmptyInv

LEMMA EmptyInductive == Spec => []EmptyInv
<1>1. Init => EmptyInv
  BY DEF Init, EmptyInv
<1> QED BY <1>1, EmptyStep, TypeInductive, PTL DEF Spec

\* The steps after which the worker is creating are those of create_vm.
LEMMA CreatingKinds ==
  ASSUME TypeInv, [Next]_vars, w'.pc \in Creating
  PROVE  w' = w \/ ClonePost \/ WaitForClone \/ Configure \/ AddNat \/ Start
<1>1. CASE ~WorkerStep
  BY <1>1, LastMoves, OthersLeaveWorker, IdleTemplates DEF Creating, HasVmid
<1>2. CASE Claim \/ CheckLimit \/ SelectVmid \/ ReserveRow
  BY <1>2, FirstMoves, ReserveMoves DEF Creating
<1>3. CASE MarkReady \/ Complete \/ RecordFailure
  BY <1>3, CreateMoves, LastMoves, IdleTemplates DEF Creating, HasVmid
<1>4. CASE CleanPve \/ CleanNat \/ CleanRow
  BY <1>4, LastMoves DEF Creating
<1> QED BY <1>1, <1>2, <1>3, <1>4 DEF WorkerStep

\* What a step of delete_vm or of Proxmox can do to a VM.
OutsideChange(v) ==
  \/ pve'[v] = pve[v]
  \/ pve'[v].state = "absent"
  \/ pve[v].state \in {"running", "cloning"} /\ pve'[v].state = "stopped" /\ SameOwner(v)

LEMMA OutsideMoves ==
  ASSUME TypeInv, [Next]_vars, ~WorkerStep, NEW v \in Vmids
  PROVE  OutsideChange(v)
<1> USE DEF OutsideChange, OnlyChanges
<1>1. NoVm.state = "absent"
  BY DEF NoVm
<1>2. CASE DeleteStop \/ DeleteDestroy
  BY <1>1, <1>2, OtherVm
<1>3. CASE \E x \in Vmids : CloneDone(x)
  BY <1>1, <1>3, OtherVm
<1>4. ~ClonePost /\ ~Configure /\ ~Start /\ ~CleanPve
  BY DEF WorkerStep
<1> QED BY <1>2, <1>3, <1>4, VmsUntouched

LEMMA BuildStep ==
  ASSUME TypeInv, BuildInv, [Next]_vars  PROVE BuildInv'
<1> SUFFICES ASSUME w'.pc \in Creating  PROVE BuildInv'
  BY DEF BuildInv, Creating
<1>1. w.pc \in Creating \cup {"clone"} => w.vmid \in Vmids
  BY DEF TypeInv, LocalsInv, Creating, HasVmid
<1>2. CASE w' = w /\ ~WorkerStep
  <2>1. OutsideChange(w.vmid)
    BY <1>1, <1>2, OutsideMoves
  <2> QED BY <1>2, <2>1 DEF BuildInv, OutsideChange, SameOwner, Creating
<1>3. CASE ClonePost
  <2>1. w.pc = "clone" /\ w'.pc = "wait" /\ SameTask
    BY <1>3, CreateMoves DEF Creating
  <2>2. pve'[w.vmid] = [state |-> "cloning", job |-> w.job, ip |-> NoIp]
    BY <1>3, <2>1, WorkerVm
  <2> QED BY <2>1, <2>2 DEF BuildInv, SameTask
<1>4. CASE WaitForClone
  <2>1. w.pc = "wait" /\ w'.pc = "config" /\ SameTask /\ pve' = pve
    BY <1>4, CreateMoves DEF Creating, WaitForClone
  <2>2. pve[w.vmid].state = "stopped"
    <3>1. Goto("cleanPve") => w'.pc = "cleanPve"
      BY Moves
    <3> QED BY <1>4, <2>1, <3>1 DEF WaitForClone, MyVm
  <2> QED BY <2>1, <2>2 DEF BuildInv, SameTask, Creating
<1>5. CASE Configure
  <2>1. w.pc = "config" /\ w'.pc = "nat" /\ SameTask
    BY <1>5, CreateMoves DEF Creating
  <2>2. /\ pve[w.vmid].state # "absent" /\ pve'[w.vmid].state = pve[w.vmid].state
        /\ pve'[w.vmid].job = pve[w.vmid].job /\ pve'[w.vmid].ip = w.ip
    BY <1>5, <2>1, WorkerVm
  <2> QED BY <2>1, <2>2 DEF BuildInv, SameTask, Creating
<1>6. CASE AddNat
  <2>1. w.pc = "nat" /\ w'.pc = "start" /\ SameTask /\ pve' = pve
    BY <1>6, CreateMoves DEF Creating, AddNat
  <2> QED BY <2>1 DEF BuildInv, SameTask, Creating
<1>7. CASE Start
  <2>1. w.pc = "start" /\ w'.pc = "ready" /\ SameTask
    BY <1>7, CreateMoves DEF Creating
  <2>2. /\ pve[w.vmid].state = "stopped" /\ pve'[w.vmid].state = "running"
        /\ SameOwner(w.vmid)
    BY <1>7, <2>1, WorkerVm
  <2> QED BY <2>1, <2>2 DEF BuildInv, SameTask, SameOwner, Creating
<1>8. WorkerStep => w' # w
  <2>1. w' = w => ~Claim /\ ~CheckLimit /\ ~SelectVmid /\ ~ReserveRow
    BY FirstMoves, ReserveMoves DEF Creating
  <2>2. w' = w => ~ClonePost /\ ~WaitForClone /\ ~Configure /\ ~AddNat /\ ~Start /\ ~MarkReady
    BY CreateMoves
  <2>3. w' = w => ~CleanPve /\ ~CleanNat /\ ~CleanRow /\ ~Complete /\ ~RecordFailure
    BY LastMoves, IdleTemplates DEF Creating, HasVmid
  <2> QED BY <2>1, <2>2, <2>3 DEF WorkerStep
<1> QED BY <1>2, <1>3, <1>4, <1>5, <1>6, <1>7, <1>8, CreatingKinds

LEMMA BuildInductive == Spec => []BuildInv
<1>1. Init => BuildInv
  <2>1. Init => w.pc = "idle"
    BY Templates DEF Init
  <2> QED BY <2>1 DEF BuildInv, Creating
<1> QED BY <1>1, BuildStep, TypeInductive, PTL DEF Spec

\* What each step does to the forwarding rules.
WorkerRule  == <<w.vmid, w.ip>>
DeleterRule == <<d.vmid, d.ip>>

LEMMA RuleMoves ==
  ASSUME TypeInv, [Next]_vars
  PROVE  \/ nat' = nat
         \/ AddNat /\ nat' = nat \cup {WorkerRule}
         \/ CleanNat /\ nat' = nat \ {WorkerRule}
         \/ DeleteNat /\ nat' = nat \ {DeleterRule}
<1>1. CASE Claim \/ CheckLimit \/ SelectVmid \/ ReserveRow \/ ClonePost
  BY <1>1 DEF Claim, CheckLimit, SelectVmid, ReserveRow, ClonePost
<1>2. CASE WaitForClone \/ Configure \/ Start \/ MarkReady \/ Complete
  BY <1>2 DEF WaitForClone, Configure, Start, MarkReady, Complete
<1>3. CASE CleanPve \/ CleanRow \/ RecordFailure
  BY <1>3 DEF CleanPve, CleanRow, RecordFailure
<1>4. CASE AddNat
  BY <1>4 DEF AddNat, WorkerRule
<1>5. CASE CleanNat
  BY <1>5 DEF CleanNat, WorkerRule
<1>6. CASE DeleteNat
  BY <1>6 DEF DeleteNat, DeleterRule
<1>7. CASE ~WorkerStep /\ ~DeleteNat
  BY <1>7 DEF Next, Enqueue, DeleteBegin, DeleteStep, DeleteStop, DeleteDestroy,
              DeleteCommit, CloneDone, Crash, Restart, vars
<1> QED BY <1>1, <1>2, <1>3, <1>4, <1>5, <1>6, <1>7 DEF WorkerStep

\* While nobody deletes VMs, what create_vm has achieved is still there when
\* it goes on.
ServedInv ==
  /\ d.pc = "idle"
  /\ w.pc \in {"config", "nat", "start"} => pve[w.vmid].state = "stopped"
  /\ w.pc = "ready" => pve[w.vmid].state = "running"
  /\ w.pc \in {"start", "ready"} => WorkerRule \in nat

LEMMA NobodyDeletes ==
  ASSUME TypeInv, [Next]_vars, Deletable = {}, d.pc = "idle"
  PROVE  d'.pc = "idle" /\ ~DeleteStep
<1>1. ~DeleteStep
  BY DeleterMoves DEF DeleteStep
<1>2. \A r \in rows : ~DeleteBegin(r)
  BY DEF DeleteBegin
<1>3. CASE Crash
  BY <1>1, <1>3, LastMoves, IdleTemplates
<1> QED BY <1>1, <1>2, <1>3, DeleterIdle

LEMMA ServedStep ==
  ASSUME TypeInv, ServedInv, [Next]_vars, Deletable = {}
  PROVE  ServedInv'
<1>1. d'.pc = "idle" /\ ~DeleteStep
  BY NobodyDeletes DEF ServedInv
<1> SUFFICES ASSUME w'.pc \in {"config", "nat", "start", "ready"}
             PROVE  /\ w'.pc \in {"config", "nat", "start"} => pve'[w'.vmid].state = "stopped"
                    /\ w'.pc = "ready" => pve'[w'.vmid].state = "running"
                    /\ w'.pc \in {"start", "ready"} => WorkerRule' \in nat'
  BY <1>1 DEF ServedInv
<1>2. w.pc \in Creating => w.vmid \in Vmids
  BY DEF TypeInv, LocalsInv, Creating, HasVmid
<1>3. CASE w' = w /\ ~ClonePost /\ ~WaitForClone /\ ~Configure /\ ~AddNat /\ ~Start
  <2>1. ~CleanPve /\ ~CleanNat
    BY <1>3, LastMoves
  <2>2. pve'[w.vmid] = pve[w.vmid] \/ pve[w.vmid].state = "cloning"
    <3>1. CASE \E v \in Vmids : CloneDone(v)
      BY <1>2, <1>3, <3>1, OtherVm DEF OnlyChanges, Creating
    <3>2. ~DeleteStop /\ ~DeleteDestroy
      BY <1>1 DEF DeleteStep
    <3> QED BY <1>3, <2>1, <3>1, <3>2, VmsUntouched
  <2>3. nat' = nat
    BY <1>1, <1>3, <2>1, RuleMoves DEF DeleteStep
  <2> QED BY <1>3, <2>2, <2>3 DEF ServedInv, WorkerRule
<1>4. CASE WaitForClone
  <2>1. w'.pc = "config" /\ SameTask /\ pve' = pve
    BY <1>4, CreateMoves DEF WaitForClone
  <2>2. pve[w.vmid].state = "stopped"
    <3>1. Goto("cleanPve") => w'.pc = "cleanPve"
      BY Moves
    <3> QED BY <1>4, <2>1, <3>1 DEF WaitForClone, MyVm
  <2> QED BY <2>1, <2>2 DEF SameTask
<1>5. CASE Configure
  <2>1. w.pc = "config" /\ w'.pc = "nat" /\ SameTask
    BY <1>5, CreateMoves
  <2>2. pve'[w.vmid].state = pve[w.vmid].state
    BY <1>5, <2>1, WorkerVm
  <2> QED BY <2>1, <2>2 DEF ServedInv, SameTask
<1>6. CASE AddNat
  <2>1. w.pc = "nat" /\ w'.pc = "start" /\ SameTask /\ pve' = pve
    BY <1>6, CreateMoves DEF AddNat
  <2>2. nat' = nat \cup {WorkerRule}
    <3>1. Goto("cleanPve") => w'.pc = "cleanPve"
      BY Moves
    <3> QED BY <1>6, <2>1, <3>1 DEF AddNat, WorkerRule
  <2> QED BY <2>1, <2>2 DEF ServedInv, SameTask, WorkerRule
<1>7. CASE Start
  <2>1. w.pc = "start" /\ w'.pc = "ready" /\ SameTask /\ nat' = nat
    BY <1>7, CreateMoves DEF Start
  <2>2. pve'[w.vmid].state = "running"
    BY <1>7, <2>1, WorkerVm
  <2> QED BY <2>1, <2>2 DEF ServedInv, SameTask, WorkerRule
<1>8. ~ClonePost
  BY CreateMoves
<1> QED
  BY <1>3, <1>4, <1>5, <1>6, <1>7, <1>8, CreatingKinds DEF Creating

\* Only MarkReady shows a VM as ready.
LEMMA ReadyRows ==
  ASSUME TypeInv, [Next]_vars, ~MarkReady, NEW r \in rows', r.ready
  PROVE  r \in rows
<1>1. CASE ReserveRow
  <2>1. \A i : ~NewRow(i).ready
    BY DEF NewRow
  <2> QED BY <1>1, <2>1, ReserveMoves
<1>2. CASE SelectVmid
  BY <1>2 DEF SelectVmid, rowVars
<1> QED BY <1>1, <1>2, StepOnRows DEF RowsOnlyShrink

LEMMA ReadyStep ==
  ASSUME TypeInv, OwnInv, BuildInv, ServedInv, ReadyServed, [Next]_vars, Deletable = {}
  PROVE  ReadyServed'
<1>1. ~DeleteStep
  BY NobodyDeletes DEF ServedInv
<1>2. CASE MarkReady
  <2>1. pve' = pve /\ nat' = nat /\ w.pc = "ready"
    BY <1>2, MarkReadyMoves DEF MarkReady
  <2>2. CASE rows' = rows
    BY <2>1, <2>2 DEF ReadyServed
  <2>3. ASSUME NEW r \in rows, r.id = w.row, rows' = (rows \ {r}) \cup {ReadyVersion(r)}
        PROVE  ReadyServed'
    <3>1. r.vmid = w.vmid /\ r.ip = w.ip /\ r.job = w.job
      BY <2>1, <2>3 DEF OwnInv, WorkerOwn, Mine, Owning, HasVmid
    <3>2. /\ ReadyVersion(r).vmid = w.vmid /\ ReadyVersion(r).ip = w.ip
          /\ ReadyVersion(r).job = w.job
      BY <3>1, ReadyVersionKeeps DEF TypeInv, TypeOK
    <3>3. pve[w.vmid] = [state |-> "running", job |-> w.job, ip |-> w.ip]
      <4>1. pve[w.vmid] \in PveVm
        BY <2>1 DEF TypeInv, TypeOK, LocalsInv, HasVmid
      <4>2. pve[w.vmid].state = "running" /\ pve[w.vmid].job = w.job /\ pve[w.vmid].ip = w.ip
        BY <2>1 DEF ServedInv, BuildInv, Creating
      <4> QED BY <4>1, <4>2 DEF PveVm
    <3>4. WorkerRule \in nat
      BY <2>1 DEF ServedInv
    <3> QED BY <2>1, <2>3, <3>2, <3>3, <3>4 DEF ReadyServed, WorkerRule
  <2> QED BY <1>2, <2>2, <2>3, MarkReadyMoves
<1>3. ASSUME ~MarkReady, NEW r \in rows', r.ready
      PROVE  /\ pve'[r.vmid] = [state |-> "running", job |-> r.job, ip |-> r.ip]
             /\ <<r.vmid, r.ip>> \in nat'
  <2>1. /\ r \in rows /\ r.vmid \in Vmids
        /\ pve[r.vmid] = [state |-> "running", job |-> r.job, ip |-> r.ip]
        /\ <<r.vmid, r.ip>> \in nat
    BY <1>3, ReadyRows DEF ReadyServed, TypeInv, TypeOK, Row
  <2>2. w.pc \in Owning \ {"complete"} => r.vmid # w.vmid
    BY <1>3, <2>1 DEF OwnInv, WorkerOwn
  <2>3. pve'[r.vmid] = pve[r.vmid]
    <3>1. CASE ClonePost \/ Configure \/ Start \/ CleanPve
      <4>1. w.pc \in Owning \ {"complete"}
        BY <3>1, CreateMoves, LastMoves DEF Owning, HasVmid
      <4> QED BY <2>1, <2>2, <3>1, <4>1, WorkerVm DEF OnlyChanges
    <3>2. CASE \E v \in Vmids : CloneDone(v)
      <4>1. PICK v \in Vmids : CloneDone(v)
        BY <3>2
      <4>2. pve[r.vmid].state = "running"
        BY <2>1
      <4> QED BY <2>1, <4>1, <4>2, OtherVm DEF OnlyChanges
    <3>3. ~DeleteStop /\ ~DeleteDestroy
      BY <1>1 DEF DeleteStep
    <3> QED BY <3>1, <3>2, <3>3, VmsUntouched
  <2>4. <<r.vmid, r.ip>> \in nat'
    <3>1. ~DeleteNat
      BY <1>1 DEF DeleteStep
    <3>2. CASE CleanNat
      <4>1. w.pc \in Owning \ {"complete"}
        BY <3>2, LastMoves DEF Owning, HasVmid
      <4>2. <<r.vmid, r.ip>> # WorkerRule
        BY <2>2, <4>1 DEF WorkerRule
      <4> QED BY <2>1, <3>1, <4>2, RuleMoves
    <3> QED BY <2>1, <3>1, <3>2, RuleMoves
  <2> QED BY <2>1, <2>3, <2>4
<1> QED BY <1>2, <1>3 DEF ReadyServed

\* ReadyServed: create_vm sets ready only after the clone, the configuration,
\* the forwarding rules and the start; so as long as nobody deletes VMs, every
\* VM shown as ready runs under its VMID for its own job, with the recorded IP
\* and its ports forwarded to it, whatever call of create_vm or of its cleanup
\* failed, lost its answer or timed out before, and wherever the process died.
THEOREM ReadyIsServed == ASSUME Deletable = {}  PROVE Spec => []ReadyServed
<1>1. Init => ServedInv /\ ReadyServed
  <2>1. Init => w.pc = "idle" /\ d.pc = "idle" /\ rows = {}
    BY Templates DEF Init
  <2> QED BY <2>1 DEF ServedInv, ReadyServed
<1>2. TypeInv /\ OwnInv /\ BuildInv /\ ServedInv /\ ReadyServed /\ [Next]_vars
      => ServedInv' /\ ReadyServed'
  BY ServedStep, ReadyStep
<1> QED
  BY <1>1, <1>2, TypeInductive, OwnInductive, BuildInductive, PTL DEF Spec

-----------------------------------------------------------------------------
(* Nothing exists in Proxmox without its record.                            *)

\* Every call is answered truly, clones end, Proxmox deletes a stopped VM when
\* asked and COMMITs succeed; calls may still be refused, and clones may be
\* slow or fail.
Answered == {"lost", "stuck", "pve", "db"} \cap Faults = {}

\* The cleanup knows whether there is a VM to delete, never meets a running
\* one, and has deleted it before it turns to the rules and the record.
CleanInv ==
  /\ w.pc \in Creating => w.cloned
  /\ w.pc = "cleanPve" => /\ pve[w.vmid].state # "running"
                          /\ pve[w.vmid].state # "absent" => w.cloned
  /\ w.pc \in {"cleanNat", "cleanRow"} => pve[w.vmid].state = "absent"

\* The steps by which the worker comes to the cleanup, or goes on with it.
LEMMA CleaningKinds ==
  ASSUME TypeInv, [Next]_vars, w'.pc \in {"cleanPve", "cleanNat", "cleanRow"}
  PROVE  w' = w \/ ClonePost \/ WaitForClone \/ Configure \/ AddNat \/ Start \/ MarkReady
         \/ CleanPve \/ CleanNat
<1>1. CASE ~WorkerStep
  BY <1>1, LastMoves, OthersLeaveWorker, IdleTemplates DEF HasVmid
<1>2. CASE Claim \/ CheckLimit \/ SelectVmid \/ ReserveRow
  BY <1>2, FirstMoves, ReserveMoves
<1>3. CASE Complete \/ RecordFailure \/ CleanRow
  BY <1>3, LastMoves, IdleTemplates DEF HasVmid
<1> QED BY <1>1, <1>2, <1>3 DEF WorkerStep

LEMMA ClonedStep ==
  ASSUME TypeInv, CleanInv, [Next]_vars, w'.pc \in Creating
  PROVE  w'.cloned
<1>1. CASE w' = w
  BY <1>1 DEF CleanInv
<1>2. CASE ClonePost
  BY <1>2, CreateMoves DEF Creating
<1>3. CASE WaitForClone \/ Configure \/ AddNat \/ Start
  BY <1>3, CreateMoves DEF CleanInv, Creating, SameFlags
<1> QED BY <1>1, <1>2, <1>3, CreatingKinds

LEMMA CleanStep ==
  ASSUME TypeInv, OwnInv, BuildInv, CleanInv, [Next]_vars, Answered
  PROVE  CleanInv'
<1>0. ~Fault("lost") /\ ~Fault("stuck") /\ ~Fault("pve") /\ ~Fault("db")
  BY DEF Answered, Fault
<1> SUFFICES ASSUME w'.pc \in {"cleanPve", "cleanNat", "cleanRow"}
             PROVE  /\ w'.pc = "cleanPve" => /\ pve'[w'.vmid].state # "running"
                                             /\ pve'[w'.vmid].state # "absent" => w'.cloned
                    /\ w'.pc \in {"cleanNat", "cleanRow"} => pve'[w'.vmid].state = "absent"
  BY ClonedStep DEF CleanInv, Creating
<1>1. w.pc \in HasVmid => w.vmid \in Vmids
  BY DEF TypeInv, LocalsInv
<1>2. CASE w' = w /\ ~WorkerStep
  <2>1. OutsideChange(w.vmid)
    BY <1>1, <1>2, OutsideMoves DEF HasVmid
  <2>2. pve[w.vmid].state = "absent" => pve'[w.vmid].state = "absent"
    BY <1>1, <1>2, AbsentStays DEF WorkerStep, HasVmid
  <2> QED BY <1>2, <2>1, <2>2 DEF CleanInv, OutsideChange
<1>3. CASE ClonePost
  <2>1. w.pc = "clone" /\ w'.pc = "cleanPve" /\ SameTask
    BY <1>3, CreateMoves
  <2>2. pve' = pve /\ pve[w.vmid].state = "absent"
    BY <1>0, <1>3, <2>1, WorkerVm DEF OwnInv, VmidOwn
  <2> QED BY <2>1, <2>2 DEF SameTask
<1>4. CASE WaitForClone \/ Configure \/ AddNat \/ Start
  <2>1. /\ w.pc \in {"wait", "config", "nat", "start"} /\ w'.pc = "cleanPve"
        /\ SameTask /\ w'.cloned = w.cloned
    BY <1>4, CreateMoves DEF SameFlags
  <2>2. w.cloned /\ pve[w.vmid].state # "running"
    BY <2>1 DEF CleanInv, BuildInv, Creating
  <2>3. pve'[w.vmid].state = pve[w.vmid].state
    <3>1. CASE WaitForClone \/ AddNat
      BY <3>1 DEF WaitForClone, AddNat
    <3>2. CASE Configure
      BY <3>2, WorkerVm
    <3>3. CASE Start
      BY <1>0, <2>1, <3>3, WorkerVm
    <3> QED BY <1>4, <3>1, <3>2, <3>3
  <2> QED BY <2>1, <2>2, <2>3 DEF SameTask
<1>5. CASE MarkReady
  <2>1. w.pc = "ready" /\ w'.pc = "cleanPve" /\ SameTask /\ pve' = pve
    BY <1>5, MarkReadyMoves
  <2>2. ~OwnRow
    <3>1. Goto("complete") => w'.pc = "complete"
      BY Moves
    <3> QED BY <1>0, <1>5, <2>1, <3>1 DEF MarkReady, OwnRow
  <2>3. pve[w.vmid].state = "absent"
    BY <2>1, <2>2 DEF OwnInv, VmidOwn, Owning, HasVmid
  <2> QED BY <2>1, <2>3 DEF SameTask
<1>6. CASE CleanPve
  <2>1. w.pc = "cleanPve" /\ w'.pc = "cleanNat" /\ SameTask
    BY <1>6, LastMoves
  <2>2. pve'[w.vmid].state = "absent"
    <3>1. CASE pve'[w.vmid] = NoVm
      BY <3>1 DEF NoVm
    <3>2. CASE pve' = pve
      <4>1. ~(w.cloned /\ pve[w.vmid].state = "cloning")
        BY <1>0, <1>6 DEF CleanPve, MyVm
      <4>2. ~(w.cloned /\ pve[w.vmid].state = "stopped") \/ pve'[w.vmid].state = "absent"
        <5>1. CASE pve[w.vmid].state = "stopped" /\ pve'[w.vmid] = NoVm
          BY <5>1 DEF NoVm
        <5> QED BY <1>0, <1>6, <5>1, WorkerVm
      <4>3. pve[w.vmid].state \in PveState
        BY <1>1, <2>1 DEF TypeInv, TypeOK, PveVm, HasVmid
      <4>4. pve[w.vmid].state # "running" /\ (pve[w.vmid].state # "absent" => w.cloned)
        BY <2>1 DEF CleanInv
      <4> QED BY <3>2, <4>1, <4>2, <4>3, <4>4 DEF PveState
    <3> QED BY <1>6, <3>1, <3>2, WorkerVm
  <2> QED BY <2>1, <2>2 DEF SameTask
<1>7. CASE CleanNat
  <2>1. w.pc = "cleanNat" /\ w'.pc = "cleanRow" /\ SameTask /\ pve' = pve
    BY <1>7, LastMoves DEF CleanNat
  <2> QED BY <2>1 DEF CleanInv, SameTask
<1>8. WorkerStep /\ w' = w => FALSE
  <2>1. w' = w => ~Claim /\ ~CheckLimit /\ ~SelectVmid /\ ~ReserveRow
    BY FirstMoves, ReserveMoves
  <2>2. w' = w => ~ClonePost /\ ~WaitForClone /\ ~Configure /\ ~AddNat /\ ~Start /\ ~MarkReady
    BY CreateMoves
  <2>3. w' = w => ~CleanPve /\ ~CleanNat /\ ~CleanRow /\ ~Complete /\ ~RecordFailure
    BY LastMoves, IdleTemplates DEF HasVmid
  <2> QED BY <2>1, <2>2, <2>3 DEF WorkerStep
<1> QED BY <1>2, <1>3, <1>4, <1>5, <1>6, <1>7, <1>8, CleaningKinds

\* The record of a VM that exists is not removed.
LEMMA RecordsStay ==
  ASSUME TypeInv, OwnInv, CleanInv, [Next]_vars,
         NEW r \in rows, pve[r.vmid].state # "absent"
  PROVE  \E s \in rows' : s.vmid = r.vmid /\ s.ip = r.ip /\ s.job = r.job
<1>1. CASE ReserveRow
  BY <1>1, ReserveMoves
<1>2. CASE MarkReady
  <2>1. /\ ReadyVersion(r).vmid = r.vmid /\ ReadyVersion(r).ip = r.ip
        /\ ReadyVersion(r).job = r.job
    BY ReadyVersionKeeps DEF TypeInv, TypeOK
  <2> QED BY <1>2, <2>1, MarkReadyMoves
<1>3. CASE CleanRow
  <2>1. w.pc = "cleanRow"
    BY <1>3, LastMoves
  <2>2. r.id # w.row
    BY <2>1 DEF CleanInv, OwnInv, WorkerOwn, Mine, Owning, HasVmid
  <2> QED BY <1>3, <2>2 DEF CleanRow
<1>4. CASE DeleteCommit
  <2>1. d.pc = "commit"
    BY <1>4, DeleterMoves
  <2>2. r.id # d.id
    BY <2>1 DEF OwnInv, DeleterOwn
  <2> QED BY <1>4, <2>2 DEF DeleteCommit
<1>5. CASE UNCHANGED rowVars
  BY <1>5 DEF rowVars
<1> QED BY <1>1, <1>2, <1>3, <1>4, <1>5, RowsUntouched

LEMMA WithRecordStep ==
  ASSUME TypeInv, OwnInv, CleanInv, NoVmWithoutRecord, [Next]_vars
  PROVE  NoVmWithoutRecord'
<1> SUFFICES ASSUME NEW v \in Vmids, pve'[v].state # "absent"
             PROVE  \E r \in rows' : r.vmid = v /\ r.job = pve'[v].job
  BY DEF NoVmWithoutRecord
<1>1. CASE ClonePost /\ v = w.vmid /\ pve[v].state = "absent"
  <2>1. w.pc = "clone" /\ rows' = rows
    BY <1>1, CreateMoves DEF ClonePost, rowVars
  <2>2. PICK r \in rows : r.id = w.row
    BY <2>1 DEF OwnInv, VmidOwn, OwnRow
  <2>3. r.vmid = w.vmid /\ r.job = w.job
    BY <2>1, <2>2 DEF OwnInv, WorkerOwn, Mine, Owning, HasVmid
  <2>4. pve'[w.vmid].job = w.job
    BY <1>1, WorkerVm
  <2> QED BY <1>1, <2>1, <2>3, <2>4
<1>2. CASE ~(ClonePost /\ v = w.vmid /\ pve[v].state = "absent")
  <2>1. pve[v].state # "absent" /\ pve'[v].job = pve[v].job
    <3>1. NoVm.state = "absent"
      BY DEF NoVm
    <3>2. CASE ClonePost
      BY <1>2, <3>2, WorkerVm DEF OnlyChanges
    <3>3. CASE Configure \/ Start \/ CleanPve
      BY <3>1, <3>3, WorkerVm DEF OnlyChanges, SameOwner
    <3>4. CASE DeleteStop \/ DeleteDestroy
      BY <3>1, <3>4, OtherVm DEF OnlyChanges, SameOwner
    <3>5. CASE \E x \in Vmids : CloneDone(x)
      BY <3>1, <3>5, OtherVm DEF OnlyChanges, SameOwner
    <3> QED BY <3>2, <3>3, <3>4, <3>5, VmsUntouched
  <2>2. PICK r \in rows : r.vmid = v /\ r.job = pve[v].job
    BY <2>1 DEF NoVmWithoutRecord
  <2>3. \E s \in rows' : s.vmid = r.vmid /\ s.ip = r.ip /\ s.job = r.job
    BY <2>1, <2>2, RecordsStay
  <2> QED BY <2>1, <2>2, <2>3
<1> QED BY <1>1, <1>2

LEMMA CleanInductive ==
  ASSUME Answered  PROVE Spec => [](CleanInv /\ NoVmWithoutRecord)
<1>1. Init => CleanInv /\ NoVmWithoutRecord
  <2>1. Init => w.pc = "idle" /\ \A v \in Vmids : pve[v].state = "absent"
    BY Templates DEF Init, NoVm
  <2> QED BY <2>1 DEF CleanInv, NoVmWithoutRecord, Creating
<1>2. TypeInv /\ OwnInv /\ BuildInv /\ CleanInv /\ NoVmWithoutRecord /\ [Next]_vars
      => CleanInv' /\ NoVmWithoutRecord'
  BY CleanStep, WithRecordStep
<1> QED
  BY <1>1, <1>2, TypeInductive, OwnInductive, BuildInductive, PTL DEF Spec

\* NoVmWithoutRecord: create_vm commits the record before it clones, and both
\* its cleanup and delete_vm remove the VM before the record; so whatever step
\* of a creation is refused or fails, whatever is deleted meanwhile and
\* wherever the process dies, each VM in Proxmox has the record of its job.
THEOREM NoOrphanVm == ASSUME Answered  PROVE Spec => []NoVmWithoutRecord
BY CleanInductive, PTL

\* A running VM uses the IP of its record.
RunningInv ==
  \A v \in Vmids : pve[v].state = "running" =>
    \E r \in rows : r.vmid = v /\ r.ip = pve[v].ip

LEMMA RunningStep ==
  ASSUME TypeInv, OwnInv, BuildInv, CleanInv, RunningInv, [Next]_vars
  PROVE  RunningInv'
<1> SUFFICES ASSUME NEW v \in Vmids, pve'[v].state = "running"
             PROVE  \E r \in rows' : r.vmid = v /\ r.ip = pve'[v].ip
  BY DEF RunningInv
<1>1. CASE Start /\ v = w.vmid /\ pve[v].state # "running"
  <2>1. w.pc = "start" /\ rows' = rows
    BY <1>1, CreateMoves DEF Start, rowVars
  <2>2. pve[v].state = "stopped" /\ pve'[v].ip = pve[v].ip
    BY <1>1, WorkerVm DEF SameOwner
  <2>3. OwnRow /\ pve[v].ip = w.ip
    BY <1>1, <2>1, <2>2 DEF OwnInv, VmidOwn, BuildInv, Creating, Owning, HasVmid
  <2>4. PICK r \in rows : r.id = w.row
    BY <2>3 DEF OwnRow
  <2>5. r.vmid = w.vmid /\ r.ip = w.ip
    BY <2>1, <2>4 DEF OwnInv, WorkerOwn, Mine, Owning, HasVmid
  <2> QED BY <1>1, <2>1, <2>2, <2>3, <2>5
<1>2. CASE ~(Start /\ v = w.vmid /\ pve[v].state # "running")
  <2>1. pve[v].state = "running" /\ pve'[v].ip = pve[v].ip
    <3>1. NoVm.state = "absent"
      BY DEF NoVm
    <3>2. CASE ClonePost \/ CleanPve
      BY <3>1, <3>2, WorkerVm DEF OnlyChanges
    <3>3. CASE Configure
      <4>1. w.pc = "config"
        BY <3>3, CreateMoves
      <4>2. pve[w.vmid].state # "running"
        BY <4>1 DEF BuildInv
      <4> QED BY <3>3, <4>2, WorkerVm DEF OnlyChanges
    <3>4. CASE Start
      BY <1>2, <3>4, WorkerVm DEF OnlyChanges
    <3>5. CASE DeleteStop \/ DeleteDestroy
      BY <3>1, <3>5, OtherVm DEF OnlyChanges
    <3>6. CASE \E x \in Vmids : CloneDone(x)
      BY <3>1, <3>6, OtherVm DEF OnlyChanges
    <3> QED BY <3>2, <3>3, <3>4, <3>5, <3>6, VmsUntouched
  <2>2. PICK r \in rows : r.vmid = v /\ r.ip = pve[v].ip
    BY <2>1 DEF RunningInv
  <2>3. \E s \in rows' : s.vmid = r.vmid /\ s.ip = r.ip /\ s.job = r.job
    BY <2>1, <2>2, RecordsStay
  <2> QED BY <2>1, <2>2, <2>3
<1> QED BY <1>1, <1>2

\* RunningIpsUnique: create_vm configures the VM with the IP of its record
\* before it starts it, records never share an IP, and a VM is destroyed before
\* its IP is given up; so no two running VMs use the same internal IP, under
\* the same conditions.
THEOREM NoRunningTwins == ASSUME Answered  PROVE Spec => []RunningIpsUnique
<1>1. Init => RunningInv
  BY DEF Init, RunningInv, NoVm
<1>2. TypeInv /\ OwnInv /\ BuildInv /\ CleanInv /\ RunningInv /\ [Next]_vars => RunningInv'
  BY RunningStep
<1>3. UniqueInv /\ RunningInv => RunningIpsUnique
  BY DEF UniqueInv, AddressesUnique, RunningInv, RunningIpsUnique
<1> QED
  BY <1>1, <1>2, <1>3, TypeInductive, UniqueInductive, OwnInductive, BuildInductive,
     CleanInductive, PTL DEF Spec

-----------------------------------------------------------------------------
(* Forwarding rules do not outlive their record.                            *)

PairOfRow(n) == \E r \in rows : n = <<r.vmid, r.ip>>
EarlyPc == {"idle", "check", "select", "reserve", "clone", "wait", "config", "nat"}

\* create_vm remembers the rules it has added, its cleanup has removed them
\* before it removes the record, and a deletion that has removed the rules is
\* overtaken only by a creation that is bound to fail.
NatInv ==
  /\ w.pc \in Owning /\ WorkerRule \in nat => w.natAdded
  /\ w.pc \in EarlyPc => ~w.natAdded
  /\ w.pc = "cleanRow" => WorkerRule \notin nat
  /\ w.pc \in {"ready", "complete", "fail"} /\ w.natAdded /\ WorkerRule \in nat =>
       PairOfRow(WorkerRule)
  /\ d.pc = "commit" /\ DeleterRule \in nat =>
       \A r \in rows : r.id = d.id =>
         w.row = d.id /\ w.pc \in {"start", "cleanPve", "cleanNat"}

\* Where the records after a step come from, and which records it removes.
LEMMA RowsFrom ==
  ASSUME TypeInv, [Next]_vars
  PROVE  /\ \A r \in rows' :
              \/ \E t \in rows : t.id = r.id /\ t.vmid = r.vmid /\ t.ip = r.ip /\ t.job = r.job
              \/ ReserveRow /\ r.id = nextId /\ r.job = w.job
         /\ \A t \in rows :
              \/ \E r \in rows' : r.id = t.id /\ r.vmid = t.vmid /\ r.ip = t.ip /\ r.job = t.job
              \/ CleanRow /\ t.id = w.row
              \/ DeleteCommit /\ t.id = d.id
<1>1. CASE ReserveRow
  <2>1. \A i : NewRow(i).id = nextId /\ NewRow(i).job = w.job
    BY DEF NewRow
  <2> QED BY <1>1, <2>1, ReserveMoves
<1>2. CASE MarkReady
  <2>1. \A r \in rows : /\ ReadyVersion(r).id = r.id /\ ReadyVersion(r).vmid = r.vmid
                        /\ ReadyVersion(r).ip = r.ip /\ ReadyVersion(r).job = r.job
    BY ReadyVersionKeeps DEF TypeInv, TypeOK
  <2>2. CASE rows' = rows
    BY <2>2
  <2>3. ASSUME NEW x \in rows, rows' = (rows \ {x}) \cup {ReadyVersion(x)}
        PROVE  /\ \A r \in rows' : \E t \in rows :
                    t.id = r.id /\ t.vmid = r.vmid /\ t.ip = r.ip /\ t.job = r.job
               /\ \A t \in rows : \E r \in rows' :
                    r.id = t.id /\ r.vmid = t.vmid /\ r.ip = t.ip /\ r.job = t.job
    BY <2>1, <2>3
  <2> QED BY <1>2, <2>2, <2>3, MarkReadyMoves
<1>3. CASE CleanRow
  BY <1>3 DEF CleanRow
<1>4. CASE DeleteCommit
  BY <1>4 DEF DeleteCommit
<1>5. CASE UNCHANGED rowVars
  BY <1>5 DEF rowVars
<1> QED BY <1>1, <1>2, <1>3, <1>4, <1>5, RowsUntouched

\* How the worker comes to each group of program counters.
LEMMA OwningKinds ==
  ASSUME TypeInv, [Next]_vars, w'.pc \in Owning
  PROVE  \/ ReserveRow \/ AddNat
         \/ w.pc \in Owning /\ SameTask /\ w'.natAdded = w.natAdded
<1>1. CASE ~WorkerStep
  BY <1>1, LastMoves, OthersLeaveWorker, IdleTemplates DEF Owning, HasVmid, SameTask
<1>2. CASE Claim \/ CheckLimit \/ SelectVmid
  BY <1>2, FirstMoves DEF Owning, HasVmid
<1>3. CASE ClonePost \/ WaitForClone \/ Configure \/ Start \/ MarkReady
  BY <1>3, CreateMoves DEF Owning, HasVmid, SameFlags
<1>4. CASE CleanPve \/ CleanNat \/ CleanRow
  BY <1>4, LastMoves DEF Owning, HasVmid, SameFlags
<1>5. CASE Complete \/ RecordFailure
  BY <1>5, LastMoves, IdleTemplates DEF Owning, HasVmid
<1> QED BY <1>1, <1>2, <1>3, <1>4, <1>5 DEF WorkerStep

LEMMA EarlyKinds ==
  ASSUME TypeInv, [Next]_vars, w'.pc \in EarlyPc
  PROVE  ~w'.natAdded \/ (w.pc \in EarlyPc /\ w'.natAdded = w.natAdded)
<1>0. ~IdleWorker.natAdded
  BY DEF IdleWorker
<1>1. CASE ~WorkerStep
  BY <1>0, <1>1, LastMoves, OthersLeaveWorker
<1>2. CASE Claim \/ CheckLimit \/ SelectVmid \/ ReserveRow
  BY <1>2, FirstMoves, ReserveMoves DEF EarlyPc, SameFlags
<1>3. CASE ClonePost \/ WaitForClone \/ Configure
  BY <1>3, CreateMoves DEF EarlyPc, SameFlags
<1>4. CASE AddNat \/ Start \/ MarkReady
  BY <1>4, CreateMoves DEF EarlyPc
<1>5. CASE CleanPve \/ CleanNat \/ CleanRow
  BY <1>5, LastMoves DEF EarlyPc
<1>6. CASE Complete \/ RecordFailure
  BY <1>0, <1>6, LastMoves DEF EarlyPc
<1> QED BY <1>1, <1>2, <1>3, <1>4, <1>5, <1>6 DEF WorkerStep

LEMMA LateKinds ==
  ASSUME TypeInv, [Next]_vars, ~Crash, w'.pc \in {"ready", "complete", "fail"}
  PROVE  \/ w' = w
         \/ w.pc \in EarlyPc /\ (~w'.natAdded \/ w'.natAdded = w.natAdded)
         \/ Start /\ w'.pc = "ready" /\ SameTask
         \/ (MarkReady \/ Complete) /\ w.pc \in {"ready", "complete"} /\ SameTask
            /\ w'.natAdded = w.natAdded
         \/ CleanRow /\ w.pc = "cleanRow" /\ SameTask
<1>1. CASE ~WorkerStep
  BY <1>1, OthersLeaveWorker
<1>2. CASE Claim \/ CheckLimit \/ SelectVmid \/ ReserveRow
  BY <1>2, FirstMoves, ReserveMoves DEF EarlyPc, SameFlags
<1>3. CASE ClonePost \/ WaitForClone \/ Configure \/ AddNat
  BY <1>3, CreateMoves
<1>4. CASE Start \/ MarkReady
  BY <1>4, CreateMoves DEF SameFlags
<1>5. CASE CleanPve \/ CleanNat \/ CleanRow
  BY <1>5, LastMoves
<1>6. CASE Complete \/ RecordFailure
  BY <1>6, LastMoves, IdleTemplates DEF SameFlags, IdleWorker
<1> QED BY <1>1, <1>2, <1>3, <1>4, <1>5, <1>6 DEF WorkerStep

LEMMA NoCrash ==
  ASSUME TypeInv, MaxCrashes = 0  PROVE ~Crash
BY DEF Crash, TypeInv, TypeOK

\* With a gateway that answers, AddNat adds and CleanNat and DeleteNat remove.
LEMMA GatewayAnswers ==
  ASSUME TypeInv, ~Fault("gateway")
  PROVE  /\ AddNat => w.pc = "nat" /\ w'.pc = "start" /\ w'.natAdded /\ SameTask
         /\ CleanNat => nat' = IF w.natAdded THEN nat \ {WorkerRule} ELSE nat
         /\ DeleteNat => nat' = nat \ {DeleterRule}
<1>1. AddNat => w.pc = "nat" /\ w'.pc = "start" /\ w'.natAdded /\ SameTask
  <2>1. w' = [w EXCEPT !.pc = "start", !.natAdded = TRUE] => w'.pc = "start" /\ w'.natAdded
    BY DEF TypeInv, TypeOK, Worker
  <2> QED BY <2>1, CreateMoves DEF AddNat
<1>2. CleanNat => nat' = IF w.natAdded THEN nat \ {WorkerRule} ELSE nat
  BY DEF CleanNat, WorkerRule
<1>3. DeleteNat => nat' = nat \ {DeleterRule}
  BY DEF DeleteNat, DeleterRule
<1> QED BY <1>1, <1>2, <1>3

LEMMA OwnPair ==
  ASSUME TypeInv, OwnInv, w.pc \in Owning, NEW r \in rows,
         r.id = w.row \/ r.vmid = w.vmid \/ r.ip = w.ip
  PROVE  r.id = w.row /\ <<r.vmid, r.ip>> = WorkerRule
BY DEF OwnInv, WorkerOwn, Mine, WorkerRule

\* The rules of the record that the worker is about to reserve are not there.
LEMMA FreshRule ==
  ASSUME TypeInv, UniqueInv, NatInv, NatBacked, ReserveRow, NEW i
  PROVE  <<w.vmid, i>> \notin nat
<1>1. w.pc = "reserve"
  BY ReserveMoves
<1>2. ~w.natAdded /\ \A r \in rows : r.vmid # w.vmid
  BY <1>1 DEF NatInv, EarlyPc, UniqueInv, RowsInv
<1> QED BY <1>2 DEF NatBacked

LEMMA BackedStep ==
  ASSUME TypeInv, UniqueInv, OwnInv, NatInv, NatBacked, [Next]_vars,
         ~Crash, ~Fault("gateway")
  PROVE  NatBacked'
<1> SUFFICES ASSUME NEW n \in nat'
             PROVE  \/ \E r \in rows' : n = <<r.vmid, r.ip>>
                    \/ w'.natAdded /\ n = <<w'.vmid, w'.ip>>
  BY DEF NatBacked
<1>1. CASE AddNat
  <2>1. w'.natAdded /\ SameTask /\ rows' = rows /\ nat' = nat \cup {WorkerRule}
    <3>1. w.pc = "nat" /\ w'.pc = "start" /\ w'.natAdded /\ SameTask
      BY <1>1, GatewayAnswers
    <3>2. Goto("cleanPve") => w'.pc = "cleanPve"
      BY Moves
    <3> QED BY <1>1, <3>1, <3>2 DEF AddNat, WorkerRule, rowVars
  <2>2. ~w.natAdded
    BY <1>1, GatewayAnswers DEF NatInv, EarlyPc
  <2> QED BY <2>1, <2>2 DEF NatBacked, SameTask, WorkerRule
<1>2. CASE ~AddNat /\ w.natAdded /\ n = WorkerRule
  <2>1. n \in nat
    BY <1>2, RuleMoves
  <2>2. w.pc \notin EarlyPc
    BY <1>2 DEF NatInv
  <2>3. CASE SameTask /\ w'.natAdded
    BY <1>2, <2>3 DEF SameTask, WorkerRule
  <2>4. CASE w.pc \in {"complete", "fail"} /\ ~CleanRow /\ ~DeleteCommit
    <3>1. PICK r \in rows : n = <<r.vmid, r.ip>>
      BY <1>2, <2>1, <2>4 DEF NatInv, PairOfRow
    <3>2. \E s \in rows' : s.id = r.id /\ s.vmid = r.vmid /\ s.ip = r.ip /\ s.job = r.job
      BY <2>4, RowsFrom
    <3> QED BY <3>1, <3>2
  <2>5. CASE ~WorkerStep
    BY <1>2, <2>3, <2>5, OthersLeaveWorker DEF SameTask
  <2>6. CASE Claim \/ CheckLimit \/ SelectVmid \/ ReserveRow
    BY <2>2, <2>6, FirstMoves, ReserveMoves DEF EarlyPc
  <2>7. CASE ClonePost \/ WaitForClone \/ Configure \/ Start \/ MarkReady
    BY <1>2, <2>2, <2>3, <2>7, CreateMoves DEF SameFlags
  <2>8. CASE CleanPve \/ CleanNat \/ CleanRow
    BY <1>2, <2>3, <2>8, LastMoves DEF SameFlags
  <2>9. CASE Complete \/ RecordFailure
    <3>1. ~CleanRow /\ ~DeleteCommit /\ w.pc \in {"complete", "fail"}
      BY <2>9, LastMoves, DeleterMoves, Templates
    <3> QED BY <2>4, <3>1
  <2> QED BY <1>2, <2>5, <2>6, <2>7, <2>8, <2>9 DEF WorkerStep
<1>3. CASE ~AddNat /\ ~(w.natAdded /\ n = WorkerRule)
  <2>1. n \in nat
    BY <1>3, RuleMoves
  <2>2. PICK r \in rows : n = <<r.vmid, r.ip>>
    BY <1>3, <2>1 DEF NatBacked, WorkerRule
  <2>3. CASE \E s \in rows' : s.id = r.id /\ s.vmid = r.vmid /\ s.ip = r.ip /\ s.job = r.job
    BY <2>2, <2>3
  <2>4. CASE CleanRow /\ r.id = w.row
    <3>1. w.pc = "cleanRow"
      BY <2>4, LastMoves
    <3>2. n = WorkerRule
      BY <2>2, <2>4, <3>1, OwnPair DEF Owning, HasVmid
    <3> QED BY <2>1, <3>1, <3>2 DEF NatInv
  <2>5. CASE DeleteCommit /\ r.id = d.id
    <3>1. d.pc = "commit"
      BY <2>5, DeleterMoves
    <3>2. n = DeleterRule
      BY <2>2, <2>5, <3>1 DEF OwnInv, DeleterOwn, DeleterRule
    <3>3. w.row = d.id /\ w.pc \in {"start", "cleanPve", "cleanNat"}
      BY <2>1, <2>5, <3>1, <3>2 DEF NatInv
    <3>4. n = WorkerRule
      BY <2>2, <2>5, <3>3, OwnPair DEF Owning, HasVmid
    <3>5. w.natAdded
      BY <2>1, <3>3, <3>4 DEF NatInv, Owning, HasVmid
    <3> QED BY <1>3, <3>4, <3>5
  <2> QED BY <2>3, <2>4, <2>5, RowsFrom
<1> QED BY <1>1, <1>2, <1>3

LEMMA KnownRules ==
  ASSUME TypeInv, UniqueInv, NatInv, NatBacked, [Next]_vars, ~Fault("gateway")
  PROVE  /\ w'.pc \in Owning /\ WorkerRule' \in nat' => w'.natAdded
         /\ w'.pc \in EarlyPc => ~w'.natAdded
         /\ w'.pc = "cleanRow" => WorkerRule' \notin nat'
<1>1. ASSUME w'.pc \in Owning, WorkerRule' \in nat'
      PROVE  w'.natAdded
  <2>1. CASE ReserveRow
    <3>1. WorkerRule' = <<w.vmid, w'.ip>> /\ nat' = nat
      BY <2>1, ReserveMoves DEF WorkerRule, ReserveRow
    <3> QED BY <1>1, <2>1, <3>1, FreshRule
  <2>2. CASE AddNat
    BY <2>2, GatewayAnswers
  <2>3. CASE ~AddNat /\ w.pc \in Owning /\ SameTask /\ w'.natAdded = w.natAdded
    <3>1. WorkerRule' = WorkerRule
      BY <2>3 DEF SameTask, WorkerRule
    <3> QED BY <1>1, <2>3, <3>1, RuleMoves DEF NatInv
  <2> QED BY <1>1, <2>1, <2>2, <2>3, OwningKinds
<1>2. w'.pc \in EarlyPc => ~w'.natAdded
  BY EarlyKinds DEF NatInv
<1>3. ASSUME w'.pc = "cleanRow"
      PROVE  WorkerRule' \notin nat'
  <2>1. CASE CleanNat
    <3>1. w.pc = "cleanNat" /\ WorkerRule' = WorkerRule
      BY <2>1, LastMoves DEF SameTask, WorkerRule
    <3>2. nat' = IF w.natAdded THEN nat \ {WorkerRule} ELSE nat
      BY <2>1, GatewayAnswers
    <3> QED BY <3>1, <3>2 DEF NatInv, Owning, HasVmid
  <2>2. CASE ~CleanNat
    <3>1. ~ClonePost /\ ~WaitForClone /\ ~Configure /\ ~AddNat /\ ~Start /\ ~MarkReady
          /\ ~CleanPve
      BY <1>3, CreateMoves, LastMoves
    <3>2. w' = w
      BY <1>3, <2>2, <3>1, CleaningKinds
    <3>3. WorkerRule' = WorkerRule
      BY <3>2 DEF WorkerRule
    <3> QED BY <1>3, <2>2, <3>1, <3>2, <3>3, RuleMoves DEF NatInv
  <2> QED BY <2>1, <2>2
<1> QED BY <1>1, <1>2, <1>3

\* From the start of the VM on, rules still in place are those of a record.
LEMMA LateRules ==
  ASSUME TypeInv, OwnInv, NatInv, [Next]_vars, ~Crash, ~Fault("gateway"),
         w'.pc \in {"ready", "complete", "fail"}, w'.natAdded, WorkerRule' \in nat'
  PROVE  PairOfRow(WorkerRule)'
<1>0. ~AddNat
  BY CreateMoves
<1>1. CASE w.pc \in EarlyPc /\ (~w'.natAdded \/ w'.natAdded = w.natAdded)
  BY <1>1 DEF NatInv
<1>2. CASE Start /\ w'.pc = "ready" /\ SameTask
  <2>1. w.pc = "start" /\ rows' = rows
    BY <1>2, CreateMoves DEF Start, rowVars
  <2>2. pve[w.vmid].state = "stopped"
    BY <1>2, WorkerVm
  <2>3. OwnRow
    BY <2>1, <2>2 DEF OwnInv, VmidOwn, Owning, HasVmid
  <2>4. PICK r \in rows : r.id = w.row
    BY <2>3 DEF OwnRow
  <2>5. <<r.vmid, r.ip>> = WorkerRule
    BY <2>1, <2>4, OwnPair DEF Owning, HasVmid
  <2> QED BY <1>2, <2>1, <2>5 DEF PairOfRow, SameTask, WorkerRule
<1>3. CASE CleanRow /\ w.pc = "cleanRow" /\ SameTask
  <2>1. WorkerRule' = WorkerRule /\ nat' = nat
    BY <1>3 DEF SameTask, WorkerRule, CleanRow
  <2> QED BY <1>3, <2>1 DEF NatInv
<1>4. CASE /\ w.pc \in {"ready", "complete", "fail"} /\ SameTask
           /\ w'.natAdded = w.natAdded /\ ~CleanRow
  <2>1. WorkerRule' = WorkerRule
    BY <1>4 DEF SameTask, WorkerRule
  <2>2. WorkerRule \in nat
    BY <1>0, <2>1, RuleMoves
  <2>3. PICK r \in rows : WorkerRule = <<r.vmid, r.ip>>
    BY <1>4, <2>2 DEF NatInv, PairOfRow
  <2>4. CASE DeleteCommit /\ r.id = d.id
    <3>1. d.pc = "commit"
      BY <2>4, DeleterMoves
    <3>2. DeleterRule = WorkerRule
      BY <2>3, <2>4, <3>1 DEF OwnInv, DeleterOwn, DeleterRule
    <3> QED BY <1>4, <2>2, <2>4, <3>1, <3>2 DEF NatInv
  <2>5. CASE \E s \in rows' : s.id = r.id /\ s.vmid = r.vmid /\ s.ip = r.ip /\ s.job = r.job
    BY <2>1, <2>3, <2>5 DEF PairOfRow
  <2> QED BY <1>4, <2>4, <2>5, RowsFrom
<1>5. CASE w' = w
  <2>1. ~CleanRow
    BY <1>5, LastMoves
  <2> QED BY <1>4, <1>5, <2>1 DEF SameTask
<1>6. CASE (MarkReady \/ Complete) /\ w.pc \in {"ready", "complete"} /\ SameTask
           /\ w'.natAdded = w.natAdded
  <2>1. ~CleanRow
    BY <1>6, LastMoves
  <2> QED BY <1>4, <1>6, <2>1
<1> QED BY <1>1, <1>2, <1>3, <1>5, <1>6, LateKinds

\* A rule that reappears behind a deletion belongs to a creation that will
\* not find its VM and cleans up.
LEMMA OvertakenRules ==
  ASSUME TypeInv, OwnInv, NatInv, [Next]_vars, ~Crash, ~Fault("gateway"),
         d'.pc = "commit", DeleterRule' \in nat', NEW r \in rows', r.id = d'.id
  PROVE  w'.row = d'.id /\ w'.pc \in {"start", "cleanPve", "cleanNat"}
<1>1. CASE DeleteNat
  <2>1. DeleterRule' = DeleterRule
    BY <1>1, DeleterMoves DEF DeleterRule
  <2>2. nat' = nat \ {DeleterRule}
    BY <1>1, GatewayAnswers
  <2> QED BY <2>1, <2>2
<1>2. CASE ~DeleteNat
  <2>1. d' = d
    <3>1. ~DeleteStop /\ ~DeleteDestroy /\ ~DeleteCommit
      BY DeleterMoves, IdleTemplates
    <3>2. \A t \in rows : ~DeleteBegin(t)
      BY DEF DeleteBegin
    <3> QED BY <1>2, <3>1, <3>2, DeleterIdle DEF DeleteStep
  <2>2. PICK t \in rows : t.id = r.id
    <3>1. d.id < nextId /\ d.id \in Nat /\ nextId \in Nat
      BY <2>1 DEF OwnInv, DeleterOwn, TypeInv, TypeOK, Deleter
    <3> QED BY <2>1, <3>1, RowsFrom
  <2>3. DeleterRule' = DeleterRule /\ <<t.vmid, t.ip>> = DeleterRule /\ t.vmid = d.vmid
        /\ pve[d.vmid].state = "absent"
    BY <2>1, <2>2 DEF OwnInv, DeleterOwn, DeleterRule
  <2>4. CASE AddNat
    <3>1. w.pc = "nat" /\ w'.pc = "start" /\ SameTask
      BY <2>4, GatewayAnswers
    <3>2. DeleterRule = WorkerRule \/ DeleterRule \in nat
      BY <2>3, <2>4, RuleMoves
    <3>3. DeleterRule = WorkerRule
      BY <2>1, <2>2, <3>1, <3>2 DEF NatInv
    <3>4. t.vmid = w.vmid
      BY <2>3, <3>3 DEF DeleterRule, WorkerRule
    <3>5. t.id = w.row
      BY <3>1, <3>4, OwnPair DEF Owning, HasVmid
    <3> QED BY <2>1, <2>2, <3>1, <3>5 DEF SameTask
  <2>5. CASE ~AddNat
    <3>1. DeleterRule \in nat
      BY <2>3, <2>5, RuleMoves
    <3>2. w.row = d.id /\ w.pc \in {"start", "cleanPve", "cleanNat"}
      BY <2>1, <2>2, <3>1 DEF NatInv
    <3>3. t.id = w.row /\ <<t.vmid, t.ip>> = WorkerRule
      BY <2>1, <2>2, <3>2, OwnPair DEF Owning, HasVmid
    <3>4. CASE ~WorkerStep
      BY <2>1, <3>2, <3>4, OthersLeaveWorker
    <3>5. CASE Start
      <4>1. pve[w.vmid].state = "absent"
        BY <2>3, <3>3 DEF WorkerRule
      <4>2. w'.pc = "cleanPve" /\ SameTask
        BY <3>5, <4>1, CreateMoves, WorkerVm
      <4> QED BY <2>1, <3>2, <4>2 DEF SameTask
    <3>6. CASE CleanPve
      BY <2>1, <3>2, <3>6, LastMoves DEF SameTask
    <3>7. CASE CleanNat
      <4>1. nat' = IF w.natAdded THEN nat \ {WorkerRule} ELSE nat
        BY <3>7, GatewayAnswers
      <4>2. w.natAdded
        BY <2>3, <3>1, <3>2, <3>3 DEF NatInv, Owning, HasVmid
      <4> QED BY <2>3, <3>3, <4>1, <4>2
    <3>8. ~Claim /\ ~CheckLimit /\ ~SelectVmid /\ ~ReserveRow
      BY <3>2, FirstMoves, ReserveMoves
    <3>9. ~ClonePost /\ ~WaitForClone /\ ~Configure /\ ~MarkReady
      BY <3>2, CreateMoves
    <3>10. ~CleanRow /\ ~Complete /\ ~RecordFailure
      BY <3>2, LastMoves
    <3> QED BY <2>5, <3>4, <3>5, <3>6, <3>7, <3>8, <3>9, <3>10 DEF WorkerStep
  <2> QED BY <2>4, <2>5
<1> QED BY <1>1, <1>2

\* NatBacked: the rules are added after the record is committed and removed
\* before it is deleted, by the cleanup as by delete_vm; so while the gateway
\* answers and the process lives, each rule belongs to a record or to a
\* creation that is still to remove it, also when a deletion and a creation
\* work on one VM and whatever else fails.
THEOREM NoStrayRule ==
  ASSUME "gateway" \notin Faults, MaxCrashes = 0
  PROVE  Spec => []NatBacked
<1>1. Init => NatInv /\ NatBacked
  <2>1. Init => w.pc = "idle" /\ d.pc = "idle" /\ ~w.natAdded /\ nat = {}
    BY DEF Init, IdleWorker, IdleDeleter
  <2> QED BY <2>1 DEF NatInv, NatBacked, Owning, HasVmid
<1>2. ASSUME TypeInv, UniqueInv, OwnInv, NatInv, NatBacked, [Next]_vars
      PROVE  NatInv' /\ NatBacked'
  <2>1. ~Fault("gateway") /\ ~Crash
    BY <1>2, NoCrash DEF Fault
  <2>2. NatBacked'
    BY <1>2, <2>1, BackedStep
  <2>3. /\ w'.pc \in Owning /\ WorkerRule' \in nat' => w'.natAdded
        /\ w'.pc \in EarlyPc => ~w'.natAdded
        /\ w'.pc = "cleanRow" => WorkerRule' \notin nat'
    BY <1>2, <2>1, KnownRules
  <2>4. w'.pc \in {"ready", "complete", "fail"} /\ w'.natAdded /\ WorkerRule' \in nat' =>
          PairOfRow(WorkerRule)'
    BY <1>2, <2>1, LateRules
  <2>5. d'.pc = "commit" /\ DeleterRule' \in nat' =>
          \A r \in rows' : r.id = d'.id =>
            w'.row = d'.id /\ w'.pc \in {"start", "cleanPve", "cleanNat"}
    BY <1>2, <2>1, OvertakenRules
  <2> QED BY <2>2, <2>3, <2>4, <2>5 DEF NatInv
<1> QED
  BY <1>1, <1>2, TypeInductive, UniqueInductive, OwnInductive, PTL DEF Spec

-----------------------------------------------------------------------------
(* A failed creation leaves nothing behind.                                 *)

\* The records of a job, and its status, as its one attempt goes on.
RowJobsInv ==
  /\ up
  /\ \A r \in rows : status[r.job] \in {"running", "completed"}
  /\ w.pc # "idle" => status[w.job] = "running"
  /\ w.pc \in {"check", "select", "reserve", "fail"} => \A r \in rows : r.job # w.job
  /\ w.pc \in Owning => \A r \in rows : r.job = w.job => r.id = w.row

\* Without crashes and failed COMMITs a status changes in these ways only.
StatusMove(j) ==
  \/ status'[j] = status[j]
  \/ status[j] = "none" /\ status'[j] = "queued"
  \/ Claim /\ status[j] = "queued" /\ status'[j] \in {"running", "completed"}
  \/ Complete /\ status'[j] = "completed"
  \/ RecordFailure /\ j = w.job /\ status'[j] = "failed"

LEMMA StatusMoves ==
  ASSUME TypeInv, [Next]_vars, ~Fault("db"), ~Crash, ~Restart, NEW j \in Jobs
  PROVE  StatusMove(j)
<1> USE DEF StatusMove, TypeInv, TypeOK
<1>1. CASE JobsUntouched
  BY <1>1 DEF JobsUntouched, jobVars
<1>2. CASE \E k \in Jobs : Enqueue(k)
  BY <1>2 DEF Enqueue
<1>3. CASE Claim
  <2>1. status' = [status EXCEPT ![Head(queue)] =
                     IF @ # "queued" THEN @
                     ELSE IF jobVmid[Head(queue)] # NoVmid THEN "completed" ELSE "running"]
    BY <1>3 DEF Claim
  <2> QED BY <1>3, <2>1
<1>4. CASE Complete
  BY <1>4 DEF Complete, At
<1>5. CASE RecordFailure
  BY <1>5 DEF RecordFailure, At
<1> QED BY <1>1, <1>2, <1>3, <1>4, <1>5, StepOnJobs

LEMMA ClaimedJob ==
  ASSUME TypeInv, Claim, ~Fault("db"), w'.pc # "idle"
  PROVE  /\ w'.pc = "check" /\ rows' = rows
         /\ w'.job \in Jobs /\ status[w'.job] = "queued" /\ status'[w'.job] = "running"
<1>1. queue # <<>> /\ Head(queue) \in Jobs
  BY DEF Claim, TypeInv, TypeOK
<1>2. /\ status[Head(queue)] = "queued" /\ jobVmid[Head(queue)] = NoVmid
      /\ w' = [IdleWorker EXCEPT !.pc = "check", !.job = Head(queue)]
  BY IdleTemplates, Templates DEF Claim
<1>3. w'.pc = "check" /\ w'.job = Head(queue)
  BY <1>2 DEF IdleWorker
<1>4. status' = [status EXCEPT ![Head(queue)] = "running"]
  BY <1>2 DEF Claim
<1>5. status'[Head(queue)] = "running"
  BY <1>1, <1>4 DEF TypeInv, TypeOK
<1> QED BY <1>1, <1>2, <1>3, <1>5 DEF Claim, rowVars

\* How the worker comes to the steps that have no record, or to fail.
LEMMA RowlessKinds ==
  ASSUME TypeInv, [Next]_vars, ~Fault("db"), ~Crash,
         w'.pc \in {"check", "select", "reserve", "fail"}
  PROVE  \/ Claim
         \/ CleanRow /\ w.pc = "cleanRow" /\ SameTask
         \/ w.pc \in {"check", "select", "reserve", "fail"} /\ w'.job = w.job
            /\ ~CleanRow /\ (ReserveRow => rows' = rows)
<1>1. CASE ~WorkerStep
  BY <1>1, OthersLeaveWorker DEF WorkerStep
<1>2. CASE CheckLimit \/ SelectVmid
  BY <1>2, FirstMoves, LastMoves DEF SameTask, ReserveRow, At
<1>3. CASE ReserveRow
  BY <1>3, ReserveMoves, LastMoves
<1>4. CASE ClonePost \/ WaitForClone \/ Configure \/ AddNat \/ Start \/ MarkReady
  BY <1>4, CreateMoves
<1>5. CASE CleanPve \/ CleanNat \/ CleanRow
  BY <1>5, LastMoves
<1>6. CASE Complete \/ RecordFailure
  BY <1>6, LastMoves, Templates
<1> QED BY <1>1, <1>2, <1>3, <1>4, <1>5, <1>6 DEF WorkerStep

LEMMA RowJobsStep ==
  ASSUME TypeInv, OwnInv, RowJobsInv, [Next]_vars, ~Fault("db"), ~Crash
  PROVE  RowJobsInv'
<1>0. ~Restart /\ rows \subseteq Row
  BY DEF Restart, RowJobsInv, TypeInv, TypeOK
<1>1. up'
  <2>1. CASE WorkerStep
    <3>1. Claim \/ CheckLimit \/ SelectVmid \/ ReserveRow => up' = up
      BY DEF Claim, CheckLimit, SelectVmid, ReserveRow
    <3>2. ClonePost \/ WaitForClone \/ Configure \/ AddNat => up' = up
      BY DEF ClonePost, WaitForClone, Configure, AddNat
    <3>3. Start \/ MarkReady \/ Complete \/ RecordFailure => up' = up
      BY DEF Start, MarkReady, Complete, RecordFailure
    <3>4. CleanPve \/ CleanNat \/ CleanRow => up' = up
      BY DEF CleanPve, CleanNat, CleanRow
    <3> QED BY <2>1, <3>1, <3>2, <3>3, <3>4 DEF WorkerStep, RowJobsInv
  <2>2. CASE ~WorkerStep
    BY <1>0, <2>2 DEF Next, Enqueue, DeleteBegin, DeleteStep, DeleteStop, DeleteDestroy,
       DeleteNat, DeleteCommit, CloneDone, vars, RowJobsInv
  <2> QED BY <2>1, <2>2
<1>2. ASSUME NEW r \in rows'  PROVE status'[r.job] \in {"running", "completed"}
  <2>1. r.job \in Jobs /\ status[r.job] \in {"running", "completed"}
    <3>1. CASE \E t \in rows : t.id = r.id /\ t.job = r.job
      BY <1>0, <3>1 DEF RowJobsInv, Row
    <3>2. CASE ReserveRow /\ r.job = w.job
      BY <3>2, ReserveMoves DEF RowJobsInv, TypeInv, TypeOK
    <3> QED BY <3>1, <3>2, RowsFrom
  <2>2. RecordFailure => r.job # w.job
    <3>1. RecordFailure => rows' = rows /\ w.pc = "fail"
      BY LastMoves DEF RecordFailure, rowVars
    <3> QED BY <3>1 DEF RowJobsInv
  <2> QED BY <1>0, <2>1, <2>2, StatusMoves DEF StatusMove
<1>3. ASSUME w'.pc # "idle"  PROVE status'[w'.job] = "running"
  <2>1. CASE Claim
    BY <1>3, <2>1, ClaimedJob
  <2>2. CASE ~Claim
    <3>1. ~Complete /\ ~RecordFailure
      <4>1. Complete => w' = IdleWorker
        BY LastMoves
      <4> QED BY <1>3, <4>1, LastMoves, Templates
    <3>2. w.pc # "idle" /\ w'.job = w.job
      BY <1>3, <2>2, <3>1, StillWorking
    <3>3. w.job \in Jobs
      BY <3>2 DEF TypeInv, TypeOK
    <3> QED BY <1>0, <2>2, <3>1, <3>2, <3>3, StatusMoves DEF StatusMove, RowJobsInv
  <2> QED BY <2>1, <2>2
<1>4. ASSUME w'.pc \in {"check", "select", "reserve", "fail"}, NEW r \in rows'
      PROVE  r.job # w'.job
  <2>1. CASE Claim
    BY <1>4, <2>1, ClaimedJob DEF RowJobsInv
  <2>2. CASE CleanRow /\ w.pc = "cleanRow" /\ SameTask
    <3>1. r \in rows /\ r.id # w.row
      BY <2>2 DEF CleanRow
    <3> QED BY <2>2, <3>1 DEF RowJobsInv, Owning, HasVmid, SameTask
  <2>3. CASE w.pc \in {"check", "select", "reserve", "fail"} /\ w'.job = w.job
             /\ ~CleanRow /\ (ReserveRow => rows' = rows)
    <3>1. \E t \in rows : t.job = r.job
      BY <2>3, RowsFrom
    <3> QED BY <2>3, <3>1 DEF RowJobsInv
  <2> QED BY <1>4, <2>1, <2>2, <2>3, RowlessKinds
<1>5. ASSUME w'.pc \in Owning, NEW r \in rows', r.job = w'.job
      PROVE  r.id = w'.row
  <2>1. CASE ReserveRow
    <3>1. w.pc = "reserve" /\ w'.pc = "clone" /\ w'.row = nextId /\ w'.job = w.job
      BY <1>5, <2>1, ReserveMoves DEF Owning, HasVmid
    <3>2. \A t \in rows : t.job # w.job
      BY <3>1 DEF RowJobsInv
    <3> QED BY <1>5, <3>1, <3>2, RowsFrom
  <2>2. CASE ~ReserveRow
    <3>1. w.pc \in Owning /\ SameTask
      <4>1. AddNat => w.pc \in Owning /\ SameTask
        BY CreateMoves DEF Owning, HasVmid
      <4> QED BY <1>5, <2>2, <4>1, OwningKinds
    <3>2. PICK t \in rows : t.id = r.id /\ t.job = r.job
      BY <2>2, RowsFrom
    <3> QED BY <1>5, <3>1, <3>2 DEF RowJobsInv, SameTask
  <2> QED BY <2>1, <2>2
<1> QED BY <1>1, <1>2, <1>3, <1>4, <1>5 DEF RowJobsInv

\* FailedLeavesNothing: the FAILED commit comes after the cleanup, or before
\* anything was reserved, and one job is attempted once; so while calls are
\* answered and the process lives, a failed job has neither a record nor a VM
\* in Proxmox, whichever step failed and whatever was deleted meanwhile.
THEOREM FailureIsClean ==
  ASSUME Answered, MaxCrashes = 0
  PROVE  Spec => []FailedLeavesNothing
<1>1. Init => RowJobsInv
  <2>1. Init => w.pc = "idle" /\ rows = {} /\ up
    BY Templates DEF Init
  <2> QED BY <2>1 DEF RowJobsInv, Owning, HasVmid
<1>2. TypeInv /\ OwnInv /\ RowJobsInv /\ [Next]_vars => RowJobsInv'
  BY RowJobsStep, NoCrash DEF Answered, Fault
<1>3. TypeInv /\ RowJobsInv /\ NoVmWithoutRecord /\ EmptyInv => FailedLeavesNothing
  <2> SUFFICES ASSUME TypeInv, RowJobsInv, NoVmWithoutRecord, EmptyInv,
                      NEW j \in Jobs, status[j] = "failed"
               PROVE  /\ \A r \in rows : r.job # j
                      /\ \A v \in Vmids : pve[v].job # j
    BY DEF FailedLeavesNothing
  <2>1. \A r \in rows : r.job # j
    BY DEF RowJobsInv
  <2>2. ASSUME NEW v \in Vmids  PROVE pve[v].job # j
    <3>1. CASE pve[v].state = "absent"
      <4>1. NoVm.job = NoJob
        BY DEF NoVm
      <4> QED BY <3>1, <4>1, ConstAssumption DEF EmptyInv
    <3>2. CASE pve[v].state # "absent"
      BY <2>1, <3>2 DEF NoVmWithoutRecord
    <3> QED BY <3>1, <3>2
  <2> QED BY <2>1, <2>2
<1>4. Spec => []NoVmWithoutRecord
  BY NoOrphanVm
<1> QED
  BY <1>1, <1>2, <1>3, <1>4, TypeInductive, OwnInductive, EmptyInductive, PTL DEF Spec

-----------------------------------------------------------------------------
(* The creation service implements VmOrders.                                *)

\* A VM is marked ready for a job once, at the end of its one attempt.
DeliveredInv ==
  /\ \A j \in Jobs : status[j] \in {"none", "queued"} => delivered[j] = 0
  /\ \A j \in Jobs : delivered[j] <= 1
  /\ w.pc \notin {"idle", "complete"} => delivered[w.job] = 0
  /\ w.pc = "complete" => delivered[w.job] # 0

LEMMA NotDelivered ==
  ASSUME [Next]_vars, ~MarkReady  PROVE delivered' = delivered
<1>1. CASE Claim \/ CheckLimit \/ SelectVmid \/ ReserveRow \/ ClonePost
  BY <1>1 DEF Claim, CheckLimit, SelectVmid, ReserveRow, ClonePost
<1>2. CASE WaitForClone \/ Configure \/ AddNat \/ Start \/ Complete
  BY <1>2 DEF WaitForClone, Configure, AddNat, Start, Complete
<1>3. CASE CleanPve \/ CleanNat \/ CleanRow \/ RecordFailure
  BY <1>3 DEF CleanPve, CleanNat, CleanRow, RecordFailure
<1>4. CASE ~WorkerStep
  BY <1>4 DEF Next, Enqueue, DeleteBegin, DeleteStep, DeleteStop, DeleteDestroy, DeleteNat,
              DeleteCommit, CloneDone, Crash, Restart, vars
<1> QED BY <1>1, <1>2, <1>3, <1>4 DEF WorkerStep

\* Which steps leave the worker at work, and on the same job.
LEMMA WorkingKinds ==
  ASSUME TypeInv, [Next]_vars, ~Fault("db"), ~MarkReady, w'.pc # "idle"
  PROVE  \/ Claim
         \/ w.pc # "idle" /\ w'.job = w.job /\ (w'.pc = "complete" <=> w.pc = "complete")
<1>1. CASE ~WorkerStep
  BY <1>1, LastMoves, OthersLeaveWorker, Templates DEF TypeInv, TypeOK
<1>2. CASE CheckLimit \/ SelectVmid \/ ReserveRow
  BY <1>2, FirstMoves, ReserveMoves DEF SameTask
<1>3. CASE ClonePost \/ WaitForClone \/ Configure \/ AddNat \/ Start
  BY <1>3, CreateMoves DEF SameTask
<1>4. CASE CleanPve \/ CleanNat \/ CleanRow
  BY <1>4, LastMoves DEF SameTask
<1>5. CASE Complete \/ RecordFailure
  BY <1>5, LastMoves, Templates
<1> QED BY <1>1, <1>2, <1>3, <1>4, <1>5 DEF WorkerStep

LEMMA DeliveredStep ==
  ASSUME TypeInv, RowJobsInv, DeliveredInv, [Next]_vars, ~Fault("db"), ~Crash
  PROVE  DeliveredInv'
<1>0. ~Restart /\ delivered \in [Jobs -> Nat]
  BY DEF Restart, RowJobsInv, TypeInv, TypeOK
<1>1. \A j \in Jobs : status'[j] \in {"none", "queued"} => status[j] \in {"none", "queued"}
  BY <1>0, StatusMoves DEF StatusMove
<1>2. CASE MarkReady
  <2>1. w.pc = "ready" /\ SameTask /\ status' = status /\ w.job \in Jobs
    BY <1>2, MarkReadyMoves DEF MarkReady, jobVars, TypeInv, TypeOK
  <2>2. status[w.job] = "running" /\ delivered[w.job] = 0
    BY <2>1 DEF RowJobsInv, DeliveredInv
  <2>3. CASE w'.pc = "cleanPve" /\ delivered' = delivered
    BY <2>1, <2>2, <2>3 DEF DeliveredInv, SameTask
  <2>4. CASE w'.pc = "complete" /\ delivered' = [delivered EXCEPT ![w.job] = @ + 1]
    <3>1. delivered'[w.job] = 1 /\ \A j \in Jobs \ {w.job} : delivered'[j] = delivered[j]
      BY <1>0, <2>1, <2>2, <2>4
    <3> QED BY <2>1, <2>2, <2>4, <3>1 DEF DeliveredInv, SameTask
  <2> QED BY <1>2, <2>3, <2>4, MarkReadyMoves
<1>3. CASE ~MarkReady
  <2>1. delivered' = delivered
    BY <1>3, NotDelivered
  <2>2. CASE Claim /\ w'.pc # "idle"
    <3>1. w'.pc = "check" /\ w'.job \in Jobs /\ status[w'.job] = "queued"
      BY <2>2, ClaimedJob
    <3> QED BY <1>1, <2>1, <3>1 DEF DeliveredInv
  <2>3. CASE w'.pc = "idle"
    BY <1>1, <2>1, <2>3 DEF DeliveredInv
  <2>4. CASE w.pc # "idle" /\ w'.pc # "idle" /\ w'.job = w.job
             /\ (w'.pc = "complete" <=> w.pc = "complete")
    BY <1>1, <2>1, <2>4 DEF DeliveredInv
  <2> QED BY <1>3, <2>2, <2>3, <2>4, WorkingKinds
<1> QED BY <1>2, <1>3

LEMMA DeliveredInductive ==
  ASSUME "db" \notin Faults, MaxCrashes = 0
  PROVE  Spec => [](RowJobsInv /\ DeliveredInv)
<1>1. Init => RowJobsInv /\ DeliveredInv
  <2>1. Init => w.pc = "idle" /\ rows = {} /\ up
    BY Templates DEF Init
  <2>2. Init => \A j \in Jobs : delivered[j] = 0
    BY DEF Init
  <2> QED BY <2>1, <2>2 DEF RowJobsInv, DeliveredInv, Owning, HasVmid
<1>2. TypeInv /\ OwnInv /\ RowJobsInv /\ DeliveredInv /\ [Next]_vars
      => RowJobsInv' /\ DeliveredInv'
  BY RowJobsStep, DeliveredStep, NoCrash DEF Fault
<1> QED BY <1>1, <1>2, TypeInductive, OwnInductive, PTL DEF Spec

\* OneVmPerJob: an accepted job is attempted once and marked ready at most
\* once; it takes a crash between the two COMMITs, or a COMMIT that fails, for
\* a job to give its owner a second VM.
THEOREM OneVmWithoutCrash ==
  ASSUME "db" \notin Faults, MaxCrashes = 0
  PROVE  Spec => []OneVmPerJob
<1>1. RowJobsInv /\ DeliveredInv => OneVmPerJob
  BY DEF DeliveredInv, OneVmPerJob
<1> QED BY <1>1, DeliveredInductive, PTL

\* The state of the orders as VmOrders sees it.
OrderOf(j) == OrderState(status[j])
VmOf(j)    == IF delivered[j] = 0 THEN "none"
              ELSE IF \E r \in rows : r.job = j THEN "live" ELSE "gone"

LEMMA OrderStates ==
  ASSUME TypeInv, NEW j \in Jobs
  PROVE  /\ OrderOf(j) = "pending" <=> status[j] \in Active
         /\ OrderOf(j) = "none" <=> status[j] = "none"
         /\ OrderOf(j) = "served" <=> status[j] = "completed"
         /\ OrderOf(j) = "refused" <=> status[j] = "failed"
BY DEF OrderOf, OrderState, Active, TypeInv, TypeOK, JobStatus

\* What counts against the quota in VmOrders is counted by WithinQuota.
LEMMA HeldBound ==
  ASSUME TypeInv, IsFiniteSet(rows), NEW u
  PROVE  /\ Cardinality(Orders!Held(u)) \in Nat
         /\ Cardinality(Orders!Held(u)) <= Cardinality(RowsOf(u)) + Cardinality(ActiveOf(u))
<1> DEFINE T == {r.job : r \in RowsOf(u)}
           f == [r \in RowsOf(u) |-> r.job]
<1>1. IsFiniteSet(RowsOf(u)) /\ IsFiniteSet(ActiveOf(u))
  BY FS_Subset, ConstAssumption DEF RowsOf, ActiveOf
<1>2. IsFiniteSet(T) /\ Cardinality(T) <= Cardinality(RowsOf(u))
  <2>1. f \in Surjection(RowsOf(u), T)
    BY DEF Surjection
  <2> QED BY <1>1, <2>1, FS_Surjection
<1>3. Orders!Held(u) \subseteq T \cup ActiveOf(u)
  <2> SUFFICES ASSUME NEW j \in Jobs, JobUser[j] = u,
                      OrderOf(j) = "pending" \/ VmOf(j) = "live"
               PROVE  j \in T \cup ActiveOf(u)
    BY DEF Orders!Held, OrderOf, VmOf
  <2>1. CASE OrderOf(j) = "pending"
    BY <2>1, OrderStates DEF ActiveOf
  <2>2. CASE VmOf(j) = "live"
    BY <2>2 DEF VmOf, RowsOf
  <2> QED BY <2>1, <2>2
<1> HIDE DEF T, f
<1>4. /\ IsFiniteSet(T \cup ActiveOf(u))
      /\ Cardinality(T \cup ActiveOf(u))
           = Cardinality(T) + Cardinality(ActiveOf(u)) - Cardinality(T \cap ActiveOf(u))
  BY <1>1, <1>2, FS_Union
<1>5. IsFiniteSet(T \cap ActiveOf(u))
  BY <1>1, FS_Subset
<1>6. /\ IsFiniteSet(Orders!Held(u))
      /\ Cardinality(Orders!Held(u)) <= Cardinality(T \cup ActiveOf(u))
  BY <1>3, <1>4, FS_Subset
<1>7. /\ Cardinality(Orders!Held(u)) \in Nat /\ Cardinality(T) \in Nat
      /\ Cardinality(RowsOf(u)) \in Nat /\ Cardinality(ActiveOf(u)) \in Nat
      /\ Cardinality(T \cap ActiveOf(u)) \in Nat /\ Cardinality(T \cup ActiveOf(u)) \in Nat
  BY <1>1, <1>2, <1>4, <1>5, <1>6, FS_CardinalityType
<1> QED BY <1>2, <1>4, <1>6, <1>7

\* The Cardinality that VmOrders uses is the one used here.
LEMMA SameCount == \A S : Orders!Cardinality(S) = Cardinality(S)
BY DEF Orders!Cardinality, Cardinality

\* A step of VmOrders is named by what it does to one order.
OrdersKeep(j)  == \A k \in Jobs \ {j} : OrderOf(k)' = OrderOf(k) /\ VmOf(k)' = VmOf(k)
OrdersStutter  == \A k \in Jobs : OrderOf(k)' = OrderOf(k) /\ VmOf(k)' = VmOf(k)

LEMMA AbstractStep ==
  ASSUME NEW j \in Jobs, OrdersKeep(j)
  PROVE  /\ /\ OrderOf(j) = "none" /\ OrderOf(j)' = "pending" /\ VmOf(j)' = VmOf(j)
            /\ JobUser[j] \in Limited => Cardinality(Orders!Held(JobUser[j])) < MaxVms
            => Orders!Place(j)
         /\ /\ OrderOf(j) = "pending" /\ VmOf(j) = "none"
            /\ OrderOf(j)' = OrderOf(j) /\ VmOf(j)' = "live"
            => Orders!Deliver(j)
         /\ /\ OrderOf(j) = "pending" /\ VmOf(j) # "none"
            /\ OrderOf(j)' = "served" /\ VmOf(j)' = VmOf(j)
            => Orders!Serve(j)
         /\ /\ OrderOf(j) = "pending" /\ VmOf(j) = "none"
            /\ OrderOf(j)' = "refused" /\ VmOf(j)' = VmOf(j)
            => Orders!Refuse(j)
         /\ /\ VmOf(j) = "live" /\ VmOf(j)' = "gone" /\ OrderOf(j)' = OrderOf(j)
            => Orders!Remove(j)
<1> DEFINE o == [k \in Jobs |-> OrderOf(k)]
           m == [k \in Jobs |-> VmOf(k)]
<1>1. \A x : OrderOf(j)' = x => o' = [o EXCEPT ![j] = x]
  BY DEF OrdersKeep
<1>2. \A x : VmOf(j)' = x => m' = [m EXCEPT ![j] = x]
  BY DEF OrdersKeep
<1>3. OrderOf(j)' = OrderOf(j) => o' = o
  BY DEF OrdersKeep
<1>4. VmOf(j)' = VmOf(j) => m' = m
  BY DEF OrdersKeep
<1>5. o[j] = OrderOf(j) /\ m[j] = VmOf(j)
  OBVIOUS
<1>6. /\ o = [k \in Jobs |-> OrderState(status[k])]
      /\ m = [k \in Jobs |-> IF delivered[k] = 0 THEN "none"
                             ELSE IF \E r \in rows : r.job = k THEN "live" ELSE "gone"]
  BY DEF OrderOf, VmOf
<1>7. /\ o' = [k \in Jobs |-> OrderState(status'[k])]
      /\ m' = [k \in Jobs |-> IF delivered'[k] = 0 THEN "none"
                              ELSE IF \E r \in rows' : r.job = k THEN "live" ELSE "gone"]
  BY DEF OrderOf, VmOf
<1> HIDE DEF o, m
<1>8. ASSUME OrderOf(j) = "none", OrderOf(j)' = "pending", VmOf(j)' = VmOf(j),
             JobUser[j] \in Limited => Cardinality(Orders!Held(JobUser[j])) < MaxVms
      PROVE  Orders!Place(j)
  <2>1. o[j] = "none" /\ o' = [o EXCEPT ![j] = "pending"] /\ m' = m
    BY <1>1, <1>4, <1>5, <1>8
  <2> QED BY <1>6, <1>7, <1>8, <2>1, SameCount DEF Orders!Place
<1>9. ASSUME OrderOf(j) = "pending", VmOf(j) = "none", OrderOf(j)' = OrderOf(j), VmOf(j)' = "live"
      PROVE  Orders!Deliver(j)
  <2>1. o[j] = "pending" /\ m[j] = "none" /\ o' = o /\ m' = [m EXCEPT ![j] = "live"]
    BY <1>2, <1>3, <1>5, <1>9
  <2> QED BY <1>6, <1>7, <2>1 DEF Orders!Deliver
<1>10. ASSUME OrderOf(j) = "pending", VmOf(j) # "none", OrderOf(j)' = "served", VmOf(j)' = VmOf(j)
       PROVE  Orders!Serve(j)
  <2>1. o[j] = "pending" /\ m[j] # "none" /\ o' = [o EXCEPT ![j] = "served"] /\ m' = m
    BY <1>1, <1>4, <1>5, <1>10
  <2> QED BY <1>6, <1>7, <2>1 DEF Orders!Serve
<1>11. ASSUME OrderOf(j) = "pending", VmOf(j) = "none", OrderOf(j)' = "refused", VmOf(j)' = VmOf(j)
       PROVE  Orders!Refuse(j)
  <2>1. o[j] = "pending" /\ m[j] = "none" /\ o' = [o EXCEPT ![j] = "refused"] /\ m' = m
    BY <1>1, <1>4, <1>5, <1>11
  <2> QED BY <1>6, <1>7, <2>1 DEF Orders!Refuse
<1>12. ASSUME VmOf(j) = "live", VmOf(j)' = "gone", OrderOf(j)' = OrderOf(j)
       PROVE  Orders!Remove(j)
  <2>1. m[j] = "live" /\ o' = o /\ m' = [m EXCEPT ![j] = "gone"]
    BY <1>2, <1>3, <1>5, <1>12
  <2> QED BY <1>6, <1>7, <2>1 DEF Orders!Remove
<1> QED BY <1>8, <1>9, <1>10, <1>11, <1>12

\* A VM that was delivered comes and goes by MarkReady and delete_vm only.
LEMMA VmKept ==
  ASSUME TypeInv, OwnInv, RowJobsInv, DeliveredInv, [Next]_vars, ~DeleteCommit,
         NEW k \in Jobs, delivered'[k] = delivered[k]
  PROVE  VmOf(k)' = VmOf(k)
<1>1. CASE delivered[k] = 0
  BY <1>1 DEF VmOf
<1>2. CASE delivered[k] # 0
  <2>1. ASSUME NEW t \in rows, t.job = k  PROVE \E r \in rows' : r.job = k
    <3>1. ~(CleanRow /\ t.id = w.row)
      <4> SUFFICES ASSUME CleanRow, t.id = w.row  PROVE FALSE
        OBVIOUS
      <4>1. w.pc = "cleanRow"
        BY LastMoves
      <4>2. t.job = w.job
        BY <4>1 DEF OwnInv, WorkerOwn, Mine, Owning, HasVmid
      <4> QED BY <1>2, <2>1, <4>1, <4>2 DEF DeliveredInv
    <3> QED BY <2>1, <3>1, RowsFrom
  <2>2. ASSUME NEW r \in rows', r.job = k  PROVE \E t \in rows : t.job = k
    <3>1. ReserveRow => r.job # w.job
      <4>1. ReserveRow => w.pc = "reserve"
        BY ReserveMoves
      <4> QED BY <1>2, <2>2, <4>1 DEF DeliveredInv
    <3> QED BY <2>2, <3>1, RowsFrom
  <2> QED BY <1>2, <2>1, <2>2 DEF VmOf
<1> QED BY <1>1, <1>2

LEMMA DeliverStep ==
  ASSUME TypeInv, OwnInv, RowJobsInv, DeliveredInv, [Next]_vars, MarkReady
  PROVE  OrdersStutter \/ \E j \in Jobs : Orders!Deliver(j)
<1>1. /\ w.pc = "ready" /\ w.job \in Jobs /\ status' = status /\ ~DeleteCommit
      /\ delivered \in [Jobs -> Nat]
  <2>1. w.pc = "ready" /\ w.job \in Jobs /\ w'.pc # "ready"
    BY MarkReadyMoves DEF TypeInv, TypeOK
  <2>2. DeleteCommit => w' = w
    BY DeleterMoves
  <2> QED BY <2>1, <2>2 DEF MarkReady, jobVars, TypeInv, TypeOK
<1>2. \A k \in Jobs : OrderOf(k)' = OrderOf(k)
  BY <1>1 DEF OrderOf
<1>3. CASE delivered' = delivered
  BY <1>1, <1>2, <1>3, VmKept DEF OrdersStutter
<1>4. ASSUME NEW r \in rows, r.id = w.row, rows' = (rows \ {r}) \cup {ReadyVersion(r)},
             delivered' = [delivered EXCEPT ![w.job] = @ + 1],
             NEW j \in Jobs, j = w.job
      PROVE  Orders!Deliver(j)
  <2>1. delivered[j] = 0 /\ status[j] = "running"
    BY <1>1, <1>4 DEF DeliveredInv, RowJobsInv
  <2>2. delivered'[j] = 1 /\ \A k \in Jobs \ {j} : delivered'[k] = delivered[k]
    BY <1>1, <1>4, <2>1
  <2>3. OrdersKeep(j)
    BY <1>1, <1>2, <2>2, VmKept DEF OrdersKeep
  <2>4. ReadyVersion(r).job = j /\ ReadyVersion(r) \in rows'
    <3>1. r.job = j
      BY <1>1, <1>4 DEF OwnInv, WorkerOwn, Mine, Owning, HasVmid
    <3> QED BY <1>4, <3>1, ReadyVersionKeeps DEF TypeInv, TypeOK
  <2>5. VmOf(j) = "none" /\ VmOf(j)' = "live"
    BY <2>1, <2>2, <2>4 DEF VmOf
  <2>6. OrderOf(j) = "pending" /\ OrderOf(j)' = OrderOf(j)
    BY <1>2, <2>1, OrderStates DEF Active
  <2> QED BY <2>3, <2>5, <2>6, AbstractStep
<1>5. CASE \E r \in rows : r.id = w.row /\ rows' = (rows \ {r}) \cup {ReadyVersion(r)}
                           /\ delivered' = [delivered EXCEPT ![w.job] = @ + 1]
  <2>1. PICK j \in Jobs : j = w.job
    BY <1>1
  <2> QED BY <1>4, <1>5, <2>1
<1> QED BY <1>3, <1>5, MarkReadyMoves

\* The COMMIT of delete_vm takes away the VM of one order at most.
LEMMA RemoveStep ==
  ASSUME TypeInv, UniqueInv, DeliveredInv, [Next]_vars, DeleteCommit
  PROVE  OrdersStutter \/ \E j \in Jobs : Orders!Remove(j)
<1>1. status' = status /\ delivered' = delivered
  BY DEF DeleteCommit, jobVars
<1>2. \A k \in Jobs : OrderOf(k)' = OrderOf(k)
  BY <1>1 DEF OrderOf
<1>3. /\ \A t \in rows : t \in rows' \/ t.id = d.id
      /\ rows' \subseteq rows
  BY DEF DeleteCommit
<1>4. CASE \A k \in Jobs : VmOf(k)' = VmOf(k)
  BY <1>2, <1>4 DEF OrdersStutter
<1>5. ASSUME NEW j \in Jobs, VmOf(j)' # VmOf(j)
      PROVE  Orders!Remove(j)
  <2>1. VmOf(j) = "live" /\ VmOf(j)' = "gone"
    BY <1>1, <1>3, <1>5 DEF VmOf
  <2>2. PICK r \in rows : r.job = j /\ r.id = d.id
    BY <1>3, <2>1 DEF VmOf
  <2>3. \A t \in rows : t.id = d.id => t = r
    BY <2>2 DEF UniqueInv, RowsInv
  <2>4. \A k \in Jobs \ {j} : VmOf(k)' = VmOf(k)
    BY <1>1, <1>3, <2>2, <2>3 DEF VmOf
  <2>5. OrdersKeep(j)
    BY <1>2, <2>4 DEF OrdersKeep
  <2> QED BY <1>2, <2>1, <2>5, AbstractStep
<1> QED BY <1>4, <1>5

\* Accepting, serving and refusing.
LEMMA DecideStep ==
  ASSUME TypeInv, UniqueInv, OwnInv, QuotaInv, RowJobsInv, DeliveredInv, [Next]_vars,
         ~Fault("db"), (\E j \in Jobs : Enqueue(j)) \/ Complete \/ RecordFailure
  PROVE  OrdersStutter \/ \E j \in Jobs : Orders!Place(j) \/ Orders!Serve(j) \/ Orders!Refuse(j)
<1>0. status \in [Jobs -> JobStatus]
  BY DEF TypeInv, TypeOK
<1>1. rows' = rows /\ delivered' = delivered
  BY DEF Enqueue, Complete, RecordFailure, rowVars
<1>2. \A k \in Jobs : VmOf(k)' = VmOf(k)
  BY <1>1 DEF VmOf
<1>3. ASSUME NEW j \in Jobs, \A k \in Jobs \ {j} : status'[k] = status[k]
      PROVE  OrdersKeep(j)
  BY <1>2, <1>3 DEF OrdersKeep, OrderOf
<1>4. ASSUME NEW j \in Jobs, Enqueue(j)
      PROVE  Orders!Place(j)
  <2>1. status[j] = "none" /\ status' = [status EXCEPT ![j] = "queued"] /\ WithinQuota(JobUser[j])
    BY <1>4 DEF Enqueue
  <2>2. status'[j] = "queued" /\ \A k \in Jobs \ {j} : status'[k] = status[k]
    BY <1>0, <2>1
  <2>3. OrderOf(j) = "none" /\ OrderOf(j)' = "pending"
    BY <2>1, <2>2 DEF OrderOf, OrderState, Active
  <2>4. JobUser[j] \in Limited => Cardinality(Orders!Held(JobUser[j])) < MaxVms
    <3>1. IsFiniteSet(rows)
      BY DEF QuotaInv
    <3>2. /\ Cardinality(Orders!Held(JobUser[j])) \in Nat
          /\ Cardinality(Orders!Held(JobUser[j]))
               <= Cardinality(RowsOf(JobUser[j])) + Cardinality(ActiveOf(JobUser[j]))
      BY <3>1, HeldBound
    <3>3. /\ Cardinality(RowsOf(JobUser[j])) \in Nat
          /\ Cardinality(ActiveOf(JobUser[j])) \in Nat
      BY <3>1, FS_Subset, FS_CardinalityType, ConstAssumption DEF RowsOf, ActiveOf
    <3> QED BY <2>1, <3>2, <3>3, ConstAssumption DEF WithinQuota
  <2> QED BY <1>2, <1>3, <2>2, <2>3, <2>4, AbstractStep
<1>5. ASSUME Complete, NEW j \in Jobs, j = w.job
      PROVE  Orders!Serve(j)
  <2>1. w.pc = "complete" /\ status' = [status EXCEPT ![j] = "completed"]
    BY <1>5 DEF Complete, At
  <2>2. status'[j] = "completed" /\ \A k \in Jobs \ {j} : status'[k] = status[k]
    BY <1>0, <2>1
  <2>3. status[j] = "running" /\ delivered[j] # 0
    BY <1>5, <2>1 DEF RowJobsInv, DeliveredInv
  <2>4. OrderOf(j) = "pending" /\ OrderOf(j)' = "served"
    BY <2>2, <2>3 DEF OrderOf, OrderState, Active
  <2>5. VmOf(j) # "none"
    BY <2>3 DEF VmOf
  <2> QED BY <1>2, <1>3, <2>2, <2>4, <2>5, AbstractStep
<1>6. ASSUME RecordFailure, NEW j \in Jobs, j = w.job
      PROVE  Orders!Refuse(j)
  <2>1. w.pc = "fail" /\ status' = [status EXCEPT ![j] = "failed"]
    BY <1>6 DEF RecordFailure, At
  <2>2. status'[j] = "failed" /\ \A k \in Jobs \ {j} : status'[k] = status[k]
    BY <1>0, <2>1
  <2>3. status[j] = "running" /\ delivered[j] = 0
    BY <1>6, <2>1 DEF RowJobsInv, DeliveredInv
  <2>4. OrderOf(j) = "pending" /\ OrderOf(j)' = "refused"
    BY <2>2, <2>3 DEF OrderOf, OrderState, Active
  <2>5. VmOf(j) = "none"
    BY <2>3 DEF VmOf
  <2> QED BY <1>2, <1>3, <2>2, <2>4, <2>5, AbstractStep
<1>7. CASE Complete \/ RecordFailure
  <2>1. w.job \in Jobs
    BY <1>7 DEF Complete, RecordFailure, At, TypeInv, TypeOK
  <2>2. PICK j \in Jobs : j = w.job
    BY <2>1
  <2> QED BY <1>5, <1>6, <1>7, <2>2
<1> QED BY <1>4, <1>7

\* Every other step is invisible to the owners of the orders.
LEMMA HiddenStep ==
  ASSUME TypeInv, OwnInv, JobsIInv, RowJobsInv, DeliveredInv, [Next]_vars, ~Fault("db"),
         ~Crash, ~MarkReady, ~DeleteCommit, ~Complete, ~RecordFailure,
         \A j \in Jobs : ~Enqueue(j)
  PROVE  OrdersStutter
<1>1. delivered' = delivered /\ ~Restart
  BY NotDelivered DEF Restart, RowJobsInv
<1>2. ASSUME NEW k \in Jobs  PROVE OrderOf(k)' = OrderOf(k)
  <2>1. CASE status'[k] = status[k]
    BY <2>1 DEF OrderOf
  <2>2. CASE Claim /\ status'[k] # status[k]
    <3>1. status' = [status EXCEPT ![Head(queue)] =
                       IF @ # "queued" THEN @
                       ELSE IF jobVmid[Head(queue)] # NoVmid THEN "completed" ELSE "running"]
      BY <2>2 DEF Claim
    <3>2. status[k] = "queued" /\ jobVmid[k] = NoVmid
      <4>1. status[k] = "queued"
        BY <2>2, <3>1 DEF TypeInv, TypeOK
      <4> QED BY <4>1 DEF JobsIInv, VmidOnlyWhenCompleted
    <3>3. status'[k] \in {"queued", "running"}
      BY <3>1, <3>2 DEF TypeInv, TypeOK
    <3> QED BY <3>2, <3>3 DEF OrderOf, OrderState, Active
  <2>3. status'[k] = status[k] \/ Claim
    <3>1. CASE JobsUntouched
      BY <3>1 DEF JobsUntouched, jobVars
    <3> QED BY <1>1, <3>1, StepOnJobs
  <2> QED BY <2>1, <2>2, <2>3
<1> QED BY <1>1, <1>2, VmKept DEF OrdersStutter

OrdersSafety == Orders!Init /\ [][Orders!Next]_(Orders!vars)

\* OrdersPromise without its fairness: accepting, marking ready, the two final
\* COMMITs and delete_vm are the only steps an owner can see, and each is a
\* step of VmOrders; so every job is served with one VM or refused without
\* one, finally, and an account never holds more than its quota, undecided
\* jobs included, as long as the process lives and COMMITs succeed.
THEOREM ImplementsOrders ==
  ASSUME "db" \notin Faults, MaxCrashes = 0
  PROVE  Spec => OrdersSafety
<1>1. Init => Orders!Init
  <2> SUFFICES ASSUME Init  PROVE Orders!Init
    OBVIOUS
  <2>1. \A j \in Jobs : status[j] = "none" /\ delivered[j] = 0
    BY DEF Init
  <2>2. \A j \in Jobs : OrderState(status[j]) = "none"
    BY <2>1 DEF OrderState, Active
  <2> QED BY <2>1, <2>2 DEF Orders!Init
<1>2. ASSUME TypeInv, UniqueInv, OwnInv, QuotaInv, JobsIInv, RowJobsInv, DeliveredInv,
             [Next]_vars
      PROVE  [Orders!Next]_(Orders!vars)
  <2>1. ~Fault("db") /\ ~Crash
    BY <1>2, NoCrash DEF Fault
  <2>2. OrdersStutter => UNCHANGED Orders!vars
    BY DEF OrdersStutter, OrderOf, VmOf, Orders!vars
  <2>3. (\E j \in Jobs : Orders!Place(j) \/ Orders!Serve(j) \/ Orders!Refuse(j)) => Orders!Next
    BY DEF Orders!Next, Orders!Decide
  <2>4. (\E j \in Jobs : Orders!Deliver(j)) \/ (\E j \in Jobs : Orders!Remove(j)) => Orders!Next
    BY DEF Orders!Next, Orders!Decide
  <2> QED
    BY <1>2, <2>1, <2>2, <2>3, <2>4, DeliverStep, RemoveStep, DecideStep, HiddenStep
<1> QED
  BY <1>1, <1>2, TypeInductive, UniqueInductive, OwnInductive, QuotaInductive, JobsInductive,
     DeliveredInductive, PTL DEF Spec, OrdersSafety
=============================================================================
