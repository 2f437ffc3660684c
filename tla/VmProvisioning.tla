--------------------------- MODULE VmProvisioning ---------------------------
(***************************************************************************)
(* Creation and deletion of VMs.                                           *)
(*                                                                         *)
(* Three actors share the database, the Proxmox cluster and the gateway:   *)
(*   - the event loop, which runs every endpoint and the expiry loop to    *)
(*     completion: it accepts creation requests and runs delete_vm, one    *)
(*     deletion at a time;                                                 *)
(*   - the worker thread of services/vm_creation_queue.py, which takes one *)
(*     job at a time off the in-memory queue and runs create_vm;           *)
(*   - Proxmox itself, which finishes clone tasks in its own time.         *)
(* The process may stop at any point and be started again; everything in   *)
(* memory is then lost and _recover_pending_jobs rebuilds the queue.       *)
(*                                                                         *)
(* One node is modelled.  Its VMIDs and internal IPs are finite sets of    *)
(* numbers, an external port is a function of the VMID (calculate_ports),  *)
(* and a forwarding rule is therefore a pair <<vmid, ip>>.                 *)
(***************************************************************************)
EXTENDS Integers, Sequences, FiniteSets

CONSTANTS
  Jobs,        \* ids of the creation jobs that may be requested
  Users,       \* accounts
  JobUser,     \* the account that requests each job
  Limited,     \* the accounts whose role is USER (the others have no quota)
  MaxVms,      \* settings.MAX_VMS_PER_USER
  Vmids,       \* the VMIDs Proxmox can hand out, natural numbers
  MaxProbes,   \* _MAX_VMID_PROBES
  Ips,         \* octets INTERNAL_IP_START..INTERNAL_IP_END
  Faults,      \* the kinds of failure that may occur in this instance
  Deletable,   \* jobs whose VM the owner, or the expiry loop, deletes
  MaxCrashes   \* bound on the number of process crashes

FaultKinds ==
  { "reject",   \* create_vm refuses: load, storage, inactive node, ...
    "clone",    \* clone.post or the clone task fails
    "slow",     \* the clone outlasts the 120 s of _wait_for_clone
    "stuck",    \* the clone's lock outlasts the cleanup's 30 s as well
    "config",   \* snippet upload, config.put or resize.put fails
    "gateway",  \* an iptables call over SSH fails
    "start",    \* status.start fails
    "lost",     \* Proxmox did what was asked, but the call raised
    "pve",      \* a stop or a delete call to Proxmox fails
    "db" }      \* a COMMIT fails

NoVmid == 0
NoIp   == 0
NoJob  == "no job"

ASSUME ConstAssumption ==
  /\ IsFiniteSet(Jobs) /\ NoJob \notin Jobs
  /\ JobUser \in [Jobs -> Users]
  /\ Limited \subseteq Users
  /\ MaxVms \in Nat /\ MaxProbes \in Nat /\ MaxCrashes \in Nat
  /\ Vmids \subseteq Nat \ {NoVmid}
  /\ Ips \subseteq Nat \ {NoIp}
  /\ Faults \subseteq FaultKinds
  /\ Deletable \subseteq Jobs

VARIABLES
  status,     \* VmCreationJob.status; "none": not requested yet
  jobVmid,    \* VmCreationJob.vmid
  queuedAt,   \* VmCreationJob.queued_at, as a rank
  queue,      \* _vm_creation_queue
  rows,       \* the committed rows of table vms
  nextId,     \* the next primary key of vms
  pve,        \* Proxmox: the VM behind each VMID
  nat,        \* the gateway: forwarding rules in place
  w,          \* the worker thread and create_vm's local variables
  d,          \* the event loop's delete_vm call and its local variables
  up,         \* the backend process is running
  crashes,    \* number of crashes so far
  delivered   \* history: how often a VM was marked ready for each job

vars == <<status, jobVmid, queuedAt, queue, rows, nextId, pve, nat, w, d,
          up, crashes, delivered>>
jobVars == <<status, jobVmid, queuedAt>>
rowVars == <<rows, nextId>>

JobStatus == {"none", "queued", "running", "completed", "failed"}
Active    == {"queued", "running"}

\* owner_id is JobUser[job]; job itself is not a column of the table, it
\* lets the properties say which job a row was built for.
Row == [id: Nat, vmid: Vmids, ip: Ips, job: Jobs, ready: BOOLEAN]

PveState == {"absent", "cloning", "stopped", "running"}
NoVm     == [state |-> "absent", job |-> NoJob, ip |-> NoIp]
PveVm    == [state: PveState, job: Jobs \cup {NoJob}, ip: Ips \cup {NoIp}]

CreatePc  == {"check", "select", "reserve", "clone", "wait", "config", "nat",
              "start", "ready", "complete"}
CleanupPc == {"cleanPve", "cleanNat", "cleanRow", "fail"}
Worker == [pc: {"idle"} \cup CreatePc \cup CleanupPc, job: Jobs \cup {NoJob},
           vmid: Vmids \cup {NoVmid}, ip: Ips \cup {NoIp}, row: Nat,
           cloned: BOOLEAN, natAdded: BOOLEAN]
IdleWorker == [pc |-> "idle", job |-> NoJob, vmid |-> NoVmid, ip |-> NoIp,
               row |-> 0, cloned |-> FALSE, natAdded |-> FALSE]

Deleter == [pc: {"idle", "stop", "destroy", "unnat", "commit"}, id: Nat,
            vmid: Vmids \cup {NoVmid}, ip: Ips \cup {NoIp}]
IdleDeleter == [pc |-> "idle", id |-> 0, vmid |-> NoVmid, ip |-> NoIp]

TypeOK ==
  /\ status \in [Jobs -> JobStatus]
  /\ jobVmid \in [Jobs -> Vmids \cup {NoVmid}]
  /\ queuedAt \in [Jobs -> Nat]
  /\ queue \in Seq(Jobs)
  /\ rows \subseteq Row
  /\ nextId \in Nat
  /\ pve \in [Vmids -> PveVm]
  /\ nat \subseteq Vmids \X Ips
  /\ w \in Worker
  /\ w.pc # "idle" => w.job \in Jobs
  /\ d \in Deleter
  /\ up \in BOOLEAN
  /\ crashes \in Nat
  /\ delivered \in [Jobs -> Nat]

Init ==
  /\ status = [j \in Jobs |-> "none"]
  /\ jobVmid = [j \in Jobs |-> NoVmid]
  /\ queuedAt = [j \in Jobs |-> 0]
  /\ queue = <<>>
  /\ rows = {} /\ nextId = 1
  /\ pve = [v \in Vmids |-> NoVm]
  /\ nat = {}
  /\ w = IdleWorker /\ d = IdleDeleter
  /\ up = TRUE /\ crashes = 0
  /\ delivered = [j \in Jobs |-> 0]

RowsOf(u)   == {r \in rows : JobUser[r.job] = u}
ActiveOf(u) == {j \in Jobs : JobUser[j] = u /\ status[j] \in Active}

-----------------------------------------------------------------------------
(* The event loop: enqueue_vm_creation.  The endpoint has no await, so the  *)
(* count and the insert are one step of the loop.  A crash between the      *)
(* COMMIT and the put is Enqueue followed by Crash.                         *)
WithinQuota_RowsOnly(u) == u \in Limited => Cardinality(RowsOf(u)) < MaxVms

WithinQuota(u) ==
  u \in Limited => Cardinality(RowsOf(u)) + Cardinality(ActiveOf(u)) < MaxVms

Enqueue(j) ==
  /\ up /\ d.pc = "idle"
  /\ status[j] = "none"
  /\ WithinQuota(JobUser[j])
  /\ status' = [status EXCEPT ![j] = "queued"]
  /\ queuedAt' = [queuedAt EXCEPT
                    ![j] = Cardinality({k \in Jobs : status[k] # "none"}) + 1]
  /\ queue' = Append(queue, j)
  /\ UNCHANGED <<jobVmid, rowVars, pve, nat, w, d, up, crashes, delivered>>

-----------------------------------------------------------------------------
(* The worker: process_vm_creation_job, and create_vm up to the COMMIT that *)
(* reserves VMID, IP and ports.                                             *)
At(pc)   == up /\ w.pc = pc
Goto(pc) == w' = [w EXCEPT !.pc = pc]
Fault(k) == k \in Faults

\* _worker_loop's get and the conditional UPDATE that claims the job, with
\* the early return for a job that already has a VMID.
Claim ==
  /\ At("idle") /\ queue # <<>>
  /\ queue' = Tail(queue)
  /\ LET j == Head(queue) IN
       \/ /\ status' = [status EXCEPT ![j] =
                          IF @ # "queued" THEN @
                          ELSE IF jobVmid[j] # NoVmid THEN "completed"
                          ELSE "running"]
          /\ w' = IF status[j] = "queued" /\ jobVmid[j] = NoVmid
                  THEN [IdleWorker EXCEPT !.pc = "check", !.job = j]
                  ELSE IdleWorker
       \/ /\ Fault("db")
          /\ w' = [IdleWorker EXCEPT !.pc = "fail", !.job = j]
          /\ UNCHANGED status
  /\ UNCHANGED <<jobVmid, queuedAt, rowVars, pve, nat, d, up, crashes, delivered>>

\* create_vm counts the owner's rows again, then validates the request.
HasRoom_NoRecheck(u) == TRUE
HasRoom(u) == u \in Limited => Cardinality(RowsOf(u)) < MaxVms

CheckLimit ==
  /\ At("check")
  /\ \/ HasRoom(JobUser[w.job]) /\ Goto("select")
     \/ (~HasRoom(JobUser[w.job]) \/ Fault("reject")) /\ Goto("fail")
  /\ UNCHANGED <<jobVars, queue, rowVars, pve, nat, d, up, crashes, delivered>>

IsLeast(x, S) == x \in S /\ \A y \in S : x <= y

FreeInProxmox == {v \in Vmids : pve[v].state = "absent"}

\* _select_vmid: nextid is the least VMID free in Proxmox; the first VMID
\* from there on, within MaxProbes, that neither Proxmox nor the database
\* holds is taken.
Selectable ==
  {v \in FreeInProxmox : /\ \A n \in FreeInProxmox : v < n + MaxProbes
                         /\ \A r \in rows : r.vmid # v}

SelectVmid ==
  /\ At("select")
  /\ \/ \E v \in Vmids :
          /\ IsLeast(v, Selectable)
          /\ w' = [w EXCEPT !.pc = "reserve", !.vmid = v]
     \/ Selectable = {} /\ Goto("fail")
  /\ UNCHANGED <<jobVars, queue, rowVars, pve, nat, d, up, crashes, delivered>>

\* _allocate_internal_ip and the first COMMIT, under the allocation lock.
FreeIps_ReadyOnly == {i \in Ips : \A r \in rows : r.ready => r.ip # i}
FreeIps_PastEnd ==
  {i \in Ips \cup {k + 1 : k \in Ips} : \A r \in rows : r.ip # i}

FreeIps == {i \in Ips : \A r \in rows : r.ip # i}

ReserveRow ==
  /\ At("reserve")
  /\ \/ /\ \E i \in FreeIps :
             /\ IsLeast(i, FreeIps)
             /\ rows' = rows \cup {[id |-> nextId, vmid |-> w.vmid, ip |-> i,
                                    job |-> w.job, ready |-> FALSE]}
             /\ w' = [w EXCEPT !.pc = "clone", !.ip = i, !.row = nextId]
        /\ nextId' = nextId + 1
     \/ /\ FreeIps = {} \/ Fault("db")
        /\ Goto("fail")
        /\ UNCHANGED rowVars
  /\ UNCHANGED <<jobVars, queue, pve, nat, d, up, crashes, delivered>>

-----------------------------------------------------------------------------
(* create_vm after the reservation: every failure leads to the cleanup.     *)
MyVm == pve[w.vmid]

ClonePost ==
  /\ At("clone")
  /\ \/ /\ MyVm.state = "absent"
        /\ pve' = [pve EXCEPT ![w.vmid] =
                     [state |-> "cloning", job |-> w.job, ip |-> NoIp]]
        /\ \/ w' = [w EXCEPT !.pc = "wait", !.cloned = TRUE]
           \/ Fault("lost") /\ Goto("cleanPve")
     \/ /\ MyVm.state # "absent" \/ Fault("clone")
        /\ Goto("cleanPve")
        /\ UNCHANGED pve
  /\ UNCHANGED <<jobVars, queue, rowVars, nat, d, up, crashes, delivered>>

\* _wait_for_clone: the task's exit status, then the lock, or the timeout.
WaitForClone_RowOnly ==
  /\ At("wait")
  /\ \/ MyVm.state = "stopped" /\ Goto("config")
     \/ MyVm.state = "absent" /\ Goto("cleanRow")
     \/ MyVm.state = "cloning" /\ Fault("slow") /\ Goto("cleanRow")
  /\ UNCHANGED <<jobVars, queue, rowVars, pve, nat, d, up, crashes, delivered>>

WaitForClone ==
  /\ At("wait")
  /\ \/ MyVm.state = "stopped" /\ Goto("config")
     \/ MyVm.state = "absent" /\ Goto("cleanPve")
     \/ MyVm.state = "cloning" /\ Fault("slow") /\ Goto("cleanPve")
  /\ UNCHANGED <<jobVars, queue, rowVars, pve, nat, d, up, crashes, delivered>>

\* _upload_snippet, the two config.put calls and resize.put.
Configure ==
  /\ At("config")
  /\ \/ /\ MyVm.state # "absent"
        /\ pve' = [pve EXCEPT ![w.vmid].ip = w.ip]
        /\ Goto("nat") \/ (Fault("config") /\ Goto("cleanPve"))
     \/ /\ MyVm.state = "absent" \/ Fault("config")
        /\ Goto("cleanPve")
        /\ UNCHANGED pve
  /\ UNCHANGED <<jobVars, queue, rowVars, nat, d, up, crashes, delivered>>

\* manage_iptables ADD.  A failed call takes back what it added, unless the
\* gateway does not answer then either.
AddNat_FlagNotSet ==
  /\ At("nat")
  /\ \/ nat' = nat \cup {<<w.vmid, w.ip>>} /\ Goto("start")
     \/ Fault("gateway") /\ Goto("cleanPve") /\ UNCHANGED nat
  /\ UNCHANGED <<jobVars, queue, rowVars, pve, d, up, crashes, delivered>>

AddNat_ResultIgnored ==
  /\ At("nat")
  /\ \/ nat' = nat \cup {<<w.vmid, w.ip>>}
     \/ Fault("gateway") /\ UNCHANGED nat
  /\ w' = [w EXCEPT !.pc = "start", !.natAdded = TRUE]
  /\ UNCHANGED <<jobVars, queue, rowVars, pve, d, up, crashes, delivered>>

AddNat ==
  /\ At("nat")
  /\ \/ /\ nat' = nat \cup {<<w.vmid, w.ip>>}
        /\ w' = [w EXCEPT !.pc = "start", !.natAdded = TRUE]
     \/ /\ Fault("gateway")
        /\ nat' = nat \/ nat' = nat \cup {<<w.vmid, w.ip>>}
        /\ Goto("cleanPve")
  /\ UNCHANGED <<jobVars, queue, rowVars, pve, d, up, crashes, delivered>>

Start ==
  /\ At("start")
  /\ \/ /\ MyVm.state = "stopped"
        /\ pve' = [pve EXCEPT ![w.vmid].state = "running"]
        /\ Goto("ready") \/ (Fault("lost") /\ Goto("cleanPve"))
     \/ /\ MyVm.state # "stopped" \/ Fault("start")
        /\ Goto("cleanPve")
        /\ UNCHANGED pve
  /\ UNCHANGED <<jobVars, queue, rowVars, nat, d, up, crashes, delivered>>

\* new_vm.ready = True; the UPDATE of a row deleted meanwhile raises.
MarkReady ==
  /\ At("ready")
  /\ \/ /\ \E r \in rows :
             /\ r.id = w.row
             /\ rows' = (rows \ {r}) \cup {[r EXCEPT !.ready = TRUE]}
        /\ delivered' = [delivered EXCEPT ![w.job] = @ + 1]
        /\ Goto("complete")
     \/ /\ Fault("db") \/ \A r \in rows : r.id # w.row
        /\ Goto("cleanPve")
        /\ UNCHANGED <<rows, delivered>>
  /\ UNCHANGED <<jobVars, queue, nextId, pve, nat, d, up, crashes>>

\* The job's own COMMIT, in another session than create_vm's.
Complete ==
  /\ At("complete")
  /\ \/ /\ status' = [status EXCEPT ![w.job] = "completed"]
        /\ jobVmid' = [jobVmid EXCEPT ![w.job] = w.vmid]
        /\ w' = IdleWorker
     \/ /\ Fault("db")
        /\ Goto("fail")
        /\ UNCHANGED <<status, jobVmid>>
  /\ UNCHANGED <<queuedAt, queue, rowVars, pve, nat, d, up, crashes, delivered>>

-----------------------------------------------------------------------------
(* The cleanup of a failed creation.  Proxmox refuses to delete a VM that   *)
(* is locked by a clone or running, and the refusal is only logged.         *)
CleanPve ==
  /\ At("cleanPve")
  /\ (w.cloned /\ MyVm.state = "cloning") => Fault("stuck")
  /\ \/ /\ w.cloned /\ MyVm.state = "stopped"
        /\ pve' = [pve EXCEPT ![w.vmid] = NoVm]
     \/ /\ (w.cloned /\ MyVm.state = "stopped") => Fault("pve")
        /\ UNCHANGED pve
  /\ Goto("cleanNat")
  /\ UNCHANGED <<jobVars, queue, rowVars, nat, d, up, crashes, delivered>>

CleanNat ==
  /\ At("cleanNat")
  /\ \/ nat' = IF w.natAdded THEN nat \ {<<w.vmid, w.ip>>} ELSE nat
     \/ w.natAdded /\ Fault("gateway") /\ UNCHANGED nat
  /\ Goto("cleanRow")
  /\ UNCHANGED <<jobVars, queue, rowVars, pve, d, up, crashes, delivered>>

CleanRow ==
  /\ At("cleanRow")
  /\ \/ rows' = {r \in rows : r.id # w.row}
     \/ Fault("db") /\ UNCHANGED rows
  /\ Goto("fail")
  /\ UNCHANGED <<jobVars, queue, nextId, pve, nat, d, up, crashes, delivered>>

\* The FAILED commit; when it fails too, the job stays as it was.
RecordFailure_WithVmid ==
  /\ At("fail")
  /\ status' = [status EXCEPT ![w.job] = "failed"]
  /\ jobVmid' = [jobVmid EXCEPT ![w.job] = w.vmid]
  /\ w' = IdleWorker
  /\ UNCHANGED <<queuedAt, queue, rowVars, pve, nat, d, up, crashes, delivered>>

RecordFailure_NotRecorded ==
  /\ At("fail")
  /\ w' = IdleWorker
  /\ UNCHANGED <<jobVars, queue, rowVars, pve, nat, d, up, crashes, delivered>>

RecordFailure ==
  /\ At("fail")
  /\ \/ status' = [status EXCEPT ![w.job] = "failed"]
     \/ Fault("db") /\ UNCHANGED status
  /\ w' = IdleWorker
  /\ UNCHANGED <<jobVmid, queuedAt, queue, rowVars, pve, nat, d, up, crashes, delivered>>

-----------------------------------------------------------------------------
(* The event loop: delete_vm on the record of one row, from the endpoint or *)
(* from _expire_vms_loop.  Its remote calls interleave with the worker.     *)
DeleteBegin(r) ==
  /\ up /\ d.pc = "idle"
  /\ r.job \in Deletable
  /\ d' = [pc |-> "stop", id |-> r.id, vmid |-> r.vmid, ip |-> r.ip]
  /\ UNCHANGED <<jobVars, queue, rowVars, pve, nat, w, up, crashes, delivered>>

\* A running VM is stopped first; a failure of that is ignored.
DeleteStop_NoStop ==
  /\ up /\ d.pc = "stop"
  /\ d' = [d EXCEPT !.pc = "destroy"]
  /\ UNCHANGED <<jobVars, queue, rowVars, pve, nat, w, up, crashes, delivered>>

DeleteStop ==
  /\ up /\ d.pc = "stop"
  /\ \/ pve' = IF pve[d.vmid].state = "running"
               THEN [pve EXCEPT ![d.vmid].state = "stopped"] ELSE pve
     \/ Fault("pve") /\ UNCHANGED pve
  /\ d' = [d EXCEPT !.pc = "destroy"]
  /\ UNCHANGED <<jobVars, queue, rowVars, nat, w, up, crashes, delivered>>

\* Anything but a stopped VM makes the call raise: rollback, HTTP 500.
DeleteDestroy_RefusalIgnored ==
  /\ up /\ d.pc = "destroy"
  /\ pve' = IF pve[d.vmid].state = "stopped"
            THEN [pve EXCEPT ![d.vmid] = NoVm] ELSE pve
  /\ d' = [d EXCEPT !.pc = "unnat"]
  /\ UNCHANGED <<jobVars, queue, rowVars, nat, w, up, crashes, delivered>>

DeleteDestroy ==
  /\ up /\ d.pc = "destroy"
  /\ \/ /\ pve[d.vmid].state = "stopped"
        /\ pve' = [pve EXCEPT ![d.vmid] = NoVm]
        /\ \/ d' = [d EXCEPT !.pc = "unnat"]
           \/ Fault("lost") /\ d' = IdleDeleter
     \/ /\ pve[d.vmid].state # "stopped" \/ Fault("pve")
        /\ d' = IdleDeleter
        /\ UNCHANGED pve
  /\ UNCHANGED <<jobVars, queue, rowVars, nat, w, up, crashes, delivered>>

\* A failure to remove a rule is logged and the deletion goes on.
DeleteNat ==
  /\ up /\ d.pc = "unnat"
  /\ \/ nat' = nat \ {<<d.vmid, d.ip>>}
     \/ Fault("gateway") /\ UNCHANGED nat
  /\ d' = [d EXCEPT !.pc = "commit"]
  /\ UNCHANGED <<jobVars, queue, rowVars, pve, w, up, crashes, delivered>>

DeleteCommit ==
  /\ up /\ d.pc = "commit"
  /\ \/ rows' = {r \in rows : r.id # d.id}
     \/ Fault("db") /\ UNCHANGED rows
  /\ d' = IdleDeleter
  /\ UNCHANGED <<jobVars, queue, nextId, pve, nat, w, up, crashes, delivered>>

-----------------------------------------------------------------------------
(* Proxmox and the process.                                                 *)
CloneDone(v) ==
  /\ pve[v].state = "cloning"
  /\ \/ pve' = [pve EXCEPT ![v].state = "stopped"]
     \/ Fault("clone") /\ pve' = [pve EXCEPT ![v] = NoVm]
  /\ UNCHANGED <<jobVars, queue, rowVars, nat, w, d, up, crashes, delivered>>

Crash ==
  /\ up /\ crashes < MaxCrashes
  /\ up' = FALSE /\ crashes' = crashes + 1
  /\ queue' = <<>> /\ w' = IdleWorker /\ d' = IdleDeleter
  /\ UNCHANGED <<jobVars, rowVars, pve, nat, delivered>>

\* start_vm_creation_worker: _recover_pending_jobs puts every active job on
\* the queue in the order of queued_at and turns RUNNING into QUEUED; if that
\* COMMIT fails, the worker starts all the same.
Pending_QueuedOnly  == {j \in Jobs : status[j] = "queued"}
Pending_AlsoFailed  == {j \in Jobs : status[j] \in Active \cup {"failed"}}

Pending == {j \in Jobs : status[j] \in Active}

InQueuedOrder_Unordered(q) == \A a, b \in DOMAIN q : a # b => q[a] # q[b]

InQueuedOrder(q) ==
  \A a, b \in DOMAIN q : a < b => queuedAt[q[a]] < queuedAt[q[b]]

Restart ==
  /\ ~up
  /\ up' = TRUE
  /\ \E q \in [1..Cardinality(Pending) -> Pending] :
       /\ InQueuedOrder(q)
       /\ queue' = q
  /\ \/ status' = [j \in Jobs |-> IF j \in Pending THEN "queued" ELSE status[j]]
     \/ Fault("db") /\ UNCHANGED status
  /\ UNCHANGED <<jobVmid, queuedAt, rowVars, pve, nat, w, d, crashes, delivered>>

WorkerStep ==
  \/ Claim \/ CheckLimit \/ SelectVmid \/ ReserveRow
  \/ ClonePost \/ WaitForClone \/ Configure \/ AddNat \/ Start
  \/ MarkReady \/ Complete
  \/ CleanPve \/ CleanNat \/ CleanRow \/ RecordFailure

DeleteStep == DeleteStop \/ DeleteDestroy \/ DeleteNat \/ DeleteCommit

Next ==
  \/ \E j \in Jobs : Enqueue(j)
  \/ WorkerStep
  \/ \E r \in rows : DeleteBegin(r)
  \/ DeleteStep
  \/ \E v \in Vmids : CloneDone(v)
  \/ Crash \/ Restart

Spec == Init /\ [][Next]_vars

\* The worker thread loops for ever, a deletion once begun runs to its end,
\* Proxmox ends every clone task and a stopped process is started again.
\* Nobody has to request anything, and nothing makes a crash happen.
Fairness ==
  /\ WF_vars(WorkerStep)
  /\ WF_vars(DeleteStep)
  /\ WF_vars(Restart)
  /\ \A v \in Vmids : WF_vars(CloneDone(v))

FairSpec == Spec /\ Fairness
-----------------------------------------------------------------------------
(* Properties.                                                              *)

\* MAX_VMS_PER_USER: a USER account never owns more rows than its quota,
\* although the count and the insert are separate steps, other jobs of the
\* account wait in the queue, and a recovered job may have inserted before.
UserVmLimit == \A u \in Limited : Cardinality(RowsOf(u)) <= MaxVms

\* No two VM records share a VMID (hence an external port) or an internal
\* IP: the VMID is chosen from Proxmox and an older read of the table, the
\* IP from a second read, and deletions commit in between.
AddressesUnique ==
  \A r, s \in rows : r.vmid = s.vmid \/ r.ip = s.ip => r = s

\* A job that reached COMPLETED or FAILED keeps that status and its VMID,
\* whatever the worker or _recover_pending_jobs does after a crash.
TerminalStable ==
  [][\A j \in Jobs : status[j] \in {"completed", "failed"} =>
       status'[j] = status[j] /\ jobVmid'[j] = jobVmid[j]]_vars

\* The VMID of a job is recorded by the COMPLETED commit and never before,
\* so no job that can still be claimed has one: the duplicate guard of
\* process_vm_creation_job cannot fire.
VmidOnlyWhenCompleted ==
  \A j \in Jobs : status[j] # "completed" => jobVmid[j] = NoVmid

\* No accepted job is forgotten: while the process runs, a QUEUED job is in
\* the memory queue exactly once, and a RUNNING job is the worker's.
NoJobLost ==
  up => /\ \A j \in Jobs :
             /\ status[j] = "queued" <=> \E n \in 1..Len(queue) : queue[n] = j
             /\ status[j] = "running" => w.job = j
        /\ \A m, n \in 1..Len(queue) : queue[m] = queue[n] => m = n

\* Jobs are started in the order they were accepted, across restarts: a job
\* turns RUNNING for the first time before any job accepted after it.
StartedInOrder ==
  [][\A j, k \in Jobs :
       /\ status[j] = "queued" /\ status'[j] = "running"
       /\ status[k] = "queued" /\ queuedAt[k] < queuedAt[j]
       => FALSE]_vars

\* create_vm's cleanup: a FAILED job leaves neither a record nor a VM in
\* Proxmox, whichever step failed and whatever was deleted meanwhile.
FailedLeavesNothing ==
  \A j \in Jobs : status[j] = "failed" =>
    /\ \A r \in rows : r.job # j
    /\ \A v \in Vmids : pve[v].job # j

\* Proxmox holds no VM that the database knows nothing about, the
\* cleanup and delete_vm both remove the VM before they remove its record.
NoVmWithoutRecord ==
  \A v \in Vmids : pve[v].state # "absent" =>
    \E r \in rows : r.vmid = v /\ r.job = pve[v].job

\* A forwarding rule belongs to a record with that VMID and IP, to a failed
\* creation that is still to be cleaned up.
NatBacked ==
  \A n \in nat :
    \/ \E r \in rows : n = <<r.vmid, r.ip>>
    \/ w.natAdded /\ n = <<w.vmid, w.ip>>

\* A VM shown as ready exists under its VMID, was built by its own job, is
\* configured with the recorded IP, and its ports are forwarded to that IP.
ReadyServed ==
  \A r \in rows : r.ready =>
    /\ pve[r.vmid] = [state |-> "running", job |-> r.job, ip |-> r.ip]
    /\ <<r.vmid, r.ip>> \in nat

\* Two VMs that Proxmox runs never use the same internal IP.
RunningIpsUnique ==
  \A v, x \in Vmids :
    pve[v].state = "running" /\ pve[x].state = "running" /\ pve[v].ip = pve[x].ip
    => v = x

\* One accepted job gives its owner at most one VM.
OneVmPerJob == \A j \in Jobs : delivered[j] <= 1

\* Every accepted job is decided in the end.
EveryJobDecided ==
  \A j \in Jobs : status[j] = "queued" ~> status[j] \in {"completed", "failed"}

\* A deletion that is asked for again and again succeeds: no record of a
\* deletable VM stays for ever.  The expiry loop visits every expired row
\* each hour, hence the strong fairness of DeleteBegin.
DeleteRetried ==
  \A j \in Jobs : SF_vars(\E r \in rows : r.job = j /\ DeleteBegin(r))
RetrySpec == FairSpec /\ DeleteRetried
RowsEventuallyDeleted ==
  \A j \in Deletable : (\E r \in rows : r.job = j) ~> (\A r \in rows : r.job # j)

\* The service without crashes keeps the promise of VmOrders.
OrderState(s) ==
  CASE s \in Active     -> "pending"
    [] s = "completed" -> "served"
    [] s = "failed"    -> "refused"
    [] OTHER           -> "none"

Orders == INSTANCE VmOrders WITH
  order <- [j \in Jobs |-> OrderState(status[j])],
  vm    <- [j \in Jobs |->
              IF delivered[j] = 0 THEN "none"
              ELSE IF \E r \in rows : r.job = j THEN "live" ELSE "gone"]

OrdersPromise == Orders!Spec
=============================================================================
