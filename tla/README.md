# GSM-SV: a TLA+ model of the VM service

GSM-SV is a school's private cloud. A FastAPI backend (`src/backend`) creates,
shows and deletes VMs on Proxmox nodes, forwards ports to them with iptables on a
gateway, publishes HTTPS routes through Caddy, and keeps accounts; a separate Node
service (`src/serverless`) runs users' functions, on request and by cron. The
modules here are translated from that code. TLC checks them on small
instances; TLAPS proves theorems about them for every value of the constants.

## 1. Inventory

How the processes are made matters for every model below. The backend is **one
process**. Its endpoints are `async def` functions that call SQLAlchemy,
proxmoxer and paramiko synchronously: an endpoint without an `await` runs to its
end before the event loop does anything else. Besides the loop there are **one
worker thread** for VM creation (`vm_creation_queue.py`) and the threads of
`asyncio.to_thread` for the background loops of `main.py`. Loop and threads share
the database (each with its own session), Proxmox and the gateway. Everything in
memory is lost when the process stops.

| component | state it keeps | operations | hard behaviour | what makes it correct |
|---|---|---|---|---|
| VM creation queue (`services/vm_creation_queue.py`) | table `vm_creation_jobs`, in-memory queue, worker thread | accept, claim, complete, fail, recover at start, stop | crash between two commits; failing commits; queue rebuilt from the table | no job lost, doubled or overtaken; decisions final; one VM per job |
| VM creation and deletion (`services/vm_service.py`) | table `vms`; Proxmox VMs; gateway rules | `create_vm` with its cleanup, `delete_vm` | twelve remote steps, each may fail or lose its answer; deletion while the creation runs; clone outlasting its timeout | quota, unique addresses, nothing left behind, ready means served |
| Port forwarding (`services/network_service.py`, `api/routes/firewall.py`) | table `vm_ports`, iptables of the gateway | rules of a VM, custom port add/delete, restore defaults | check-then-add with rollback from two threads; rules shared by ports; ignored failures | a rule only for a port record; a port record has its rules |
| HTTPS gateway (`services/caddy_service.py`, `api/routes/https_gateway.py`) | table `https_routes`, Caddy's route array | add, delete, deletion with the VM | three calls to Caddy and two COMMITs, each may fail; nothing compares table and Caddy afterwards. The handlers never give way, so their read-modify-write of the array is not interleaved | a route shown as registered is served, by the right VM |
| VM control, expiry, snapshots (`api/routes/vmcontrol.py`, `main.py`) | `expires_at`, snapshots in Proxmox, advisory lock | start/stop, resize, extend, snapshot, grace period, deletion after 3 days | advisory lock taken on the event loop; thread and loop on the same VM | limits hold; an extended VM is not stopped or deleted |
| Accounts (`api/routes/auth.py`) | tables `users`, `email_verifications` | sign up, verify, resend, reset, change the password, approve, reject, login | directory and mail server are awaited between check and insert, and between insert and answer; several pending records of an address | a mailed code stays usable; a code sets only the password it was issued for; one owner per project (which does not hold) |
| OAuth login (`api/routes/oauth.py`) | in-memory stores of states and codes | authorize, callback, exchange, cleanup | callback awaits DataGSM twice; a browser may repeat every call; expiry, limit of entries | a login leads to one session |
| Node monitoring and placement (`services/mon_service.py`, `services/proxmox_client.py`) | none that decides | check of the node, `select_clone_storage` | thresholds; a node that does not answer | the storage chosen suits the disk |
| Serverless scheduler (`serverless/src/services/*.ts`) | `SchedulerService.jobs`, tables `sv_functions` and `sv_triggers` (PostgreSQL, through prisma) | create, update, delete, reload, run | captured row; every database call gives way, between removal and scheduling too | an enabled trigger is scheduled; no task without its trigger; limit of functions |
| Notifications, FAQ, network, proxies | tables | single inserts, reads | none | |
| Runtime, infrastructure | | isolate, configuration, cryptography | library calls | |

How they interact: `vmcontrol.py` accepts a creation request with
`enqueue_vm_creation` and deletes with `delete_vm`; the worker calls `create_vm`,
which calls `manage_iptables` on the gateway; `_expire_vms_loop` calls
`delete_vm`; `firewall.py` changes the same iptables chains as the worker;
`auth.py` and `oauth.py` create the users the quotas are about; `create_vm` asks the node for
its storages; `delete_vm` removes a VM's HTTPS routes. The backend passes
requests for the serverless service on, with the user's id in a header, and shares no
table with it. Within
it each execution has an isolate of its own, made and disposed of by that execution.

`PROJECT.json` lists the components with their status and, under `hazards`, what
in each is hard to test, at its line.

## 2. Plan

1. `VmProvisioning`, `VmOrders` (done): queue, `create_vm`, `delete_vm`, Proxmox,
   crash and recovery; the abstract promise to the user and its refinement;
   proofs in `VmProvisioning_proofs`.
2. `PortForwarding`, `PortForwarding_proofs` (done): `_run_iptables_commands` command by
   command, from the worker and from the event loop, with the port records.
3. `CronScheduler`, `CronScheduler_proofs` (done): functions, triggers and node-cron tasks
   with the `await` points of the TypeScript code.
4. `Accounts`, `OAuthLogin`, `OAuthLogin_proofs` (done): sign-up, verification,
   password resets, approval; the logins with DataGSM on top of them.
5. `VmExpiry`, `VmExpiry_proofs` (done): expiry, extension, grace period and
   deletion. `Snapshots`, `Snapshots_proofs` (done): manual and nightly snapshots and
   the advisory lock.
6. `HttpsRoutes`, `HttpsRoutes_proofs` (done): the table and Caddy's routes under failing
   calls and commits.
7. `ClonePlacement`, `ClonePlacement_proofs` (done): the check of the node and the loop of
   `select_clone_storage`, compared with what its docstring promises.

Every safety invariant and every action property of the passing runs is proved; the
liveness properties and the fairness of the refinement are not, and cannot be
with these provers. What is left to do: the protocol of the allocation lock
(`vm_service.py:130`), and theorems with weaker hypotheses where those of section 5 exclude more than they
must (`ReadyIsServed`).

`VmProvisioning` takes the gateway as a set of rules and a call to it as one step;
`PortForwarding` shows what the commands of one call do to the rules. Each module takes its limits as CONSTANTS with named
assumptions, has one action per operation, and no RECURSIVE operator, so that it can be proved
about.

## 3. What the modules model

### VmProvisioning

State and code:

| variable | code |
|---|---|
| `status`, `jobVmid`, `queuedAt` | columns of `VmCreationJob` |
| `queue` | `_vm_creation_queue` |
| `rows`, `nextId` | committed rows of `vms` |
| `pve` | what Proxmox has behind each VMID: state, job it was cloned for, configured IP |
| `nat` | forwarding rules on the gateway, `<<vmid, ip>>` |
| `w` | the worker thread: program counter and `create_vm`'s locals (`vmid`, `internal_ip`, `new_vm.id`, `clone_started`, `iptables_added`) |
| `d` | the `delete_vm` call of the event loop |
| `up`, `crashes` | the process runs; crashes so far |
| `delivered` | history variable: how often a VM was marked ready for a job |

Actions:

| action | code |
|---|---|
| `Enqueue` | `enqueue_vm_creation`: quota over rows and active jobs, insert, put. No `await`, hence one step |
| `Claim` | `_worker_loop`'s `get` and the conditional UPDATE of `process_vm_creation_job`, with the early return for a job that has a VMID |
| `CheckLimit`, `SelectVmid`, `ReserveRow` | `create_vm` up to its first COMMIT: second quota check and validation, `_select_vmid`, `_allocate_internal_ip` and the insert |
| `ClonePost`, `WaitForClone`, `Configure`, `AddNat`, `Start`, `MarkReady` | the remaining steps of `create_vm`; a failure goes to the cleanup |
| `CleanPve`, `CleanNat`, `CleanRow` | `_cleanup_failed_vm_resources`, `_cleanup_vm_db_record` |
| `Complete`, `RecordFailure` | the last commit of `process_vm_creation_job` |
| `DeleteBegin`, `DeleteStop`, `DeleteDestroy`, `DeleteNat`, `DeleteCommit` | `delete_vm`, one call at a time on the event loop, its remote calls interleaved with the worker's |
| `CloneDone` | a clone task ends in Proxmox, in its own time |
| `Crash`, `Restart` | the process stops; `_recover_pending_jobs` |

A step is what happens between two points at which another actor can see or
change something: a remote call or a COMMIT. What Proxmox may answer is the
disjunction of the outcomes, each failure switched on by a member of `Faults`; a *lost*
answer means that Proxmox did the work and the call raised.

Abstractions, beside wording and generated texts:

- One node. VMIDs and IPs are finite sets of numbers; the ports of a VM are a
  function of its VMID (`calculate_ports`), so a rule is a pair and sharing a VMID
  is sharing the external ports. `vm_ports` rows go with their `vms` row.
- The allocation lock (`pg_advisory_xact_lock` or the thread lock) is not a
  variable: there is one worker, and only `create_vm` takes the lock.
- The VM's deletion in Proxmox is one step. The real call starts a task; nothing in the code
  waits for it.
- A stop and start of the worker inside a living process, which only tests do, is
  not modelled; the stop at shutdown is a `Crash`.
- `_wait_for_clone` distinguishes a task that failed, a lock that stays and a
  timeout; all of them end in the cleanup, at a moment chosen by the `slow` and
  `stuck` faults.
- Which of the many refusals of `create_vm` was met is one fault, `reject`.
- Deletion is asked for by any owner of a job in `Deletable`, at any time: `delete_vm_endpoint`
  looks at ownership, not at `ready`, nor at whether the creation still runs.

- A gateway call that fails may leave its rules behind (`AddNat`): the rollback
  of `_run_iptables_commands` is best effort. How that comes about is the subject of
  `PortForwarding`; here `create_vm` removes the rules in its cleanup only if the
  call had succeeded, as in the code.

### VmOrders

What a user of the service sees: an order is pending, then served with one VM or
refused without one; the quota counts VMs and undecided orders; every order is
decided. `VmProvisioning` instantiates it with the refinement mapping
`order` = the job's status, `vm` = whether a VM was marked ready for the job and
still has its row. `Orders!Spec` is the property `OrdersPromise`. It holds in the
run without crashes; with a crash, the run `duplicate` shows how it fails.

### MCVmProvisioning

The instances: two jobs of a USER account, one of an account without quota.

### PortForwarding

The gateway seen command by command. A port record gives, for each protocol, a DNAT
rule that belongs to its external port and a FORWARD rule that every port with
the same source and internal port shares; that sharing is why removal and
rollback are delicate.

| variable | code |
|---|---|
| `vms`, `ports` | committed rows of `vms` and `vm_ports` |
| `rules` | the *bag* of rules of the gateway's chains: `iptables -A` appends a second copy of a rule that is there |
| `act` | for the worker thread and for the event loop: the operation, the calls of `manage_iptables` / `manage_custom_iptables` it still has to make, and the locals of `_run_iptables_commands` (`pending`, the attempted rules, the rule it is at) |

| action | code |
|---|---|
| `CheckRule`, `AddRule`, `RollbackRule`, `RemoveCopies` | one remote command of `_run_iptables_commands`: `-C`; `-A`, enlisted for rollback before it is executed; one guarded `-D` per attempted rule in reverse; the loop that deletes every copy |
| `ReserveVm`, `CreateEnd`, `UndoEnd` | `create_vm` as far as ports are concerned: rows committed, ports forwarded, VM ready, or the cleanup |
| `AddPort`, `AddPortEnd` | `add_custom_port`: record first, rules second, record removed if the call failed |
| `DeletePort`, `DeletePortEnd` | `delete_custom_port` of a default or a custom port: rules first, record whatever came of it |
| `RestoreDefaults`, `RestoreEnd` | `restore_default_ports`: rules of the missing default ports, results ignored, one COMMIT at the end |
| `DeleteVm`, `DeleteVmEnd` | `delete_vm` once Proxmox has deleted the VM: records' rules, calculated rules if no default record is left, rows |

The event loop runs one operation at a time (the endpoints do not `await` between
commands); the worker is a thread, so its commands and the loop's interleave freely.

Two constants name what an instance admits. `Faults` lists the commands that may
fail. `Early` says whether a user acts on a VM whose creation is still running:
the code does not prevent it, since the endpoints look only at ownership. Some properties
need `Early = FALSE`; the findings say why.

Abstractions: a new row's id is some number nobody uses or remembers (ids only
have to differ); one gateway and node; the default ports are a constant sequence;
`before` is a history variable for the rollback property. A missing gateway
configuration or internal IP, which makes the calls return at once, the Proxmox
firewall rules and the iptables backup file are left out. The expiry loop calls
`delete_vm` on the event loop too (`DeleteVm`). A crash
between a record's COMMIT and its rules is not modelled here: the code has no recovery
for ports, so the record stays without its rules.

### MCPortForwarding

The instances: default port lists for TLC, with a port that uses both protocols and an
internal port (22) that a custom port can share with a default port.

### VmExpiry

The life of the VMs that have an expiry date, and the hourly pass over them.

| variable | code |
|---|---|
| `now` | the clock |
| `vm` | rows of `vms` with `expires_at`, and whether Proxmox runs the VM |
| `notices` | rows of `notifications` that the loop looks for before it makes another |
| `loop` | `_expire_vms_loop` and its thread: program counter, the pass's `now`, the VMs still to visit, the dates as loaded, whether the session reloads |
| `lastPass`, `excused` | history: when the last completed pass began; VMs an administrator started after their expiry, or Proxmox refused to stop |

| action | code |
|---|---|
| `Create`, `Extend`, `PowerOn`, `PowerOff`, `Delete` | the row of `create_vm` for a USER account, `extend_vm`, `control_vm`, `delete_vm_endpoint` |
| `PassBegin` | the query of `_process_grace_vms`, in the thread |
| `GraceNotice`, `GraceStop` | for each VM: the notice and its COMMIT, then `status.stop` |
| `PassAborted` | the session finds the row gone when it reloads it after a COMMIT; the handler that logs the error reads it again and raises |
| `PassRest`, `PassCutShort` | deletions, announcements and discarding of old notices, on the event loop; what is left of it when it fails in the middle |
| `Crash`, `Tick` | the process stops and a new pass begins; time passes |

A COMMIT makes SQLAlchemy forget what it loaded, so after the first notice of a pass
the thread sees current dates in its *checks* for a notice, but its choice of VMs
is made. That is `reload`.

Abstractions: a unit of time is longer than the interval of the loop, so a completed
pass lies between two ticks; a VM exists from its row on, running, since `VmProvisioning`
covers its creation; a reboot has no lasting effect; the refusals of
`control_vm` that have nothing to do with expiry are left out, and so are VMs
without a date, which the loop does not touch, and notices that no code reads again (those
to administrators among them). A failing COMMIT of a notice is not modelled.
`delete_vm` is one step here.

### MCVmExpiry

Two interchangeable VMs; the terms are in the cfg.

### Snapshots

One VM's snapshots: manual ones of concurrent requests, automatic ones of the nightly task.

| variable | code |
|---|---|
| `snaps`, `tasks` | what Proxmox lists, and the creations and deletions it has not finished; the listing includes a snapshot that is being created |
| `auto` | column `auto_snapshot` |
| `day`, `nightly` | `_daily_snapshot_loop`: the date, asleep, in the minute between its halves, or about to try again after an error |
| `phase`, `lock` | each request's place in `create_snapshot` and `get_db`; the transaction that holds the advisory lock |
| `kept` | history: the last night went as planned: auto stayed on, no deletion was refused, failed or late, and no user gave a snapshot an automatic name between the halves |

| action | code |
|---|---|
| `Arrive`, `Handle` | a request, and its handler up to the response, if the guard is free |
| `Granted` | the blocked `pg_advisory_xact_lock` returns |
| `Respond`, `Close` | the response is sent; a thread closes the session, which releases the lock |
| `DeleteSnapshot`, `ToggleAuto` | the endpoints |
| `DailyDelete`, `DailyCreate` | the two halves of a night |
| `TaskEnds` | Proxmox ends a task, with or without success |

`LoopRuns` is the guard of everything on the event loop: while a request is `blocked` in the
database driver, the loop runs nothing. Manual creation checks two limits; the
nightly creation checks none and relies on the deletions before it, which is why `SnapshotLimit`
is worth checking.

A snapshot is automatic if its name begins with `auto-daily`, and users may choose such
names (`AutoNames`), that of a coming night among them: these snapshots do not count as manual and the
next night deletes them. `SnapshotLimit` and `AutosReplaced` hold with them, except for a
night during which one is created.

Abstractions: one VM, since the guard and the nightly work of different VMs are
independent but for the event loop; rollback, description and resize are left out; the
deletion of a snapshot is refused while Proxmox works on it (`Free`).

### MCSnapshots

Interchangeable requests and names.

### CronScheduler

Functions and cron triggers in the database, tasks in the memory of one Node process.
Every handler gives way at each database call, so an action is what lies
between two of them.

| variable | code |
|---|---|
| `fn`, `row` | tables `sv_functions`, `sv_triggers` |
| `jobs` | the map `SchedulerService.jobs`, with the row each task was scheduled with |
| `leaked` | tasks that run although the map has forgotten them |
| `req` | each request in flight: where it stands and what it has read |
| `up`, `crashes` | the process |
| `raced`, `failed` | history: triggers with two requests in flight at once; triggers whose last request ended in an error |

| action | code |
|---|---|
| `CreateTrigger`, `UpdateTrigger` | the INSERT or UPDATE of `createTrigger`, `updateTrigger` |
| `ReloadTrigger`, `FindUnique`, `AddTrigger` | `reloadTrigger`: task removed; the row read; the row scheduled as it was read |
| `DeleteBegin`, `DeleteRow` | `deleteTrigger`: task removed; row deleted, which fails if it is gone |
| `CheckFunctionLimit`, `CreateFunction`, `DeleteFunction` | the routes of `functions.ts`; deletion cascades in the database only |
| `Crash`, `LoadFromDB` | the process ends; `loadFromDB` before it listens |

Two requests that update one trigger may both remove its task and both schedule
it: the map then knows one of the two, and the other runs until the process ends. That is
`leaked`. `NoStrayTask` says that nothing else leads there.

Abstractions: the id of a function or trigger is never used again (`cuid`); one owner; what a run does
is not a state; HTTP triggers never meet the scheduler. `Invalid` stands for every expression that
`node-cron` refuses: no schema checks an expression before it is stored. A call to the database that fails may
have had its effect, except in `findUnique`. The end of the process at shutdown is a
`Crash`.

### MCCronScheduler

Everything but the numbers is interchangeable.

### Accounts

The accounts and the codes mailed for them. A handler gives way where it awaits the
school's directory and the mail server, nowhere else.

| variable | code |
|---|---|
| `acc` | table `users`, by address and role; `pw` is what the password was last set by, `origin` how the account came to be (history) |
| `codes` | every code issued, in order; those in state `live` are the rows of `email_verifications` not yet verified |
| `req` | each request that awaits the directory or the mail server |

| action | code |
|---|---|
| `Signup`, `SignupProject`, `SignupIssue` | `signup`, `signup_project` up to the directory's answer; then old records deleted, the new one inserted |
| `RequestPasswordReset`, `ResendCode`, `Mail` | the other two ways to issue a code; the mail's outcome, after which a reset may withdraw its record |
| `Verify`, `ConfirmPasswordReset`, `WrongCode` | a code is entered at one of the two endpoints, each with its own choice of the record it looks at |
| `ChangePassword`, `Approve`, `Reject`, `Expire` | `change_password`, the decisions on owners, the clock |

Abstractions: a code is its place in the order of issue, so guessing is left out; a record that has expired
is refused like one without attempts left, which is how `Expire` writes it; rate
limits, names and the student's data are left out, and so are tokens, which are signed
and not stored. `IssueLost` is the second transaction failing after the first. Accounts
of administrators exist from the start or not at all: no endpoint makes one.

### OAuthLogin

EXTENDS `Accounts`: a login with DataGSM matches or makes an account of the same table.

| variable | code |
|---|---|
| `pkce`, `tokens` | `_pkce_store`, `_token_store` |
| `calls` | calls of `oauth_callback` that await DataGSM |
| `sessions`, `started` | history: sessions each login has led to; logins begun |

| action | code |
|---|---|
| `Authorize` | `oauth_authorize`: expired entries discarded, size compared, entry added |
| `CallbackBegin`, `CallbackMatched`, `CallbackNewUser`, `CallbackFailed` | `oauth_callback`: the entry taken before the first `await`; the account matched by role, made if there is none |
| `Exchange` | `exchange_temp_code` |
| `ExpireEntry`, `ExpireToken`, `CleanupStores` | the clock; `_oauth_store_cleanup_loop` |

The actions of `Accounts` leave the stores alone, and `Next` interleaves both. A state
parameter or a temporary code is random and never repeats, so a login names both.

### MCAccounts

One address, so that everything meets.

### HttpsRoutes

| variable | code |
|---|---|
| `ip` | `internal_ip` of each VM |
| `rows` | table `https_routes` |
| `caddy` | for each subdomain, the routes Caddy has, the first matching one first |
| `undone` | history: subdomains whose deletion was rolled back after Caddy was told |

| action | code |
|---|---|
| `AddHttpsRoute` | `add_https_route`: row committed, leftover deleted, route put first, flag committed, with a failure after each |
| `DeleteHttpsRoute`, `DeleteVm` | Caddy told, then the rows deleted; or the COMMIT fails (`DeleteUndone`) |
| `CreateVm` | an address is given, perhaps again |

Each handler is one step: it never awaits. What may come between its calls is a
failure or the end of the process, and the actions end there. Abstractions: routes for different
subdomains do not meet in Caddy; the route's `@id` is a function of the subdomain; a
failing call is one fault, with effect or without.

### MCHttpsRoutes

Interchangeable VMs, addresses and names.

### ClonePlacement

The decision of `create_vm` whether and where the chosen node takes a VM.

| variable | code |
|---|---|
| `candidates`, `disk` | `get_clone_storages` of the node; `specs["disk"]` |
| `reports` | `by_name`: the storages the node has, and what it says of each |
| `i`, `best` | the loop; `selected` and `selected_avail` |
| `pc`, `outcome` | the place in `create_vm`; accepted or the reason for the refusal |

`CheckNode` is the check of RAM, CPU and, without candidates, of the thin volumes
together, skipped if the node does not answer; `AskStorages`, `Visit`, `Decide` are
`select_clone_storage`. Sizes have one unit (the code multiplies gigabytes out exactly), the three conditions that make
a storage unfit are one. Nothing interferes between the steps; they are separate so that the loop's
invariant can be stated and proved. There is no run of this module: the loop meets no other
actor, and its theorems hold for every input. `VmProvisioning` takes the refusal as its
fault `reject`.

## 4. Runs

| run | bounds | shows |
|---|---|---|
| `clean` | 3 jobs, quota 1, 3 VMIDs, 2 IPs; a refusal, or a failure of clone, timeout, configuration and start; two deletable VMs; no crash | nothing is left of a failed creation, no unknown VM, no stray rule, no two running VMs with one IP; deletions succeed in the end; refinement of `VmOrders` |
| `faulty` | 2 jobs, one of them deletable, quota 1; lost answers, failing commits, failing cleanup calls, locks that stay; one crash | type, quota, unique addresses, VMID only with COMPLETED, decisions final |
| `recovery` | 3 jobs, two crashes, quota 2; timeouts, failing gateway and start | no job lost, doubled or overtaken, every job decided, ready means served |
| `duplicate` | 1 job, 1 crash, no failure | violation: one job, two VMs |
| `ports_ready` | 2 VMIDs, 2 IPs, 1 default port with both protocols, 2 external ports, 1 custom port per VM; failing and lost commands, failing creation; users act on ready VMs only | every rule belongs to a record; an external port leads to one VM; a rollback restores the chains |
| `ports_anytime` | 1 VM, 1 default and 1 custom port; every fault, users act at any time | type; a custom port's record has its DNAT rules whatever fails |
| `expiry` | 2 VMs, 11 half-days, every term one or a few days; Proxmox may refuse to stop a VM; crashes and lost rows without limit | expired VMs stay down; deletion only when overdue and after a notice; leases bounded |
| `snapshots` | 3 requests, 3 manual and 2 automatic names, 3 nights; failing or late tasks, failing queries | the manual limit always, the total after a night that went as planned; that night leaves no older automatic snapshot |
| `snapshot_lock` | 2 requests, no night, no failure | violation: two requests block the service for ever |
| `cron` | 3 requests, 1 trigger, 4 functions with a limit of 1, 2 expressions, 1 restart; database calls fail, with effect or without | an enabled trigger is scheduled when its requests are done; tasks are lost track of, or differ from their row, only after requests that crossed, errors or the deletion of the function; the limit is exceeded by fewer than the creations in flight |
| `accounts` | 1 address, 1 project, 2 requests, 2 codes with 1 attempt each; 2 logins, 2 callbacks in flight, a store of limit 0 | one record per kind; a mailed code lasts; a code sets only its own account's password; accounts made by DataGSM have none; a login leads to one session; type, with the size of the store |
| `https` | 3 VMs, 2 addresses, 3 subdomains, 2 routes per VM, 2 routes of one name in Caddy; calls and COMMITs fail | a route shown as registered is the first in Caddy and leads to its VM |

Why the bounds are enough: two jobs of one account and a quota of 1 make
acceptance, the worker's recheck and deletion compete for one place; three VMIDs
against two IPs make an IP be reused while an older VM still holds another VMID, and
let the addresses run out; `MaxProbes = 2` is reached when a VMID
that Proxmox considers free is held by a row. Two crashes are needed to recover a
job that was already recovered once. Nothing but `crashes` is bounded artificially: `nextId`
is bounded by the number of jobs and crashes. The split between `clean` and `faulty` is
one of truth, not of size: the properties of `clean` are what the code achieves when a call
that reports failure has had no effect and the process lives; `duplicate` and the
findings without a run show which of them are lost otherwise. `TypeOK`, the quota, unique addresses and final
decisions hold in every case.

For the ports, two VMIDs and two IPs let an address and a port be given away while
their former rules are still being removed; a default port with both protocols
is needed for a call with several rules of which the later ones fail, and a custom
port on the same internal port for the shared FORWARD rule. One custom port per VM reaches the
limit. `ports_ready` leaves out `rollback` and `remove` faults, under which the code
knowingly leaves rules behind (it logs and goes on), and `Early`, under which the
properties fail without any fault (section 6). Nothing in `PortForwarding` is
bounded beyond its constants.

For expiry, the terms of the code (7, 14, 7, 3, 3 and 15 days) become 1, 3, 1, 1, 1 and 4
days of two units: the order among them that matters is kept (an extension is longer than
the grace period, a notice is kept for longer than an extension), and half days
show the rounding of `timedelta.days`. `MaxNow` = 11 lets a VM be created,
expire, be extended in its grace period, expire again and be deleted, and lets
notices get old enough to be discarded. Two VMs make the thread lose a row between two
visits. `"delete"` faults are left out: a deletion that fails for longer
than `Keep` days outlives the notice of it, which `WarnedBeforeDeletion` would then miss.

For snapshots, three requests with three names are one more than the manual limit, and three
nights let an automatic snapshot survive one night because auto was off and the
next because its deletion failed. Requests and names are symmetric; the liveness
property has a run of its own without the symmetry.

For the scheduler, three requests are two that cross on one trigger and one that creates or deletes
meanwhile; triggers meet only in their function, so one trigger is enough for the task properties and four
functions for the limit, which three creations in flight exceed by two. Two expressions
tell a task of the old row from one of the new. For the accounts, two codes let
one replace the other, of the same kind or of another, while both requests are
still in the mail; a code that expired takes the place of one with its attempts used up, so one attempt is
enough; a second address would meet the first only in the owners of a project.
A store of limit 0 holds one entry, the one more that the code admits. `MaxCodes` is the only
artificial bound. For the routes, two routes of one name in Caddy are a leftover and its
successor (`MaxStale`); three VMs on two addresses let an address be given again
while a leftover still leads to it. 
`CHECK_DEADLOCK FALSE` is said in the runs of five modules. In `CronScheduler`, `Accounts`
and `HttpsRoutes` ids and codes are finite and never used again, so the model stops when they are used
up. `VmProvisioning`: when every
job is decided and no deletion is wanted, the service waits for requests and the
model, whose jobs are finite, stops. `Snapshots`: the service really hangs, which
`snapshot_lock` shows by a property that names what is not done.

**Fairness.** `WF(WorkerStep)`: the worker thread loops for ever and each of its
remote calls has a timeout. `WF(DeleteStep)`: a call begun on the loop runs to its end.
`WF(Restart)`: the container is restarted (`restart: always` in `docker-compose.yml`).
`WF(CloneDone(v))`: Proxmox ends every task. Requests, deletions and crashes are
not fair. `RetrySpec` adds strong fairness of `DeleteBegin` for a
deletable job: `_expire_vms_loop` visits every expired row again each hour.
`Snapshots` has `WF(Serve(r))` for each request: the event loop is fair to the tasks that
are ready, the database grants a free lock, and threads run. In the other modules no liveness is stated: nothing
in the code tries again what failed, neither the registration of a route nor the scheduling of a
trigger. For `VmExpiry`, that a pass is completed in each unit of time is part of `Tick`.

Every property has a mutant of a mapped definition (`PROJECT.json`, `mutants`),
defined beside the definition it changes, which makes the run fail.

## 5. Proofs

### VmProvisioning_proofs

The prover extends what the runs show to any sets of jobs, accounts, VMIDs and IPs and any queue. Each
theorem rests on `ConstAssumption` and on what its line names; where nothing is
named, every fault and any number of crashes are included.

| theorem | states | assumed |
|---|---|---|
| `TypeCorrect` | `Spec => []TypeOK` | |
| `NoSharedAddress` | `Spec => []AddressesUnique` | |
| `QuotaHolds` | `Spec => []UserVmLimit` | |
| `NoEarlyVmid` | `Spec => []VmidOnlyWhenCompleted` | |
| `DecisionsAreFinal` | `Spec => TerminalStable` | |
| `NoJobForgotten` | `Spec => []NoJobLost` | COMMITs succeed (`"db" \notin Faults`) |
| `FirstComeFirstServed` | `Spec => StartedInOrder` | COMMITs succeed |
| `ReadyIsServed` | `Spec => []ReadyServed` | nobody deletes VMs (`Deletable = {}`) |
| `NoOrphanVm` | `Spec => []NoVmWithoutRecord` | `Answered` |
| `NoRunningTwins` | `Spec => []RunningIpsUnique` | `Answered` |
| `FailureIsClean` | `Spec => []FailedLeavesNothing` | `Answered`, no crash |
| `NoStrayRule` | `Spec => []NatBacked` | the gateway answers, no crash |
| `OneVmWithoutCrash` | `Spec => []OneVmPerJob` | COMMITs succeed, no crash |
| `ImplementsOrders` | `Spec => OrdersSafety` | COMMITs succeed, no crash |

`Answered` excludes `lost`, `stuck`, `pve` and `db`: a call that raises has had no
effect, Proxmox deletes what it is asked to delete, and COMMITs succeed; calls may still be refused, clones may
fail or outlast their timeout. The hypotheses are those under which the code keeps the promise; a lost
answer of a clone, a refused deletion in the cleanup, and a failing COMMIT each leave a VM
without a record, a crash forgets `natAdded` or runs a job again, and a failing gateway leaves rules.
`OneVmWithoutCrash` is about the property that run `duplicate` violates: it takes a
crash to break it. `ImplementsOrders` is the refinement `OrdersPromise` without its fairness.

None of the invariants is inductive as it stands.

- Types: `TypeInv` adds `LocalsInv`: from the program counter on where a local
  is used, `create_vm` has a VMID, an IP and a row id, and `delete_vm` those of its
  row. Without it `pve[w.vmid]` might be applied outside its domain.
- Addresses: `UniqueInv` adds `RowsInv`: row ids are below `nextId`, and while the worker stands
  between the choice of the VMID and the commit (`reserve`), no row has
  the chosen VMID. Only the worker inserts, so what it read stays true although deletions
  commit in between; the IP is read in the inserting step.
- Quota: `QuotaInv` carries the recheck across the two steps that follow it: at
  `select` and `reserve` the owner of a limited account has *fewer* rows than the
  quota. Rows are finite, deletions only lower the count (`AddsAtMostOne` and
  the cardinality theorems of the library). It does not depend on the check at acceptance, nor
  on how often a job is run.
- Jobs: `JobsIInv` adds that every job in the memory queue is undecided and in it once, that
  the worker's job is undecided and no longer in the queue, and that no
  undecided job has a VMID; with it, each action changes only undecided jobs, which
  is `TerminalStable`. That the thread dies with the process (`IdleWhenDown`) is a
  lemma of its own: recovery would put the job of a surviving worker in the queue again.
- Queue: `HeldInv` is `NoJobLost` with the converse, nothing but queued jobs in the queue;
  `FifoInv` says that `queued_at` grows along the queue and is bounded by the number of jobs
  ever accepted, so that the next acceptance comes last. Recovery sorts by `queued_at`, hence the
  order survives the restart.
- Ownership: `OwnInv` says whose a VMID is at any time. While the worker works on a record, the record
  has its VMID and IP, or a deletion has removed it; a deletion holds the VMID and IP of the record it began with, and once
  it has destroyed the VM nothing is behind that VMID as long as the record is there. `BuildInv` says
  what `create_vm` has achieved at which point, for its own job. The invariants for the cleanup (`CleanInv`), for running
  VMs (`RunningInv`) and for ready ones (`ServedInv`) rest on both.
- Rules: `NatInv` says that the worker remembers every rule it has added (`natAdded`), that its cleanup
  has removed them before it removes the record, and that a deletion that has removed the rules is overtaken only by
  a creation that is bound to fail.
- One attempt: `RowJobsInv` says that, without crashes, a record belongs to a job that is running or completed, and
  that the worker's record is its job's only one; `DeliveredInv` counts how often the job was marked ready.
  With `QuotaInv` and the bound on the undecided jobs (`HeldBound`) this gives each step of the refinement (`AbstractStep`).

`ReadyIsServed` assumes `Deletable = {}` for a reason that TLC found when the invariant was tried: `delete_vm`
begun on a VM whose creation is failing holds its VMID; once the cleanup has removed the record, the
next creation may get that VMID, and the deletion, going on, destroys a VM nobody asked it to delete (section 6).

### VmExpiry_proofs

From `ExpiryAssumption`, for any set of VMs, any terms and any clock bound:

| theorem | states |
|---|---|
| `TypeCorrect` | `Spec => []TypeOK` |
| `NoEarlyDeletion` | `Spec => DeletedOnlyOverdue` |
| `LeaseHolds` | `Spec => []LeaseBounded` |
| `ExpiredStaysDown` | `Spec => []ExpiredIsDown` |
| `WarnedFirst` | `Spec => WarnedBeforeDeletion`, if deletions do not fail (`"delete" \notin Faults`) |

`TypeOK` is inductive: it says that the time of a pass, `loop.at`, is never
ahead of the clock, and that the thread has a VM exactly when it is at work on one. That
is what `NoEarlyDeletion` needs: the deletions of `PassRest` are decided on the event loop
by the rows as they are in that step, compared with `loop.at`, not by what the thread loaded
before; the mutant that uses the loaded date fails.
`LeaseBounded` is inductive together with `TypeOK`; its argument is `ExpiryStep` (every step
leaves a VM's date alone, sets it to the lease, or adds an extension to a date that
`Extendable` admits) and `DaysLeftBound`: rounding down lets a VM be extended until
just under `Window + 1` days before it expires, hence the bound.
`ExpiredIsDown` speaks of completed passes only. `DownInv` says what holds in the middle of one: a running VM that
nobody excused expires after the last completed pass, and after this one too unless the thread
has still to visit it. `PassInv` relates the pass to the clock. For the
notices, `Told` says of each VM: if it had expired by the last completed pass, its notice is there;
if it has expired by now, the notice is there or it has still to be announced in this pass; and a date
the thread has still to use is the current one unless the VM was extended, which puts
the new date after the clock. That a notice outlives the grace period is `Keep > Grace` of the assumption.

### Snapshots_proofs

From `SnapshotAssumption`, for any number of requests, names and nights, with or without PostgreSQL:

| theorem | states |
|---|---|
| `TypeCorrect` | `Spec => []TypeOK` |
| `LimitHolds` | `Spec => []SnapshotLimit` |
| `NightReplaces` | `Spec => AutosReplaced` |

Proxmox works on a snapshot for one task at a time, and on none that is gone (`TaskInv`). With that, every step changes
snapshots and tasks in one of five ways, and the manual limit is kept because the check and the creation are
in one step of the event loop, under the guard or not. For the total, which the
nightly creation does not check, `NightInv` says that in a night that goes as planned every automatic snapshot
still listed is being deleted, so that `DailyCreate`, which waits for these tasks, comes to at most
`MaxManual` manual ones and its own; hence `MaxManual < MaxTotal` among the assumptions (2 and 3 in `vmcontrol.py`).

### PortForwarding_proofs

From `PortAssumption`, for any VMs, addresses and ports, any sequence of default ports with any protocols, and any
interleaving of the two actors' commands:

| theorem | states | assumed |
|---|---|---|
| `TypeCorrect` | `Spec => []TypeOK` | |
| `PortsAreServed` | `Spec => []CustomPortServed` | `CustomApart` |
| `RollbackWorks` | `Spec => RollbackRestores` | `~Early`; the rollback's commands succeed |
| `NoStrayRules` | `Spec => []RulesBacked` | `~Early`; the commands of rollback and DELETE succeed; `PortsApart` |
| `OneOwner` | `Spec => []OneTarget` | the same |

`CustomApart`: no default port lies in the custom range. `calculate_ports` adds an offset of at most 2000 and the
VMID to a base port of 21000 to 23000, `allocate_random_port` begins at 30000; it holds for VMIDs below 5000.
`PortsApart`: the default ports of different VMs differ, whichever offsets they
have. Offsets, and base ports of nodes, lie 1000 apart, so it holds for VMs of one node with VMIDs less than 1000 apart
(Proxmox gives the lowest free number from 100). Reservations do not need it, since they are checked
against the records; `restore_default_ports` does, because it adds rules before its records can be seen, and without it TLC
finds the stray rule (section 6). `~Early`: two actors that work on one VM undo each other's rules (section 6).
A `-D` that fails is logged and leaves its rule, which is what `rollback` and `remove` exclude;
`-C` and `-A` may fail, with effect or without, and so may the creation.

- `TypeInv` adds to `TypeOK` which list of `_run_iptables_commands` is in use in which phase (`ActOk`), without which
  `Head` and `Last` would be applied to empty sequences, and each actor's operations.
- `RowInv`: ids, VMIDs, addresses and external ports are unique, a record has its row, and an actor's row
  has kept its id. `ListInv`: the rules an operation deals in are those of its own ports, and lead to its VM's address.
- For `CustomPortServed`: the DNAT rules on the event loop's lists belong to no custom port but the one it works on
  (`ForeignInv`), the worker's to none at all, and `AddInv` follows the rule of a new port through `-C`
  and `-A`: to be inspected, to be added, or there. The shared FORWARD rules need not be looked at.
- `OwnInv` (needs `~Early`): both actors' rows are in the table and differ, and the worker's VM has its
  default ports and no others. So a command of one actor changes no rule of the other's VM, although
  both write into one bag.
- `RollInv` compares with the history variable `before`: a rule of the call is as it was found and not enlisted, or it was absent
  and has at most as many copies as there are attempts enlisted (`Occ`). Each `-D` of the
  rollback takes back one of each; the enlisting *before* the `-A` is what makes a lost answer harmless.
- `GateInv`: each rule belongs to a record, and if an operation works on that VM, the rule will
  not outlive its record (`Held`): another record needs it too, or every copy is enlisted for the rollback,
  or it is still on the list of DELETE. `RestoreInv` keeps others from the ports of a restore.
- `RulesBacked` follows from `GateInv`; `OneTarget` follows since two rules of one external port come from two
  records with that port, which `RowInv` makes the same.

What a call consists of is computed by `FlattenSeq` of the community modules, a recursive function over sequences. Its
lemma `Flatten` (a sequence of exactly the elements of its parts) is an induction over a *set* of numbers,
`SetInduction`, which follows from the fact that `<` is well-founded on the naturals: an induction
theorem with a set for its parameter, where those of the library have an operator.

### CronScheduler_proofs

From `CronAssumption`, for any set of requests, triggers and functions, with requests that cross at
every database call, failing calls and restarts:

| theorem | states |
|---|---|
| `TypeCorrect` | `Spec => []TypeOK` |
| `EnabledRuns` | `Spec => []EnabledScheduled` |
| `NoStray` | `Spec => []NoStrayTask` |
| `LimitHolds` | `Spec => []FunctionLimit` |

The invariant is `IInv`, `TypeOK` with three parts, each preserved given
`TypeOK`:

- `ScheduleInv`: an enabled, valid trigger without an error has a task, *or* a request that
  will schedule it is on its way: one that has still to reload, to read the row, or that has read
  it enabled and valid, or will delete the row. One that has read it disabled does not count: whoever
  enabled it since has still to reload it.
- `StrayInv`: the tasks the map forgot belong to triggers whose requests crossed;
  every other trigger is `Orderly`: it has one request at most, no task while that
  request awaits the row, and what is read or scheduled agrees with the row, or the function is gone.
- `LimitInv`: the functions and the creations in flight together stay below the limit and the number
  of requests, each creation having seen a free place; by the
  cardinality theorems of the library.

### OAuthLogin_proofs

From the assumptions of `Accounts` and `OAuthLogin`, for any addresses, projects, requests, logins and
bounds, for the composition of both modules:

| theorem | states |
|---|---|
| `TypeCorrect` | `Spec => []OAuthTypeOK`, with the size of the store |
| `OneRecord` | `Spec => []OneRecordPerRole` |
| `MailedLasts` | `Spec => []MailedCodeLasts` |
| `OwnCode` | `Spec => []PasswordByOwnCode` |
| `NoOAuthPassword` | `Spec => []OAuthAccountsHaveNoPassword` |
| `OneSession` | `Spec => []OneSessionPerLogin` |

Every step changes the table of codes in one of a few ways (a code is issued in place of the
others of its kind, one changes its state or its attempts), and at most one account; the `...Change`
lemmas say so action by action, and the invariants are shown for the changes. `IInv` has five parts:

- `AccInv`: types; `CodesLegit` (a code was issued for an account it can be for: a signup
  for its own role, a reset for its role or, in the users' tab, the administrator's); `OAuthInv`; `PasswordInv`.
- `OneLive`, that at most one code of a kind is live: the insertion and the deletion before it are in
  one step, with no `await` between them.
- `MailedCodeLasts` itself, given `OneLive`.
- `StoresInv`: the store is finite and larger than its limit by one entry at most.
- `LoginInv`: a login is in one place, its entry, a call, a code or a session. Taking the entry *before*
  the first `await` is what makes it so.

### HttpsRoutes_proofs

From `HttpsAssumption`, for any VMs, addresses, names and bounds: `TypeCorrect`
(`Spec => []TypeOK`, with the limit per VM) and `RoutesServed` (`Spec => []SyncedIsServed`). Types need that `rows` is
finite, for the cardinality of a VM's routes. `SyncedIsServed` is inductive
together with the types: `AddRouteFirst` says that a registration
that reports success has put its route first whatever the deletion before it left, and that
an address belongs to one VM as long as the VM lives.

### ClonePlacement_proofs

With `PlacementAssumption` as their hypothesis, for any candidates, sizes and threshold: `TypeCorrect`, `PlacementRight`
(`Spec => []PlacedWhereRoomiest`) and `RefusalRight` (`Spec => []RefusedOnlyWhenFull`). The loop's invariant is
`LoopInv`: among the candidates visited, either none suits, or `best` is one that does, with the most room, and more
than those before it. `ExcludedUnsuitable` relates the code's chain of
exclusions to what suits.

### What is checked only

Checked by TLC only:

- The liveness properties (`RowsEventuallyDeleted`, `EveryJobDecided`) and the fairness of `VmOrders`, thus
  `OrdersPromise` as a whole: liveness under fairness is beyond the prover. `ImplementsOrders` proves its safety part.

The hypotheses on `Faults`, `MaxCrashes`, `Early` and `Deletable` select instances of the models; for each
of them there are such instances in the code's life, and the runs are some of them.

## 6. Findings

- `duplicate`: the guard that is to prevent a second creation looks at `job.vmid`, which is
  written only together with COMPLETED; `NoEarlyVmid` proves that it never fires. After a
  crash at the wrong moment one request builds two VMs.
- `snapshot_lock`: the advisory lock is waited for on the event loop, and its holder needs the
  event loop to release it.

Without a run, found while modelling:

- The cleanup of a failed creation tries to delete a running VM without stopping it, ignores
  the refusal, and deletes the record (`vm_service.py:640`).
- `delete_vm` fails for a record whose VM does not exist in Proxmox, so
  a crash after the reservation leaves a record for ever (`vm_service.py:704`).
- A default port deleted while its VM is being created: the rule is not there yet, the record
  goes, and the worker then forwards the port all the same (`vm_service.py:706`). `Early` in
  `PortForwarding` switches this on.
- `restore_default_ports` looks once whether a port is in use and commits after its calls; a VM created meanwhile
  may get that port under another offset, and the rules of the restore stay without a record and lead its
  port to the wrong VM (`firewall.py:251`).
- `delete_vm` called on a VM whose creation is failing keeps its VMID; if the cleanup removes the record and the next
  creation gets the VMID, the deletion destroys the new VM (`vm_service.py:704`). Found in `VmProvisioning` with
  two jobs, the first deletable, and failing clones and configurations.
- `_process_grace_vms` decides by the rows of its query, makes the remote calls
  for one VM after the other, and does not look at the date again before it stops a VM (`main.py:203`).
- Two owners of one project: the check at signup is not repeated when a code is entered or an
  owner approved (`auth.py:241`).
- The code of a password reset, entered at `/verify`, makes a user account with an empty password
  (`auth.py:373`).
- A cron task runs a function that was disabled, changed or deleted in the version it was scheduled with
  (`schedulerService.ts:32`).
- `BACKEND.md` says 30 days from 15 days before the expiry, the code
  adds 14 from 7 days before and gives 7 at first; a docstring of `main.py` says that
  administrators are told 7 days before, the code says 3.

## 7. Not modelled

- Resize, purpose and the rollback of a snapshot: one remote call or one UPDATE each; the reports to
  administrators and to Discord; the iptables backup.
- Login, refresh and logout: reads, and signed tokens that are not stored; avatars, a file each; rate limits.
- `get_best_server` and `update_server_stats`: only tests call them, since `create_vm` requires the node's name. The rest of the
  monitoring reads and displays.
- The rules for subdomains, ports and names, which refuse before anything changes.
- PUT of a function (one UPDATE, which the scheduler is not told of: see the findings) and the execution
  logs (inserts).
- The serverless runtime: each execution has its own isolate and no state outlives it. The compiler and the isolate are
  library calls.
- Notifications apart from those of `VmExpiry`, FAQ, network and proxy endpoints: single inserts and reads, calls passed
  on.
- Configuration, connections, cryptography.
