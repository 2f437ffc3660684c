--------------------------- MODULE CronScheduler ---------------------------
(***************************************************************************)
(* The serverless service: an owner's functions, their cron triggers in    *)
(* the database, and the scheduled tasks SchedulerService keeps in memory. *)
(*                                                                         *)
(* Node runs one piece of a handler at a time, but every handler gives way *)
(* at each database call: requests for one trigger cross each other there. *)
(* A task keeps the row it was scheduled with.  Stopping it needs the      *)
(* entry in `jobs`: a task replaced in that map runs until the process     *)
(* ends.  HTTP triggers never reach the scheduler.                         *)
(***************************************************************************)
EXTENDS Integers, FiniteSets

CONSTANTS
  Clients,       \* requests that may be in flight at once
  Functions,     \* ids of functions; an id is never used again
  Triggers,      \* ids of cron triggers
  Exprs,         \* valid cron expressions
  MaxFunctions,  \* 5 in the code
  MaxCrashes,    \* bound of the restarts
  Faults         \* "db": a call to the database may raise an error, whether
                 \* or not it had its effect

Invalid == "invalid"  \* an expression node-cron refuses; nothing checks it before

ASSUME CronAssumption ==
  /\ IsFiniteSet(Clients) /\ Clients # {} /\ IsFiniteSet(Functions)
  /\ Invalid \notin Exprs
  /\ MaxFunctions \in Nat \ {0} /\ MaxCrashes \in Nat
  /\ Faults \subseteq {"db"}

VARIABLES
  fn,       \* table sv_functions: ids not used yet, in the table, deleted
  row,      \* table sv_triggers
  jobs,     \* SchedulerService.jobs
  leaked,   \* tasks that run without an entry in jobs
  req,      \* the request of each client
  up,       \* the process runs and has loaded its triggers
  crashes,
  raced,    \* triggers two requests were in flight for at once (history)
  failed    \* triggers a request for ended in an error, and that no request
            \* has reloaded since (history)

vars == <<fn, row, jobs, leaked, req, up, crashes, raced, failed>>
scheduler == <<jobs, leaked>>
process == <<up, crashes>>

State == {"none", "live", "gone"}
Row ==
  [state: {"none", "gone"}] \cup
  [state: {"live"}, fn: Functions, expr: Exprs \cup {Invalid}, enabled: BOOLEAN]
Gone == [state |-> "gone"]
Task == [trigger: Triggers, fn: Functions, expr: Exprs]
Request ==
  [pc: {"idle", "fnCreate"}] \cup
  [pc: {"updated", "query", "delete"}, t: Triggers] \cup
  [pc: {"loaded"}, t: Triggers, found: Row]
Idle == [pc |-> "idle"]

TypeOK ==
  /\ fn \in [Functions -> State]
  /\ row \in [Triggers -> Row]
  /\ \A t \in Triggers : row[t].state = "live" => fn[row[t].fn] = "live"
  /\ jobs \subseteq Task /\ \A j, k \in jobs : j.trigger = k.trigger => j = k
  /\ leaked \subseteq Task
  /\ req \in [Clients -> Request]
  /\ up \in BOOLEAN /\ crashes \in 0..MaxCrashes
  /\ ~up => jobs = {} /\ leaked = {} /\ req = [c \in Clients |-> Idle]
  /\ raced \subseteq Triggers /\ failed \subseteq Triggers

Live == {f \in Functions : fn[f] = "live"}

\* The requests for trigger t, once they have had an effect.
InFlight(t) == {c \in Clients : req[c].pc \notin {"idle", "fnCreate"} /\ req[c].t = t}

Enabled(r) == r.state = "live" /\ r.enabled

Init ==
  /\ fn = [f \in Functions |-> "none"]
  /\ row = [t \in Triggers |-> [state |-> "none"]]
  /\ jobs = {} /\ leaked = {}
  /\ req = [c \in Clients |-> Idle]
  /\ up = TRUE /\ crashes = 0
  /\ raced = {} /\ failed = {}

Begin(c) == up /\ req[c] = Idle
Goto(c, r) == req' = [req EXCEPT ![c] = r]
Race(t) == raced' = IF InFlight(t) # {} THEN raced \cup {t} ELSE raced

\* The request ends in an error: the row may differ from what is scheduled.
Fail(c, t) ==
  /\ Goto(c, Idle)
  /\ failed' = failed \cup {t}

-----------------------------------------------------------------------------
(* SchedulerService.                                                        *)

TaskOf(t, r) == [trigger |-> t, fn |-> r.fn, expr |-> r.expr]
TasksFor(t) == {k \in jobs : k.trigger = t}

\* cron.schedule starts a task for the row as it was read, and puts it where
\* an earlier one may be.  The map forgets that one, it is not stopped.
ScheduleJob_Pushed(t, r) ==
  /\ jobs' = jobs \cup {TaskOf(t, r)}
  /\ UNCHANGED leaked

ScheduleJob(t, r) ==
  /\ jobs' = (jobs \ TasksFor(t)) \cup {TaskOf(t, r)}
  /\ leaked' = leaked \cup TasksFor(t)

RemoveTrigger(t) ==
  /\ jobs' = jobs \ TasksFor(t)
  /\ UNCHANGED leaked

\* addTrigger: the row is read ...
FindUnique(c) ==
  /\ req[c].pc = "query"
  /\ LET t == req[c].t IN
     \/ /\ Goto(c, [pc |-> "loaded", t |-> t, found |-> row[t]])
        /\ UNCHANGED failed
     \/ "db" \in Faults /\ Fail(c, t)
  /\ UNCHANGED <<fn, row, scheduler, process, raced>>

\* ... and scheduled when the event loop returns to the handler, whatever
\* became of it since.  cron.schedule raises an error for an invalid one.
Schedulable_AnyState(r) == r.state = "live"
Schedulable(r) == Enabled(r)

NotScheduled_Stopped(t) == RemoveTrigger(t)
NotScheduled(t) == UNCHANGED scheduler

AddTrigger(c) ==
  /\ req[c].pc = "loaded"
  /\ LET t == req[c].t r == req[c].found IN
     \/ /\ ~Schedulable(r)
        /\ NotScheduled(t)
        /\ Goto(c, Idle) /\ UNCHANGED failed
     \/ /\ Schedulable(r) /\ r.expr # Invalid
        /\ ScheduleJob(t, r)
        /\ Goto(c, Idle) /\ UNCHANGED failed
     \/ /\ Schedulable(r) /\ r.expr = Invalid
        /\ Fail(c, t)
        /\ UNCHANGED scheduler
  /\ UNCHANGED <<fn, row, process, raced>>

\* reloadTrigger removes the task before it awaits the row.
ReloadTrigger(c) ==
  /\ req[c].pc = "updated"
  /\ RemoveTrigger(req[c].t)
  /\ Goto(c, [req[c] EXCEPT !.pc = "query"])
  /\ failed' = failed \ {req[c].t}
  /\ UNCHANGED <<fn, row, process, raced>>

-----------------------------------------------------------------------------
(* triggerService.                                                          *)

\* A call that raises an error may have had its effect; the request ends.
Perform(c, t, next, effect) ==
  \/ effect /\ Goto(c, next) /\ UNCHANGED failed
  \/ "db" \in Faults /\ (effect \/ UNCHANGED row) /\ Fail(c, t)

CreateTrigger(c, t, f) ==
  /\ Begin(c) /\ fn[f] = "live" /\ row[t].state = "none"
  /\ \E e \in Exprs \cup {Invalid}, on \in BOOLEAN :
       Perform(c, t, IF on THEN [pc |-> "query", t |-> t] ELSE Idle,
         row' = [row EXCEPT ![t] =
                   [state |-> "live", fn |-> f, expr |-> e, enabled |-> on]])
  /\ UNCHANGED <<fn, scheduler, process, raced>>

UpdateTrigger(c, t) ==
  /\ Begin(c) /\ row[t].state = "live"
  /\ \E e \in Exprs \cup {Invalid}, on \in BOOLEAN :
       Perform(c, t, [pc |-> "updated", t |-> t],
         row' = [row EXCEPT ![t].expr = e, ![t].enabled = on])
  /\ Race(t)
  /\ UNCHANGED <<fn, scheduler, process>>

\* deleteTrigger removes the task, then the row, which may be gone by then or
\* even before: only the function named in the path is looked up.
DeleteBegin(c, t) ==
  /\ Begin(c) /\ row[t].state # "none"
  /\ RemoveTrigger(t)
  /\ Goto(c, [pc |-> "delete", t |-> t])
  /\ Race(t)
  /\ UNCHANGED <<fn, row, process, failed>>

DeleteRow(c) ==
  /\ req[c].pc = "delete"
  /\ LET t == req[c].t IN
     \/ /\ row[t].state = "live"
        /\ Perform(c, t, Idle, row' = [row EXCEPT ![t] = Gone])
     \/ /\ row[t].state # "live"
        /\ Fail(c, t) /\ UNCHANGED row
  /\ UNCHANGED <<fn, scheduler, process, raced>>

-----------------------------------------------------------------------------
(* The functions.                                                           *)

\* checkFunctionLimit counts; the compilation is awaited before the insert.
BelowLimit_OneMore == Cardinality(Live) <= MaxFunctions
BelowLimit == Cardinality(Live) < MaxFunctions

CheckFunctionLimit(c) ==
  /\ Begin(c) /\ BelowLimit
  /\ Goto(c, [pc |-> "fnCreate"])
  /\ UNCHANGED <<fn, row, scheduler, process, raced, failed>>

CreateFunction(c) ==
  /\ req[c].pc = "fnCreate"
  /\ \/ \E f \in Functions : fn[f] = "none" /\ fn' = [fn EXCEPT ![f] = "live"]
     \/ UNCHANGED fn  \* the compilation fails, or the name is taken
  /\ Goto(c, Idle)
  /\ UNCHANGED <<row, scheduler, process, raced, failed>>

\* Deleting a function deletes its triggers in the database (onDelete:
\* Cascade); the scheduler is not told.
DeleteFunction(f) ==
  /\ up /\ fn[f] = "live"
  /\ fn' = [fn EXCEPT ![f] = "gone"]
  /\ row' = [t \in Triggers |->
               IF row[t].state = "live" /\ row[t].fn = f THEN Gone ELSE row[t]]
  /\ UNCHANGED <<scheduler, req, process, raced, failed>>

-----------------------------------------------------------------------------
(* The process.                                                             *)
Crash ==
  /\ up /\ crashes < MaxCrashes
  /\ up' = FALSE /\ crashes' = crashes + 1
  /\ jobs' = {} /\ leaked' = {}
  /\ req' = [c \in Clients |-> Idle]
  /\ raced' = {} /\ failed' = {}
  /\ UNCHANGED <<fn, row>>

\* loadFromDB schedules every enabled trigger with a valid expression before
\* the process listens.
LoadFromDB ==
  /\ ~up /\ up' = TRUE
  /\ jobs' = {TaskOf(t, row[t]) : t \in {u \in Triggers : Enabled(row[u])
                                                /\ row[u].expr # Invalid}}
  /\ UNCHANGED <<fn, row, leaked, req, crashes, raced, failed>>

Next ==
  \/ \E c \in Clients :
       \/ FindUnique(c) \/ AddTrigger(c) \/ ReloadTrigger(c) \/ DeleteRow(c)
       \/ CheckFunctionLimit(c) \/ CreateFunction(c)
       \/ \E t \in Triggers : \/ UpdateTrigger(c, t) \/ DeleteBegin(c, t)
                              \/ \E f \in Functions : CreateTrigger(c, t, f)
  \/ \E f \in Functions : DeleteFunction(f)
  \/ Crash \/ LoadFromDB

Spec == Init /\ [][Next]_vars

-----------------------------------------------------------------------------
(* Properties.                                                              *)

\* However requests cross each other, a trigger that is enabled is scheduled
\* when they are done: a request that takes a task away reads the row after
\* that and puts back what it finds.  Errors and invalid expressions excepted.
EnabledScheduled ==
  \A t \in Triggers :
    up /\ Enabled(row[t]) /\ row[t].expr # Invalid /\ InFlight(t) = {} /\ t \notin failed
      => TasksFor(t) # {}

\* As long as the requests for a trigger come one after the other, it never
\* has two tasks, and its task runs when its row says so; only the deletion of
\* its function leaves one behind.
NoStrayTask ==
  /\ \A k \in leaked : k.trigger \in raced
  /\ \A k \in jobs :
       k.trigger \notin raced \cup failed /\ InFlight(k.trigger) = {}
         => \/ Enabled(row[k.trigger]) /\ k = TaskOf(k.trigger, row[k.trigger])
            \/ fn[k.fn] = "gone"

\* An owner has more than MaxFunctions functions only by as many as creations
\* were in flight together: each counted before the others had inserted.
FunctionLimit == Cardinality(Live) <= MaxFunctions + Cardinality(Clients) - 1
=============================================================================
