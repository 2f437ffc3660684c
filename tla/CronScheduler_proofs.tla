------------------------ MODULE CronScheduler_proofs ------------------------
(* Proofs about CronScheduler, for any number of requests, triggers and      *)
(* functions.                                                                *)
EXTENDS CronScheduler, FiniteSetTheorems, TLAPS

-----------------------------------------------------------------------------
(* Types.                                                                    *)

LEMMA RowTypes ==
  /\ Gone \in Row /\ Gone.state # "live" /\ Gone.state # "none"
  /\ Idle \in Request
  /\ \A f \in Functions, e \in Exprs \cup {Invalid}, on \in BOOLEAN :
       [state |-> "live", fn |-> f, expr |-> e, enabled |-> on] \in Row
BY DEF Gone, Row, Idle, Request

\* What an update makes of a trigger's row.
LEMMA UpdatedRow ==
  ASSUME NEW t \in Triggers, row \in [Triggers -> Row], row[t].state = "live",
         NEW e \in Exprs \cup {Invalid}, NEW on \in BOOLEAN,
         row' = [row EXCEPT ![t].expr = e, ![t].enabled = on]
  PROVE  /\ row' \in [Triggers -> Row]
         /\ \A u \in Triggers : u # t => row'[u] = row[u]
         /\ row'[t].state = "live" /\ row'[t].fn = row[t].fn
         /\ row'[t].expr = e /\ row'[t].enabled = on
<1> DEFINE r == row[t]
           s == [r EXCEPT !.expr = e]
           q == [s EXCEPT !.enabled = on]
<1>1. r \in Row /\ r.state = "live"
  OBVIOUS
<1>2. row' = [[row EXCEPT ![t] = s] EXCEPT ![t] = q]
  OBVIOUS
<1> HIDE DEF r
<1>3. r \in [state: {"live"}, fn: Functions, expr: Exprs \cup {Invalid}, enabled: BOOLEAN]
  BY <1>1 DEF Row
<1>4. /\ s \in [state: {"live"}, fn: Functions, expr: Exprs \cup {Invalid}, enabled: BOOLEAN]
      /\ s.fn = r.fn /\ s.expr = e
  BY <1>3
<1> HIDE DEF s
<1>5. /\ q \in [state: {"live"}, fn: Functions, expr: Exprs \cup {Invalid}, enabled: BOOLEAN]
      /\ q.fn = r.fn /\ q.expr = e /\ q.enabled = on /\ q.state = "live"
  BY <1>4
<1>6. q \in Row
  BY <1>5 DEF Row
<1> HIDE DEF q
<1>7. /\ row' \in [Triggers -> Row] /\ row'[t] = q
      /\ \A u \in Triggers : u # t => row'[u] = row[u]
  BY <1>2, <1>6
<1>8. row[t].fn = r.fn
  BY DEF r
<1> QED
  BY <1>5, <1>7, <1>8

\* A call to the database that changes the row of t.
RowStep(t) ==
  /\ row' \in [Triggers -> Row]
  /\ \A u \in Triggers : u # t => row'[u] = row[u]
  /\ row'[t].state = "live" => fn[row'[t].fn] = "live"
  /\ row'[t].state = "none" => row[t].state = "none"

LEMMA CreateRow ==
  ASSUME TypeOK, NEW c \in Clients, NEW t \in Triggers, NEW f \in Functions,
         CreateTrigger(c, t, f)
  PROVE  /\ RowStep(t)
         /\ \/ /\ req' = [req EXCEPT ![c] = Idle]
               /\ failed' = failed \cup {t}
            \/ /\ req' = [req EXCEPT ![c] = Idle]
               /\ failed' = failed /\ row'[t].state = "live" /\ ~row'[t].enabled
            \/ /\ req' = [req EXCEPT ![c] = [pc |-> "query", t |-> t]]
               /\ failed' = failed /\ row'[t].state = "live"
<1>1. PICK e \in Exprs \cup {Invalid}, on \in BOOLEAN :
        Perform(c, t, IF on THEN [pc |-> "query", t |-> t] ELSE Idle,
          row' = [row EXCEPT ![t] =
                    [state |-> "live", fn |-> f, expr |-> e, enabled |-> on]])
  BY DEF CreateTrigger
<1> DEFINE r == [state |-> "live", fn |-> f, expr |-> e, enabled |-> on]
<1>2. r \in Row /\ r.state = "live" /\ r.fn = f /\ r.enabled = on
  BY RowTypes
<1>3. row \in [Triggers -> Row] /\ fn[f] = "live" /\ row[t].state = "none"
  BY DEF TypeOK, CreateTrigger
<1> HIDE DEF r
<1>4. row' = row \/ row' = [row EXCEPT ![t] = r]
  BY <1>1 DEF Perform, r
<1>5. RowStep(t)
  BY <1>2, <1>3, <1>4 DEF RowStep
<1>6. CASE on
  BY <1>1, <1>2, <1>3, <1>4, <1>5, <1>6 DEF Perform, Fail, Goto, r
<1>7. CASE ~on
  BY <1>1, <1>2, <1>3, <1>4, <1>5, <1>7 DEF Perform, Fail, Goto, r
<1> QED
  BY <1>6, <1>7

LEMMA UpdateRow ==
  ASSUME TypeOK, NEW c \in Clients, NEW t \in Triggers, UpdateTrigger(c, t)
  PROVE  /\ RowStep(t)
         /\ \/ /\ req' = [req EXCEPT ![c] = Idle]
               /\ failed' = failed \cup {t}
            \/ /\ req' = [req EXCEPT ![c] = [pc |-> "updated", t |-> t]]
               /\ failed' = failed
<1>1. PICK e \in Exprs \cup {Invalid}, on \in BOOLEAN :
        Perform(c, t, [pc |-> "updated", t |-> t],
          row' = [row EXCEPT ![t].expr = e, ![t].enabled = on])
  BY DEF UpdateTrigger
<1>2. row \in [Triggers -> Row] /\ row[t].state = "live" /\ fn[row[t].fn] = "live"
  BY DEF TypeOK, UpdateTrigger
<1>3. row' = row \/ row' = [row EXCEPT ![t].expr = e, ![t].enabled = on]
  BY <1>1 DEF Perform
<1>4. ASSUME row' = row PROVE RowStep(t)
  BY <1>2, <1>4 DEF RowStep
<1>5. ASSUME row' = [row EXCEPT ![t].expr = e, ![t].enabled = on] PROVE RowStep(t)
  <2>1. /\ row' \in [Triggers -> Row] /\ \A u \in Triggers : u # t => row'[u] = row[u]
        /\ row'[t].state = "live" /\ row'[t].fn = row[t].fn
    BY <1>2, <1>5, UpdatedRow
  <2> QED BY <1>2, <2>1 DEF RowStep
<1>6. \/ /\ req' = [req EXCEPT ![c] = Idle]
         /\ failed' = failed \cup {t}
      \/ /\ req' = [req EXCEPT ![c] = [pc |-> "updated", t |-> t]]
         /\ failed' = failed
  BY <1>1 DEF Perform, Fail, Goto
<1> QED
  BY <1>3, <1>4, <1>5, <1>6

LEMMA DeletedRow ==
  ASSUME TypeOK, NEW c \in Clients, DeleteRow(c)
  PROVE  /\ req[c].t \in Triggers /\ RowStep(req[c].t)
         /\ req' = [req EXCEPT ![c] = Idle]
         /\ \/ failed' = failed \cup {req[c].t}
            \/ failed' = failed /\ row'[req[c].t].state # "live"
<1> DEFINE t == req[c].t
<1>1. t \in Triggers
  <2>1. req[c] \in Request /\ req[c].pc = "delete"
    BY DEF TypeOK, DeleteRow
  <2> QED BY <2>1 DEF Request
<1>2. row \in [Triggers -> Row] /\ (row[t].state = "live" => fn[row[t].fn] = "live")
  BY <1>1 DEF TypeOK
<1>3. /\ row' = row \/ row' = [row EXCEPT ![t] = Gone]
      /\ req' = [req EXCEPT ![c] = Idle]
      /\ \/ failed' = failed \cup {t}
         \/ failed' = failed /\ row' = [row EXCEPT ![t] = Gone]
  BY DEF DeleteRow, Perform, Fail, Goto
<1> HIDE DEF t
<1>4. RowStep(t)
  BY <1>1, <1>2, <1>3, RowTypes DEF RowStep
<1>5. row' = [row EXCEPT ![t] = Gone] => row'[t].state # "live"
  BY <1>1, <1>2, RowTypes
<1> QED
  BY <1>1, <1>3, <1>4, <1>5 DEF t

-----------------------------------------------------------------------------
(* Each action keeps the types.                                              *)

RowsLive == \A t \in Triggers : row[t].state = "live" => fn[row[t].fn] = "live"

\* A step of one request.
ReqStep(c) == \E r \in Request : req' = [req EXCEPT ![c] = r]

JobsType ==
  /\ jobs \subseteq Task /\ \A j, k \in jobs : j.trigger = k.trigger => j = k
  /\ leaked \subseteq Task

LEMMA TaskType ==
  ASSUME NEW t \in Triggers, NEW r \in Row, r.state = "live", r.expr # Invalid
  PROVE  TaskOf(t, r) \in Task /\ TaskOf(t, r).trigger = t /\ TaskOf(t, r).fn = r.fn
BY DEF TaskOf, Task, Row

LEMMA ScheduledJobs ==
  ASSUME JobsType, NEW t \in Triggers, NEW r \in Row, r.state = "live", r.expr # Invalid,
         ScheduleJob(t, r)
  PROVE  JobsType'
<1> DEFINE k == TaskOf(t, r)
<1>1. k \in Task /\ k.trigger = t
  BY TaskType
<1>2. jobs' = (jobs \ TasksFor(t)) \cup {k} /\ leaked' = leaked \cup TasksFor(t)
  BY DEF ScheduleJob
<1> HIDE DEF k
<1> QED
  BY <1>1, <1>2 DEF JobsType, TasksFor

LEMMA RemovedJobs ==
  ASSUME JobsType, NEW t, RemoveTrigger(t)
  PROVE  JobsType'
BY DEF JobsType, RemoveTrigger

\* What a request waits for.
LEMMA RequestTypes ==
  ASSUME TypeOK, NEW c \in Clients
  PROVE  /\ req[c].pc \notin {"idle", "fnCreate"} => req[c].t \in Triggers
         /\ req[c].pc = "loaded" => req[c].found \in Row
<1>1. req[c] \in Request
  BY DEF TypeOK
<1> DEFINE q == req[c]
<1> HIDE DEF q
<1>2. q \in Request => /\ q.pc \notin {"idle", "fnCreate"} => q.t \in Triggers
                       /\ q.pc = "loaded" => q.found \in Row
  BY DEF Request
<1> QED
  BY <1>1, <1>2 DEF q

LEMMA TypeKept ==
  ASSUME TypeOK, [Next]_vars
  PROVE  TypeOK'
<1>0. /\ fn \in [Functions -> State] /\ row \in [Triggers -> Row] /\ RowsLive
      /\ JobsType /\ req \in [Clients -> Request] /\ up \in BOOLEAN
      /\ crashes \in 0..MaxCrashes
      /\ raced \subseteq Triggers /\ failed \subseteq Triggers
      /\ ~up => jobs = {} /\ leaked = {} /\ req = [c \in Clients |-> Idle]
  BY DEF TypeOK, RowsLive, JobsType
<1>a. ASSUME NEW c \in Clients, req[c] # Idle, ~up PROVE FALSE
  BY <1>0, <1>a
<1>1. ASSUME up, up' = up, crashes' = crashes,
             fn' \in [Functions -> State], row' \in [Triggers -> Row], RowsLive', JobsType',
             req' \in [Clients -> Request],
             raced' \subseteq Triggers, failed' \subseteq Triggers
      PROVE  TypeOK'
  BY <1>0, <1>1 DEF TypeOK, RowsLive, JobsType
<1>2. ASSUME NEW c \in Clients, FindUnique(c) PROVE TypeOK'
  <2>1. req[c].t \in Triggers /\ up
    BY <1>0, <1>2, RequestTypes DEF FindUnique, Idle
  <2> DEFINE q == [pc |-> "loaded", t |-> req[c].t, found |-> row[req[c].t]]
  <2>2. q \in Request /\ Idle \in Request
    BY <1>0, <2>1, RowTypes DEF Request
  <2>3. /\ req' = [req EXCEPT ![c] = q] \/ req' = [req EXCEPT ![c] = Idle]
        /\ failed' = failed \/ failed' = failed \cup {req[c].t}
    BY <1>2 DEF FindUnique, Fail, Goto
  <2> HIDE DEF q
  <2>4. req' \in [Clients -> Request] /\ failed' \subseteq Triggers
    BY <1>0, <2>1, <2>2, <2>3
  <2>5. UNCHANGED <<fn, row, jobs, leaked, up, crashes, raced>>
    BY <1>2 DEF FindUnique, scheduler, process
  <2> QED BY <1>0, <1>1, <2>1, <2>4, <2>5 DEF RowsLive, JobsType
<1>3. ASSUME NEW c \in Clients, AddTrigger(c) PROVE TypeOK'
  <2>1. req[c].t \in Triggers /\ req[c].found \in Row /\ up
    BY <1>0, <1>3, RequestTypes DEF AddTrigger, Idle
  <2>2. /\ req' = [req EXCEPT ![c] = Idle]
        /\ failed' = failed \/ failed' = failed \cup {req[c].t}
    BY <1>3 DEF AddTrigger, Fail, Goto
  <2>3. req' \in [Clients -> Request] /\ failed' \subseteq Triggers
    BY <1>0, <2>1, <2>2, RowTypes
  <2>4. JobsType'
    <3>1. CASE UNCHANGED <<jobs, leaked>>
      BY <1>0, <3>1 DEF JobsType
    <3>2. CASE /\ Schedulable(req[c].found) /\ req[c].found.expr # Invalid
               /\ ScheduleJob(req[c].t, req[c].found)
      BY <1>0, <2>1, <3>2, ScheduledJobs DEF Schedulable, Enabled
    <3> QED BY <1>3, <3>1, <3>2 DEF AddTrigger, NotScheduled, scheduler
  <2>5. UNCHANGED <<fn, row, up, crashes, raced>>
    BY <1>3 DEF AddTrigger, process
  <2> QED BY <1>0, <1>1, <2>1, <2>3, <2>4, <2>5 DEF RowsLive
<1>4. ASSUME NEW c \in Clients, ReloadTrigger(c) PROVE TypeOK'
  <2>1. req[c].t \in Triggers /\ up
    BY <1>0, <1>4, RequestTypes DEF ReloadTrigger, Idle
  <2>2. [req[c] EXCEPT !.pc = "query"] \in Request
    <3> DEFINE q == req[c]
    <3>1. q \in Request /\ q.pc = "updated"
      BY <1>0, <1>4 DEF ReloadTrigger
    <3> HIDE DEF q
    <3>2. [q EXCEPT !.pc = "query"] \in Request
      BY <3>1 DEF Request
    <3> QED BY <3>2 DEF q
  <2>3. req' \in [Clients -> Request] /\ failed' \subseteq Triggers
    BY <1>0, <1>4, <2>2 DEF ReloadTrigger, Goto
  <2>4. JobsType'
    BY <1>0, <1>4, RemovedJobs DEF ReloadTrigger
  <2>5. UNCHANGED <<fn, row, up, crashes, raced>>
    BY <1>4 DEF ReloadTrigger, process
  <2> QED BY <1>0, <1>1, <2>1, <2>3, <2>4, <2>5 DEF RowsLive
<1>5. ASSUME NEW c \in Clients, NEW t \in Triggers, RowStep(t), ReqStep(c), up,
             failed' = failed \/ failed' = failed \cup {t},
             raced' = raced \/ raced' = raced \cup {t},
             UNCHANGED <<fn, jobs, leaked, up, crashes>>
      PROVE  TypeOK'
  <2>1. row' \in [Triggers -> Row] /\ RowsLive'
    BY <1>0, <1>5 DEF RowStep, RowsLive
  <2>2. req' \in [Clients -> Request]
    BY <1>0, <1>5 DEF ReqStep
  <2>3. JobsType'
    BY <1>0, <1>5 DEF JobsType
  <2>4. fn' \in [Functions -> State] /\ failed' \subseteq Triggers /\ raced' \subseteq Triggers
    BY <1>0, <1>5
  <2> QED BY <1>1, <1>5, <2>1, <2>2, <2>3, <2>4
<1>6. ASSUME NEW c \in Clients, NEW t \in Triggers, NEW f \in Functions, CreateTrigger(c, t, f)
      PROVE  TypeOK'
  <2>1. [pc |-> "query", t |-> t] \in Request
    BY DEF Request
  <2>2. RowStep(t) /\ ReqStep(c) /\ (failed' = failed \/ failed' = failed \cup {t})
    BY <1>6, <2>1, CreateRow, RowTypes DEF ReqStep
  <2>3. up /\ raced' = raced /\ UNCHANGED <<fn, jobs, leaked, up, crashes>>
    BY <1>6 DEF CreateTrigger, Begin, scheduler, process
  <2> QED BY <1>5, <2>2, <2>3
<1>7. ASSUME NEW c \in Clients, NEW t \in Triggers, UpdateTrigger(c, t) PROVE TypeOK'
  <2>1. [pc |-> "updated", t |-> t] \in Request
    BY DEF Request
  <2>2. RowStep(t) /\ ReqStep(c) /\ (failed' = failed \/ failed' = failed \cup {t})
    BY <1>7, <2>1, UpdateRow, RowTypes DEF ReqStep
  <2>3. up /\ (raced' = raced \/ raced' = raced \cup {t})
        /\ UNCHANGED <<fn, jobs, leaked, up, crashes>>
    BY <1>7 DEF UpdateTrigger, Begin, Race, scheduler, process
  <2> QED BY <1>5, <2>2, <2>3
<1>8. ASSUME NEW c \in Clients, NEW t \in Triggers, DeleteBegin(c, t) PROVE TypeOK'
  <2>1. [pc |-> "delete", t |-> t] \in Request
    BY DEF Request
  <2>2. req' \in [Clients -> Request] /\ raced' \subseteq Triggers
    BY <1>0, <1>8, <2>1 DEF DeleteBegin, Goto, Race
  <2>3. JobsType'
    BY <1>0, <1>8, RemovedJobs DEF DeleteBegin
  <2>4. up /\ UNCHANGED <<fn, row, up, crashes, failed>>
    BY <1>8 DEF DeleteBegin, Begin, process
  <2> QED BY <1>0, <1>1, <2>2, <2>3, <2>4 DEF RowsLive
<1>9. ASSUME NEW c \in Clients, DeleteRow(c) PROVE TypeOK'
  <2>1. /\ req[c].t \in Triggers /\ RowStep(req[c].t) /\ ReqStep(c)
        /\ failed' = failed \/ failed' = failed \cup {req[c].t}
    BY <1>9, DeletedRow, RowTypes DEF ReqStep
  <2>2. raced' = raced /\ UNCHANGED <<fn, jobs, leaked, up, crashes>>
    BY <1>9 DEF DeleteRow, scheduler, process
  <2>3. up
    BY <1>0, <1>9 DEF DeleteRow, Idle
  <2> QED BY <1>5, <2>1, <2>2, <2>3
<1>10. ASSUME NEW c \in Clients, CheckFunctionLimit(c) \/ CreateFunction(c) PROVE TypeOK'
  <2>1. up
    BY <1>0, <1>10 DEF CheckFunctionLimit, CreateFunction, Begin, Idle
  <2>2. UNCHANGED <<row, jobs, leaked, up, crashes, raced, failed>>
    BY <1>10 DEF CheckFunctionLimit, CreateFunction, scheduler, process
  <2>3. req' \in [Clients -> Request]
    BY <1>0, <1>10, RowTypes DEF CheckFunctionLimit, CreateFunction, Goto, Request
  <2>4. /\ fn' \in [Functions -> State]
        /\ \A f \in Functions : fn[f] = "live" => fn'[f] = "live"
    BY <1>0, <1>10 DEF CheckFunctionLimit, CreateFunction, State
  <2>5. RowsLive' /\ JobsType'
    <3>1. \A t \in Triggers : row[t].state = "live" => row[t].fn \in Functions
      BY <1>0 DEF Row
    <3> QED BY <1>0, <2>2, <2>4, <3>1 DEF RowsLive, JobsType
  <2> QED BY <1>0, <1>1, <2>1, <2>2, <2>3, <2>4, <2>5
<1>11. ASSUME NEW f \in Functions, DeleteFunction(f) PROVE TypeOK'
  <2>1. up /\ UNCHANGED <<jobs, leaked, req, up, crashes, raced, failed>>
    BY <1>11 DEF DeleteFunction, scheduler, process
  <2>2. fn' = [fn EXCEPT ![f] = "gone"] /\ fn' \in [Functions -> State]
    BY <1>0, <1>11 DEF DeleteFunction, State
  <2>3. \A t \in Triggers : row'[t] = IF row[t].state = "live" /\ row[t].fn = f
                                      THEN Gone ELSE row[t]
    BY <1>11 DEF DeleteFunction
  <2>4. row' \in [Triggers -> Row]
    BY <1>0, <1>11, RowTypes DEF DeleteFunction
  <2>5. RowsLive'
    <3>1. \A t \in Triggers : row[t].state = "live" => row[t].fn \in Functions
      BY <1>0 DEF Row
    <3> QED BY <1>0, <2>2, <2>3, <3>1, RowTypes DEF RowsLive
  <2> QED BY <1>0, <1>1, <2>1, <2>2, <2>4, <2>5 DEF JobsType
<1>12. CASE Crash
  <2>1. crashes' \in 0..MaxCrashes
    BY <1>0, <1>12, CronAssumption DEF Crash
  <2>2. req' \in [Clients -> Request]
    BY <1>12, RowTypes DEF Crash
  <2> QED BY <1>0, <1>12, <2>1, <2>2 DEF Crash, TypeOK
<1>13. CASE LoadFromDB
  <2>1. JobsType'
    <3>1. ASSUME NEW j \in jobs'
          PROVE  j.trigger \in Triggers /\ j \in Task /\ j = TaskOf(j.trigger, row[j.trigger])
      <4>1. PICK t \in Triggers : /\ Enabled(row[t]) /\ row[t].expr # Invalid
                                  /\ j = TaskOf(t, row[t])
        BY <1>13, <3>1 DEF LoadFromDB
      <4>2. row[t] \in Row /\ row[t].state = "live"
        BY <1>0, <4>1 DEF Enabled
      <4> QED BY <4>1, <4>2, TaskType
    <3> QED BY <1>0, <1>13, <3>1 DEF JobsType, LoadFromDB
  <2> QED BY <1>0, <1>13, <2>1 DEF LoadFromDB, TypeOK, JobsType
<1>14. CASE UNCHANGED vars
  BY <1>14 DEF vars, scheduler, process, TypeOK
<1> QED
  BY <1>2, <1>3, <1>4, <1>6, <1>7, <1>8, <1>9, <1>10, <1>11, <1>12, <1>13, <1>14 DEF Next

-----------------------------------------------------------------------------
(* EnabledScheduled.                                                         *)

\* A request that will bring the task back, or take the row away.
Pending(t) ==
  \E c \in Clients :
    \/ req[c].pc \in {"updated", "query", "delete"} /\ req[c].t = t
    \/ /\ req[c].pc = "loaded" /\ req[c].t = t
       /\ Enabled(req[c].found) /\ req[c].found.expr # Invalid

Due(t) == up /\ Enabled(row[t]) /\ row[t].expr # Invalid /\ t \notin failed

ScheduleInv == \A t \in Triggers : Due(t) => TasksFor(t) # {} \/ Pending(t)

\* A step of the request c, which is not for t, or leaves t due to nobody.
LEMMA OtherRequest ==
  ASSUME TypeOK, NEW c \in Clients, NEW t \in Triggers, Pending(t),
         NEW r, req' = [req EXCEPT ![c] = r],
         req[c].pc \in {"idle", "fnCreate"} \/ req[c].t # t
  PROVE  Pending(t)'
<1>1. \A d \in Clients : d # c => req'[d] = req[d]
  BY DEF TypeOK
<1>2. PICK d \in Clients :
        \/ req[d].pc \in {"updated", "query", "delete"} /\ req[d].t = t
        \/ /\ req[d].pc = "loaded" /\ req[d].t = t
           /\ Enabled(req[d].found) /\ req[d].found.expr # Invalid
  BY DEF Pending
<1>3. d # c
  BY <1>2
<1> QED
  BY <1>1, <1>2, <1>3 DEF Pending, Enabled

LEMMA ScheduleKept ==
  ASSUME TypeOK, ScheduleInv, [Next]_vars
  PROVE  ScheduleInv'
<1> SUFFICES ASSUME NEW t \in Triggers, Due(t)'
             PROVE  TasksFor(t)' # {} \/ Pending(t)'
  BY DEF ScheduleInv
<1>0. Due(t) => TasksFor(t) # {} \/ Pending(t)
  BY DEF ScheduleInv
<1>t. req \in [Clients -> Request] /\ row \in [Triggers -> Row]
  BY DEF TypeOK
<1>i. Idle.pc = "idle"
  BY DEF Idle
\* t stays due, and the step is of a request for another trigger.
<1>1. ASSUME NEW c \in Clients, NEW r, req' = [req EXCEPT ![c] = r],
             req[c].pc \in {"idle", "fnCreate"} \/ req[c].t # t,
             TasksFor(t) \subseteq TasksFor(t)', Due(t)
      PROVE  TasksFor(t)' # {} \/ Pending(t)'
  BY <1>0, <1>1, OtherRequest
<1>2. ASSUME NEW c \in Clients, FindUnique(c) PROVE TasksFor(t)' # {} \/ Pending(t)'
  <2> DEFINE q == [pc |-> "loaded", t |-> req[c].t, found |-> row[req[c].t]]
  <2>1. row' = row /\ up' = up /\ TasksFor(t)' = TasksFor(t)
    BY <1>2 DEF FindUnique, process, scheduler, TasksFor
  <2>2. CASE req[c].t # t
    <3>1. Due(t)
      BY <1>2, <2>1, <2>2 DEF Due, Enabled, FindUnique, Fail
    <3>2. req' = [req EXCEPT ![c] = q] \/ req' = [req EXCEPT ![c] = Idle]
      BY <1>2 DEF FindUnique, Fail, Goto
    <3> HIDE DEF q
    <3> QED BY <1>1, <2>1, <2>2, <3>1, <3>2
  <2>3. CASE req[c].t = t
    <3>1. req' = [req EXCEPT ![c] = q]
      BY <1>2, <2>3 DEF Due, FindUnique, Fail, Goto
    <3>2. q.pc = "loaded" /\ q.t = t /\ q.found = row[t]
      BY <2>3
    <3> HIDE DEF q
    <3>3. req'[c] = q
      BY <1>t, <3>1
    <3> QED BY <2>1, <3>2, <3>3 DEF Pending, Due, Enabled
  <2> QED BY <2>2, <2>3
<1>3. ASSUME NEW c \in Clients, AddTrigger(c) PROVE TasksFor(t)' # {} \/ Pending(t)'
  <2>1. /\ row' = row /\ up' = up /\ req[c].pc = "loaded"
        /\ req' = [req EXCEPT ![c] = Idle]
        /\ failed' = failed \/ failed' = failed \cup {req[c].t}
    BY <1>3 DEF AddTrigger, process, Fail, Goto
  <2>2. Due(t)
    BY <2>1 DEF Due, Enabled
  <2>3. CASE UNCHANGED scheduler /\ ~(Schedulable(req[c].found) /\ req[c].found.expr # Invalid)
    <3>1. TasksFor(t)' = TasksFor(t)
      BY <2>3 DEF scheduler, TasksFor
    <3>2. CASE req[c].t # t
      BY <1>1, <2>1, <2>2, <3>1, <3>2
    <3>3. CASE req[c].t = t
      <4>1. ~(Enabled(req[c].found) /\ req[c].found.expr # Invalid)
        BY <2>3 DEF Schedulable
      <4>2. CASE TasksFor(t) # {}
        BY <3>1, <4>2
      <4>3. CASE Pending(t)
        <5>1. PICK d \in Clients :
                \/ req[d].pc \in {"updated", "query", "delete"} /\ req[d].t = t
                \/ /\ req[d].pc = "loaded" /\ req[d].t = t
                   /\ Enabled(req[d].found) /\ req[d].found.expr # Invalid
          BY <4>3 DEF Pending
        <5>2. d # c /\ req'[d] = req[d]
          BY <1>t, <2>1, <4>1, <5>1
        <5> QED BY <5>1, <5>2 DEF Pending, Enabled
      <4> QED BY <1>0, <2>2, <4>2, <4>3
    <3> QED BY <3>2, <3>3
  <2>4. CASE ScheduleJob(req[c].t, req[c].found)
    <3>1. CASE req[c].t = t
      <4>1. TaskOf(t, req[c].found) \in jobs'
        BY <2>4, <3>1 DEF ScheduleJob
      <4>2. TaskOf(t, req[c].found).trigger = t
        BY DEF TaskOf
      <4> QED BY <4>1, <4>2 DEF TasksFor
    <3>2. CASE req[c].t # t
      <4>1. TasksFor(t) \subseteq TasksFor(t)'
        BY <2>4, <3>2 DEF ScheduleJob, TasksFor
      <4> QED BY <1>1, <2>1, <2>2, <3>2, <4>1
    <3> QED BY <3>1, <3>2
  <2> QED BY <1>3, <2>3, <2>4 DEF AddTrigger, NotScheduled
<1>4. ASSUME NEW c \in Clients, ReloadTrigger(c) PROVE TasksFor(t)' # {} \/ Pending(t)'
  <2> DEFINE q == [req[c] EXCEPT !.pc = "query"]
  <2>1. /\ row' = row /\ up' = up /\ req' = [req EXCEPT ![c] = q]
        /\ failed' = failed \ {req[c].t} /\ jobs' = jobs \ TasksFor(req[c].t)
    BY <1>4 DEF ReloadTrigger, Goto, RemoveTrigger, process
  <2>2. q.pc = "query" /\ q.t = req[c].t
    <3> DEFINE p == req[c]
    <3>1. p \in Request /\ p.pc = "updated"
      BY <1>t, <1>4 DEF ReloadTrigger
    <3> HIDE DEF p
    <3>2. [p EXCEPT !.pc = "query"].pc = "query" /\ [p EXCEPT !.pc = "query"].t = p.t
      BY <3>1 DEF Request
    <3> QED BY <3>2 DEF p
  <2> HIDE DEF q
  <2>3. CASE req[c].t = t
    <3>1. req'[c] = q
      BY <1>t, <2>1
    <3> QED BY <2>2, <2>3, <3>1 DEF Pending
  <2>4. CASE req[c].t # t
    <3>1. Due(t)
      BY <2>1, <2>4 DEF Due, Enabled
    <3>2. TasksFor(t) \subseteq TasksFor(t)'
      BY <2>1, <2>4 DEF TasksFor
    <3> QED BY <1>1, <2>1, <2>4, <3>1, <3>2
  <2> QED BY <2>3, <2>4
\* A call to the database for u.
<1>5. ASSUME NEW c \in Clients, NEW u \in Triggers, RowStep(u), NEW r,
             req' = [req EXCEPT ![c] = r],
             req[c].pc \in {"idle", "fnCreate"} \/ req[c].t = u,
             u \in failed' \/ ~Enabled(row'[u])
               \/ (r.pc \in {"updated", "query"} /\ r.t = u),
             failed' \subseteq failed \cup {u}, failed \subseteq failed',
             UNCHANGED <<jobs, up>>
      PROVE  TasksFor(t)' # {} \/ Pending(t)'
  <2>1. TasksFor(t)' = TasksFor(t)
    BY <1>5 DEF TasksFor
  <2>2. CASE u = t
    <3>1. r.pc \in {"updated", "query"} /\ r.t = t /\ req'[c] = r
      BY <1>t, <1>5, <2>2 DEF Due
    <3> QED BY <3>1 DEF Pending
  <2>3. CASE u # t
    <3>1. Due(t)
      BY <1>5, <2>3 DEF Due, Enabled, RowStep
    <3> QED BY <1>1, <1>5, <2>1, <2>3, <3>1
  <2> QED BY <2>2, <2>3
<1>6. ASSUME NEW c \in Clients, NEW u \in Triggers, NEW f \in Functions, CreateTrigger(c, u, f)
      PROVE  TasksFor(t)' # {} \/ Pending(t)'
  <2>1. req[c].pc = "idle" /\ UNCHANGED <<jobs, up>>
    BY <1>6, <1>i DEF CreateTrigger, Begin, scheduler, process
  <2> DEFINE q == [pc |-> "query", t |-> u]
  <2>2. q.pc = "query" /\ q.t = u
    OBVIOUS
  <2>3. /\ RowStep(u)
        /\ \/ req' = [req EXCEPT ![c] = Idle] /\ failed' = failed \cup {u}
           \/ req' = [req EXCEPT ![c] = Idle] /\ failed' = failed /\ ~row'[u].enabled
           \/ req' = [req EXCEPT ![c] = q] /\ failed' = failed
    BY <1>6, CreateRow
  <2> HIDE DEF q
  <2>4. CASE req' = [req EXCEPT ![c] = q] /\ failed' = failed
    BY <1>5, <2>1, <2>2, <2>3, <2>4
  <2>5. CASE req' = [req EXCEPT ![c] = Idle] /\ failed' = failed \cup {u}
    BY <1>5, <2>1, <2>3, <2>5
  <2>6. CASE req' = [req EXCEPT ![c] = Idle] /\ failed' = failed /\ ~row'[u].enabled
    <3>1. ~Enabled(row'[u])
      BY <2>6 DEF Enabled
    <3> QED BY <1>5, <2>1, <2>3, <2>6, <3>1
  <2> QED BY <2>3, <2>4, <2>5, <2>6
<1>7. ASSUME NEW c \in Clients, NEW u \in Triggers, UpdateTrigger(c, u)
      PROVE  TasksFor(t)' # {} \/ Pending(t)'
  <2>1. req[c].pc = "idle" /\ UNCHANGED <<jobs, up>>
    BY <1>7, <1>i DEF UpdateTrigger, Begin, scheduler, process
  <2> DEFINE q == [pc |-> "updated", t |-> u]
  <2>2. q.pc = "updated" /\ q.t = u
    OBVIOUS
  <2>3. /\ RowStep(u)
        /\ \/ req' = [req EXCEPT ![c] = Idle] /\ failed' = failed \cup {u}
           \/ req' = [req EXCEPT ![c] = q] /\ failed' = failed
    BY <1>7, UpdateRow
  <2> HIDE DEF q
  <2>4. CASE req' = [req EXCEPT ![c] = q] /\ failed' = failed
    BY <1>5, <2>1, <2>2, <2>3, <2>4
  <2>5. CASE req' = [req EXCEPT ![c] = Idle] /\ failed' = failed \cup {u}
    BY <1>5, <2>1, <2>3, <2>5
  <2> QED BY <2>3, <2>4, <2>5
<1>8. ASSUME NEW c \in Clients, NEW u \in Triggers, DeleteBegin(c, u)
      PROVE  TasksFor(t)' # {} \/ Pending(t)'
  <2> DEFINE q == [pc |-> "delete", t |-> u]
  <2>1. /\ req[c].pc = "idle" /\ row' = row /\ up' = up /\ failed' = failed
        /\ req' = [req EXCEPT ![c] = q] /\ jobs' = jobs \ TasksFor(u)
    BY <1>8, <1>i DEF DeleteBegin, Begin, Goto, RemoveTrigger, process
  <2>2. q.pc = "delete" /\ q.t = u
    OBVIOUS
  <2> HIDE DEF q
  <2>3. Due(t)
    BY <2>1 DEF Due, Enabled
  <2>4. CASE u = t
    <3>1. req'[c] = q
      BY <1>t, <2>1
    <3> QED BY <2>2, <2>4, <3>1 DEF Pending
  <2>5. CASE u # t
    <3>1. TasksFor(t) \subseteq TasksFor(t)'
      BY <2>1, <2>5 DEF TasksFor
    <3> QED BY <1>1, <2>1, <2>3, <3>1
  <2> QED BY <2>4, <2>5
<1>9. ASSUME NEW c \in Clients, DeleteRow(c) PROVE TasksFor(t)' # {} \/ Pending(t)'
  <2>1. /\ req[c].t \in Triggers /\ RowStep(req[c].t) /\ req' = [req EXCEPT ![c] = Idle]
        /\ \/ failed' = failed \cup {req[c].t}
           \/ failed' = failed /\ row'[req[c].t].state # "live"
    BY <1>9, DeletedRow
  <2>2. UNCHANGED <<jobs, up>>
    BY <1>9 DEF DeleteRow, scheduler, process
  <2>3. req[c].t \in failed' \/ ~Enabled(row'[req[c].t])
    BY <2>1 DEF Enabled
  <2> QED BY <1>5, <2>1, <2>2, <2>3
<1>10. ASSUME NEW c \in Clients, CheckFunctionLimit(c) \/ CreateFunction(c)
       PROVE  TasksFor(t)' # {} \/ Pending(t)'
  <2>1. req[c].pc \in {"idle", "fnCreate"} /\ UNCHANGED <<row, jobs, up, failed>>
    BY <1>10, <1>i DEF CheckFunctionLimit, CreateFunction, Begin, scheduler, process
  <2>2. \E r : req' = [req EXCEPT ![c] = r]
    BY <1>10 DEF CheckFunctionLimit, CreateFunction, Goto
  <2>3. Due(t) /\ TasksFor(t)' = TasksFor(t)
    BY <2>1 DEF Due, Enabled, TasksFor
  <2> QED BY <1>1, <2>1, <2>2, <2>3
<1>11. ASSUME NEW f \in Functions, DeleteFunction(f) PROVE TasksFor(t)' # {} \/ Pending(t)'
  <2>1. UNCHANGED <<jobs, req, up, failed>>
    BY <1>11 DEF DeleteFunction, scheduler, process
  <2>2. row'[t] = IF row[t].state = "live" /\ row[t].fn = f THEN Gone ELSE row[t]
    BY <1>11 DEF DeleteFunction
  <2>3. Due(t)
    BY <2>1, <2>2, RowTypes DEF Due, Enabled
  <2> QED BY <1>0, <2>1, <2>3 DEF TasksFor, Pending, Enabled
<1>12. CASE Crash
  BY <1>12 DEF Crash, Due
<1>13. CASE LoadFromDB
  <2>1. row' = row
    BY <1>13 DEF LoadFromDB
  <2>2. TaskOf(t, row[t]) \in jobs'
    BY <1>13, <2>1 DEF LoadFromDB, Due, Enabled
  <2> QED BY <2>2 DEF TasksFor, TaskOf
<1>14. CASE UNCHANGED vars
  BY <1>0, <1>14 DEF vars, scheduler, process, Due, TasksFor, Pending, Enabled
<1> QED
  BY <1>2, <1>3, <1>4, <1>6, <1>7, <1>8, <1>9, <1>10, <1>11, <1>12, <1>13, <1>14 DEF Next

-----------------------------------------------------------------------------
(* NoStrayTask.                                                              *)

\* A task that runs what the row of its trigger says, or a deleted function.
Fits(k, t) ==
  \/ Enabled(row[t]) /\ k = TaskOf(t, row[t])
  \/ fn[k.fn] = "gone"

\* A trigger whose requests come one after the other.
Orderly(t) ==
  /\ \A c, d \in InFlight(t) : c = d
  /\ \A c \in InFlight(t) :
       /\ req[c].pc \in {"query", "loaded", "delete"} => TasksFor(t) = {}
       /\ req[c].pc = "loaded" /\ req[c].found.state = "live" =>
            req[c].found = row[t] \/ fn[req[c].found.fn] = "gone"
  /\ InFlight(t) = {} /\ t \notin failed => \A k \in TasksFor(t) : Fits(k, t)

\* A trigger that has never been used.
Unused(t) == InFlight(t) = {} /\ TasksFor(t) = {}

TriggerInv(t) ==
  /\ row[t].state = "none" => Unused(t)
  /\ t \notin raced => Orderly(t)

StrayInv ==
  /\ \A k \in leaked : k.trigger \in raced
  /\ \A t \in Triggers : TriggerInv(t)

\* A step for another trigger.
LEMMA OtherTrigger ==
  ASSUME TypeOK, NEW t \in Triggers, TriggerInv(t),
         NEW c \in Clients, NEW r, req' = [req EXCEPT ![c] = r],
         req[c].pc \in {"idle", "fnCreate"} \/ req[c].t # t,
         r.pc \in {"idle", "fnCreate"} \/ r.t # t,
         row'[t] = row[t], TasksFor(t)' = TasksFor(t),
         \A f \in Functions : fn[f] = "gone" => fn'[f] = "gone",
         t \in raced => t \in raced', t \in failed => t \in failed'
  PROVE  TriggerInv(t)'
<1>1. req \in [Clients -> Request] /\ JobsType
  BY DEF TypeOK, JobsType
<1>2. InFlight(t)' = InFlight(t) /\ \A d \in InFlight(t) : req'[d] = req[d]
  BY <1>1 DEF InFlight
<1>3. \A k \in TasksFor(t) : k.fn \in Functions
  BY <1>1 DEF JobsType, TasksFor, Task
<1>4. \A d \in InFlight(t) : req[d].pc = "loaded" /\ req[d].found.state = "live"
                               => req[d].found.fn \in Functions
  <2>1. \A d \in Clients : req[d].pc = "loaded" => req[d].found \in Row
    BY RequestTypes
  <2>2. \A q \in Row : q.state = "live" => q.fn \in Functions
    BY DEF Row
  <2> QED BY <2>1, <2>2 DEF InFlight
<1>5. row[t].state = "none" => Unused(t)'
  BY <1>2 DEF TriggerInv, Unused
<1>6. ASSUME t \notin raced PROVE Orderly(t)'
  <2>1. Orderly(t)
    BY <1>6 DEF TriggerInv
  <2>2. \A k \in TasksFor(t) : Fits(k, t) => Fits(k, t)'
    BY <1>3 DEF Fits, Enabled, TaskOf
  <2>3. /\ \A d, e \in InFlight(t)' : d = e
        /\ InFlight(t)' = {} /\ t \notin failed' => \A k \in TasksFor(t)' : Fits(k, t)'
    BY <1>2, <2>1, <2>2 DEF Orderly
  <2>4. ASSUME NEW d \in InFlight(t)'
        PROVE  /\ req'[d].pc \in {"query", "loaded", "delete"} => TasksFor(t)' = {}
               /\ req'[d].pc = "loaded" /\ req'[d].found.state = "live" =>
                    req'[d].found = row'[t] \/ fn'[req'[d].found.fn] = "gone"
    BY <1>2, <1>4, <2>1 DEF Orderly
  <2> QED BY <2>3, <2>4 DEF Orderly
<1> QED
  BY <1>5, <1>6 DEF TriggerInv

\* The only request for t moves on, or a first one comes.
LEMMA OneRequest ==
  ASSUME TypeOK, NEW t \in Triggers, NEW c \in Clients, NEW r,
         req' = [req EXCEPT ![c] = r],
         InFlight(t) \subseteq {c}
  PROVE  /\ r.pc = "idle" => InFlight(t)' = {}
         /\ r.pc \notin {"idle", "fnCreate"} /\ r.t = t => InFlight(t)' = {c} /\ req'[c] = r
BY DEF TypeOK, InFlight

LEMMA InFlightOne ==
  ASSUME NEW t, t \notin raced, TriggerInv(t), NEW c \in InFlight(t)
  PROVE  InFlight(t) \subseteq {c}
BY DEF TriggerInv, Orderly

LEMMA AddTriggerStray ==
  ASSUME TypeOK, StrayInv, NEW c \in Clients, AddTrigger(c)
  PROVE  StrayInv'
<1> DEFINE u == req[c].t  r == req[c].found
<1>1. /\ u \in Triggers /\ r \in Row /\ c \in InFlight(u)
      /\ req' = [req EXCEPT ![c] = Idle] /\ req[c].pc = "loaded"
      /\ failed' = failed \/ failed' = failed \cup {u}
      /\ UNCHANGED <<fn, row, raced>>
  BY RequestTypes DEF AddTrigger, Fail, Goto, InFlight, process
<1>2. /\ \/ jobs' = jobs /\ leaked' = leaked
         \/ /\ Enabled(r) /\ jobs' = (jobs \ TasksFor(u)) \cup {TaskOf(u, r)}
            /\ leaked' = leaked \cup TasksFor(u)
  BY DEF AddTrigger, NotScheduled, Schedulable, ScheduleJob, scheduler
<1>3. u \notin raced =>
        /\ InFlight(u) \subseteq {c} /\ TasksFor(u) = {}
        /\ Enabled(r) => r = row[u] \/ fn[r.fn] = "gone"
  BY <1>1 DEF StrayInv, TriggerInv, Orderly, Enabled
<1>4. TaskOf(u, r).trigger = u /\ TaskOf(u, r).fn = r.fn
  BY DEF TaskOf
<1>5. Idle.pc = "idle"
  BY DEF Idle
<1>6. TriggerInv(u) /\ row[u].state # "none"
  BY <1>1 DEF StrayInv, TriggerInv, Unused
<1> HIDE DEF u, r
<1>7. \A k \in leaked' : k.trigger \in raced'
  BY <1>1, <1>2, <1>3 DEF StrayInv, TasksFor
<1>8. ASSUME NEW t \in Triggers PROVE TriggerInv(t)'
  <2>1. CASE t # u
    <3>1. TasksFor(t)' = TasksFor(t)
      BY <1>2, <1>4, <2>1 DEF TasksFor
    <3>2. TriggerInv(t)
      BY DEF StrayInv
    <3>3. req[c].t # t
      BY <2>1 DEF u
    <3>4. /\ row'[t] = row[t] /\ \A f \in Functions : fn[f] = "gone" => fn'[f] = "gone"
          /\ t \in raced => t \in raced'
      BY <1>1
    <3>5. t \in failed => t \in failed'
      BY <1>1
    <3> QED BY <1>1, <1>5, <3>1, <3>2, <3>3, <3>4, <3>5, OtherTrigger
  <2>2. CASE t = u
    <3>1. row'[t].state # "none" /\ (t \in raced' <=> t \in raced)
      BY <1>1, <1>6, <2>2
    <3>2. CASE t \in raced
      BY <3>1, <3>2 DEF TriggerInv
    <3>3. CASE t \notin raced
      <4>1. InFlight(t)' = {}
        BY <1>1, <1>3, <1>5, <2>2, <3>3, OneRequest
      <4>2. \A k \in TasksFor(t)' : Enabled(r) /\ k = TaskOf(t, r)
        BY <1>2, <1>3, <2>2, <3>3 DEF TasksFor
      <4>3. \A k \in TasksFor(t)' : Fits(k, t)'
        BY <1>1, <1>3, <1>4, <2>2, <3>3, <4>2 DEF Fits, Enabled, TaskOf
      <4> QED BY <3>1, <4>1, <4>3 DEF TriggerInv, Orderly
    <3> QED BY <3>2, <3>3
  <2> QED BY <2>1, <2>2
<1> QED
  BY <1>7, <1>8 DEF StrayInv

\* A step of request c for trigger u, whose task stays or is removed.
LEMMA RequestStray ==
  ASSUME TypeOK, StrayInv, NEW c \in Clients, NEW u \in Triggers, NEW r,
         req' = [req EXCEPT ![c] = r],
         req[c].pc = "idle" \/ c \in InFlight(u),
         r.pc = "idle" \/ (r.pc \in {"updated", "query", "loaded", "delete"} /\ r.t = u),
         fn' = fn, \A t \in Triggers : t # u => row'[t] = row[t],
         jobs' = jobs \/ jobs' = jobs \ TasksFor(u), leaked' = leaked,
         raced' = raced \/ raced' = raced \cup {u},
         InFlight(u) # {} /\ req[c].pc = "idle" => u \in raced',
         failed \ {u} \subseteq failed',
         row'[u].state = "none" => Unused(u)',
         u \notin raced /\ r.pc = "idle" => u \in failed' \/ TasksFor(u)' = {},
         u \notin raced /\ r.pc \in {"query", "loaded", "delete"} => TasksFor(u)' = {},
         r.pc = "loaded" => r.found = row'[u]
  PROVE  StrayInv'
<1>1. \A k \in leaked' : k.trigger \in raced'
  BY DEF StrayInv
<1>2. ASSUME NEW t \in Triggers PROVE TriggerInv(t)'
  <2>0. TriggerInv(t)
    BY DEF StrayInv
  <2>1. CASE t # u
    <3>1. TasksFor(t)' = TasksFor(t)
      BY <2>1 DEF TasksFor
    <3>2. /\ req[c].pc \in {"idle", "fnCreate"} \/ req[c].t # t
          /\ r.pc \in {"idle", "fnCreate"} \/ r.t # t
      BY <2>1 DEF InFlight
    <3>3. /\ row'[t] = row[t] /\ \A f \in Functions : fn[f] = "gone" => fn'[f] = "gone"
          /\ t \in raced => t \in raced'
      BY <2>1
    <3>4. t \in failed => t \in failed'
      BY <2>1
    <3> QED BY <2>0, <3>1, <3>2, <3>3, <3>4, OtherTrigger
  <2>2. CASE t = u
    <3>1. CASE t \in raced'
      BY <2>2, <3>1 DEF TriggerInv
    <3>2. CASE t \notin raced'
      <4>1. t \notin raced /\ InFlight(t) \subseteq {c}
        <5>1. t \notin raced
          BY <3>2
        <5>2. CASE c \in InFlight(t)
          BY <2>0, <5>1, <5>2, InFlightOne
        <5>3. CASE c \notin InFlight(t)
          BY <2>2, <3>2, <5>3
        <5> QED BY <5>1, <5>2, <5>3
      <4>2. CASE r.pc = "idle"
        <5>1. InFlight(t)' = {}
          BY <4>1, <4>2, OneRequest
        <5>2. t \in failed' \/ TasksFor(t)' = {}
          BY <2>2, <4>1, <4>2
        <5> QED BY <2>2, <5>1, <5>2 DEF TriggerInv, Orderly
      <4>3. CASE r.pc \in {"updated", "query", "loaded", "delete"} /\ r.t = u
        <5>1. InFlight(t)' = {c} /\ req'[c] = r
          BY <2>2, <4>1, <4>3, OneRequest
        <5>2. /\ r.pc \in {"query", "loaded", "delete"} => TasksFor(t)' = {}
              /\ r.pc = "loaded" => r.found = row'[t]
          BY <2>2, <4>1
        <5> QED BY <2>2, <5>1, <5>2 DEF TriggerInv, Orderly
      <4> QED BY <4>2, <4>3
    <3> QED BY <3>1, <3>2
  <2> QED BY <2>1, <2>2
<1> QED
  BY <1>1, <1>2 DEF StrayInv

LEMMA StrayKept ==
  ASSUME TypeOK, StrayInv, [Next]_vars
  PROVE  StrayInv'
<1>i. Idle.pc = "idle"
  BY DEF Idle
<1>t. row \in [Triggers -> Row] /\ req \in [Clients -> Request]
  BY DEF TypeOK
\* A trigger a request is in flight for, in order with the others.
<1>f. ASSUME NEW c \in Clients, req[c].pc \in {"updated", "query", "loaded", "delete"}
      PROVE  /\ req[c].t \in Triggers /\ c \in InFlight(req[c].t)
             /\ row[req[c].t].state # "none"
             /\ req[c].t \notin raced /\ req[c].pc \in {"query", "loaded", "delete"}
                  => TasksFor(req[c].t) = {}
  <2>1. req[c].t \in Triggers /\ c \in InFlight(req[c].t)
    BY <1>f, RequestTypes DEF InFlight
  <2> QED BY <2>1 DEF StrayInv, TriggerInv, Unused, Orderly
<1>2. ASSUME NEW c \in Clients, FindUnique(c) PROVE StrayInv'
  <2> DEFINE u == req[c].t  q == [pc |-> "loaded", t |-> u, found |-> row[u]]
  <2>1. /\ UNCHANGED <<fn, row, jobs, leaked, raced>>
        /\ \/ req' = [req EXCEPT ![c] = q] /\ failed' = failed
           \/ req' = [req EXCEPT ![c] = Idle] /\ failed' = failed \cup {u}
    BY <1>2 DEF FindUnique, Fail, Goto, scheduler
  <2>2. /\ u \in Triggers /\ c \in InFlight(u) /\ row[u].state # "none"
        /\ (u \notin raced => TasksFor(u) = {}) /\ req[c].pc # "idle"
    BY <1>2, <1>f DEF FindUnique
  <2>4. q.pc = "loaded" /\ q.t = u /\ q.found = row[u]
    OBVIOUS
  <2> HIDE DEF u, q
  <2>6. ASSUME NEW v \in Triggers, v = u PROVE StrayInv'
    <3>1. v \notin raced => TasksFor(v)' = {}
      BY <2>1, <2>2, <2>6 DEF TasksFor
    <3>2. CASE req' = [req EXCEPT ![c] = q] /\ failed' = failed
      BY <2>1, <2>2, <2>4, <2>6, <3>1, <3>2, RequestStray
    <3>3. CASE req' = [req EXCEPT ![c] = Idle] /\ failed' = failed \cup {u}
      BY <1>i, <2>1, <2>2, <2>6, <3>1, <3>3, RequestStray
    <3> QED BY <2>1, <3>2, <3>3
  <2> QED BY <2>2, <2>6
<1>3. ASSUME NEW c \in Clients, AddTrigger(c) PROVE StrayInv'
  BY <1>3, AddTriggerStray
<1>4. ASSUME NEW c \in Clients, ReloadTrigger(c) PROVE StrayInv'
  <2>1. PICK u \in Triggers : u = req[c].t
    BY <1>4, <1>f DEF ReloadTrigger
  <2> DEFINE q == [req[c] EXCEPT !.pc = "query"]
  <2>2. /\ UNCHANGED <<fn, row, leaked, raced>> /\ req' = [req EXCEPT ![c] = q]
        /\ failed' = failed \ {u} /\ jobs' = jobs \ TasksFor(u)
    BY <1>4, <2>1 DEF ReloadTrigger, RemoveTrigger, Goto
  <2>3. q.pc = "query" /\ q.t = u
    <3> DEFINE p == req[c]
    <3>1. p \in Request /\ p.pc = "updated" /\ p.t = u
      BY <1>t, <1>4, <2>1 DEF ReloadTrigger
    <3> HIDE DEF p
    <3>2. [p EXCEPT !.pc = "query"].pc = "query" /\ [p EXCEPT !.pc = "query"].t = p.t
      BY <3>1 DEF Request
    <3> QED BY <3>1, <3>2 DEF p
  <2>4. c \in InFlight(u) /\ row[u].state # "none" /\ req[c].pc # "idle"
    BY <1>4, <1>f, <2>1 DEF ReloadTrigger
  <2> HIDE DEF q
  <2>5. TasksFor(u)' = {}
    BY <2>2 DEF TasksFor
  <2> QED BY <2>2, <2>3, <2>4, <2>5, RequestStray
<1>5. ASSUME NEW c \in Clients, NEW u \in Triggers, NEW f \in Functions, CreateTrigger(c, u, f)
      PROVE  StrayInv'
  <2> DEFINE q == [pc |-> "query", t |-> u]
  <2>1. /\ req[c].pc = "idle" /\ row[u].state = "none"
        /\ UNCHANGED <<fn, jobs, leaked, raced>>
    BY <1>5, <1>i DEF CreateTrigger, Begin, scheduler
  <2>2. /\ \A t \in Triggers : t # u => row'[t] = row[t]
        /\ \/ req' = [req EXCEPT ![c] = Idle] /\ failed' = failed \cup {u}
           \/ req' = [req EXCEPT ![c] = Idle] /\ failed' = failed
           \/ req' = [req EXCEPT ![c] = q] /\ failed' = failed /\ row'[u].state = "live"
    BY <1>5, CreateRow DEF RowStep
  <2>3. q.pc = "query" /\ q.t = u
    OBVIOUS
  <2> HIDE DEF q
  <2>4. InFlight(u) = {} /\ TasksFor(u) = {} /\ TasksFor(u)' = {}
    BY <2>1 DEF StrayInv, TriggerInv, Unused, TasksFor
  <2>5. CASE req' = [req EXCEPT ![c] = Idle]
    <3>1. InFlight(u)' = {}
      BY <1>i, <2>4, <2>5, OneRequest
    <3>2. failed \subseteq failed' /\ Unused(u)'
      BY <2>2, <2>4, <3>1 DEF Unused
    <3> QED BY <1>i, <2>1, <2>2, <2>4, <2>5, <3>2, RequestStray
  <2>6. CASE req' = [req EXCEPT ![c] = q] /\ failed' = failed /\ row'[u].state = "live"
    BY <2>1, <2>2, <2>3, <2>4, <2>6, RequestStray
  <2> QED BY <2>2, <2>5, <2>6
<1>6. ASSUME NEW c \in Clients, NEW u \in Triggers, UpdateTrigger(c, u) PROVE StrayInv'
  <2> DEFINE q == [pc |-> "updated", t |-> u]
  <2>1. /\ req[c].pc = "idle" /\ row[u].state = "live"
        /\ UNCHANGED <<fn, jobs, leaked>>
        /\ raced' = raced \/ raced' = raced \cup {u}
        /\ InFlight(u) # {} => u \in raced'
    BY <1>6, <1>i DEF UpdateTrigger, Begin, scheduler, Race
  <2>2. /\ \A t \in Triggers : t # u => row'[t] = row[t]
        /\ row'[u].state # "none"
        /\ \/ req' = [req EXCEPT ![c] = Idle] /\ failed' = failed \cup {u}
           \/ req' = [req EXCEPT ![c] = q] /\ failed' = failed
    BY <1>6, <2>1, UpdateRow DEF RowStep
  <2>3. q.pc = "updated" /\ q.t = u
    OBVIOUS
  <2> HIDE DEF q
  <2>4. CASE req' = [req EXCEPT ![c] = Idle] /\ failed' = failed \cup {u}
    BY <1>i, <2>1, <2>2, <2>4, RequestStray
  <2>5. CASE req' = [req EXCEPT ![c] = q] /\ failed' = failed
    BY <2>1, <2>2, <2>3, <2>5, RequestStray
  <2> QED BY <2>2, <2>4, <2>5
<1>7. ASSUME NEW c \in Clients, NEW u \in Triggers, DeleteBegin(c, u) PROVE StrayInv'
  <2> DEFINE q == [pc |-> "delete", t |-> u]
  <2>1. /\ req[c].pc = "idle" /\ row[u].state # "none"
        /\ UNCHANGED <<fn, row, leaked, failed>>
        /\ req' = [req EXCEPT ![c] = q] /\ jobs' = jobs \ TasksFor(u)
        /\ raced' = raced \/ raced' = raced \cup {u}
        /\ InFlight(u) # {} => u \in raced'
    BY <1>7, <1>i DEF DeleteBegin, Begin, Goto, RemoveTrigger, Race
  <2>2. q.pc = "delete" /\ q.t = u
    OBVIOUS
  <2> HIDE DEF q
  <2>3. TasksFor(u)' = {}
    BY <2>1 DEF TasksFor
  <2> QED BY <2>1, <2>2, <2>3, RequestStray
<1>8. ASSUME NEW c \in Clients, DeleteRow(c) PROVE StrayInv'
  <2>1. PICK u \in Triggers : u = req[c].t
    BY <1>8, <1>f DEF DeleteRow
  <2>2. /\ \A t \in Triggers : t # u => row'[t] = row[t]
        /\ row'[u].state = "none" => row[u].state = "none"
        /\ req' = [req EXCEPT ![c] = Idle] /\ failed \subseteq failed'
    BY <1>8, <2>1, DeletedRow DEF RowStep
  <2>3. UNCHANGED <<fn, jobs, leaked, raced>>
    BY <1>8 DEF DeleteRow, scheduler
  <2>4. /\ c \in InFlight(u) /\ row[u].state # "none" /\ req[c].pc # "idle"
        /\ u \notin raced => TasksFor(u) = {}
    BY <1>8, <1>f, <2>1 DEF DeleteRow
  <2>5. u \notin raced => TasksFor(u)' = {}
    BY <2>3, <2>4 DEF TasksFor
  <2> QED BY <1>i, <2>2, <2>3, <2>4, <2>5, RequestStray
<1>9. ASSUME NEW c \in Clients, CheckFunctionLimit(c) \/ CreateFunction(c) PROVE StrayInv'
  <2>1. /\ req[c].pc \in {"idle", "fnCreate"}
        /\ UNCHANGED <<row, jobs, leaked, raced, failed>>
    BY <1>9, <1>i DEF CheckFunctionLimit, CreateFunction, Begin, scheduler
  <2>2. PICK r : req' = [req EXCEPT ![c] = r] /\ r.pc \in {"idle", "fnCreate"}
    BY <1>9, <1>i DEF CheckFunctionLimit, CreateFunction, Goto
  <2>3. \A f \in Functions : fn[f] = "gone" => fn'[f] = "gone"
    BY <1>9 DEF CheckFunctionLimit, CreateFunction, TypeOK
  <2>4. ASSUME NEW t \in Triggers PROVE TriggerInv(t)'
    <3>1. TriggerInv(t) /\ TasksFor(t)' = TasksFor(t) /\ row'[t] = row[t]
      BY <2>1 DEF StrayInv, TasksFor
    <3> QED BY <2>1, <2>2, <2>3, <3>1, OtherTrigger
  <2> QED BY <2>1, <2>4 DEF StrayInv
<1>10. ASSUME NEW f \in Functions, DeleteFunction(f) PROVE StrayInv'
  <2>1. UNCHANGED <<jobs, leaked, req, raced, failed>>
    BY <1>10 DEF DeleteFunction, scheduler
  <2>2. /\ fn'[f] = "gone" /\ \A g \in Functions : fn[g] = "gone" => fn'[g] = "gone"
    BY <1>10 DEF DeleteFunction, TypeOK
  <2>3. \A t \in Triggers : row'[t] = IF row[t].state = "live" /\ row[t].fn = f
                                      THEN Gone ELSE row[t]
    BY <1>10 DEF DeleteFunction
  <2>4. ASSUME NEW t \in Triggers PROVE TriggerInv(t)'
    <3>1. TriggerInv(t) /\ TasksFor(t)' = TasksFor(t) /\ InFlight(t)' = InFlight(t)
      BY <2>1 DEF StrayInv, TasksFor, InFlight
    <3>2. row'[t].state = "none" => Unused(t)'
      BY <2>3, <3>1, RowTypes DEF TriggerInv, Unused
    <3>3. \A k \in TasksFor(t) : k.fn \in Functions
      BY DEF TypeOK, TasksFor, Task
    <3>4. \A k \in TasksFor(t) : Fits(k, t) => Fits(k, t)'
      BY <2>2, <2>3, <3>3 DEF Fits, Enabled, TaskOf
    <3>5. ASSUME NEW d \in InFlight(t), req[d].pc = "loaded", req[d].found.state = "live",
                 req[d].found = row[t] \/ fn[req[d].found.fn] = "gone"
          PROVE  req[d].found = row'[t] \/ fn'[req[d].found.fn] = "gone"
      <4>1. req[d].found \in Row
        BY <3>5, RequestTypes DEF InFlight
      <4>2. req[d].found.fn \in Functions
        BY <3>5, <4>1 DEF Row
      <4> QED BY <2>2, <2>3, <3>5, <4>2
    <3>6. t \notin raced' => Orderly(t)'
      BY <2>1, <3>1, <3>4, <3>5 DEF TriggerInv, Orderly
    <3> QED BY <3>2, <3>6 DEF TriggerInv
  <2> QED BY <2>1, <2>4 DEF StrayInv
<1>11. CASE Crash
  <2>1. \A t : InFlight(t)' = {} /\ TasksFor(t)' = {}
    BY <1>11, <1>i DEF Crash, InFlight, TasksFor
  <2>2. leaked' = {}
    BY <1>11 DEF Crash
  <2> QED BY <2>1, <2>2 DEF StrayInv, TriggerInv, Unused, Orderly
<1>12. CASE LoadFromDB
  <2>1. /\ UNCHANGED <<fn, row, leaked, req, raced, failed>>
        /\ req = [c \in Clients |-> Idle] /\ leaked = {}
    BY <1>12 DEF LoadFromDB, TypeOK
  <2>2. \A t : InFlight(t)' = {}
    BY <1>i, <2>1 DEF InFlight
  <2>3. ASSUME NEW t \in Triggers, NEW k \in TasksFor(t)'
        PROVE  Enabled(row[t]) /\ k = TaskOf(t, row[t])
    BY <1>12, <2>3 DEF LoadFromDB, TasksFor, TaskOf
  <2>4. ASSUME NEW t \in Triggers PROVE TriggerInv(t)'
    <3>1. row[t].state = "none" => Unused(t)'
      BY <2>2, <2>3 DEF Unused, Enabled
    <3>2. Orderly(t)'
      <4>1. \A k \in TasksFor(t)' : Fits(k, t)'
        BY <2>1, <2>3 DEF Fits, Enabled, TaskOf
      <4> QED BY <2>2, <4>1 DEF Orderly
    <3> QED BY <2>1, <3>1, <3>2 DEF TriggerInv
  <2> QED BY <2>1, <2>4 DEF StrayInv
<1>13. CASE UNCHANGED vars
  BY <1>13 DEF vars, scheduler, process, StrayInv, TriggerInv, Unused, Orderly, InFlight,
     TasksFor, Fits, Enabled, TaskOf
<1> QED
  BY <1>2, <1>3, <1>4, <1>5, <1>6, <1>7, <1>8, <1>9, <1>10, <1>11, <1>12, <1>13 DEF Next

-----------------------------------------------------------------------------
(* FunctionLimit.                                                            *)

Creating == {c \in Clients : req[c].pc = "fnCreate"}

\* Every creation in flight will add a function at most.
LimitInv ==
  Cardinality(Live) + Cardinality(Creating) <= MaxFunctions + Cardinality(Clients) - 1

LEMMA Sizes ==
  /\ IsFiniteSet(Live) /\ IsFiniteSet(Creating)
  /\ Cardinality(Live) \in Nat /\ Cardinality(Creating) \in Nat
  /\ Cardinality(Creating) <= Cardinality(Clients)
  /\ Cardinality(Clients) \in Nat /\ Cardinality(Clients) >= 1
<1>1. IsFiniteSet(Functions) /\ IsFiniteSet(Clients) /\ Clients # {}
  BY CronAssumption
<1>2. Live \subseteq Functions /\ Creating \subseteq Clients
  BY DEF Live, Creating
<1>3. IsFiniteSet(Live) /\ Cardinality(Live) \in Nat
  BY <1>1, <1>2, FS_Subset, FS_CardinalityType
<1>4. IsFiniteSet(Creating) /\ Cardinality(Creating) <= Cardinality(Clients)
  BY <1>1, <1>2, FS_Subset
<1>5. Cardinality(Creating) \in Nat /\ Cardinality(Clients) \in Nat
  BY <1>1, <1>4, FS_CardinalityType
<1>6. Cardinality(Clients) # 0
  BY <1>1, FS_EmptySet
<1> QED
  BY <1>3, <1>4, <1>5, <1>6

\* No more functions and no more creations than before.
LEMMA FewerKept ==
  ASSUME LimitInv, Live' \subseteq Live, Creating' \subseteq Creating
  PROVE  LimitInv'
<1>1. /\ Cardinality(Live') <= Cardinality(Live)
      /\ Cardinality(Creating') <= Cardinality(Creating)
      /\ IsFiniteSet(Live') /\ IsFiniteSet(Creating')
  BY Sizes, FS_Subset
<1>2. Cardinality(Live') \in Nat /\ Cardinality(Creating') \in Nat
  BY <1>1, FS_CardinalityType
<1>3. Cardinality(Live)' = Cardinality(Live') /\ Cardinality(Creating)' = Cardinality(Creating')
  OBVIOUS
<1> QED
  BY <1>1, <1>2, <1>3, Sizes, CronAssumption DEF LimitInv

LEMMA LimitKept ==
  ASSUME TypeOK, LimitInv, [Next]_vars
  PROVE  LimitInv'
<1>i. Idle.pc = "idle"
  BY DEF Idle
<1>t. req \in [Clients -> Request]
  BY DEF TypeOK
\* A request that creates no function.
<1>1. ASSUME NEW c \in Clients, NEW r, req' = [req EXCEPT ![c] = r], r.pc # "fnCreate",
             fn' = fn
      PROVE  LimitInv'
  <2>1. Live' \subseteq Live /\ Creating' \subseteq Creating
    BY <1>t, <1>1 DEF Live, Creating
  <2> QED BY <2>1, FewerKept
<1>2. ASSUME NEW c \in Clients, FindUnique(c) PROVE LimitInv'
  <2> DEFINE q == [pc |-> "loaded", t |-> req[c].t, found |-> row[req[c].t]]
  <2>1. fn' = fn /\ (req' = [req EXCEPT ![c] = q] \/ req' = [req EXCEPT ![c] = Idle])
    BY <1>2 DEF FindUnique, Fail, Goto
  <2>2. q.pc = "loaded"
    OBVIOUS
  <2> HIDE DEF q
  <2> QED BY <1>1, <1>i, <2>1, <2>2
<1>3. ASSUME NEW c \in Clients, AddTrigger(c) PROVE LimitInv'
  BY <1>1, <1>3, <1>i DEF AddTrigger, Fail, Goto
<1>4. ASSUME NEW c \in Clients, ReloadTrigger(c) PROVE LimitInv'
  <2> DEFINE q == [req[c] EXCEPT !.pc = "query"]
  <2>1. fn' = fn /\ req' = [req EXCEPT ![c] = q]
    BY <1>4 DEF ReloadTrigger, Goto
  <2>2. q.pc = "query"
    <3> DEFINE p == req[c]
    <3>1. p \in Request /\ p.pc = "updated"
      BY <1>t, <1>4 DEF ReloadTrigger
    <3> HIDE DEF p
    <3>2. [p EXCEPT !.pc = "query"].pc = "query"
      BY <3>1 DEF Request
    <3> QED BY <3>2 DEF p
  <2> HIDE DEF q
  <2> QED BY <1>1, <2>1, <2>2
<1>5. ASSUME NEW c \in Clients, NEW u \in Triggers, NEW f \in Functions, CreateTrigger(c, u, f)
      PROVE  LimitInv'
  <2> DEFINE q == [pc |-> "query", t |-> u]
  <2>1. fn' = fn /\ (req' = [req EXCEPT ![c] = q] \/ req' = [req EXCEPT ![c] = Idle])
    BY <1>5, CreateRow DEF CreateTrigger
  <2>2. q.pc = "query"
    OBVIOUS
  <2> HIDE DEF q
  <2> QED BY <1>1, <1>i, <2>1, <2>2
<1>6. ASSUME NEW c \in Clients, NEW u \in Triggers, UpdateTrigger(c, u) PROVE LimitInv'
  <2> DEFINE q == [pc |-> "updated", t |-> u]
  <2>1. fn' = fn /\ (req' = [req EXCEPT ![c] = q] \/ req' = [req EXCEPT ![c] = Idle])
    BY <1>6, UpdateRow DEF UpdateTrigger
  <2>2. q.pc = "updated"
    OBVIOUS
  <2> HIDE DEF q
  <2> QED BY <1>1, <1>i, <2>1, <2>2
<1>7. ASSUME NEW c \in Clients, NEW u \in Triggers, DeleteBegin(c, u) PROVE LimitInv'
  <2> DEFINE q == [pc |-> "delete", t |-> u]
  <2>1. fn' = fn /\ req' = [req EXCEPT ![c] = q]
    BY <1>7 DEF DeleteBegin, Goto
  <2>2. q.pc = "delete"
    OBVIOUS
  <2> HIDE DEF q
  <2> QED BY <1>1, <2>1, <2>2
<1>8. ASSUME NEW c \in Clients, DeleteRow(c) PROVE LimitInv'
  <2>1. fn' = fn /\ req' = [req EXCEPT ![c] = Idle]
    BY <1>8, DeletedRow DEF DeleteRow
  <2> QED BY <1>1, <1>i, <2>1
<1>9. ASSUME NEW c \in Clients, CheckFunctionLimit(c) PROVE LimitInv'
  <2>1. Cardinality(Live) <= MaxFunctions - 1
    BY <1>9, Sizes, CronAssumption DEF CheckFunctionLimit, BelowLimit
  <2>2. Live' = Live /\ Creating' \subseteq Clients
    BY <1>9 DEF CheckFunctionLimit, Live, Creating
  <2>3. IsFiniteSet(Creating') /\ Cardinality(Creating') <= Cardinality(Clients)
    BY <2>2, CronAssumption, FS_Subset
  <2>4. Cardinality(Creating') \in Nat
    BY <2>3, FS_CardinalityType
  <2>5. Cardinality(Live)' = Cardinality(Live) /\ Cardinality(Creating)' = Cardinality(Creating')
    BY <2>2
  <2> QED BY <2>1, <2>3, <2>4, <2>5, Sizes, CronAssumption DEF LimitInv
<1>10. ASSUME NEW c \in Clients, CreateFunction(c) PROVE LimitInv'
  <2>1. c \in Creating /\ Creating' = Creating \ {c}
    BY <1>t, <1>i, <1>10 DEF CreateFunction, Goto, Creating
  <2>2. Cardinality(Creating') = Cardinality(Creating) - 1
    BY <2>1, Sizes, FS_RemoveElement
  <2>3. Live' = Live \/ \E f : Live' = Live \cup {f}
    <3>1. CASE fn' = fn
      BY <3>1 DEF Live
    <3>2. CASE \E f \in Functions : fn[f] = "none" /\ fn' = [fn EXCEPT ![f] = "live"]
      <4>1. PICK f \in Functions : fn[f] = "none" /\ fn' = [fn EXCEPT ![f] = "live"]
        BY <3>2
      <4>2. Live' = Live \cup {f}
        BY <4>1 DEF Live, TypeOK
      <4> QED BY <4>2
    <3> QED BY <1>10, <3>1, <3>2 DEF CreateFunction
  <2>4. Cardinality(Live') = Cardinality(Live) \/ Cardinality(Live') = Cardinality(Live) + 1
    BY <2>3, Sizes, FS_AddElement
  <2>5. Cardinality(Live)' = Cardinality(Live') /\ Cardinality(Creating)' = Cardinality(Creating')
    OBVIOUS
  <2> QED BY <2>2, <2>4, <2>5, Sizes, CronAssumption DEF LimitInv
<1>11. ASSUME NEW f \in Functions, DeleteFunction(f) PROVE LimitInv'
  <2>1. Live' \subseteq Live /\ Creating' \subseteq Creating
    BY <1>11 DEF DeleteFunction, Live, Creating, TypeOK
  <2> QED BY <2>1, FewerKept
<1>12. CASE Crash
  <2>1. Live' \subseteq Live /\ Creating' \subseteq Creating
    BY <1>12, <1>i DEF Crash, Live, Creating
  <2> QED BY <2>1, FewerKept
<1>13. CASE LoadFromDB \/ UNCHANGED vars
  <2>1. Live' \subseteq Live /\ Creating' \subseteq Creating
    BY <1>13 DEF LoadFromDB, vars, Live, Creating
  <2> QED BY <2>1, FewerKept
<1> QED
  BY <1>2, <1>3, <1>4, <1>5, <1>6, <1>7, <1>8, <1>9, <1>10, <1>11, <1>12, <1>13 DEF Next

-----------------------------------------------------------------------------
(* The theorems.                                                             *)

IInv == TypeOK /\ ScheduleInv /\ StrayInv /\ LimitInv

LEMMA InitInv == Init => IInv
<1> SUFFICES ASSUME Init PROVE IInv
  OBVIOUS
<1>1. [state |-> "none"] \in Row /\ "none" \in State
  BY DEF Row, State
<1>2. TypeOK
  BY <1>1, RowTypes, CronAssumption DEF Init, TypeOK
<1>3. ScheduleInv
  BY DEF Init, ScheduleInv, Due, Enabled
<1>4. StrayInv
  BY DEF Init, StrayInv, TriggerInv, Unused, Orderly, InFlight, TasksFor, Idle
<1>5. LimitInv
  <2>1. Live = {} /\ Creating = {}
    BY DEF Init, Live, Creating, Idle
  <2>2. Cardinality(Live) = 0 /\ Cardinality(Creating) = 0
    BY <2>1, FS_EmptySet
  <2> QED BY <2>2, Sizes, CronAssumption DEF LimitInv
<1> QED
  BY <1>2, <1>3, <1>4, <1>5 DEF IInv

LEMMA StepInv == IInv /\ [Next]_vars => IInv'
<1> SUFFICES ASSUME IInv, [Next]_vars PROVE IInv'
  OBVIOUS
<1> QED
  BY TypeKept, ScheduleKept, StrayKept, LimitKept DEF IInv

LEMMA Invariant == Spec => []IInv
BY InitInv, StepInv, PTL DEF Spec

\* Tables, tasks and requests have their types: the scheduler's map has one
\* task per trigger and a trigger in the table has its function there.
THEOREM TypeCorrect == Spec => []TypeOK
<1>1. IInv => TypeOK
  BY DEF IInv
<1> QED
  BY <1>1, Invariant, PTL

\* An enabled trigger without requests in flight is scheduled, however
\* addTrigger, reloadTrigger and deleteTrigger have crossed.
THEOREM EnabledRuns == Spec => []EnabledScheduled
<1>1. ASSUME TypeOK, ScheduleInv, NEW t \in Triggers,
             up, Enabled(row[t]), row[t].expr # Invalid, InFlight(t) = {}, t \notin failed
      PROVE  TasksFor(t) # {}
  <2>1. ~Pending(t)
    BY <1>1 DEF Pending, InFlight
  <2> QED BY <1>1, <2>1 DEF ScheduleInv, Due
<1>2. IInv => EnabledScheduled
  BY <1>1 DEF IInv, EnabledScheduled
<1> QED
  BY <1>2, Invariant, PTL

\* As long as the requests for a trigger do not cross, no task is lost track
\* of, and its task is the one its row asks for.
THEOREM NoStray == Spec => []NoStrayTask
<1>1. ASSUME TypeOK, StrayInv, NEW k \in jobs,
             k.trigger \notin raced \cup failed, InFlight(k.trigger) = {}
      PROVE  \/ Enabled(row[k.trigger]) /\ k = TaskOf(k.trigger, row[k.trigger])
             \/ fn[k.fn] = "gone"
  <2>1. k \in Task
    BY <1>1 DEF TypeOK
  <2>2. k.trigger \in Triggers /\ k \in TasksFor(k.trigger)
    BY <2>1 DEF Task, TasksFor
  <2> QED BY <1>1, <2>2 DEF StrayInv, TriggerInv, Orderly, Fits
<1>2. IInv => NoStrayTask
  BY <1>1 DEF IInv, NoStrayTask, StrayInv
<1> QED
  BY <1>2, Invariant, PTL

\* An owner exceeds the limit of functions by fewer than there are requests in
\* flight at once.
THEOREM LimitHolds == Spec => []FunctionLimit
<1>1. LimitInv => FunctionLimit
  BY Sizes, CronAssumption DEF LimitInv, FunctionLimit
<1>2. IInv => FunctionLimit
  BY <1>1 DEF IInv
<1> QED
  BY <1>2, Invariant, PTL
=============================================================================
