------------------------------ MODULE TaskEngine ------------------------------
(***************************************************************************)
(* The task execution engine of ECM: the scheduler tick, the coroutines    *)
(* that run tasks (scheduled or requested over HTTP), the run lifecycle of *)
(* a task instance, cancellation, configuration saves and schedule edits   *)
(* that arrive while a run is suspended, and a process that dies and       *)
(* restarts over the same database.                                        *)
(*                                                                         *)
(* asyncio is modelled by what it guarantees: a coroutine runs alone until *)
(* it awaits something.  `loop' names the coroutine that is between two    *)
(* awaits; while it is not Nobody no other coroutine, tick or HTTP handler *)
(* takes a step.  Only a process crash may cut such a section in two.      *)
(***************************************************************************)
EXTENDS Integers, FiniteSets, FiniteSetsExt

CONSTANTS
  Tasks,          \* registered task ids
  ManualTasks,    \* the tasks whose schedule_type is MANUAL
  Coroutines,     \* coroutine frames that can be suspended at the same time
  Rows,           \* TaskExecution rows
  Params,         \* run parameters (schedule parameters or ad-hoc ones)
  Saves,          \* task_config values an operator may save
  Default,        \* the configuration a task class is coded with
  Nobody, NoTask, NoRow, NoParam, NoSave,
  Intervals,      \* interval_seconds of a schedule
  MaxSchedules,   \* bound: task_schedules ids
  MaxTime,        \* bound: clock
  MaxConcurrent,  \* TaskEngine.max_concurrent
  MaxFaults,      \* bound: database writes that fail
  MaxEdits        \* bound: operator calls on schedules, config and enablement

ASSUME ConstantsAssumption ==
  /\ IsFiniteSet(Tasks) /\ ManualTasks \subseteq Tasks
  /\ Nobody \notin Coroutines /\ NoTask \notin Tasks /\ NoRow \notin Rows
  /\ NoParam \notin Params /\ NoSave \notin Saves
  /\ Default \notin Params /\ Saves \cap Params = {}
  /\ Intervals \subseteq Nat \ {0}
  /\ {MaxSchedules, MaxTime, MaxConcurrent, MaxFaults, MaxEdits} \subseteq Nat

VARIABLES
  phase,      \* "down", "booting", "up", "stopping"
  loop,       \* coroutine holding the event loop between two awaits
  ready,      \* coroutines created by a tick that have not started yet
  pc,         \* where each coroutine is suspended, or what it does next
  job,        \* the call a coroutine serves and its triggered schedules
  run,        \* the locals of _execute_task in each coroutine
  active,     \* TaskEngine._active_tasks
  status,     \* TaskScheduler._status of each instance
  cancelReq,  \* TaskScheduler._cancel_requested of each instance
  config,     \* the live configuration of each instance
  stored,     \* ScheduledTask.config
  enabled,    \* ScheduledTask.enabled
  sched,      \* the task_schedules rows
  rows,       \* the task_executions rows
  leaked,     \* history: rows whose terminal status could not be written
  now, faults, edits

coVars     == <<pc, job, run>>
engineVars == <<phase, loop, ready, coVars, active>>
instVars   == <<status, cancelReq, config>>
dbVars     == <<stored, enabled, sched>>
rowVars    == <<rows, leaked>>
vars == <<engineVars, instVars, dbVars, rowVars, now, faults, edits>>

-----------------------------------------------------------------------------
(* The shape of the state.                                                 *)

Schedules == 1 .. MaxSchedules
NoSched   == 0
NoTime    == -1                        \* SQL NULL
Trigger   == {"scheduled", "manual"}
ParamOpt  == Params \cup {NoParam}
ConfigVal == {Default} \cup Saves \cup Params
Outcome   == {"success", "warning", "error", "cancelled"}
Result    == Outcome \cup {"none", "already", "invalid"}

Suspended == {"validating", "executing", "finalizing", "notifying", "failing"}
PC        == Suspended \cup {"free", "next", "begin", "finished"}

RowStatus == {"absent", "running", "completed", "completed_with_warnings",
              "failed", "cancelled", "terminated"}
Terminal  == RowStatus \ {"absent", "running"}

\* task: the claimed task; todo: triggered schedules still to run, with their
\* parameters; cur, param: the schedule being run; done: completed_at per schedule.
Jobs == [task : Tasks \cup {NoTask}, trig : Trigger, todo : SUBSET (Schedules \X ParamOpt),
         cur : Schedules \cup {NoSched}, param : ParamOpt,
         done : SUBSET ((Schedules \cup {NoSched}) \X Int)]
Job(t, g, todo, cur, p, done) ==
  [task |-> t, trig |-> g, todo |-> todo, cur |-> cur, param |-> p, done |-> done]
NoJob == Job(NoTask, "manual", {}, NoSched, NoParam, {})

\* base: invocation_config; row: execution_id; res, at: the TaskResult and its
\* completed_at; acked: history, a cancellation of this run was acknowledged.
Runtime == [base : ConfigVal, row : Rows \cup {NoRow}, res : Result, at : Int, acked : BOOLEAN]
RunOf(base, r, res, at, acked) ==
  [base |-> base, row |-> r, res |-> res, at |-> at, acked |-> acked]
NoRun == RunOf(Default, NoRow, "none", NoTime, FALSE)

\* A task_schedules row; task = NoTask when the id is not in use.
ScheduleRow == [task : Tasks \cup {NoTask}, enabled : BOOLEAN, interval : Nat,
                param : ParamOpt, next : Int, last : Int]
SchedOf(t, b, i, p, next, last) ==
  [task |-> t, enabled |-> b, interval |-> i, param |-> p, next |-> next, last |-> last]
NoSchedule == SchedOf(NoTask, FALSE, 0, NoParam, NoTime, NoTime)

RowOf(st, t) == [st |-> st, task |-> t]

TypeOK ==
  /\ phase \in {"down", "booting", "up", "stopping"}
  /\ loop \in Coroutines \cup {Nobody}
  /\ ready \in [Tasks -> SUBSET (Schedules \X ParamOpt)]
  /\ pc \in [Coroutines -> PC]
  /\ job \in [Coroutines -> Jobs]
  /\ run \in [Coroutines -> Runtime]
  /\ active \subseteq Tasks
  /\ status \in [Tasks -> {"idle", "running", "terminal"}]
  /\ cancelReq \in [Tasks -> BOOLEAN]
  /\ config \in [Tasks -> ConfigVal]
  /\ stored \in [Tasks -> Saves \cup {NoSave}]
  /\ enabled \in [Tasks -> BOOLEAN]
  /\ sched \in [Schedules -> ScheduleRow]
  /\ rows \in [Rows -> [st : RowStatus, task : Tasks \cup {NoTask}]]
  /\ leaked \subseteq Rows
  /\ now \in Nat /\ faults \in Nat /\ edits \in Nat

-----------------------------------------------------------------------------
(* Pure helpers.                                                           *)

\* Mutant: the outcome itself is written instead of the history's word for it.
RawExecutionStatus(res) == res

\* task_outcome / execution_status: the one derivation of a run's severity.
ExecutionStatus(res) ==
  CASE res = "success"   -> "completed"
    [] res = "warning"   -> "completed_with_warnings"
    [] res = "cancelled" -> "cancelled"
    [] OTHER             -> "failed"

\* schedule_calculator.calculate_next_run for an interval schedule.
CalcNext(interval, last) ==
  IF last # NoTime /\ last + interval > now THEN last + interval
                                            ELSE now + interval

Children(t)      == {s \in Schedules : sched[s].task = t}
Due(s)           == /\ sched[s].task # NoTask /\ sched[s].enabled
                    /\ sched[s].next # NoTime /\ sched[s].next <= now
Triggered(t)     == {<<s, sched[s].param>> : s \in {x \in Children(t) : Due(x)}}
Existing         == {s \in Schedules : sched[s].task # NoTask}
NextId           == 1 + Max({0} \cup Existing)   \* SQLite rowid allocation

Hydrated(t) == IF stored[t] = NoSave THEN Default ELSE stored[t]
InRun(c)    == pc[c] \in Suspended \cup {"finished"}

\* A run of coroutine c is over: a scheduled coroutine goes on to its next
\* schedule without awaiting, an HTTP request is answered.
AfterRun(c, at) ==
  LET j == job[c] IN
  /\ run' = [run EXCEPT ![c] = NoRun]
  /\ IF j.trig = "scheduled"
     THEN /\ pc' = [pc EXCEPT ![c] = "next"]
          /\ job' = [job EXCEPT ![c] = Job(j.task, j.trig, j.todo, NoSched, NoParam,
                                           j.done \cup {<<j.cur, at>>})]
          /\ loop' = c
     ELSE /\ pc' = [pc EXCEPT ![c] = "free"]
          /\ job' = [job EXCEPT ![c] = NoJob]
          /\ loop' = Nobody

-----------------------------------------------------------------------------
Init ==
  /\ phase = "down" /\ loop = Nobody
  /\ ready = [t \in Tasks |-> {}]
  /\ pc = [c \in Coroutines |-> "free"]
  /\ job = [c \in Coroutines |-> NoJob]
  /\ run = [c \in Coroutines |-> NoRun]
  /\ active = {}
  /\ status = [t \in Tasks |-> "idle"]
  /\ cancelReq = [t \in Tasks |-> FALSE]
  /\ config = [t \in Tasks |-> Default]
  /\ stored = [t \in Tasks |-> NoSave]
  /\ enabled \in [Tasks -> BOOLEAN]              \* default_enabled of each class
  /\ sched = [s \in Schedules |-> NoSchedule]
  /\ rows = [r \in Rows |-> RowOf("absent", NoTask)]
  /\ leaked = {}
  /\ now = 0 /\ faults = 0 /\ edits = 0

-----------------------------------------------------------------------------
(* Process life cycle.                                                     *)

\* Mutants: the cleanup changes nothing; the cleanup forgets its status filter.
TerminatedNever(row) == row
TerminatedAlways(row) ==
  IF row.st = "absent" THEN row ELSE RowOf("terminated", row.task)

\* _cleanup_stale_executions on one row.
Terminated(row) ==
  IF row.st = "running" THEN RowOf("terminated", row.task) ELSE row

\* TaskEngine.start: rows a dead process left "running" become "terminated"
\* (the update may fail), then the registry rebuilds its instances.
Boot ==
  /\ phase = "down"
  /\ phase' = "booting"
  /\ \/ /\ rows' = [r \in Rows |-> Terminated(rows[r])]
        /\ leaked' = {}
        /\ UNCHANGED faults
     \/ /\ faults < MaxFaults
        /\ faults' = faults + 1
        /\ leaked' = leaked \cup {r \in Rows : rows[r].st = "running"}
        /\ rows' = rows
  /\ config' = [t \in Tasks |-> Hydrated(t)]
  /\ UNCHANGED <<loop, ready, coVars, active, status, cancelReq, dbVars, now, edits>>

\* sync_from_database: a non-manual task with no schedule row gets one.
SeedDefault(t, i) ==
  /\ phase = "booting"
  /\ t \notin ManualTasks /\ Children(t) = {} /\ NextId \in Schedules
  /\ sched' = [sched EXCEPT ![NextId] =
                 SchedOf(t, TRUE, i, NoParam, CalcNext(i, NoTime), NoTime)]
  /\ UNCHANGED <<engineVars, instVars, stored, enabled, rowVars, now, faults, edits>>

\* The scheduler loop is created last.
Arm ==
  /\ phase = "booting"
  /\ NextId \notin Schedules \/ \A t \in Tasks \ ManualTasks : Children(t) # {}
  /\ phase' = "up"
  /\ UNCHANGED <<loop, ready, coVars, active, instVars, dbVars, rowVars, now, faults, edits>>

\* TaskEngine.stop: the loop is cancelled, runs in flight are only waited for.
Stop ==
  /\ phase = "up" /\ loop = Nobody
  /\ phase' = "stopping"
  /\ UNCHANGED <<loop, ready, coVars, active, instVars, dbVars, rowVars, now, faults, edits>>

Alive == phase \in {"up", "stopping"}

\* The process ends: killed at any point, or exited after stop() gave up waiting.
Crash ==
  /\ Alive
  /\ phase' = "down" /\ loop' = Nobody
  /\ ready' = [t \in Tasks |-> {}]
  /\ pc' = [c \in Coroutines |-> "free"]
  /\ job' = [c \in Coroutines |-> NoJob]
  /\ run' = [c \in Coroutines |-> NoRun]
  /\ active' = {}
  /\ status' = [t \in Tasks |-> "idle"]
  /\ cancelReq' = [t \in Tasks |-> FALSE]
  /\ config' = [t \in Tasks |-> Default]
  /\ UNCHANGED <<dbVars, rowVars, now, faults, edits>>

Advance ==
  /\ now < MaxTime
  /\ now' = now + 1
  /\ UNCHANGED <<engineVars, instVars, dbVars, rowVars, faults, edits>>

-----------------------------------------------------------------------------
(* The scheduler tick.                                                     *)

\* A due task is launched unless it runs already or its parent is disabled.
Launchable(t) == t \notin active /\ enabled[t] /\ Triggered(t) # {}

\* Mutant: off by one.
CapacityOffByOne == Cardinality(active) + 1 < MaxConcurrent

\* The test against max_concurrent.
Capacity == Cardinality(active) < MaxConcurrent

\* _check_and_run_due_tasks: coroutines are only created here; they enter
\* _active_tasks when they start, so the limit is tested against the runs that
\* were active when the tick began.  The ready queue is empty again long before
\* the next tick.
Tick ==
  /\ phase = "up" /\ loop = Nobody
  /\ \A t \in Tasks : ready[t] = {}
  /\ Capacity
  /\ \E t \in Tasks : Launchable(t)
  /\ ready' = [t \in Tasks |-> IF Launchable(t) THEN Triggered(t) ELSE {}]
  /\ UNCHANGED <<phase, loop, coVars, active, instVars, dbVars, rowVars, now, faults, edits>>

\* The coroutine of _execute_task_with_schedules starts, also after stop().
StartScheduled(c, t) ==
  /\ Alive /\ loop = Nobody /\ ready[t] # {} /\ pc[c] = "free"
  /\ ready' = [ready EXCEPT ![t] = {}]
  /\ pc' = [pc EXCEPT ![c] = "next"]
  /\ job' = [job EXCEPT ![c] = Job(t, "scheduled", ready[t], NoSched, NoParam, {})]
  /\ loop' = c
  /\ UNCHANGED <<phase, run, active, instVars, dbVars, rowVars, now, faults, edits>>

\* run_task: a request to run t now, with or without ad-hoc parameters.
RunTask(c, t, p) ==
  /\ phase = "up" /\ loop = Nobody /\ pc[c] = "free"
  /\ pc' = [pc EXCEPT ![c] = "begin"]
  /\ job' = [job EXCEPT ![c] = Job(t, "manual", {}, NoSched, p, {})]
  /\ loop' = c
  /\ UNCHANGED <<phase, ready, run, active, instVars, dbVars, rowVars, now, faults, edits>>

\* The loop over the triggered schedules takes the next one; its parameters are
\* those the tick read.
TakeSchedule(c, e) ==
  /\ loop = c /\ pc[c] = "next" /\ e \in job[c].todo
  /\ pc' = [pc EXCEPT ![c] = "begin"]
  /\ job' = [job EXCEPT ![c] = Job(job[c].task, job[c].trig, job[c].todo \ {e}, e[1], e[2],
                                   job[c].done)]
  /\ UNCHANGED <<phase, loop, ready, run, active, instVars, dbVars, rowVars, now, faults, edits>>

\* Mutant: the next occurrence is computed for a schedule disabled meanwhile too.
RescheduledAlways(s, at) ==
  LET x == sched[s] IN
  SchedOf(x.task, x.enabled, x.interval, x.param, CalcNext(x.interval, at), at)

\* last_run_at is the result's completed_at, next_run_at counts from it.
Rescheduled(s, at) ==
  LET x == sched[s] IN
  SchedOf(x.task, x.enabled, x.interval, x.param,
          IF x.enabled THEN CalcNext(x.interval, at) ELSE x.next, at)

\* After the last one: last_run_at and next_run_at of every schedule that ran
\* and still exists, in one transaction that may fail.
FinishSchedules(c) ==
  /\ loop = c /\ pc[c] = "next" /\ job[c].todo = {}
  /\ \/ /\ sched' = [s \in Schedules |->
                       IF sched[s].task # NoTask /\ \E d \in job[c].done : d[1] = s
                       THEN Rescheduled(s, (CHOOSE d \in job[c].done : d[1] = s)[2])
                       ELSE sched[s]]
        /\ UNCHANGED faults
     \/ /\ faults < MaxFaults
        /\ faults' = faults + 1
        /\ UNCHANGED sched
  /\ pc' = [pc EXCEPT ![c] = "free"]
  /\ job' = [job EXCEPT ![c] = NoJob]
  /\ loop' = Nobody
  /\ UNCHANGED <<phase, ready, run, active, instVars, stored, enabled, rowVars, now, edits>>

-----------------------------------------------------------------------------
(* _execute_task and TaskScheduler.run.                                    *)

\* Mutant: the instance's status is asked instead of the claim.
ClaimedByStatus(t) == status[t] = "running"

\* The test under _lock.
Claimed(t) == t \in active

\* ALREADY_RUNNING: a result without completed_at.
Refuse(c) ==
  /\ loop = c /\ pc[c] = "begin" /\ Claimed(job[c].task)
  /\ AfterRun(c, NoTime)
  /\ UNCHANGED <<phase, ready, active, instVars, dbVars, rowVars, now, faults, edits>>

\* The execution row is committed, or its insert fails and the run goes on.
CreateRow(t, r) ==
  \/ /\ r \in Rows /\ rows[r].st = "absent"
     /\ rows' = [rows EXCEPT ![r] = RowOf("running", t)]
     /\ UNCHANGED faults
  \/ /\ r = NoRow /\ faults < MaxFaults
     /\ faults' = faults + 1
     /\ UNCHANGED rows

\* The task is claimed, the configuration saved as the baseline and the run
\* parameters laid over it; run() checks _status and awaits validate_config.
\* Preparing or validating the parameters may raise instead.
Admit(c, r) ==
  LET t == job[c].task
      overlaid == IF job[c].param = NoParam THEN config
                  ELSE [config EXCEPT ![t] = job[c].param] IN
  /\ loop = c /\ pc[c] = "begin" /\ ~Claimed(t)
  /\ active' = active \cup {t}
  /\ CreateRow(t, r)
  /\ \/ /\ config' = overlaid
        /\ IF status[t] = "running"
           THEN /\ pc' = [pc EXCEPT ![c] = "finished"]
                /\ run' = [run EXCEPT ![c] = RunOf(config[t], r, "already", NoTime, FALSE)]
                /\ loop' = c
           ELSE /\ pc' = [pc EXCEPT ![c] = "validating"]
                /\ run' = [run EXCEPT ![c] = RunOf(config[t], r, "none", NoTime, FALSE)]
                /\ loop' = Nobody
     \/ /\ config' \in {config, overlaid}
        /\ pc' = [pc EXCEPT ![c] = "failing"]
        /\ run' = [run EXCEPT ![c] = RunOf(config[t], r, "none", NoTime, FALSE)]
        /\ loop' = Nobody
  /\ UNCHANGED <<phase, ready, job, status, cancelReq, dbVars, leaked, now, edits>>

\* The result a run returns.
SetResult(c, res, at) ==
  run' = [run EXCEPT ![c] = RunOf(run[c].base, run[c].row, res, at, run[c].acked)]

\* validate_config answers: go, refuse (no completed_at, no await before the
\* row is written), or raise into _execute_task.
Validate(c) ==
  LET t == job[c].task IN
  /\ loop = Nobody /\ pc[c] = "validating"
  /\ \/ /\ status' = [status EXCEPT ![t] = "running"]
        /\ cancelReq' = [cancelReq EXCEPT ![t] = FALSE]
        /\ pc' = [pc EXCEPT ![c] = "executing"]
        /\ UNCHANGED <<loop, run>>
     \/ /\ pc' = [pc EXCEPT ![c] = "finished"]
        /\ SetResult(c, "invalid", NoTime)
        /\ loop' = c
        /\ UNCHANGED <<status, cancelReq>>
     \/ /\ pc' = [pc EXCEPT ![c] = "failing"]
        /\ UNCHANGED <<loop, run, status, cancelReq>>
  /\ UNCHANGED <<phase, ready, job, active, config, dbVars, rowVars, now, faults, edits>>

\* Mutant: the flag is not read after execute() returns.
FinalIgnoringCancel(t, res, raised) == res

\* The check of _cancel_requested once execute() has returned.
FinalResult(t, res, raised) == IF cancelReq[t] /\ ~raised THEN "cancelled" ELSE res

\* execute() returns res, or a hook or execute() itself raises (res = "error"
\* then too); a cancellation requested meanwhile overrides a result, not an
\* exception.
Execute(c, res, raised) ==
  LET t == job[c].task IN
  /\ loop = Nobody /\ pc[c] = "executing"
  /\ raised => res = "error"
  /\ status' = [status EXCEPT ![t] = "terminal"]
  /\ pc' = [pc EXCEPT ![c] = "finalizing"]
  /\ SetResult(c, FinalResult(t, res, raised), now)
  /\ UNCHANGED <<phase, loop, ready, job, active, cancelReq, config, dbVars, rowVars, now,
                 faults, edits>>

\* Mutant: `finally' forgets to make the instance IDLE again.
FinishRunStuck(c) ==
  /\ loop = Nobody /\ pc[c] = "finalizing"
  /\ pc' = [pc EXCEPT ![c] = "finished"]
  /\ loop' = c
  /\ UNCHANGED <<phase, ready, job, run, active, instVars, dbVars, rowVars, now, faults, edits>>

\* The hooks, the progress notification and the short sleep are over.
FinishRun(c) ==
  /\ loop = Nobody /\ pc[c] = "finalizing"
  /\ status' = [status EXCEPT ![job[c].task] = "idle"]
  /\ pc' = [pc EXCEPT ![c] = "finished"]
  /\ loop' = c
  /\ UNCHANGED <<phase, ready, job, run, active, cancelReq, config, dbVars, rowVars, now,
                 faults, edits>>

\* Writes the terminal status of the coroutine's row if there is one; a failed
\* write leaves the row "running" for good.
CloseRow(r, st) ==
  \/ /\ rows' = IF r = NoRow THEN rows ELSE [rows EXCEPT ![r] = RowOf(st, rows[r].task)]
     /\ UNCHANGED <<leaked, faults>>
  \/ /\ r # NoRow /\ faults < MaxFaults
     /\ faults' = faults + 1
     /\ leaked' = leaked \cup {r}
     /\ UNCHANGED rows

\* sync_to_database after a run: without a config intent the stored snapshot is
\* left alone, and a non-manual task's row exists since the boot.
SyncToDatabase == UNCHANGED dbVars

\* The execution row, sync_to_database and the journal, up to the awaited
\* completion notification.
Record(c) ==
  /\ loop = c /\ pc[c] = "finished"
  /\ CloseRow(run[c].row, ExecutionStatus(run[c].res))
  /\ SyncToDatabase
  /\ pc' = [pc EXCEPT ![c] = "notifying"]
  /\ loop' = Nobody
  /\ UNCHANGED <<phase, ready, job, run, active, instVars, now, edits>>

\* Mutants: one half of `finally' is missing.
ReleaseKeepingOverlay(c) == active' = active \ {job[c].task} /\ config' = config
ReleaseKeepingClaim(c) ==
  active' = active /\ config' = [config EXCEPT ![job[c].task] = run[c].base]

\* `finally': the baseline is restored, then the task is released.
Release(c) ==
  LET t == job[c].task IN
  /\ config' = [config EXCEPT ![t] = run[c].base]
  /\ active' = active \ {t}

Return(c) ==
  /\ loop = Nobody /\ pc[c] = "notifying"
  /\ Release(c)
  /\ AfterRun(c, run[c].at)
  /\ UNCHANGED <<phase, ready, status, cancelReq, dbVars, rowVars, now, faults, edits>>

\* The except branch: the error notification was awaited first.
FailReturn(c) ==
  /\ loop = Nobody /\ pc[c] = "failing"
  /\ CloseRow(run[c].row, "failed")
  /\ Release(c)
  /\ AfterRun(c, now)
  /\ UNCHANGED <<phase, ready, status, cancelReq, dbVars, now, edits>>

-----------------------------------------------------------------------------
(* Operator calls that arrive while coroutines are suspended.              *)

Serving == phase = "up" /\ loop = Nobody

Edit == /\ edits < MaxEdits
        /\ edits' = edits + 1

\* cancel_task: acknowledged only while the instance is RUNNING.
CancelTask(t) ==
  /\ Serving /\ t \in active /\ status[t] = "running"
  /\ cancelReq' = [cancelReq EXCEPT ![t] = TRUE]
  /\ run' = [c \in Coroutines |->
               IF job[c].task = t /\ InRun(c)
               THEN RunOf(run[c].base, run[c].row, run[c].res, run[c].at, TRUE)
               ELSE run[c]]
  /\ UNCHANGED <<phase, loop, ready, pc, job, active, status, config, dbVars, rowVars, now,
                 faults, edits>>

\* sync_to_database with a config intent: a failed write keeps the previous
\* snapshot, and the caller is not told.
PersistConfig(t, v) ==
  \/ /\ stored' = [stored EXCEPT ![t] = v]
     /\ UNCHANGED faults
  \/ /\ faults < MaxFaults
     /\ faults' = faults + 1
     /\ UNCHANGED stored

\* PATCH /api/tasks/{id} with a config: live instance, then stored snapshot.
SaveConfig(t, v) ==
  /\ Serving /\ Edit
  /\ config' = [config EXCEPT ![t] = v]
  /\ PersistConfig(t, v)
  /\ UNCHANGED <<engineVars, status, cancelReq, enabled, sched, rowVars, now>>

\* PATCH with enabled: enabling also turns the newest schedule on when the
\* task is not manual and none of its schedules is enabled.
SetEnabled(t, b) ==
  /\ Serving /\ Edit
  /\ enabled' = [enabled EXCEPT ![t] = b]
  /\ sched' = IF b /\ t \notin ManualTasks /\ Children(t) # {}
                 /\ \A s \in Children(t) : ~sched[s].enabled
              THEN LET s == Max(Children(t))
                       x == sched[s]
                   IN [sched EXCEPT ![s] = SchedOf(t, TRUE, x.interval, x.param,
                                                   CalcNext(x.interval, NoTime), x.last)]
              ELSE sched
  /\ UNCHANGED <<engineVars, instVars, stored, rowVars, now, faults>>

\* POST .../schedules
CreateSchedule(t, b, i, p) ==
  /\ Serving /\ Edit /\ NextId \in Schedules
  /\ sched' = [sched EXCEPT ![NextId] =
                 SchedOf(t, b, i, p, IF b THEN CalcNext(i, NoTime) ELSE NoTime, NoTime)]
  /\ UNCHANGED <<engineVars, instVars, stored, enabled, rowVars, now, faults>>

\* PATCH .../schedules/{id}: next_run_at is recomputed from the present moment.
UpdateSchedule(s, b, i, p) ==
  /\ Serving /\ Edit /\ sched[s].task # NoTask
  /\ sched' = [sched EXCEPT ![s] =
                 SchedOf(sched[s].task, b, i, p, IF b THEN CalcNext(i, NoTime) ELSE NoTime,
                         sched[s].last)]
  /\ UNCHANGED <<engineVars, instVars, stored, enabled, rowVars, now, faults>>

\* DELETE .../schedules/{id}: the id becomes free for the next insert.
DeleteSchedule(s) ==
  /\ Serving /\ Edit /\ sched[s].task # NoTask
  /\ sched' = [sched EXCEPT ![s] = NoSchedule]
  /\ UNCHANGED <<engineVars, instVars, stored, enabled, rowVars, now, faults>>

\* purge_old_history: a run is far shorter than the retention, so a row old
\* enough belongs to no run in flight; a row left "running" by a failed write is
\* kept, the worst case for the history.  Row ids are unlimited in the database;
\* purging is what keeps the model's few in use.
Purge(r) ==
  /\ Alive /\ rows[r].st \in Terminal
  /\ rows' = [rows EXCEPT ![r] = RowOf("absent", NoTask)]
  /\ UNCHANGED <<engineVars, instVars, dbVars, leaked, now, faults, edits>>

-----------------------------------------------------------------------------
\* One uninterrupted section of coroutine c.
Step(c) ==
  \/ \E t \in Tasks : StartScheduled(c, t)
  \/ \E e \in job[c].todo : TakeSchedule(c, e)
  \/ FinishSchedules(c)
  \/ Refuse(c)
  \/ \E r \in Rows \cup {NoRow} : Admit(c, r)
  \/ Validate(c)
  \/ \E r \in Outcome \ {"cancelled"}, b \in BOOLEAN : Execute(c, r, b)
  \/ FinishRun(c)
  \/ Record(c)
  \/ Return(c)
  \/ FailReturn(c)

Operator ==
  \/ \E c \in Coroutines, t \in Tasks, p \in ParamOpt : RunTask(c, t, p)
  \/ \E t \in Tasks : CancelTask(t)
  \/ \E t \in Tasks, v \in Saves : SaveConfig(t, v)
  \/ \E t \in Tasks, b \in BOOLEAN : SetEnabled(t, b)
  \/ \E t \in Tasks, b \in BOOLEAN, i \in Intervals, p \in ParamOpt : CreateSchedule(t, b, i, p)
  \/ \E s \in Schedules, b \in BOOLEAN, i \in Intervals, p \in ParamOpt : UpdateSchedule(s, b, i, p)
  \/ \E s \in Schedules : DeleteSchedule(s)

Process ==
  \/ Boot
  \/ \E t \in Tasks, i \in Intervals : SeedDefault(t, i)
  \/ Arm
  \/ Stop
  \/ Crash
  \/ Advance
  \/ Tick
  \/ \E r \in Rows : Purge(r)

Next == Process \/ Operator \/ \E c \in Coroutines : Step(c)

Spec == Init /\ [][Next]_vars

\* asyncio's ready queue is FIFO, so a coroutine whose await has completed gets
\* the loop although others keep taking it (strong fairness of Step); that the
\* awaited work itself ends is assumed.  The tick is a timer in the same queue.
\* Purge is fair because a run never waits for a free row.
FairSpec ==
  /\ Spec
  /\ \A c \in Coroutines : SF_vars(Step(c))
  /\ SF_vars(Tick)
  /\ WF_vars(\E r \in Rows : Purge(r))

-----------------------------------------------------------------------------
(* Properties.                                                             *)

\* No task is ever executed by two coroutines at once, whatever mix of ticks
\* and run requests started them (the _active_tasks claim under _lock).
SingleFlight ==
  \A c, d \in Coroutines : c # d /\ InRun(c) /\ InRun(d) => job[c].task # job[d].task

\* While the engine is up, an execution row says "running" only while a
\* coroutine of that task is between creating it and closing it, unless the
\* closing write failed: history never shows a phantom run.
RunningRowOwned ==
  phase # "down" =>
    \A r \in Rows : rows[r].st = "running" /\ r \notin leaked =>
      \E c \in Coroutines : /\ InRun(c) /\ pc[c] # "notifying"
                            /\ run[c].row = r /\ job[c].task = rows[r].task

\* Run parameters are an overlay: once a task is released its live
\* configuration carries none of them, so the next run cannot observe them.
OverlayContained ==
  \A t \in Tasks \ active : config[t] \notin Params

\* A cancellation that was acknowledged with "cancelling" is never reported as
\* a completed run: the run ends cancelled, or failed if it raised.
AckedCancelNotCompleted ==
  \A c \in Coroutines : run[c].acked /\ run[c].res # "none" => run[c].res \in {"cancelled", "error"}

\* An instance is RUNNING only while its task is claimed, so run()'s own
\* ALREADY_RUNNING answer never wedges a task for good.
NoWedgedInstance ==
  \A t \in Tasks : status[t] # "idle" => t \in active

\* Whatever happens to a schedule while its run is suspended or refused (edited,
\* disabled, deleted, its id given to a new one, a run without completed_at), the
\* row the run's end writes is the operator's: a disabled schedule stays off, a
\* deleted one gone, and an enabled one is due again within one interval.
ScheduleEditsStand ==
  \A s \in Schedules :
    LET x == sched[s] IN
    /\ x.task = NoTask => x = NoSchedule
    /\ x.task # NoTask /\ ~x.enabled => x.next = NoTime
    /\ x.enabled => x.next # NoTime /\ x.next <= now + x.interval

\* A closed execution row is never rewritten: it stays as it is until purged.
ClosedRowsAreFinal ==
  [][\A r \in Rows : rows[r].st \in Terminal =>
        rows'[r] = rows[r] \/ rows'[r].st = "absent"]_vars

\* Every claimed task is released again, through whichever of the return,
\* exception and refusal paths its run takes.
EveryRunReleased ==
  \A t \in Tasks : t \in active ~> t \notin active

\* A due schedule of an enabled task is not forgotten while the engine is up:
\* its task gets to run or the schedule stops being due.
DueScheduleServed ==
  \A s \in Schedules :
    (phase = "up" /\ Due(s) /\ enabled[sched[s].task])
      ~> (~Due(s) \/ sched[s].task \in active \/ phase # "up" \/ ~enabled[sched[s].task])

\* The inductive invariant behind the safety properties above.
\* What each coroutine may rely on across its awaits.
CoInv(c) ==
  /\ pc[c] # "free" => job[c].task \in Tasks /\ phase \in {"up", "stopping"}
  /\ ~InRun(c) => run[c] = NoRun
  /\ InRun(c) => job[c].task \in active /\ run[c].base \notin Params
  /\ InRun(c) /\ pc[c] # "notifying" /\ run[c].row # NoRow
       => rows[run[c].row] = RowOf("running", job[c].task)
  /\ pc[c] \in {"validating", "executing", "failing"} => run[c].res = "none"
  /\ run[c].acked => /\ pc[c] \in {"executing", "finalizing", "finished", "notifying"}
                     /\ pc[c] = "executing" => cancelReq[job[c].task]
                     /\ pc[c] # "executing" => run[c].res \in {"cancelled", "error"}

CoroutineInv == \A c \in Coroutines : CoInv(c)

\* Where run() is when the instance is not IDLE.
Stage(st) == IF st = "running" THEN "executing" ELSE "finalizing"

\* An instance leaves IDLE only inside run(), and a dead process has no instance.
InstanceInv ==
  /\ \A t \in Tasks : status[t] # "idle" =>
       \E c \in Coroutines : pc[c] = Stage(status[t]) /\ job[c].task = t
  /\ phase \in {"down", "booting"} => active = {}

\* Together with the properties it makes inductive: the state of the engine, its
\* coroutines, its instances and its history rows agree with one another.
EngineInv ==
  /\ TypeOK
  /\ CoroutineInv
  /\ InstanceInv
  /\ SingleFlight
  /\ RunningRowOwned
  /\ OverlayContained

Runs == INSTANCE ExclusiveRuns WITH busy <- active, hist <- rows

\* The engine implements the exclusive-run service: each of its steps is a
\* claim, a close, a release, a crash, a recovery, a purge, or invisible.
RefinesExclusiveRuns == Runs!Spec

-----------------------------------------------------------------------------
(* A claim of the repository that the code does not keep.                  *)

\* "MAX_CONCURRENT_TASKS = 3  # Maximum tasks running simultaneously", read at
\* its weakest: the runs the scheduler itself started stay within max_concurrent.
ConcurrencyLimitHeld ==
  Cardinality({c \in Coroutines : InRun(c) /\ job[c].trig = "scheduled"}) <= MaxConcurrent

=============================================================================
