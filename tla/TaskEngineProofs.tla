--------------------------- MODULE TaskEngineProofs ---------------------------
(***************************************************************************)
(* Proofs about TaskEngine for every number of tasks, coroutines, rows and *)
(* schedules, and every choice of the bounds.                              *)
(***************************************************************************)
EXTENDS TaskEngine, TLAPS

\* The constructors of the state's records stay within their types.
LEMMA JobType ==
  ASSUME NEW t \in Tasks \cup {NoTask}, NEW g \in Trigger,
         NEW todo \in SUBSET (Schedules \X ParamOpt), NEW cur \in Schedules \cup {NoSched},
         NEW p \in ParamOpt, NEW done \in SUBSET ((Schedules \cup {NoSched}) \X Int)
  PROVE  Job(t, g, todo, cur, p, done) \in Jobs
BY DEF Job, Jobs

\* The record of a coroutine that serves no call is a job.
LEMMA NoJobType == NoJob \in Jobs
BY DEF NoJob, Job, Jobs, Trigger, ParamOpt

\* The locals of a run.
LEMMA RunType ==
  ASSUME NEW base \in ConfigVal, NEW r \in Rows \cup {NoRow}, NEW res \in Result,
         NEW at \in Int, NEW a \in BOOLEAN
  PROVE  RunOf(base, r, res, at, a) \in Runtime
BY DEF RunOf, Runtime

\* The locals of a coroutine outside a run.
LEMMA NoRunType == NoRun \in Runtime
BY DEF NoRun, RunOf, Runtime, ConfigVal, Result, NoTime

\* A task_schedules row.
LEMMA SchedType ==
  ASSUME NEW t \in Tasks \cup {NoTask}, NEW b \in BOOLEAN, NEW i \in Nat, NEW p \in ParamOpt,
         NEW n \in Int, NEW l \in Int
  PROVE  SchedOf(t, b, i, p, n, l) \in ScheduleRow
BY DEF SchedOf, ScheduleRow

\* An unused schedule id.
LEMMA NoScheduleType == NoSchedule \in ScheduleRow
BY DEF NoSchedule, SchedOf, ScheduleRow, NoTime, ParamOpt

\* An execution row.
LEMMA RowType ==
  ASSUME NEW st \in RowStatus, NEW t \in Tasks \cup {NoTask}
  PROVE  RowOf(st, t) \in [st : RowStatus, task : Tasks \cup {NoTask}]
BY DEF RowOf

\* calculate_next_run yields a time.
LEMMA CalcNextType ==
  ASSUME TypeOK, NEW i \in Nat, NEW l \in Int PROVE CalcNext(i, l) \in Int
BY DEF TypeOK, CalcNext

\* Every action keeps the variables of the engine, the instances and the
\* database within their types.
LEMMA TypeStep == TypeOK /\ CoroutineInv /\ [Next]_vars => TypeOK'
<1> SUFFICES ASSUME TypeOK, CoroutineInv, [Next]_vars PROVE TypeOK'
  OBVIOUS
<1> USE DEF TypeOK, coVars
<1>time. NoTime \in Int
  BY DEF NoTime
<1>none. NoParam \in ParamOpt
  BY DEF ParamOpt
<1>1. CASE Boot
  <2>1. ASSUME NEW r \in Rows PROVE rows[r].task \in Tasks \cup {NoTask} /\ "terminated" \in RowStatus
    BY DEF RowStatus
  <2>2. rows' \in [Rows -> [st : RowStatus, task : Tasks \cup {NoTask}]]
    BY <1>1, <2>1, RowType DEF Boot, Terminated
  <2>3. config' \in [Tasks -> ConfigVal]
    BY <1>1 DEF Boot, Hydrated, ConfigVal
  <2> QED BY <1>1, <2>2, <2>3 DEF Boot, dbVars
<1>2. ASSUME NEW t \in Tasks, NEW i \in Intervals, SeedDefault(t, i) PROVE TypeOK'
  BY <1>2, <1>time, <1>none, SchedType, CalcNextType, ConstantsAssumption DEF SeedDefault, engineVars, instVars, rowVars
<1>3. CASE Arm
  BY <1>3 DEF Arm, instVars, dbVars, rowVars
<1>4. CASE Stop
  BY <1>4 DEF Stop, instVars, dbVars, rowVars
<1>5. CASE Crash
  BY <1>5, NoJobType, NoRunType DEF Crash, dbVars, rowVars, ConfigVal, PC
<1>6. CASE Advance
  BY <1>6 DEF Advance, engineVars, instVars, dbVars, rowVars
<1>7. CASE Tick
  <2>1. ASSUME NEW t \in Tasks PROVE Triggered(t) \in SUBSET (Schedules \X ParamOpt)
    BY DEF Triggered, Children, ScheduleRow
  <2> QED BY <1>7, <2>1 DEF Tick, instVars, dbVars, rowVars
<1>8. ASSUME NEW r \in Rows, Purge(r) PROVE TypeOK'
  <2>1. "absent" \in RowStatus
    BY DEF RowStatus
  <2> QED BY <1>8, <2>1, RowType DEF Purge, engineVars, instVars, dbVars
<1>9. ASSUME NEW c \in Coroutines, NEW t \in Tasks, NEW p \in ParamOpt, RunTask(c, t, p)
      PROVE TypeOK'
  <2>1. Job(t, "manual", {}, NoSched, p, {}) \in Jobs /\ "begin" \in PC
    BY JobType DEF Trigger, PC
  <2> QED BY <1>9, <2>1 DEF RunTask, instVars, dbVars, rowVars
<1>10. ASSUME NEW t \in Tasks, CancelTask(t) PROVE TypeOK'
  BY <1>10 DEF CancelTask, Runtime, RunOf, dbVars, rowVars
<1>11. ASSUME NEW t \in Tasks, NEW v \in Saves, SaveConfig(t, v) PROVE TypeOK'
  BY <1>11 DEF SaveConfig, PersistConfig, Edit, ConfigVal, engineVars, rowVars
<1>12. ASSUME NEW t \in Tasks, NEW b \in BOOLEAN, SetEnabled(t, b) PROVE TypeOK'
  <2>1. sched' \in [Schedules -> ScheduleRow]
    <3>1. CASE sched' = sched
      BY <3>1
    <3>2. CASE sched' # sched
      <4> DEFINE s == Max(Children(t))
                 x == sched[s]
      <4>1. sched' = [sched EXCEPT ![s] = SchedOf(t, TRUE, x.interval, x.param,
                                                  CalcNext(x.interval, NoTime), x.last)]
        BY <1>12, <3>2 DEF SetEnabled
      <4>2. ASSUME s \in Schedules
            PROVE  SchedOf(t, TRUE, x.interval, x.param, CalcNext(x.interval, NoTime), x.last)
                     \in ScheduleRow
        <5>1. x.interval \in Nat /\ x.param \in ParamOpt /\ x.last \in Int
          BY <4>2 DEF ScheduleRow
        <5>2. CalcNext(x.interval, NoTime) \in Int
          BY <5>1, <1>time, CalcNextType
        <5> QED BY <5>1, <5>2, SchedType
      <4> DEFINE v == SchedOf(t, TRUE, x.interval, x.param, CalcNext(x.interval, NoTime), x.last)
      <4>3. sched' = [sched EXCEPT ![s] = v] /\ (s \in Schedules => v \in ScheduleRow)
        BY <4>1, <4>2
      <4> HIDE DEF s, x, v
      <4> QED BY <4>3
    <3> QED BY <3>1, <3>2
  <2>2. /\ enabled' = [enabled EXCEPT ![t] = b] /\ edits' = edits + 1
        /\ UNCHANGED <<engineVars, instVars, stored, rowVars, now, faults>>
    BY <1>12 DEF SetEnabled, Edit
  <2> QED BY <2>1, <2>2 DEF engineVars, instVars, rowVars
<1>13. ASSUME NEW t \in Tasks, NEW b \in BOOLEAN, NEW i \in Intervals, NEW p \in ParamOpt,
              CreateSchedule(t, b, i, p) PROVE TypeOK'
  <2>1. (IF b THEN CalcNext(i, NoTime) ELSE NoTime) \in Int /\ i \in Nat
    BY <1>time, CalcNextType, ConstantsAssumption
  <2> QED BY <1>13, <1>time, <2>1, SchedType DEF CreateSchedule, Edit, engineVars, instVars, rowVars
<1>14. ASSUME NEW s \in Schedules, NEW b \in BOOLEAN, NEW i \in Intervals, NEW p \in ParamOpt,
              UpdateSchedule(s, b, i, p) PROVE TypeOK'
  <2>1. sched[s].task \in Tasks \cup {NoTask} /\ sched[s].last \in Int
    BY DEF ScheduleRow
  <2>2. (IF b THEN CalcNext(i, NoTime) ELSE NoTime) \in Int /\ i \in Nat
    BY <1>time, CalcNextType, ConstantsAssumption
  <2> QED
    BY <1>14, <2>1, <2>2, SchedType DEF UpdateSchedule, Edit, engineVars, instVars, rowVars
<1>15. ASSUME NEW s \in Schedules, DeleteSchedule(s) PROVE TypeOK'
  BY <1>15, NoScheduleType DEF DeleteSchedule, Edit, engineVars, instVars, rowVars
<1>16. ASSUME NEW c \in Coroutines, Step(c) PROVE TypeOK'
  <2>job. /\ job[c].task \in Tasks \cup {NoTask} /\ job[c].trig \in Trigger
          /\ job[c].todo \in SUBSET (Schedules \X ParamOpt)
          /\ job[c].cur \in Schedules \cup {NoSched} /\ job[c].param \in ParamOpt
          /\ job[c].done \in SUBSET ((Schedules \cup {NoSched}) \X Int)
    BY DEF Jobs
  <2>run. /\ run[c].base \in ConfigVal /\ run[c].row \in Rows \cup {NoRow}
          /\ run[c].res \in Result /\ run[c].at \in Int /\ run[c].acked \in BOOLEAN
    BY DEF Runtime
  <2>sched. NoSched \in Schedules \cup {NoSched}
    OBVIOUS
  <2>1. ASSUME NEW t \in Tasks, StartScheduled(c, t) PROVE TypeOK'
    <3>1. Job(t, "scheduled", ready[t], NoSched, NoParam, {}) \in Jobs /\ "next" \in PC
      BY JobType, <1>none DEF Trigger, PC
    <3> QED BY <2>1, <3>1 DEF StartScheduled, instVars, dbVars, rowVars
  <2>2. ASSUME NEW e \in job[c].todo, TakeSchedule(c, e) PROVE TypeOK'
    <3>1. e[1] \in Schedules /\ e[2] \in ParamOpt /\ "begin" \in PC
      BY <2>job DEF PC
    <3>2. Job(job[c].task, job[c].trig, job[c].todo \ {e}, e[1], e[2], job[c].done) \in Jobs
      BY <2>job, <3>1, JobType
    <3> QED BY <2>2, <3>1, <3>2 DEF TakeSchedule, instVars, dbVars, rowVars
  <2>3. CASE FinishSchedules(c)
    <3>1. ASSUME NEW s \in Schedules, NEW at \in Int PROVE Rescheduled(s, at) \in ScheduleRow
      <4>1. /\ sched[s].task \in Tasks \cup {NoTask} /\ sched[s].enabled \in BOOLEAN
            /\ sched[s].interval \in Nat /\ sched[s].param \in ParamOpt /\ sched[s].next \in Int
        BY DEF ScheduleRow
      <4>2. (IF sched[s].enabled THEN CalcNext(sched[s].interval, at) ELSE sched[s].next) \in Int
        BY <4>1, CalcNextType
      <4> QED BY <4>1, <4>2, SchedType DEF Rescheduled
    <3>2. ASSUME NEW s \in Schedules, \E d \in job[c].done : d[1] = s
          PROVE (CHOOSE d \in job[c].done : d[1] = s)[2] \in Int
      BY <2>job, <3>2
    <3> DEFINE ran(s) == sched[s].task # NoTask /\ \E d \in job[c].done : d[1] = s
               v(s) == IF ran(s) THEN Rescheduled(s, (CHOOSE d \in job[c].done : d[1] = s)[2])
                                 ELSE sched[s]
    <3>3. \A s \in Schedules : v(s) \in ScheduleRow
      <4> SUFFICES ASSUME NEW s \in Schedules PROVE v(s) \in ScheduleRow
        OBVIOUS
      <4>1. CASE ran(s)
        <5>1. (CHOOSE d \in job[c].done : d[1] = s)[2] \in Int
          BY <3>2, <4>1
        <5> QED BY <3>1, <4>1, <5>1
      <4>2. CASE ~ran(s)
        BY <4>2
      <4> QED BY <4>1, <4>2
    <3>4. (sched' = [s \in Schedules |-> v(s)] \/ sched' = sched) /\ faults' \in Nat
      BY <2>3 DEF FinishSchedules
    <3> HIDE DEF v
    <3>5. sched' \in [Schedules -> ScheduleRow]
      BY <3>3, <3>4
    <3> QED BY <2>3, <3>4, <3>5, NoJobType DEF FinishSchedules, PC, instVars, rowVars
  <2>4. ASSUME NEW at \in Int, AfterRun(c, at)
        PROVE /\ pc' \in [Coroutines -> PC] /\ job' \in [Coroutines -> Jobs]
              /\ run' \in [Coroutines -> Runtime] /\ loop' \in Coroutines \cup {Nobody}
    <3>1. job[c].done \cup {<<job[c].cur, at>>} \in SUBSET ((Schedules \cup {NoSched}) \X Int)
      BY <2>job
    <3>2. Job(job[c].task, job[c].trig, job[c].todo, NoSched, NoParam,
              job[c].done \cup {<<job[c].cur, at>>}) \in Jobs
      BY <2>job, <3>1, <1>none, JobType
    <3> QED BY <2>4, <3>2, NoJobType, NoRunType DEF AfterRun, PC
  <2>5. CASE Refuse(c)
    BY <2>5, <2>4, <1>time DEF Refuse, instVars, dbVars, rowVars
  <2>6. ASSUME NEW r \in Rows \cup {NoRow}, Admit(c, r) PROVE TypeOK'
    <3>1. "running" \in RowStatus
      BY DEF RowStatus
    <3>2. /\ rows' \in [Rows -> [st : RowStatus, task : Tasks \cup {NoTask}]] /\ faults' \in Nat
      BY <2>6, <2>job, <3>1, RowType DEF Admit, CreateRow
    <3>3. /\ pc' \in [Coroutines -> PC] /\ run' \in [Coroutines -> Runtime]
          /\ loop' \in Coroutines \cup {Nobody} /\ config' \in [Tasks -> ConfigVal]
          /\ active' \subseteq Tasks
      <4> DEFINE t == job[c].task
                 overlaid == IF job[c].param = NoParam THEN config
                             ELSE [config EXCEPT ![t] = job[c].param]
      <4>1. t \in Tasks
        BY <2>6 DEF Admit, CoroutineInv, CoInv
      <4>2. overlaid \in [Tasks -> ConfigVal] /\ config[t] \in ConfigVal
        BY <2>job, <4>1 DEF ParamOpt, ConfigVal
      <4>3. /\ {"finished", "validating", "failing"} \subseteq PC
            /\ RunOf(config[t], r, "already", NoTime, FALSE) \in Runtime
            /\ RunOf(config[t], r, "none", NoTime, FALSE) \in Runtime
        BY <4>2, <1>time, RunType DEF PC, Suspended, Result
      <4>4. config' = config \/ config' = overlaid
        BY <2>6 DEF Admit
      <4>5. config' \in [Tasks -> ConfigVal] /\ active' \subseteq Tasks
        BY <2>6, <4>1, <4>2, <4>4 DEF Admit
      <4>6. pc' \in [Coroutines -> PC] /\ run' \in [Coroutines -> Runtime]
        BY <2>6, <4>3 DEF Admit
      <4> QED BY <2>6, <4>5, <4>6 DEF Admit
    <3> QED BY <2>6, <3>2, <3>3 DEF Admit, dbVars
  <2>7. CASE Validate(c)
    <3>1. /\ {"executing", "finished", "failing"} \subseteq PC
          /\ RunOf(run[c].base, run[c].row, "invalid", NoTime, run[c].acked) \in Runtime
      BY <2>run, <1>time, RunType DEF PC, Suspended, Result
    <3>2. pc' \in [Coroutines -> PC] /\ run' \in [Coroutines -> Runtime]
      BY <2>7, <3>1 DEF Validate, SetResult
    <3>3. status' \in [Tasks -> {"idle", "running", "terminal"}] /\ cancelReq' \in [Tasks -> BOOLEAN]
      BY <2>7 DEF Validate
    <3> QED BY <2>7, <3>2, <3>3 DEF Validate, dbVars, rowVars
  <2>8. ASSUME NEW r \in Outcome \ {"cancelled"}, NEW b \in BOOLEAN, Execute(c, r, b)
        PROVE TypeOK'
    <3> DEFINE res == IF cancelReq[job[c].task] /\ ~b THEN "cancelled" ELSE r
    <3>1. res \in Result
      BY DEF Result, Outcome
    <3>2. run' = [run EXCEPT ![c] = RunOf(run[c].base, run[c].row, res, now, run[c].acked)]
      BY <2>8 DEF Execute, FinalResult, SetResult
    <3> HIDE DEF res
    <3>3. run' \in [Coroutines -> Runtime]
      <4>1. RunOf(run[c].base, run[c].row, res, now, run[c].acked) \in Runtime
        BY <2>run, <3>1 DEF RunOf, Runtime
      <4> QED BY <3>2, <4>1
    <3>4. pc' \in [Coroutines -> PC]
      BY <2>8 DEF Execute, PC, Suspended
    <3> QED BY <2>8, <3>3, <3>4 DEF Execute, dbVars, rowVars
  <2>9. CASE FinishRun(c)
    BY <2>9 DEF FinishRun, PC, dbVars, rowVars
  <2>10. ASSUME NEW r \in Rows \cup {NoRow}, NEW st \in RowStatus, CloseRow(r, st)
         PROVE /\ rows' \in [Rows -> [st : RowStatus, task : Tasks \cup {NoTask}]]
               /\ leaked' \subseteq Rows /\ faults' \in Nat
    BY <2>10, RowType DEF CloseRow
  <2>11. CASE Record(c)
    <3>1. ExecutionStatus(run[c].res) \in RowStatus
      BY DEF ExecutionStatus, RowStatus
    <3> QED BY <2>11, <2>10, <2>run, <3>1 DEF Record, SyncToDatabase, PC, Suspended, instVars, dbVars
  <2>12. CASE Return(c)
    BY <2>12, <2>4, <2>run DEF Return, Release, dbVars, rowVars
  <2>13. CASE FailReturn(c)
    <3>1. "failed" \in RowStatus
      BY DEF RowStatus
    <3>2. config' \in [Tasks -> ConfigVal] /\ active' \subseteq Tasks
      BY <2>13, <2>run DEF FailReturn, Release
    <3>3. /\ rows' \in [Rows -> [st : RowStatus, task : Tasks \cup {NoTask}]]
          /\ leaked' \subseteq Rows /\ faults' \in Nat
      BY <2>13, <2>10, <2>run, <3>1 DEF FailReturn
    <3>4. /\ pc' \in [Coroutines -> PC] /\ job' \in [Coroutines -> Jobs]
          /\ run' \in [Coroutines -> Runtime] /\ loop' \in Coroutines \cup {Nobody}
      BY <2>13, <2>4 DEF FailReturn
    <3> QED BY <2>13, <3>2, <3>3, <3>4 DEF FailReturn, dbVars
  <2> QED
    BY <1>16, <2>1, <2>2, <2>3, <2>5, <2>6, <2>7, <2>8, <2>9, <2>11, <2>12, <2>13 DEF Step
<1>17. CASE UNCHANGED vars
  BY <1>17 DEF vars, engineVars, instVars, dbVars, rowVars
<1> QED
  BY <1>1, <1>2, <1>3, <1>4, <1>5, <1>6, <1>7, <1>8, <1>9, <1>10, <1>11, <1>12, <1>13, <1>14,
     <1>15, <1>16, <1>17 DEF Next, Process, Operator

-----------------------------------------------------------------------------
(* The inductive invariant.                                                *)

\* Everything the invariant speaks of, apart from the phase.
coreVars == <<pc, job, run, active, status, cancelReq, config, rows, leaked>>

\* It holds when the container starts for the first time.
LEMMA InitInv == Init => EngineInv
<1> SUFFICES ASSUME Init PROVE EngineInv
  OBVIOUS
<1> USE DEF Init
<1>1. TypeOK
  <2>1. NoJob \in Jobs /\ NoRun \in Runtime /\ NoSchedule \in ScheduleRow
    BY NoJobType, NoRunType, NoScheduleType
  <2> QED BY <2>1, ConstantsAssumption DEF TypeOK, PC, ConfigVal, RowStatus, RowOf
<1>2. CoroutineInv /\ SingleFlight
  BY DEF CoroutineInv, CoInv, SingleFlight, InRun, Suspended, NoRun, RunOf
<1>3. InstanceInv
  BY DEF InstanceInv
<1>4. RunningRowOwned
  BY DEF RunningRowOwned
<1>5. OverlayContained
  BY ConstantsAssumption DEF OverlayContained
<1> QED BY <1>1, <1>2, <1>3, <1>4, <1>5 DEF EngineInv

\* A step that touches neither coroutines, claims, instances nor rows, and does
\* not bring the process down, preserves it.
LEMMA QuietStep ==
  ASSUME EngineInv, TypeOK', UNCHANGED coreVars,
         phase' = phase \/ (phase' \in {"up", "stopping"} /\ phase # "down")
  PROVE  EngineInv'
<1> USE DEF coreVars
<1>1. CoroutineInv'
  BY DEF EngineInv, CoroutineInv, CoInv, InRun
<1>2. InstanceInv' /\ OverlayContained' /\ SingleFlight'
  BY DEF EngineInv, InstanceInv, OverlayContained, SingleFlight, InRun
<1>3. RunningRowOwned'
  BY DEF EngineInv, RunningRowOwned, InRun
<1> QED BY <1>1, <1>2, <1>3 DEF EngineInv

\* A coroutine that moves between the steps outside a run leaves the invariant
\* alone.
LEMMA OutsideStep ==
  ASSUME EngineInv, TypeOK', NEW c \in Coroutines, NEW l \in {"free", "next", "begin"},
         pc' = [pc EXCEPT ![c] = l], ~InRun(c),
         l # "free" => job'[c].task \in Tasks /\ phase \in {"up", "stopping"},
         \A d \in Coroutines \ {c} : job'[d] = job[d],
         UNCHANGED <<run, active, status, cancelReq, config, rows, leaked, phase>>
  PROVE  EngineInv'
<1>1. \A d \in Coroutines \ {c} : pc'[d] = pc[d] /\ job'[d] = job[d]
  BY DEF EngineInv, TypeOK
<1>2. pc'[c] = l /\ ~InRun(c)'
  BY DEF EngineInv, TypeOK, InRun, Suspended
<1>3. run'[c] = NoRun /\ ~run'[c].acked
  <2>1. run'[c] = NoRun
    BY DEF EngineInv, CoroutineInv, CoInv
  <2> QED BY <2>1 DEF NoRun, RunOf
<1>4. \A d \in Coroutines : d # c => (InRun(d)' <=> InRun(d))
  BY <1>1 DEF InRun
<1>5. CoroutineInv'
  <2> SUFFICES ASSUME NEW d \in Coroutines PROVE CoInv(d)'
    BY DEF CoroutineInv
  <2>1. CASE d = c
    BY <2>1, <1>2, <1>3 DEF CoInv
  <2>2. CASE d # c
    BY <2>2, <1>1, <1>4 DEF EngineInv, CoroutineInv, CoInv
  <2> QED BY <2>1, <2>2
<1>6. InstanceInv'
  <2>1. ASSUME NEW t \in Tasks, status'[t] # "idle"
        PROVE \E d \in Coroutines : pc'[d] = Stage(status'[t]) /\ job'[d].task = t
    <3>1. PICK d \in Coroutines : pc[d] = Stage(status[t]) /\ job[d].task = t
      BY <2>1 DEF EngineInv, InstanceInv
    <3>2. d # c
      BY <3>1 DEF InRun, Suspended, Stage
    <3> QED BY <3>1, <3>2, <1>1
  <2> QED BY <2>1 DEF EngineInv, InstanceInv
<1>7. SingleFlight'
  BY <1>1, <1>2, <1>4 DEF EngineInv, SingleFlight
<1>8. RunningRowOwned'
  BY <1>1, <1>2, <1>4 DEF EngineInv, RunningRowOwned
<1>9. OverlayContained'
  BY DEF EngineInv, OverlayContained
<1> QED BY <1>5, <1>6, <1>7, <1>8, <1>9 DEF EngineInv

\* The claim a coroutine makes and gives up.  The actions inside a run are
\* described by their effect on coroutine c alone: everyone else keeps its frame.
LEMMA OthersUntouched ==
  ASSUME TypeOK, NEW c \in Coroutines, NEW l, pc' = [pc EXCEPT ![c] = l],
         \A d \in Coroutines \ {c} : job'[d] = job[d] /\ run'[d] = run[d]
  PROVE  /\ pc'[c] = l
         /\ \A d \in Coroutines \ {c} : pc'[d] = pc[d] /\ job'[d] = job[d] /\ run'[d] = run[d]
BY DEF TypeOK

\* Whether a coroutine is inside a run depends on its position only.
LEMMA SamePosition ==
  ASSUME NEW d \in Coroutines, pc'[d] = pc[d] PROVE InRun(d)' <=> InRun(d)
BY DEF InRun

\* A run is admitted: the task was free, so the new claim is exclusive, and the
\* baseline it saves carries no parameters because nobody held the task.
LEMMA AdmitInv ==
  ASSUME EngineInv, TypeOK', NEW c \in Coroutines, NEW r \in Rows \cup {NoRow}, Admit(c, r)
  PROVE  EngineInv'
<1> DEFINE t == job[c].task
<1>1. /\ t \in Tasks /\ t \notin active /\ active' = active \cup {t}
      /\ phase \in {"up", "stopping"} /\ phase' = phase
      /\ UNCHANGED <<job, status, cancelReq, leaked>>
  BY DEF Admit, Claimed, EngineInv, CoroutineInv, CoInv
<1>2. ~InRun(c)
  BY DEF Admit, InRun, Suspended
<1>3. status[t] = "idle"
  <2> SUFFICES ASSUME status[t] # "idle" PROVE FALSE
    OBVIOUS
  <2>1. PICK d \in Coroutines : pc[d] = Stage(status[t]) /\ job[d].task = t
    BY <1>1 DEF EngineInv, InstanceInv
  <2>2. job[d].task \in active
    BY <2>1 DEF EngineInv, CoroutineInv, CoInv, InRun, Suspended, Stage
  <2> QED BY <1>1, <2>1, <2>2
<1>4. PICK l \in {"validating", "failing"} :
        /\ pc' = [pc EXCEPT ![c] = l]
        /\ run' = [run EXCEPT ![c] = RunOf(config[t], r, "none", NoTime, FALSE)]
  BY <1>3 DEF Admit
<1>5. /\ pc'[c] = l
      /\ \A d \in Coroutines \ {c} : pc'[d] = pc[d] /\ job'[d] = job[d] /\ run'[d] = run[d]
  BY <1>1, <1>4, OthersUntouched DEF EngineInv, TypeOK
<1>same. \A d \in Coroutines \ {c} : InRun(d)' <=> InRun(d)
  BY <1>5, SamePosition
<1>6. InRun(c)'
  BY <1>5 DEF InRun, Suspended
<1>7. \A d \in Coroutines : InRun(d) => d # c /\ job[d].task # t
  BY <1>1, <1>2 DEF EngineInv, CoroutineInv, CoInv
<1>8. config[t] \notin Params /\ \A u \in Tasks \ {t} : config'[u] = config[u]
  BY <1>1 DEF Admit, EngineInv, TypeOK, OverlayContained
<1>9. /\ run'[c].base = config[t] /\ run'[c].row = r /\ run'[c].res = "none" /\ ~run'[c].acked
  BY <1>4 DEF EngineInv, TypeOK, RunOf
<1>10. /\ r # NoRow => rows[r].st = "absent" /\ rows'[r] = RowOf("running", t)
       /\ \A x \in Rows : x # r => rows'[x] = rows[x]
  BY ConstantsAssumption DEF Admit, CreateRow, EngineInv, TypeOK
<1>11. \A d \in Coroutines \ {c} : InRun(d) /\ pc[d] # "notifying" => run[d].row # r \/ r = NoRow
  <2> SUFFICES ASSUME NEW d \in Coroutines \ {c}, InRun(d), pc[d] # "notifying",
                      run[d].row = r, r # NoRow
               PROVE  FALSE
    OBVIOUS
  <2>1. rows[r] = RowOf("running", job[d].task)
    BY DEF EngineInv, CoroutineInv, CoInv
  <2> QED BY <2>1, <1>10 DEF RowOf
<1>12. CoroutineInv'
  <2> SUFFICES ASSUME NEW d \in Coroutines PROVE CoInv(d)'
    BY DEF CoroutineInv
  <2>1. CASE d = c
    BY <2>1, <1>1, <1>5, <1>6, <1>8, <1>9, <1>10 DEF CoInv
  <2>2. CASE d # c
    <3>1. CoInv(d) /\ run[d].row \in Rows \cup {NoRow}
      BY DEF EngineInv, CoroutineInv, TypeOK, Runtime
    <3>2. pc'[d] = pc[d] /\ job'[d] = job[d] /\ run'[d] = run[d] /\ (InRun(d)' <=> InRun(d))
      BY <2>2, <1>5, <1>same
    <3>3. InRun(d) /\ pc[d] # "notifying" /\ run[d].row # NoRow
            => rows'[run[d].row] = rows[run[d].row]
      BY <2>2, <3>1, <1>10, <1>11
    <3> QED BY <3>1, <3>2, <3>3, <1>1 DEF CoInv
  <2> QED BY <2>1, <2>2
<1>13. InstanceInv'
  <2>1. ASSUME NEW u \in Tasks, status'[u] # "idle"
        PROVE \E d \in Coroutines : pc'[d] = Stage(status'[u]) /\ job'[d].task = u
    <3>1. PICK d \in Coroutines : pc[d] = Stage(status[u]) /\ job[d].task = u
      BY <2>1, <1>1 DEF EngineInv, InstanceInv
    <3>2. d # c
      BY <3>1, <1>2 DEF InRun, Suspended, Stage
    <3>3. pc'[d] = pc[d] /\ job'[d] = job[d]
      BY <3>2, <1>5
    <3> QED BY <3>1, <3>3, <1>1
  <2> QED BY <2>1, <1>1 DEF InstanceInv
<1>14. SingleFlight'
  <2> SUFFICES ASSUME NEW d \in Coroutines, NEW e \in Coroutines, d # e, InRun(d)', InRun(e)'
               PROVE  job'[d].task # job'[e].task
    BY DEF SingleFlight
  <2>1. job' = job
    BY <1>1
  <2>2. CASE d # c /\ e # c
    BY <2>1, <2>2, <1>same DEF EngineInv, SingleFlight
  <2>3. CASE d = c
    BY <2>1, <2>3, <1>same, <1>7
  <2>4. CASE e = c
    BY <2>1, <2>4, <1>same, <1>7
  <2> QED BY <2>2, <2>3, <2>4
<1>15. RunningRowOwned'
  <2>1. ASSUME NEW x \in Rows, rows'[x].st = "running", x \notin leaked
        PROVE \E d \in Coroutines : /\ InRun(d)' /\ pc'[d] # "notifying"
                                    /\ run'[d].row = x /\ job'[d].task = rows'[x].task
    <3>1. CASE x = r
      BY <3>1, <1>1, <1>5, <1>6, <1>9, <1>10, ConstantsAssumption DEF RowOf
    <3>2. CASE x # r
      <4>1. PICK d \in Coroutines : /\ InRun(d) /\ pc[d] # "notifying"
                                   /\ run[d].row = x /\ job[d].task = rows[x].task
        BY <2>1, <3>2, <1>1, <1>10 DEF EngineInv, RunningRowOwned
      <4>2. d # c
        BY <4>1, <1>2
      <4>3. pc'[d] = pc[d] /\ job'[d] = job[d] /\ run'[d] = run[d] /\ InRun(d)'
        BY <4>1, <4>2, <1>5, <1>same
      <4> QED BY <3>2, <4>1, <4>3, <1>10
    <3> QED BY <3>1, <3>2
  <2> QED BY <2>1, <1>1 DEF RunningRowOwned
<1>16. OverlayContained'
  BY <1>1, <1>8 DEF EngineInv, OverlayContained
<1> QED BY <1>12, <1>13, <1>14, <1>15, <1>16 DEF EngineInv

\* A coroutine that stays inside its run, touching only its own instance and
\* its own row, preserves the invariant if it keeps its own part of it.
LEMMA InsideStep ==
  ASSUME EngineInv, TypeOK', NEW c \in Coroutines, NEW l \in Suspended \cup {"finished"},
         InRun(c), pc[c] # "notifying",
         pc' = [pc EXCEPT ![c] = l], CoInv(c)',
         run'[c].row = run[c].row, \A d \in Coroutines \ {c} : run'[d] = run[d],
         UNCHANGED <<job, active, config, phase>>,
         \A u \in Tasks : u # job[c].task =>
            status'[u] = status[u] /\ cancelReq'[u] = cancelReq[u],
         status'[job[c].task] # "idle" => l = Stage(status'[job[c].task]),
         \A x \in Rows : x # run[c].row => rows'[x] = rows[x],
         leaked \subseteq leaked',
         l # "notifying" => rows' = rows,
         l = "notifying" /\ run[c].row \in Rows =>
            rows'[run[c].row].st # "running" \/ run[c].row \in leaked'
  PROVE  EngineInv'
<1> DEFINE t == job[c].task
<1>1. /\ pc'[c] = l
      /\ \A d \in Coroutines \ {c} : pc'[d] = pc[d] /\ job'[d] = job[d] /\ run'[d] = run[d]
  BY OthersUntouched DEF EngineInv
<1>2. \A d \in Coroutines \ {c} : InRun(d)' <=> InRun(d)
  BY <1>1, SamePosition
<1>3. InRun(c)'
  BY <1>1 DEF InRun
<1>4. \A d \in Coroutines \ {c} : InRun(d) => job[d].task # t
  BY DEF EngineInv, SingleFlight
<1>5. t \in Tasks /\ phase \in {"up", "stopping"}
  BY DEF EngineInv, CoroutineInv, CoInv, InRun, Suspended
<1>6. \A d \in Coroutines : run[d].row \in Rows \cup {NoRow}
  BY DEF EngineInv, TypeOK, Runtime
<1>7. \A d \in Coroutines \ {c} : InRun(d) /\ pc[d] # "notifying" /\ run[d].row # NoRow
        => run[d].row # run[c].row
  <2> SUFFICES ASSUME NEW d \in Coroutines \ {c}, InRun(d), pc[d] # "notifying",
                      run[d].row # NoRow, run[d].row = run[c].row
               PROVE  FALSE
    OBVIOUS
  <2>1. /\ rows[run[c].row] = RowOf("running", job[d].task)
        /\ rows[run[c].row] = RowOf("running", t)
    BY DEF EngineInv, CoroutineInv, CoInv
  <2>2. job[d].task = t
    BY <2>1 DEF RowOf
  <2> QED BY <2>2, <1>4
<1>8. CoroutineInv'
  <2> SUFFICES ASSUME NEW d \in Coroutines, d # c PROVE CoInv(d)'
    BY DEF CoroutineInv
  <2>1. CoInv(d)
    BY DEF EngineInv, CoroutineInv
  <2>2. pc'[d] = pc[d] /\ job'[d] = job[d] /\ run'[d] = run[d] /\ (InRun(d)' <=> InRun(d))
    BY <1>1, <1>2
  <2>3. InRun(d) /\ pc[d] # "notifying" /\ run[d].row # NoRow
          => rows'[run[d].row] = rows[run[d].row]
    BY <1>6, <1>7
  <2>4. pc[d] = "executing" => cancelReq'[job[d].task] = cancelReq[job[d].task]
    <3>1. pc[d] = "executing" => InRun(d) /\ job[d].task \in Tasks
      BY <2>1 DEF CoInv, InRun, Suspended
    <3> QED BY <3>1, <1>4
  <2> QED BY <2>1, <2>2, <2>3, <2>4 DEF CoInv
<1>9. InstanceInv'
  <2>1. ASSUME NEW u \in Tasks, status'[u] # "idle"
        PROVE \E d \in Coroutines : pc'[d] = Stage(status'[u]) /\ job'[d].task = u
    <3>1. CASE u = t
      BY <2>1, <3>1, <1>1
    <3>2. CASE u # t
      <4>1. PICK d \in Coroutines : pc[d] = Stage(status[u]) /\ job[d].task = u
        BY <2>1, <3>2 DEF EngineInv, InstanceInv
      <4>2. pc'[d] = pc[d] /\ job'[d] = job[d]
        BY <4>1, <3>2, <1>1
      <4> QED BY <3>2, <4>1, <4>2
    <3> QED BY <3>1, <3>2
  <2> QED BY <2>1, <1>5 DEF InstanceInv
<1>10. SingleFlight'
  <2> SUFFICES ASSUME NEW d \in Coroutines, NEW e \in Coroutines, d # e, InRun(d)', InRun(e)'
               PROVE  job'[d].task # job'[e].task
    BY DEF SingleFlight
  <2>1. InRun(d) /\ InRun(e)
    BY <1>2
  <2> QED BY <2>1 DEF EngineInv, SingleFlight
<1>11. RunningRowOwned'
  <2>1. ASSUME NEW x \in Rows, rows'[x].st = "running", x \notin leaked'
        PROVE \E d \in Coroutines : /\ InRun(d)' /\ pc'[d] # "notifying"
                                    /\ run'[d].row = x /\ job'[d].task = rows'[x].task
    <3>1. rows'[x] = rows[x] /\ (x = run[c].row => l # "notifying")
      BY <2>1
    <3>2. PICK d \in Coroutines : /\ InRun(d) /\ pc[d] # "notifying"
                                 /\ run[d].row = x /\ job[d].task = rows[x].task
      BY <2>1, <3>1, <1>5 DEF EngineInv, RunningRowOwned
    <3>3. CASE d = c
      BY <3>1, <3>2, <3>3, <1>1, <1>3
    <3>4. CASE d # c
      <4>1. pc'[d] = pc[d] /\ job'[d] = job[d] /\ run'[d] = run[d] /\ InRun(d)'
        BY <3>2, <3>4, <1>1, <1>2
      <4> QED BY <3>1, <3>2, <4>1
    <3> QED BY <3>3, <3>4
  <2> QED BY <2>1 DEF RunningRowOwned
<1>12. OverlayContained'
  BY DEF EngineInv, OverlayContained
<1> QED BY <1>8, <1>9, <1>10, <1>11, <1>12 DEF EngineInv

\* A coroutine that leaves its run restores the baseline before it gives up the
\* claim, so the next holder finds neither parameters nor an open row.
LEMMA LeaveStep ==
  ASSUME EngineInv, TypeOK', NEW c \in Coroutines, NEW l \in {"free", "next"},
         pc[c] \in {"notifying", "failing"},
         pc' = [pc EXCEPT ![c] = l], run' = [run EXCEPT ![c] = NoRun],
         \A d \in Coroutines \ {c} : job'[d] = job[d],
         l # "free" => job'[c].task = job[c].task,
         active' = active \ {job[c].task},
         config' = [config EXCEPT ![job[c].task] = run[c].base],
         UNCHANGED <<phase, status, cancelReq>>,
         \A x \in Rows : x # run[c].row => rows'[x] = rows[x],
         leaked \subseteq leaked',
         pc[c] = "notifying" => rows' = rows,
         pc[c] = "failing" /\ run[c].row \in Rows =>
            rows'[run[c].row].st # "running" \/ run[c].row \in leaked'
  PROVE  EngineInv'
<1> DEFINE t == job[c].task
<1>0. InRun(c)
  BY DEF InRun, Suspended
<1>1. /\ pc'[c] = l
      /\ \A d \in Coroutines \ {c} : pc'[d] = pc[d] /\ job'[d] = job[d] /\ run'[d] = run[d]
  <2>1. \A d \in Coroutines \ {c} : run'[d] = run[d]
    BY DEF EngineInv, TypeOK
  <2> QED BY <2>1, OthersUntouched DEF EngineInv
<1>2. \A d \in Coroutines \ {c} : InRun(d)' <=> InRun(d)
  BY <1>1, SamePosition
<1>3. ~InRun(c)'
  BY <1>1 DEF InRun, Suspended
<1>4. \A d \in Coroutines \ {c} : InRun(d) => job[d].task # t
  BY <1>0 DEF EngineInv, SingleFlight
<1>5. t \in Tasks /\ phase \in {"up", "stopping"} /\ run[c].base \notin Params
  BY <1>0 DEF EngineInv, CoroutineInv, CoInv, InRun, Suspended
<1>6. \A d \in Coroutines : run[d].row \in Rows \cup {NoRow}
  BY DEF EngineInv, TypeOK, Runtime
<1>7. \A d \in Coroutines \ {c} : InRun(d) /\ pc[d] # "notifying" /\ run[d].row # NoRow
        => rows'[run[d].row] = rows[run[d].row]
  <2> SUFFICES ASSUME NEW d \in Coroutines \ {c}, InRun(d), pc[d] # "notifying",
                      run[d].row # NoRow
               PROVE  rows'[run[d].row] = rows[run[d].row]
    OBVIOUS
  <2>1. CASE pc[c] = "notifying"
    BY <2>1
  <2>2. CASE pc[c] = "failing" /\ run[d].row = run[c].row
    <3>1. /\ rows[run[c].row] = RowOf("running", job[d].task)
          /\ rows[run[c].row] = RowOf("running", t)
      BY <2>2, <1>0 DEF EngineInv, CoroutineInv, CoInv
    <3>2. job[d].task = t
      BY <3>1 DEF RowOf
    <3> QED BY <3>2, <1>4
  <2>3. CASE run[d].row # run[c].row
    BY <2>3, <1>6
  <2> QED BY <2>1, <2>2, <2>3
<1>8. CoroutineInv'
  <2> SUFFICES ASSUME NEW d \in Coroutines PROVE CoInv(d)'
    BY DEF CoroutineInv
  <2>1. CASE d = c
    <3>1. run'[c] = NoRun
      BY DEF EngineInv, TypeOK
    <3>2. ~run'[c].acked
      BY <3>1 DEF NoRun, RunOf
    <3> QED BY <2>1, <3>1, <3>2, <1>1, <1>3, <1>5 DEF CoInv
  <2>2. CASE d # c
    <3>1. CoInv(d)
      BY DEF EngineInv, CoroutineInv
    <3>2. pc'[d] = pc[d] /\ job'[d] = job[d] /\ run'[d] = run[d] /\ (InRun(d)' <=> InRun(d))
      BY <2>2, <1>1, <1>2
    <3>3. InRun(d) => job[d].task \in active'
      BY <2>2, <3>1, <1>4 DEF CoInv
    <3> QED BY <2>2, <3>1, <3>2, <3>3, <1>7 DEF CoInv
  <2> QED BY <2>1, <2>2
<1>9. InstanceInv'
  <2>1. ASSUME NEW u \in Tasks, status'[u] # "idle"
        PROVE \E d \in Coroutines : pc'[d] = Stage(status'[u]) /\ job'[d].task = u
    <3>1. PICK d \in Coroutines : pc[d] = Stage(status[u]) /\ job[d].task = u
      BY <2>1 DEF EngineInv, InstanceInv
    <3>2. d # c
      BY <3>1 DEF Stage
    <3>3. pc'[d] = pc[d] /\ job'[d] = job[d]
      BY <3>2, <1>1
    <3> QED BY <3>1, <3>3
  <2> QED BY <2>1, <1>5 DEF InstanceInv
<1>10. SingleFlight'
  <2> SUFFICES ASSUME NEW d \in Coroutines, NEW e \in Coroutines, d # e, InRun(d)', InRun(e)'
               PROVE  job'[d].task # job'[e].task
    BY DEF SingleFlight
  <2>1. d # c /\ e # c
    BY <1>3
  <2>2. InRun(d) /\ InRun(e) /\ job'[d] = job[d] /\ job'[e] = job[e]
    BY <2>1, <1>1, <1>2
  <2> QED BY <2>2 DEF EngineInv, SingleFlight
<1>11. RunningRowOwned'
  <2>1. ASSUME NEW x \in Rows, rows'[x].st = "running", x \notin leaked'
        PROVE \E d \in Coroutines : /\ InRun(d)' /\ pc'[d] # "notifying"
                                    /\ run'[d].row = x /\ job'[d].task = rows'[x].task
    <3>1. rows'[x] = rows[x] /\ (pc[c] = "failing" => x # run[c].row)
      BY <2>1
    <3>2. PICK d \in Coroutines : /\ InRun(d) /\ pc[d] # "notifying"
                                 /\ run[d].row = x /\ job[d].task = rows[x].task
      BY <2>1, <3>1, <1>5 DEF EngineInv, RunningRowOwned
    <3>3. d # c
      BY <3>1, <3>2
    <3>4. pc'[d] = pc[d] /\ job'[d] = job[d] /\ run'[d] = run[d] /\ InRun(d)'
      BY <3>2, <3>3, <1>1, <1>2
    <3> QED BY <3>1, <3>2, <3>4
  <2> QED BY <2>1 DEF RunningRowOwned
<1>12. OverlayContained'
  BY <1>5 DEF EngineInv, TypeOK, OverlayContained
<1> QED BY <1>8, <1>9, <1>10, <1>11, <1>12 DEF EngineInv

\* Outside the part of run() that owns it, the instance of a claimed task is IDLE.
LEMMA IdleOutsideRun ==
  ASSUME EngineInv, NEW c \in Coroutines, InRun(c), pc[c] \notin {"executing", "finalizing"}
  PROVE  job[c].task \in Tasks /\ status[job[c].task] = "idle"
<1>1. job[c].task \in Tasks
  BY DEF EngineInv, CoroutineInv, CoInv, InRun, Suspended
<1>2. ASSUME status[job[c].task] # "idle" PROVE FALSE
  <2>1. PICK d \in Coroutines : pc[d] = Stage(status[job[c].task]) /\ job[d].task = job[c].task
    BY <1>1, <1>2 DEF EngineInv, InstanceInv
  <2>2. d # c /\ InRun(d)
    BY <2>1 DEF Stage, InRun, Suspended
  <2> QED BY <2>1, <2>2 DEF EngineInv, SingleFlight
<1> QED BY <1>1, <1>2

\* Every step of the engine preserves the invariant.
LEMMA NextInv == EngineInv /\ [Next]_vars => EngineInv'
<1> SUFFICES ASSUME EngineInv, [Next]_vars PROVE EngineInv'
  OBVIOUS
<1>type. TypeOK'
  BY TypeStep DEF EngineInv
<1> USE DEF coVars
<1>1. CASE Boot
  <2>1. phase = "down" /\ phase' = "booting" /\ UNCHANGED <<pc, job, run, active, status, cancelReq>>
    BY <1>1 DEF Boot
  <2>2. \A c \in Coroutines : pc[c] = "free" /\ ~InRun(c)
    BY <2>1 DEF EngineInv, CoroutineInv, CoInv, InRun, Suspended
  <2>3. CoroutineInv'
    <3> SUFFICES ASSUME NEW c \in Coroutines PROVE CoInv(c)'
      BY DEF CoroutineInv
    <3>1. CoInv(c) /\ ~InRun(c) /\ pc[c] = "free"
      BY <2>2 DEF EngineInv, CoroutineInv
    <3>2. ~run[c].acked /\ ~InRun(c)'
      BY <3>1, <2>1 DEF CoInv, InRun, Suspended
    <3> QED BY <2>1, <3>1, <3>2 DEF CoInv
  <2>4. InstanceInv' /\ SingleFlight'
    BY <2>1, <2>2 DEF EngineInv, InstanceInv, SingleFlight, InRun
  <2>5. RunningRowOwned'
    <3> SUFFICES ASSUME NEW r \in Rows, rows'[r].st = "running", r \notin leaked' PROVE FALSE
      BY DEF RunningRowOwned
    <3>1. CASE rows' = rows /\ leaked' = leaked \cup {x \in Rows : rows[x].st = "running"}
      BY <3>1
    <3>2. CASE rows' = [x \in Rows |-> IF rows[x].st = "running"
                                      THEN RowOf("terminated", rows[x].task) ELSE rows[x]]
      BY <3>2 DEF RowOf
    <3> QED BY <1>1, <3>1, <3>2 DEF Boot, Terminated
  <2>6. OverlayContained'
    BY <1>1, ConstantsAssumption DEF Boot, Hydrated, OverlayContained, EngineInv, TypeOK
  <2> QED BY <1>type, <2>3, <2>4, <2>5, <2>6 DEF EngineInv
<1>2. CASE Crash
  <2>1. \A c \in Coroutines : pc'[c] = "free" /\ run'[c] = NoRun /\ ~InRun(c)'
    BY <1>2 DEF Crash, InRun, Suspended
  <2>2. CoroutineInv'
    <3> SUFFICES ASSUME NEW c \in Coroutines PROVE CoInv(c)'
      BY DEF CoroutineInv
    <3>1. ~run'[c].acked
      BY <2>1 DEF NoRun, RunOf
    <3> QED BY <2>1, <3>1 DEF CoInv
  <2>3. InstanceInv' /\ SingleFlight'
    BY <1>2, <2>1 DEF Crash, InstanceInv, SingleFlight
  <2>4. RunningRowOwned' /\ OverlayContained'
    BY <1>2, ConstantsAssumption DEF Crash, RunningRowOwned, OverlayContained
  <2> QED BY <1>type, <2>2, <2>3, <2>4 DEF EngineInv
<1>3. ASSUME NEW r \in Rows, Purge(r) PROVE EngineInv'
  <2>1. /\ UNCHANGED <<pc, job, run, active, status, cancelReq, config, leaked, phase>>
        /\ rows[r].st \in Terminal /\ rows'[r].st = "absent"
        /\ \A x \in Rows : x # r => rows'[x] = rows[x]
    BY <1>3 DEF Purge, engineVars, instVars, RowOf, EngineInv, TypeOK
  <2>2. CoroutineInv'
    <3> SUFFICES ASSUME NEW c \in Coroutines PROVE CoInv(c)'
      BY DEF CoroutineInv
    <3>1. CoInv(c) /\ run[c].row \in Rows \cup {NoRow} /\ (InRun(c)' <=> InRun(c))
      BY <2>1 DEF EngineInv, CoroutineInv, TypeOK, Runtime, InRun
    <3>2. InRun(c) /\ pc[c] # "notifying" /\ run[c].row # NoRow => run[c].row # r
      BY <2>1, <3>1 DEF CoInv, RowOf, Terminal
    <3>3. InRun(c) /\ pc[c] # "notifying" /\ run[c].row # NoRow
            => rows'[run[c].row] = rows[run[c].row]
      BY <2>1, <3>1, <3>2
    <3> QED BY <2>1, <3>1, <3>3 DEF CoInv
  <2>3. InstanceInv' /\ SingleFlight' /\ OverlayContained'
    BY <2>1 DEF EngineInv, InstanceInv, SingleFlight, OverlayContained, InRun
  <2>4. RunningRowOwned'
    BY <2>1 DEF EngineInv, RunningRowOwned, InRun, Terminal
  <2> QED BY <1>type, <2>2, <2>3, <2>4 DEF EngineInv
<1>4. ASSUME NEW t \in Tasks, NEW v \in Saves, SaveConfig(t, v) PROVE EngineInv'
  <2>1. /\ UNCHANGED <<pc, job, run, active, status, cancelReq, rows, leaked, phase>>
        /\ config' = [config EXCEPT ![t] = v]
    BY <1>4 DEF SaveConfig, engineVars, rowVars
  <2>2. CoroutineInv' /\ SingleFlight'
    BY <2>1 DEF EngineInv, CoroutineInv, CoInv, SingleFlight, InRun
  <2>3. InstanceInv' /\ RunningRowOwned'
    BY <2>1 DEF EngineInv, InstanceInv, RunningRowOwned, InRun
  <2>4. OverlayContained'
    BY <2>1, ConstantsAssumption DEF EngineInv, TypeOK, OverlayContained
  <2> QED BY <1>type, <2>2, <2>3, <2>4 DEF EngineInv
<1>5. ASSUME NEW t \in Tasks, CancelTask(t) PROVE EngineInv'
  <2>1. /\ UNCHANGED <<pc, job, active, status, config, rows, leaked, phase>>
        /\ status[t] = "running" /\ cancelReq' = [cancelReq EXCEPT ![t] = TRUE]
    BY <1>5 DEF CancelTask, rowVars
  <2>2. \A d \in Coroutines : /\ run'[d].row = run[d].row /\ run'[d].base = run[d].base
                              /\ run'[d].res = run[d].res
                              /\ run'[d] = run[d] \/ (InRun(d) /\ job[d].task = t)
    BY <1>5 DEF CancelTask, RunOf
  <2>3. \A d \in Coroutines : InRun(d)' <=> InRun(d)
    BY <2>1 DEF InRun
  <2>4. PICK e \in Coroutines : pc[e] = "executing" /\ job[e].task = t
    BY <2>1 DEF EngineInv, InstanceInv, Stage
  <2>5. \A d \in Coroutines : InRun(d) /\ job[d].task = t => d = e
    BY <2>4 DEF EngineInv, SingleFlight, InRun, Suspended
  <2>6. CoroutineInv'
    <3> SUFFICES ASSUME NEW d \in Coroutines PROVE CoInv(d)'
      BY DEF CoroutineInv
    <3>1. CoInv(d)
      BY DEF EngineInv, CoroutineInv
    <3>2. CASE d = e
      <4>1. cancelReq'[t]
        BY <2>1 DEF EngineInv, TypeOK
      <4>2. pc'[e] = "executing" /\ job'[e].task = t /\ InRun(e) /\ InRun(e)'
        BY <2>1, <2>3, <2>4 DEF InRun, Suspended
      <4> QED BY <3>1, <3>2, <4>1, <4>2, <2>1, <2>2 DEF CoInv
    <3>3. CASE d # e
      <4>1. run'[d] = run[d]
        BY <3>3, <2>2, <2>5
      <4>2. cancelReq[job[d].task] /\ job[d].task \in Tasks => cancelReq'[job[d].task]
        BY <2>1 DEF EngineInv, TypeOK
      <4> QED BY <3>1, <4>1, <4>2, <2>1, <2>3 DEF CoInv
    <3> QED BY <3>2, <3>3
  <2>7. InstanceInv' /\ SingleFlight' /\ OverlayContained'
    BY <2>1, <2>3 DEF EngineInv, InstanceInv, SingleFlight, OverlayContained
  <2>8. RunningRowOwned'
    BY <2>1, <2>2, <2>3 DEF EngineInv, RunningRowOwned
  <2> QED BY <1>type, <2>6, <2>7, <2>8 DEF EngineInv
<1>6. ASSUME NEW t \in Tasks, NEW i \in Intervals, SeedDefault(t, i) PROVE EngineInv'
  BY <1>6, <1>type, QuietStep DEF SeedDefault, coreVars, engineVars, instVars, rowVars
<1>7. CASE Arm
  BY <1>7, <1>type, QuietStep DEF Arm, coreVars, instVars, rowVars
<1>8. CASE Stop
  BY <1>8, <1>type, QuietStep DEF Stop, coreVars, instVars, rowVars
<1>9. CASE Advance
  BY <1>9, <1>type, QuietStep DEF Advance, coreVars, engineVars, instVars, rowVars
<1>10. CASE Tick
  BY <1>10, <1>type, QuietStep DEF Tick, coreVars, instVars, rowVars
<1>11. ASSUME NEW t \in Tasks, NEW b \in BOOLEAN, SetEnabled(t, b) PROVE EngineInv'
  <2>1. UNCHANGED coreVars /\ phase' = phase
    BY <1>11 DEF SetEnabled, coreVars, engineVars, instVars, rowVars
  <2> QED BY <2>1, <1>type, QuietStep
<1>12. ASSUME NEW t \in Tasks, NEW b \in BOOLEAN, NEW i \in Intervals, NEW p \in ParamOpt,
              CreateSchedule(t, b, i, p) PROVE EngineInv'
  BY <1>12, <1>type, QuietStep DEF CreateSchedule, coreVars, engineVars, instVars, rowVars
<1>13. ASSUME NEW s \in Schedules, NEW b \in BOOLEAN, NEW i \in Intervals, NEW p \in ParamOpt,
              UpdateSchedule(s, b, i, p) PROVE EngineInv'
  BY <1>13, <1>type, QuietStep DEF UpdateSchedule, coreVars, engineVars, instVars, rowVars
<1>14. ASSUME NEW s \in Schedules, DeleteSchedule(s) PROVE EngineInv'
  BY <1>14, <1>type, QuietStep DEF DeleteSchedule, coreVars, engineVars, instVars, rowVars
<1>15. CASE UNCHANGED vars
  BY <1>15, <1>type, QuietStep DEF vars, coreVars, engineVars, instVars, rowVars
<1>16. ASSUME NEW c \in Coroutines, NEW t \in Tasks, NEW p \in ParamOpt, RunTask(c, t, p)
       PROVE EngineInv'
  <2>1. /\ pc' = [pc EXCEPT ![c] = "begin"] /\ phase = "up" /\ ~InRun(c)
        /\ job' = [job EXCEPT ![c] = Job(t, "manual", {}, NoSched, p, {})]
        /\ UNCHANGED <<run, active, status, cancelReq, config, rows, leaked, phase>>
    BY <1>16 DEF RunTask, InRun, Suspended, instVars, rowVars
  <2>2. job'[c].task \in Tasks /\ \A d \in Coroutines \ {c} : job'[d] = job[d]
    BY <2>1 DEF EngineInv, TypeOK, Job
  <2> QED BY <2>1, <2>2, <1>type, OutsideStep
<1>17. ASSUME NEW c \in Coroutines, Step(c) PROVE EngineInv'
  <2>1. ASSUME NEW t \in Tasks, StartScheduled(c, t) PROVE EngineInv'
    <3>1. /\ pc' = [pc EXCEPT ![c] = "next"] /\ ~InRun(c)
          /\ job' = [job EXCEPT ![c] = Job(t, "scheduled", ready[t], NoSched, NoParam, {})]
          /\ UNCHANGED <<run, active, status, cancelReq, config, rows, leaked, phase>>
      BY <2>1 DEF StartScheduled, InRun, Suspended, instVars, rowVars
    <3>2. job'[c].task \in Tasks /\ \A d \in Coroutines \ {c} : job'[d] = job[d]
      BY <3>1 DEF EngineInv, TypeOK, Job
    <3>3. phase \in {"up", "stopping"}
      BY <2>1 DEF StartScheduled, Alive
    <3> QED BY <3>1, <3>2, <3>3, <1>type, OutsideStep
  <2>2. ASSUME NEW e \in job[c].todo, TakeSchedule(c, e) PROVE EngineInv'
    <3>1. /\ pc' = [pc EXCEPT ![c] = "begin"] /\ pc[c] = "next" /\ ~InRun(c)
          /\ job' = [job EXCEPT ![c] = Job(job[c].task, job[c].trig, job[c].todo \ {e}, e[1], e[2],
                                           job[c].done)]
          /\ UNCHANGED <<run, active, status, cancelReq, config, rows, leaked, phase>>
      BY <2>2 DEF TakeSchedule, InRun, Suspended, instVars, rowVars
    <3>2. job'[c].task = job[c].task /\ \A d \in Coroutines \ {c} : job'[d] = job[d]
      BY <3>1 DEF EngineInv, TypeOK, Job
    <3>3. job[c].task \in Tasks /\ phase \in {"up", "stopping"}
      BY <3>1 DEF EngineInv, CoroutineInv, CoInv
    <3> QED BY <3>1, <3>2, <3>3, <1>type, OutsideStep
  <2>3. CASE FinishSchedules(c)
    <3>1. /\ pc' = [pc EXCEPT ![c] = "free"] /\ ~InRun(c)
          /\ job' = [job EXCEPT ![c] = NoJob]
          /\ UNCHANGED <<run, active, status, cancelReq, config, rows, leaked, phase>>
      BY <2>3 DEF FinishSchedules, InRun, Suspended, instVars, rowVars
    <3>2. \A d \in Coroutines \ {c} : job'[d] = job[d]
      BY <3>1 DEF EngineInv, TypeOK
    <3> QED BY <3>1, <3>2, <1>type, OutsideStep
  <2>4. ASSUME NEW at, AfterRun(c, at), pc[c] # "free"
        PROVE  \E l \in {"free", "next"} :
                  /\ pc' = [pc EXCEPT ![c] = l] /\ run' = [run EXCEPT ![c] = NoRun]
                  /\ \A d \in Coroutines \ {c} : job'[d] = job[d]
                  /\ l # "free" => job'[c].task = job[c].task
    <3>1. run' = [run EXCEPT ![c] = NoRun]
      BY <2>4 DEF AfterRun
    <3>2. CASE job[c].trig = "scheduled"
      BY <2>4, <3>1, <3>2 DEF AfterRun, EngineInv, TypeOK, Job
    <3>3. CASE job[c].trig # "scheduled"
      BY <2>4, <3>1, <3>3 DEF AfterRun, EngineInv, TypeOK
    <3> QED BY <3>2, <3>3
  <2>5. CASE Refuse(c)
    <3>1. /\ pc[c] = "begin" /\ ~InRun(c) /\ AfterRun(c, NoTime)
          /\ UNCHANGED <<active, status, cancelReq, config, rows, leaked, phase>>
      BY <2>5 DEF Refuse, InRun, Suspended, instVars, rowVars
    <3>2. PICK l \in {"free", "next"} :
                  /\ pc' = [pc EXCEPT ![c] = l] /\ run' = [run EXCEPT ![c] = NoRun]
                  /\ \A d \in Coroutines \ {c} : job'[d] = job[d]
                  /\ l # "free" => job'[c].task = job[c].task
      BY <2>4, <3>1
    <3>3. job[c].task \in Tasks /\ phase \in {"up", "stopping"} /\ run[c] = NoRun
      BY <3>1 DEF EngineInv, CoroutineInv, CoInv
    <3>4. run' = run
      BY <3>2, <3>3 DEF EngineInv, TypeOK
    <3> QED BY <3>1, <3>2, <3>3, <3>4, <1>type, OutsideStep
  <2>6. ASSUME NEW r \in Rows \cup {NoRow}, Admit(c, r) PROVE EngineInv'
    BY <2>6, <1>type, AdmitInv
  <2>7. CASE Validate(c)
    <3> DEFINE t == job[c].task
    <3>0. pc[c] = "validating" /\ InRun(c) /\ CoInv(c) /\ run[c].res = "none" /\ ~run[c].acked
          /\ t \in Tasks /\ phase \in {"up", "stopping"}
      BY <2>7 DEF Validate, EngineInv, CoroutineInv, CoInv, InRun, Suspended
    <3>1. /\ UNCHANGED <<job, active, config, phase, rows, leaked>>
          /\ \A u \in Tasks : u # t => status'[u] = status[u] /\ cancelReq'[u] = cancelReq[u]
      BY <2>7 DEF Validate, rowVars, EngineInv, TypeOK
    <3>2. CASE pc' = [pc EXCEPT ![c] = "executing"]
      <4>1. run' = run /\ pc'[c] = "executing" /\ status'[t] = "running"
        BY <2>7, <3>0, <3>2 DEF Validate, EngineInv, TypeOK
      <4>2. InRun(c)'
        BY <4>1 DEF InRun, Suspended
      <4>3. CoInv(c)'
        BY <3>0, <3>1, <4>1, <4>2 DEF CoInv
      <4> QED BY <3>0, <3>1, <3>2, <4>1, <4>3, <1>type, InsideStep DEF Suspended, Stage
    <3>3. CASE pc' = [pc EXCEPT ![c] = "finished"]
      <4>1. /\ run' = [run EXCEPT ![c] = RunOf(run[c].base, run[c].row, "invalid", NoTime, run[c].acked)]
            /\ pc'[c] = "finished" /\ status' = status
        BY <2>7, <3>3 DEF Validate, SetResult, EngineInv, TypeOK
      <4>2. /\ run'[c].base = run[c].base /\ run'[c].row = run[c].row /\ ~run'[c].acked
            /\ \A d \in Coroutines \ {c} : run'[d] = run[d]
        BY <3>0, <4>1 DEF EngineInv, TypeOK, RunOf
      <4>3. InRun(c)'
        BY <4>1 DEF InRun
      <4>4. CoInv(c)'
        BY <3>0, <3>1, <4>1, <4>2, <4>3 DEF CoInv
      <4>5. status'[t] = "idle"
        BY <3>0, <4>1, IdleOutsideRun
      <4> QED BY <3>0, <3>1, <3>3, <4>2, <4>4, <4>5, <1>type, InsideStep
    <3>4. CASE pc' = [pc EXCEPT ![c] = "failing"]
      <4>1. run' = run /\ status' = status /\ pc'[c] = "failing"
        BY <2>7, <3>4 DEF Validate, EngineInv, TypeOK
      <4>2. InRun(c)'
        BY <4>1 DEF InRun, Suspended
      <4>3. CoInv(c)'
        BY <3>0, <3>1, <4>1, <4>2 DEF CoInv
      <4>4. status'[t] = "idle"
        BY <3>0, <4>1, IdleOutsideRun
      <4> QED BY <3>0, <3>1, <3>4, <4>1, <4>3, <4>4, <1>type, InsideStep DEF Suspended
    <3> QED BY <2>7, <3>2, <3>3, <3>4 DEF Validate
  <2>8. ASSUME NEW r \in Outcome \ {"cancelled"}, NEW b \in BOOLEAN, Execute(c, r, b)
        PROVE EngineInv'
    <3> DEFINE t == job[c].task
               res == IF cancelReq[t] /\ ~b THEN "cancelled" ELSE r
    <3>0. pc[c] = "executing" /\ InRun(c) /\ CoInv(c) /\ t \in Tasks /\ phase \in {"up", "stopping"}
      BY <2>8 DEF Execute, EngineInv, CoroutineInv, CoInv, InRun, Suspended
    <3>1. run[c].acked => res \in {"cancelled", "error"}
      BY <2>8, <3>0 DEF Execute, CoInv
    <3>2. /\ UNCHANGED <<job, active, config, phase, rows, leaked, cancelReq>>
          /\ pc' = [pc EXCEPT ![c] = "finalizing"]
          /\ status' = [status EXCEPT ![t] = "terminal"]
          /\ run' = [run EXCEPT ![c] = RunOf(run[c].base, run[c].row, res, now, run[c].acked)]
      BY <2>8 DEF Execute, FinalResult, SetResult, rowVars
    <3> HIDE DEF res
    <3>3. /\ \A u \in Tasks : u # t => status'[u] = status[u]
          /\ status'[t] = "terminal" /\ pc'[c] = "finalizing"
          /\ run'[c].base = run[c].base /\ run'[c].row = run[c].row /\ run'[c].acked = run[c].acked
          /\ run'[c].res = res /\ \A d \in Coroutines \ {c} : run'[d] = run[d]
      BY <3>0, <3>2 DEF EngineInv, TypeOK, RunOf
    <3>4. InRun(c)'
      BY <3>3 DEF InRun, Suspended
    <3>5. CoInv(c)'
      BY <3>0, <3>1, <3>2, <3>3, <3>4 DEF CoInv
    <3> QED BY <3>0, <3>2, <3>3, <3>5, <1>type, InsideStep DEF Suspended, Stage
  <2>9. CASE FinishRun(c)
    <3> DEFINE t == job[c].task
    <3>0. pc[c] = "finalizing" /\ InRun(c) /\ CoInv(c) /\ t \in Tasks /\ phase \in {"up", "stopping"}
      BY <2>9 DEF FinishRun, EngineInv, CoroutineInv, CoInv, InRun, Suspended
    <3>1. /\ UNCHANGED <<job, run, active, config, phase, rows, leaked, cancelReq>>
          /\ pc' = [pc EXCEPT ![c] = "finished"]
          /\ status' = [status EXCEPT ![t] = "idle"]
      BY <2>9 DEF FinishRun, rowVars
    <3>2. /\ \A u \in Tasks : u # t => status'[u] = status[u]
          /\ status'[t] = "idle" /\ pc'[c] = "finished"
      BY <3>0, <3>1 DEF EngineInv, TypeOK
    <3>3. InRun(c)'
      BY <3>2 DEF InRun
    <3>4. CoInv(c)'
      BY <3>0, <3>1, <3>2, <3>3 DEF CoInv
    <3> QED BY <3>0, <3>1, <3>2, <3>4, <1>type, InsideStep
  <2>10. ASSUME NEW r \in Rows \cup {NoRow}, NEW st \in Terminal, CloseRow(r, st)
         PROVE  /\ \A x \in Rows : x # r => rows'[x] = rows[x]
                /\ leaked \subseteq leaked'
                /\ r \in Rows => rows'[r].st # "running" \/ r \in leaked'
    <3>1. CASE UNCHANGED leaked
      BY <2>10, <3>1, ConstantsAssumption DEF CloseRow, RowOf, Terminal, EngineInv, TypeOK
    <3>2. CASE leaked' = leaked \cup {r} /\ rows' = rows
      BY <3>2
    <3> QED BY <2>10, <3>1, <3>2 DEF CloseRow
  <2>11. CASE Record(c)
    <3> DEFINE t == job[c].task
    <3>0. pc[c] = "finished" /\ InRun(c) /\ CoInv(c) /\ t \in Tasks /\ phase \in {"up", "stopping"}
      BY <2>11 DEF Record, EngineInv, CoroutineInv, CoInv, InRun, Suspended
    <3>1. /\ UNCHANGED <<job, run, active, config, phase, status, cancelReq>>
          /\ pc' = [pc EXCEPT ![c] = "notifying"]
          /\ CloseRow(run[c].row, ExecutionStatus(run[c].res))
      BY <2>11 DEF Record, instVars
    <3>2. ExecutionStatus(run[c].res) \in Terminal /\ run[c].row \in Rows \cup {NoRow}
      BY DEF ExecutionStatus, Terminal, RowStatus, EngineInv, TypeOK, Runtime
    <3>3. pc'[c] = "notifying" /\ InRun(c)'
      BY <3>1 DEF EngineInv, TypeOK, InRun, Suspended
    <3>4. CoInv(c)'
      BY <3>0, <3>1, <3>3 DEF CoInv
    <3>5. status[t] = "idle"
      BY <3>0, IdleOutsideRun
    <3>6. /\ \A x \in Rows : x # run[c].row => rows'[x] = rows[x]
          /\ leaked \subseteq leaked'
          /\ run[c].row \in Rows => rows'[run[c].row].st # "running" \/ run[c].row \in leaked'
      BY <2>10, <3>1, <3>2
    <3> QED BY <3>0, <3>1, <3>4, <3>5, <3>6, <1>type, InsideStep DEF Suspended
  <2>12. CASE Return(c)
    <3>1. /\ pc[c] = "notifying" /\ AfterRun(c, run[c].at)
          /\ active' = active \ {job[c].task}
          /\ config' = [config EXCEPT ![job[c].task] = run[c].base]
          /\ UNCHANGED <<phase, status, cancelReq, rows, leaked>>
      BY <2>12 DEF Return, Release, rowVars
    <3>2. PICK l \in {"free", "next"} :
                  /\ pc' = [pc EXCEPT ![c] = l] /\ run' = [run EXCEPT ![c] = NoRun]
                  /\ \A d \in Coroutines \ {c} : job'[d] = job[d]
                  /\ l # "free" => job'[c].task = job[c].task
      BY <2>4, <3>1
    <3> QED BY <3>1, <3>2, <1>type, LeaveStep
  <2>13. CASE FailReturn(c)
    <3>1. /\ pc[c] = "failing" /\ AfterRun(c, now)
          /\ active' = active \ {job[c].task}
          /\ config' = [config EXCEPT ![job[c].task] = run[c].base]
          /\ CloseRow(run[c].row, "failed")
          /\ UNCHANGED <<phase, status, cancelReq>>
      BY <2>13 DEF FailReturn, Release
    <3>2. PICK l \in {"free", "next"} :
                  /\ pc' = [pc EXCEPT ![c] = l] /\ run' = [run EXCEPT ![c] = NoRun]
                  /\ \A d \in Coroutines \ {c} : job'[d] = job[d]
                  /\ l # "free" => job'[c].task = job[c].task
      BY <2>4, <3>1
    <3>3. "failed" \in Terminal /\ run[c].row \in Rows \cup {NoRow}
      BY DEF Terminal, RowStatus, EngineInv, TypeOK, Runtime
    <3>4. /\ \A x \in Rows : x # run[c].row => rows'[x] = rows[x]
          /\ leaked \subseteq leaked'
          /\ run[c].row \in Rows => rows'[run[c].row].st # "running" \/ run[c].row \in leaked'
      BY <2>10, <3>1, <3>3
    <3> QED BY <3>1, <3>2, <3>4, <1>type, LeaveStep
  <2> QED
    BY <1>17, <2>1, <2>2, <2>3, <2>5, <2>6, <2>7, <2>8, <2>9, <2>11, <2>12, <2>13 DEF Step
<1> QED
  BY <1>1, <1>2, <1>3, <1>4, <1>5, <1>6, <1>7, <1>8, <1>9, <1>10, <1>11, <1>12, <1>13, <1>14,
     <1>15, <1>16, <1>17 DEF Next, Process, Operator

-----------------------------------------------------------------------------
\* Whatever the interleaving, the engine, its coroutines, its instances and its
\* history rows agree with one another in every reachable state.
THEOREM EngineCorrect == Spec => []EngineInv
<1>1. Init => EngineInv
  BY InitInv
<1>2. EngineInv /\ [Next]_vars => EngineInv'
  BY NextInv
<1> QED BY <1>1, <1>2, PTL DEF Spec

\* The variables stay within their types.
THEOREM TypeCorrect == Spec => []TypeOK
<1>1. EngineInv => TypeOK
  BY DEF EngineInv
<1> QED BY <1>1, EngineCorrect, PTL

\* No two coroutines ever execute the same task: the _active_tasks claim is
\* exclusive for every mix of ticks and run requests.
THEOREM SingleFlightCorrect == Spec => []SingleFlight
<1>1. EngineInv => SingleFlight
  BY DEF EngineInv
<1> QED BY <1>1, EngineCorrect, PTL

\* Execution history never shows a phantom run, crashes and restarts included.
THEOREM RunningRowOwnedCorrect == Spec => []RunningRowOwned
<1>1. EngineInv => RunningRowOwned
  BY DEF EngineInv
<1> QED BY <1>1, EngineCorrect, PTL

\* Run parameters never survive the run they were given to.
THEOREM OverlayContainedCorrect == Spec => []OverlayContained
<1>1. EngineInv => OverlayContained
  BY DEF EngineInv
<1> QED BY <1>1, EngineCorrect, PTL

\* A run whose cancellation was acknowledged is never recorded as completed.
THEOREM AckedCancelCorrect == Spec => []AckedCancelNotCompleted
<1>1. EngineInv => AckedCancelNotCompleted
  <2> SUFFICES ASSUME EngineInv, NEW c \in Coroutines, run[c].acked, run[c].res # "none"
               PROVE  run[c].res \in {"cancelled", "error"}
    BY DEF AckedCancelNotCompleted
  <2>1. CoInv(c)
    BY DEF EngineInv, CoroutineInv
  <2> QED BY <2>1 DEF CoInv
<1> QED BY <1>1, EngineCorrect, PTL

\* An instance that is not IDLE belongs to a claimed task, so a release never
\* leaves behind an instance that would refuse every later run.
THEOREM NoWedgedInstanceCorrect == Spec => []NoWedgedInstance
<1>1. EngineInv => NoWedgedInstance
  <2> SUFFICES ASSUME EngineInv, NEW t \in Tasks, status[t] # "idle" PROVE t \in active
    BY DEF NoWedgedInstance
  <2>1. PICK c \in Coroutines : pc[c] = Stage(status[t]) /\ job[c].task = t
    BY DEF EngineInv, InstanceInv
  <2>2. CoInv(c) /\ InRun(c)
    BY <2>1 DEF EngineInv, CoroutineInv, Stage, InRun, Suspended
  <2> QED BY <2>1, <2>2 DEF CoInv
<1> QED BY <1>1, EngineCorrect, PTL

-----------------------------------------------------------------------------
(* Refinement of the exclusive-run service.                                *)

\* Every step of the engine is a step of the service or invisible to it.
LEMMA ServiceStep == EngineInv /\ [Next]_vars => [Runs!Next]_<<active, rows>>
<1> SUFFICES ASSUME EngineInv, [Next]_vars, ~UNCHANGED <<active, rows>> PROVE Runs!Next
  OBVIOUS
<1> USE DEF coVars
<1>1. CASE Boot
  <2>1. active = {} /\ active' = active
    BY <1>1 DEF Boot, EngineInv, InstanceInv
  <2>2. Runs!Recover
    BY <1>1, <2>1 DEF Boot, Terminated, Runs!Recover, RowOf
  <2> QED BY <2>2 DEF Runs!Next
<1>2. CASE Crash
  <2>1. Runs!Abort
    BY <1>2 DEF Crash, Runs!Abort, rowVars
  <2> QED BY <2>1 DEF Runs!Next
<1>3. ASSUME NEW r \in Rows, Purge(r) PROVE Runs!Next
  <2>1. Runs!Forget(r)
    BY <1>3 DEF Purge, Runs!Forget, RowOf, engineVars
  <2> QED BY <2>1 DEF Runs!Next
<1>4. ASSUME NEW c \in Coroutines, NEW r \in Rows \cup {NoRow}, Admit(c, r) PROVE Runs!Next
  <2>1. job[c].task \in Tasks
    BY <1>4 DEF Admit, EngineInv, CoroutineInv, CoInv
  <2>2. Runs!Claim(job[c].task, r)
    BY <1>4 DEF Admit, Claimed, CreateRow, Runs!Claim, RowOf
  <2> QED BY <2>1, <2>2 DEF Runs!Next
<1>5. ASSUME NEW c \in Coroutines, InRun(c)
      PROVE  /\ job[c].task \in Tasks /\ job[c].task \in active
             /\ run[c].row \in Rows \cup {NoRow}
             /\ pc[c] # "notifying" /\ run[c].row # NoRow
                  => rows[run[c].row] = [st |-> "running", task |-> job[c].task]
  BY <1>5 DEF EngineInv, CoroutineInv, CoInv, TypeOK, Runtime, RowOf, InRun, Suspended
<1>6. ASSUME NEW c \in Coroutines, Record(c) PROVE Runs!Next
  <2>1. InRun(c) /\ pc[c] = "finished" /\ active' = active
    BY <1>6 DEF Record, InRun
  <2>2. ExecutionStatus(run[c].res) \in Terminal
    BY DEF ExecutionStatus, Terminal, RowStatus
  <2>3. /\ run[c].row # NoRow
        /\ rows' = [rows EXCEPT ![run[c].row] =
                      RowOf(ExecutionStatus(run[c].res), rows[run[c].row].task)]
    BY <1>6, <2>1 DEF Record, CloseRow
  <2>4. rows[run[c].row] = [st |-> "running", task |-> job[c].task]
    BY <1>5, <2>1, <2>3
  <2>5. rows[run[c].row].task = job[c].task
    BY <2>4
  <2>6. rows' = [rows EXCEPT ![run[c].row] =
                   [st |-> ExecutionStatus(run[c].res), task |-> job[c].task]]
    BY <2>3, <2>5 DEF RowOf
  <2>7. Runs!Close(job[c].task, run[c].row, ExecutionStatus(run[c].res))
    BY <1>5, <2>1, <2>2, <2>4, <2>6 DEF Runs!Close
  <2> QED BY <1>5, <2>1, <2>2, <2>3, <2>7 DEF Runs!Next
<1>7. ASSUME NEW c \in Coroutines, Return(c) PROVE Runs!Next
  <2>1. InRun(c) /\ active' = active \ {job[c].task} /\ rows' = rows
    BY <1>7 DEF Return, Release, InRun, Suspended, rowVars
  <2>2. Runs!Release(job[c].task, NoRow)
    BY <1>5, <2>1 DEF Runs!Release
  <2> QED BY <1>5, <2>1, <2>2 DEF Runs!Next
<1>8. ASSUME NEW c \in Coroutines, FailReturn(c) PROVE Runs!Next
  <2>1. InRun(c) /\ pc[c] = "failing" /\ active' = active \ {job[c].task}
    BY <1>8 DEF FailReturn, Release, InRun, Suspended
  <2>2. CASE rows' = rows
    BY <1>5, <2>1, <2>2 DEF Runs!Release, Runs!Next
  <2>3. CASE rows' # rows
    <3>1. run[c].row # NoRow /\ rows' = [rows EXCEPT ![run[c].row] =
                                           RowOf("failed", rows[run[c].row].task)]
      BY <1>8, <2>3 DEF FailReturn, CloseRow
    <3>2. rows[run[c].row] = [st |-> "running", task |-> job[c].task]
      BY <1>5, <2>1, <3>1
    <3>3. rows[run[c].row].task = job[c].task
      BY <3>2
    <3>4. rows' = [rows EXCEPT ![run[c].row] = [st |-> "failed", task |-> job[c].task]]
      BY <3>1, <3>3 DEF RowOf
    <3>5. Runs!Release(job[c].task, run[c].row)
      BY <1>5, <2>1, <3>1, <3>2, <3>4 DEF Runs!Release
    <3> QED BY <1>5, <2>1, <3>5 DEF Runs!Next
  <2> QED BY <2>2, <2>3
<1>9. ASSUME NEW c \in Coroutines, Step(c) PROVE Runs!Next
  <2>1. \/ \E r \in Rows \cup {NoRow} : Admit(c, r)
        \/ Record(c) \/ Return(c) \/ FailReturn(c)
    BY <1>9 DEF Step, StartScheduled, TakeSchedule, FinishSchedules, Refuse, Validate, Execute,
                FinishRun, rowVars
  <2> QED BY <2>1, <1>4, <1>6, <1>7, <1>8
<1>10. Operator => UNCHANGED <<active, rows>>
  BY DEF Operator, RunTask, CancelTask, SaveConfig, SetEnabled, CreateSchedule, UpdateSchedule,
         DeleteSchedule, engineVars, rowVars
<1>11. Process => Boot \/ Crash \/ \E r \in Rows : Purge(r)
  BY DEF Process, SeedDefault, Arm, Stop, Advance, Tick, engineVars, rowVars
<1>12. UNCHANGED vars => UNCHANGED <<active, rows>>
  BY DEF vars, engineVars, rowVars
<1> QED BY <1>1, <1>2, <1>3, <1>9, <1>10, <1>11, <1>12 DEF Next

\* The engine implements the exclusive-run service.
THEOREM EngineImplementsRuns == Spec => RefinesExclusiveRuns
<1>1. Init => Runs!Init
  BY DEF Init, Runs!Init, RowOf
<1>2. EngineInv /\ [Next]_vars => [Runs!Next]_<<active, rows>>
  BY ServiceStep
<1> QED BY <1>1, <1>2, EngineCorrect, PTL DEF Spec, RefinesExclusiveRuns, Runs!Spec

\* A closed execution row is never rewritten, only purged.
THEOREM ClosedRowsCorrect == Spec => ClosedRowsAreFinal
<1> DEFINE Final == \A r \in Rows : rows[r].st \in Terminal =>
                      rows'[r] = rows[r] \/ rows'[r].st = "absent"
<1>1. EngineInv /\ [Next]_vars => [Final]_vars
  <2> SUFFICES ASSUME EngineInv, [Next]_vars PROVE Final
    OBVIOUS
  <2>1. CASE UNCHANGED <<active, rows>>
    BY <2>1
  <2>2. CASE Runs!Next
    <3>1. "running" \notin Terminal /\ "absent" \notin Terminal
      BY DEF Terminal
    <3>2. rows \in [Rows -> [st : RowStatus, task : Tasks \cup {NoTask}]]
      BY DEF EngineInv, TypeOK
    <3>3. ASSUME NEW t \in Tasks, NEW r \in Rows \cup {NoRow}, Runs!Claim(t, r) \/ Runs!Release(t, r)
          PROVE  Final
      BY <3>1, <3>2, <3>3 DEF Runs!Claim, Runs!Release
    <3>4. ASSUME NEW t \in Tasks, NEW r \in Rows, NEW st \in Terminal, Runs!Close(t, r, st)
          PROVE  Final
      BY <3>1, <3>2, <3>4 DEF Runs!Close
    <3>5. CASE Runs!Abort \/ Runs!Recover
      BY <3>1, <3>2, <3>5 DEF Runs!Abort, Runs!Recover
    <3>6. ASSUME NEW r \in Rows, Runs!Forget(r) PROVE Final
      BY <3>1, <3>2, <3>6 DEF Runs!Forget
    <3> QED BY <2>2, <3>3, <3>4, <3>5, <3>6 DEF Runs!Next
  <2> QED BY <2>1, <2>2, ServiceStep
<1> QED BY <1>1, EngineCorrect, PTL DEF Spec, ClosedRowsAreFinal

-----------------------------------------------------------------------------
(* Schedules edited while their run is suspended.                          *)

\* completed_at of a run, and of the runs a coroutine has yet to write to their
\* schedules, is not in the future.
TimesPast ==
  \A c \in Coroutines : run[c].at <= now /\ \A d \in job[c].done : d[2] <= now

\* What ScheduleEditsStand says of one row at time n.
Stands(x, n) ==
  /\ x.task = NoTask => x = NoSchedule
  /\ x.task # NoTask /\ ~x.enabled => x.next = NoTime
  /\ x.enabled => x.next # NoTime /\ x.next <= n + x.interval

\* ScheduleEditsStand, row by row.
LEMMA EditsStandByRow == ScheduleEditsStand <=> \A s \in Schedules : Stands(sched[s], now)
BY DEF ScheduleEditsStand, Stands

\* An occurrence computed from a past run lies within one interval from now.
LEMMA CalcNextWithin ==
  ASSUME TypeOK, NEW i \in Nat, NEW l \in Int, l <= now
  PROVE  CalcNext(i, l) \in Int /\ CalcNext(i, l) # NoTime /\ CalcNext(i, l) <= now + i
BY DEF TypeOK, CalcNext, NoTime

\* An occurrence computed from the present moment does too.
LEMMA CalcNextFresh ==
  ASSUME TypeOK, NEW i \in Nat
  PROVE  CalcNext(i, NoTime) \in Int /\ CalcNext(i, NoTime) # NoTime /\ CalcNext(i, NoTime) <= now + i
BY CalcNextWithin DEF TypeOK, NoTime

\* A row of a task stands when its next_run_at fits its switch.
LEMMA SchedStands ==
  ASSUME NEW t \in Tasks, NEW b \in BOOLEAN, NEW i \in Nat, NEW p, NEW n \in Int, NEW l,
         b => n # NoTime /\ n <= now + i, ~b => n = NoTime
  PROVE  Stands(SchedOf(t, b, i, p, n, l), now)
BY ConstantsAssumption DEF Stands, SchedOf

\* The end of a run is never later than the clock.
LEMMA TimesStep == TypeOK /\ TimesPast /\ [Next]_vars => TimesPast'
<1> SUFFICES ASSUME TypeOK, TimesPast, [Next]_vars PROVE TimesPast'
  OBVIOUS
<1> USE DEF TimesPast
<1>none. NoRun.at <= now /\ NoJob.done = {} /\ NoTime <= now /\ now <= now
  BY DEF TypeOK, NoRun, RunOf, NoJob, Job, NoTime
<1>types. job \in [Coroutines -> Jobs] /\ run \in [Coroutines -> Runtime] /\ now \in Nat
  BY DEF TypeOK
<1>after. ASSUME NEW c \in Coroutines, NEW at, at <= now, AfterRun(c, at), now' = now
          PROVE  TimesPast'
  BY <1>after, <1>none, <1>types DEF AfterRun, Job
<1>1. CASE UNCHANGED <<coVars, now>>
  BY <1>1 DEF coVars
<1>2. CASE Advance
  <2>1. now' \in Nat /\ now <= now' /\ run' = run /\ job' = job
    BY <1>2, <1>types DEF Advance, engineVars, coVars
  <2>2. ASSUME NEW c \in Coroutines, NEW d \in job[c].done PROVE d[2] <= now' /\ run[c].at <= now'
    BY <2>1, <2>2, <1>types DEF Jobs, Runtime
  <2>3. ASSUME NEW c \in Coroutines PROVE run[c].at <= now'
    BY <2>1, <2>3, <1>types DEF Runtime
  <2> QED BY <2>1, <2>2, <2>3
<1>3. CASE Crash
  BY <1>3, <1>none DEF Crash
<1>4. ASSUME NEW c \in Coroutines, NEW t \in Tasks, NEW p \in ParamOpt, RunTask(c, t, p)
      PROVE  TimesPast'
  BY <1>4, <1>types DEF RunTask, Job
<1>5. ASSUME NEW t \in Tasks, CancelTask(t) PROVE TimesPast'
  BY <1>5, <1>types DEF CancelTask, RunOf
<1>6. ASSUME NEW c \in Coroutines, Step(c) PROVE TimesPast'
  <2>1. ASSUME NEW t \in Tasks, StartScheduled(c, t) PROVE TimesPast'
    BY <2>1, <1>types DEF StartScheduled, Job
  <2>2. ASSUME NEW e \in job[c].todo, TakeSchedule(c, e) PROVE TimesPast'
    BY <2>2, <1>types DEF TakeSchedule, Job
  <2>3. CASE FinishSchedules(c)
    BY <2>3, <1>types, <1>none DEF FinishSchedules
  <2>4. CASE Refuse(c)
    BY <2>4, <1>after, <1>none DEF Refuse
  <2>5. ASSUME NEW r \in Rows \cup {NoRow}, Admit(c, r) PROVE TimesPast'
    <3>1. \/ run' = [run EXCEPT ![c] = RunOf(config[job[c].task], r, "already", NoTime, FALSE)]
          \/ run' = [run EXCEPT ![c] = RunOf(config[job[c].task], r, "none", NoTime, FALSE)]
      BY <2>5 DEF Admit
    <3>2. job' = job /\ now' = now
      BY <2>5 DEF Admit
    <3> QED BY <3>1, <3>2, <1>types, <1>none DEF RunOf
  <2>6. CASE Validate(c)
    BY <2>6, <1>types, <1>none DEF Validate, SetResult, RunOf
  <2>7. ASSUME NEW r, NEW b, Execute(c, r, b) PROVE TimesPast'
    BY <2>7, <1>types, <1>none DEF Execute, SetResult, RunOf
  <2>8. CASE FinishRun(c) \/ Record(c)
    BY <2>8, <1>1 DEF FinishRun, Record, coVars
  <2>9. CASE Return(c)
    BY <2>9, <1>after DEF Return
  <2>10. CASE FailReturn(c)
    BY <2>10, <1>after, <1>none DEF FailReturn
  <2> QED BY <1>6, <2>1, <2>2, <2>3, <2>4, <2>5, <2>6, <2>7, <2>8, <2>9, <2>10 DEF Step
<1>7. Process => UNCHANGED <<coVars, now>> \/ Advance \/ Crash
  BY DEF Process, Boot, SeedDefault, Arm, Stop, Tick, Purge, engineVars
<1>8. CASE Operator
  BY <1>8, <1>1, <1>4, <1>5 DEF Operator, SaveConfig, SetEnabled, CreateSchedule, UpdateSchedule,
                                DeleteSchedule, engineVars
<1>9. CASE UNCHANGED vars
  BY <1>9, <1>1 DEF vars, engineVars
<1> QED BY <1>1, <1>2, <1>3, <1>6, <1>7, <1>8, <1>9 DEF Next

\* Whoever writes a schedule row, the operator or the end of a run, leaves it
\* as the operator set it.
LEMMA EditsStep ==
  TypeOK /\ TimesPast /\ ScheduleEditsStand /\ [Next]_vars => ScheduleEditsStand'
<1> SUFFICES ASSUME TypeOK, TimesPast, \A s \in Schedules : Stands(sched[s], now), [Next]_vars
             PROVE  \A s \in Schedules : Stands(sched'[s], now')
  BY EditsStandByRow DEF ScheduleEditsStand, Stands
<1> DEFINE Goal == \A s \in Schedules : Stands(sched'[s], now')
<1>types. sched \in [Schedules -> ScheduleRow] /\ now \in Nat
  BY DEF TypeOK
<1>1. CASE UNCHANGED <<sched, now>>
  BY <1>1
<1>2. CASE Advance
  <2>1. sched' = sched /\ now' = now + 1
    BY <1>2 DEF Advance, dbVars
  <2> QED BY <2>1, <1>types DEF Stands, ScheduleRow
<1>row. ASSUME NEW s, NEW t \in Tasks, NEW b \in BOOLEAN, NEW i \in Nat, NEW p, NEW n \in Int, NEW l,
               b => n # NoTime /\ n <= now + i, ~b => n = NoTime,
               sched' = [sched EXCEPT ![s] = SchedOf(t, b, i, p, n, l)], now' = now
        PROVE  Goal
  <2>1. Stands(SchedOf(t, b, i, p, n, l), now)
    BY <1>row, SchedStands
  <2> QED BY <2>1, <1>row, <1>types
<1>set. ASSUME NEW s, NEW t \in Tasks, NEW b \in BOOLEAN, NEW i \in Nat, NEW p, NEW l,
               sched' = [sched EXCEPT ![s] =
                           SchedOf(t, b, i, p, IF b THEN CalcNext(i, NoTime) ELSE NoTime, l)],
               now' = now
        PROVE  Goal
  <2> DEFINE n == IF b THEN CalcNext(i, NoTime) ELSE NoTime
  <2>1. n \in Int /\ (b => n # NoTime /\ n <= now + i) /\ (~b => n = NoTime)
    BY CalcNextFresh DEF NoTime
  <2>2. sched' = [sched EXCEPT ![s] = SchedOf(t, b, i, p, n, l)]
    BY <1>set
  <2> HIDE DEF n
  <2>3. Stands(SchedOf(t, b, i, p, n, l), now)
    BY <2>1, SchedStands
  <2> QED BY <2>2, <2>3, <1>set, <1>types
<1>3. ASSUME NEW t \in Tasks, NEW i \in Intervals, SeedDefault(t, i) PROVE Goal
  BY <1>3, <1>row, CalcNextFresh, ConstantsAssumption DEF SeedDefault
<1>4. ASSUME NEW t \in Tasks, NEW b \in BOOLEAN, SetEnabled(t, b) PROVE Goal
  <2>1. CASE sched' = sched
    BY <1>4, <2>1, <1>1 DEF SetEnabled
  <2>2. CASE sched' # sched
    <3> DEFINE s == Max(Children(t))
    <3>1. /\ now' = now
          /\ sched' = [sched EXCEPT ![s] = SchedOf(t, TRUE, sched[s].interval, sched[s].param,
                                              CalcNext(sched[s].interval, NoTime), sched[s].last)]
      BY <1>4, <2>2 DEF SetEnabled
    <3> HIDE DEF s
    <3>2. CASE s \in Schedules
      <4>1. sched[s].interval \in Nat
        BY <3>2, <1>types DEF ScheduleRow
      <4> QED BY <3>1, <4>1, <1>row, CalcNextFresh
    <3>3. CASE s \notin Schedules
      BY <3>1, <3>3, <1>types
    <3> QED BY <3>2, <3>3
  <2> QED BY <2>1, <2>2
<1>5. ASSUME NEW t \in Tasks, NEW b \in BOOLEAN, NEW i \in Intervals, NEW p \in ParamOpt,
             CreateSchedule(t, b, i, p)
      PROVE  Goal
  BY <1>5, <1>set, ConstantsAssumption DEF CreateSchedule
<1>6. ASSUME NEW s \in Schedules, NEW b \in BOOLEAN, NEW i \in Intervals, NEW p \in ParamOpt,
             UpdateSchedule(s, b, i, p)
      PROVE  Goal
  <2>1. sched[s].task \in Tasks
    BY <1>6, <1>types DEF UpdateSchedule, ScheduleRow
  <2> QED BY <1>6, <2>1, <1>set, ConstantsAssumption DEF UpdateSchedule
<1>7. ASSUME NEW s \in Schedules, DeleteSchedule(s) PROVE Goal
  <2>1. Stands(NoSchedule, now)
    BY DEF Stands, NoSchedule, SchedOf
  <2> QED BY <1>7, <2>1, <1>types DEF DeleteSchedule
<1>8. ASSUME NEW c \in Coroutines, FinishSchedules(c) PROVE Goal
  <2>1. CASE sched' = sched
    BY <1>8, <2>1, <1>1 DEF FinishSchedules
  <2>2. CASE sched' # sched
    <3>1. /\ now' = now
          /\ sched' = [s \in Schedules |->
                         IF sched[s].task # NoTask /\ \E d \in job[c].done : d[1] = s
                         THEN Rescheduled(s, (CHOOSE d \in job[c].done : d[1] = s)[2])
                         ELSE sched[s]]
      BY <1>8, <2>2 DEF FinishSchedules
    <3>2. ASSUME NEW s \in Schedules, sched[s].task # NoTask, NEW at \in Int, at <= now
          PROVE  Stands(Rescheduled(s, at), now)
      <4> DEFINE x == sched[s]
                 n == IF x.enabled THEN CalcNext(x.interval, at) ELSE x.next
      <4>1. x \in ScheduleRow /\ Stands(x, now)
        BY <1>types
      <4>2. x.task \in Tasks /\ x.enabled \in BOOLEAN /\ x.interval \in Nat /\ x.next \in Int
        BY <4>1, <3>2 DEF ScheduleRow
      <4>3. n \in Int /\ (x.enabled => n # NoTime /\ n <= now + x.interval)
                      /\ (~x.enabled => n = NoTime)
        BY <4>1, <4>2, <3>2, CalcNextWithin DEF Stands
      <4>4. Rescheduled(s, at) = SchedOf(x.task, x.enabled, x.interval, x.param, n, at)
        BY DEF Rescheduled
      <4> HIDE DEF x, n
      <4> QED BY <4>2, <4>3, <4>4, SchedStands
    <3>3. ASSUME NEW s \in Schedules, sched[s].task # NoTask, \E d \in job[c].done : d[1] = s
          PROVE  Stands(Rescheduled(s, (CHOOSE d \in job[c].done : d[1] = s)[2]), now)
      <4> DEFINE e == CHOOSE d \in job[c].done : d[1] = s
      <4>1. e \in job[c].done
        BY <3>3
      <4> HIDE DEF e
      <4>2. job[c] \in Jobs
        BY DEF TypeOK
      <4>3. e[2] \in Int /\ e[2] <= now
        BY <4>1, <4>2 DEF TimesPast, Jobs
      <4>4. Stands(Rescheduled(s, e[2]), now)
        BY <3>3, <4>3, <3>2
      <4> QED BY <4>4 DEF e
    <3> QED BY <3>1, <3>3
  <2> QED BY <2>1, <2>2
<1>9. ASSUME NEW c \in Coroutines, Step(c) PROVE UNCHANGED <<sched, now>> \/ FinishSchedules(c)
  BY <1>9 DEF Step, StartScheduled, TakeSchedule, Refuse, Admit, Validate, Execute, FinishRun,
              Record, SyncToDatabase, Return, FailReturn, dbVars
<1>10. Process => \/ UNCHANGED <<sched, now>> \/ Advance
                  \/ \E t \in Tasks, i \in Intervals : SeedDefault(t, i)
  BY DEF Process, Boot, Arm, Stop, Crash, Tick, Purge, dbVars
<1>11. CASE Operator
  BY <1>11, <1>1, <1>4, <1>5, <1>6, <1>7 DEF Operator, RunTask, CancelTask, SaveConfig, dbVars
<1>12. CASE UNCHANGED vars
  BY <1>12, <1>1 DEF vars, dbVars
<1> QED BY <1>1, <1>2, <1>3, <1>8, <1>9, <1>10, <1>11, <1>12 DEF Next

\* Whatever an operator does to a schedule while its run is under way, the end
\* of the run writes a row that keeps it: disabled stays off, deleted stays gone,
\* and an enabled schedule is due again within its interval.
THEOREM ScheduleEditsCorrect == Spec => []ScheduleEditsStand
<1>1. Init => TimesPast /\ ScheduleEditsStand
  BY DEF Init, TimesPast, ScheduleEditsStand, NoRun, RunOf, NoJob, Job, NoSchedule, SchedOf, NoTime
<1>2. TypeOK /\ TimesPast /\ ScheduleEditsStand /\ [Next]_vars => (TimesPast /\ ScheduleEditsStand)'
  BY TimesStep, EditsStep
<1> QED BY <1>1, <1>2, TypeCorrect, PTL DEF Spec
=============================================================================
