\* One task with up to two schedules: every interleaving of ticks, run requests,
\* cancellations, operator edits, failed writes and crashes.
SPECIFICATION Spec
CONSTANTS
  Tasks = {t1}
  ManualTasks = {}
  Coroutines = {c1, c2}
  Rows = {r1, r2}
  Params = {p1}
  Saves = {v1}
  Default = dflt
  Nobody = Nobody
  NoTask = NoTask
  NoRow = NoRow
  NoParam = NoParam
  NoSave = NoSave
  Intervals = {1}
  MaxSchedules = 2
  MaxTime = 1
  MaxConcurrent = 2
  MaxFaults = 1
  MaxEdits = 1
SYMMETRY CoroutineSymmetry
INVARIANTS EngineInv SingleFlight RunningRowOwned AckedCancelNotCompleted ScheduleEditsStand
PROPERTIES RefinesExclusiveRuns
