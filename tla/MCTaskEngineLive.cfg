\* Liveness: one task, one schedule, run requests, an operator edit and crashes.
SPECIFICATION FairSpec
CONSTANTS
  Tasks = {t1}
  ManualTasks = {}
  Coroutines = {c1, c2}
  Rows = {r1, r2}
  Params = {}
  Saves = {}
  Default = dflt
  Nobody = Nobody
  NoTask = NoTask
  NoRow = NoRow
  NoParam = NoParam
  NoSave = NoSave
  Intervals = {1}
  MaxSchedules = 1
  MaxTime = 1
  MaxConcurrent = 1
  MaxFaults = 0
  MaxEdits = 1
PROPERTIES
  EveryRunReleased
  
