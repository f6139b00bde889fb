\* Two tasks whose default schedules fall due together, one slot.
SPECIFICATION Spec
CONSTANTS
  Tasks = {t1, t2}
  ManualTasks = {}
  Coroutines = {c1, c2}
  Rows = {r1, r2}
  Params = {}
  Saves = {}
  Default = dflt
  Nobody = Nobody
  NoTask = NoTask
  NoRow = NoRow
  NoParam = NoParam
  NoSave = NoSave
  Intervals = {1}
  MaxSchedules = 2
  MaxTime = 1
  MaxConcurrent = 1
  MaxFaults = 0
  MaxEdits = 0
INVARIANT
  ConcurrencyLimitHeld
