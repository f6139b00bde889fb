\* Runs of either origin, refreshes, ends of the process, a start that dies
\* half-way, a failing save, a settings form and a changed switch.
SPECIFICATION FairSpec
CONSTANTS
  Runs = {r1, r2, r3}
  MaxRefresh = 2
  MaxStops = 2
  MaxBootStops = 1
  MaxSaveFaults = 1
  MaxSwitches = 1
  MaxFormSaves = 1
INVARIANTS WatermarksInOrder
PROPERTIES   RefreshIsConsumed
CHECK_DEADLOCK FALSE
