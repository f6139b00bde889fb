\* A hand-built channel and a master, two reverts; the bounds are the largest of
\* the settings of MCRevert.
SPECIFICATION MCSpec
CONSTANTS
  manual = manual  master = master
  s1 = s1  s2 = s2  s3 = s3  u1 = u1  u2 = u2
  Channels = {manual, master}
  Streams = {s1, s2, s3}
  AutoCreated = {master}
  Masters = {master}
  StartStreams <- OneStreamEach
  Reverts = {u1, u2}
  FlushAt = 4
  PageSize = 3
  MaxOps = 3
  MaxEdits = 2
  MaxFaults = 1
  MaxLapses = 3
  MaxCrashes = 1
SYMMETRY Alike
INVARIANTS  EditsOutsideWindowSurvive
 
CHECK_DEADLOCK FALSE
