\* Two Emby channels and three plans; three channels and two apply requests.
SPECIFICATION MCSpec
CONSTANTS
  i1 = i1  i2 = i2
  a = a  b = b  d = d  s1 = s1  s2 = s2  s3 = s3
  Items = {i1, i2}
  Subsets <- SomeOnly
  Principals = {alice, bob}
  MaxEntries = 2
  PlanTTL = 1
  MaxPlans = 3
  MaxTime = 1
  MaxChanges = 1
  MaxFaults = 1
  Channels = {a, b, d}
  Names <- ThreeNames
  Streams = {s1, s2, s3}
  Normalize <- ToPlain
  NamesAtStart <- OneNameEach
  StreamsAtStart <- OneStreamEach
  Commits = {m1, m2}
  MaxEdits = 1
  MaxFailures = 1
SYMMETRY Symmetry
INVARIANTS LogoPlansSafe 
 
CHECK_DEADLOCK FALSE
