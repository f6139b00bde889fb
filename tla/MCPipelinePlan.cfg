\* Two commits of two plans, with one edit from outside, one failed
\* call, one lost answer, one crash and one tick of the clock.
SPECIFICATION FairSpec
CONSTANTS
  Channels = {c1, c2}
  c1 = c1
  c2 = c2
  Programs <- MixedPrograms
  Commits = {m1, m2}
  Principals = {alice}
  MaxEntries = 2
  PlanTTL = 1
  MaxPlans = 2
  MaxTime = 1
  MaxEdits = 1
  MaxFaults = 1
  MaxLost = 1
  MaxCrashes = 1
  RefreshFirst = {TRUE, FALSE}
INVARIANTS ReplayedOnceWithEvidence NoStaleWrite FailureIsAccounted
PROPERTIES CommitEnds
CHECK_DEADLOCK FALSE
