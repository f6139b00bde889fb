\* Three categories (groups, channels, a non-fatal flushing one) of two rows:
\* two failures and one change from outside, anywhere.  A restore ends.
SPECIFICATION FairSpec
CONSTANTS
  NSteps = 3
  RowsPerStep = 2
  Parent <- MCParent
  NonFatal = {3}
  Flushing = {3}
  Racing = {1}
  MaxFaults = 2
  MaxOutside = 1
INVARIANTS OutcomeIsHonest LedgerCoversDestination
PROPERTIES RollbackDiscipline RestoreSettles
CHECK_DEADLOCK FALSE
