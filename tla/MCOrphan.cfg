\* Three runs of either rule or both, failed calls, one crash, two changes of
\* the playlist or the channels; and the settings of MCOrphan.
SPECIFICATION MCSpec
CONSTANTS
  w1 = w1  w2 = w2
  Runners = {w1}
  RuleOrder <- TwoRules
  Streams <- TwoStreams
  Names <- TwoStreams
  NameOf <- OwnNames
  Accounts = {"a1", "a2"}
  AccountOf <- OnAccounts
  RuleAccount <- AnyAccount
  OrphanAction <- FirstDeletes
  Takes <- OneEach
  AllowManual = FALSE
  Cap = 0
  RuleSets <- EachRule
  Scopes <- Unscoped
  FaultKinds = {"load", "accounts", "create", "lost", "delete"}
  Edits = {}
  MaxRuns = 3
  MaxFaults = 1
  MaxCrashes = 1
  MaxEdits = 0
  MaxChurn = 2
  MaxIds = 8
INVARIANTS ChannelsNotRepeated
PROPERTIES HandBuiltUntouched 
CHECK_DEADLOCK FALSE
