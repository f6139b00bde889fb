\* Requests of up to four operations, runs with refused, lost and malformed
\* calls and cancellation, and three jobs over one restart; see MCBulkCommit.
SPECIFICATION MCSpec
CONSTANTS
  World <- Three
  DefaultGroup = "d"
  Placeholder = "none"
  Scenarios <- AllScenarios
  MaxOps = 4
  Jobs = {j1, j2, j3}
  MaxRestarts = 1
INVARIANTS PlanKeepsNumbers SharingIsMeant  NumbersProtected JobsAnswer
 
