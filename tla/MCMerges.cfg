\* Two rows, one channel, five audit rows, one failure; Small is in MCMerges.
SPECIFICATION Spec
SYMMETRY Symmetry
CONSTANTS
  n1 = n1  n2 = n2  r1 = r1  r2 = r2
  Names = {n1, n2}
  Channels = {c1}
  Requests = {r1, r2}
  MaxRows = 2
  MaxAudit = 5
  MaxFaults = 1
INVARIANTS QueueIsSound 
 
CONSTRAINT Small
CHECK_DEADLOCK FALSE
