SPECIFICATION FairSpec
CONSTANTS
  Procs = {p1, p2}
  Reads = {r1}
  Writes = {w1}
  None = None
  MaxChanges = 1
  MaxLoads = 1
  MaxFaults = 1
INVARIANT ServedIsValid
PROPERTY InvalidationsReach
