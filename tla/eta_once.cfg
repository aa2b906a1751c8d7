\* No failures: the chain of recalculations ends by itself.
CONSTANTS
  None = None
  Orders = {o1}
  Drivers = {d1, d2}
  Requests = {r1, r2}
  Workers = {w1}
  FaultBound = 0
SPECIFICATION FairSpec
CHECK_DEADLOCK FALSE
INVARIANTS
  EtaKeepsComing
