\* A rejected order and its retained job id.
CONSTANTS
  None = None
  Orders = {o1}
  Drivers = {d1, d2}
  Workers = {w1}
  Requests = {r1}
  MaxAttempts = 3
  Calls = {"reject"}
  ResetBound = 0
  FaultBound = 0
SPECIFICATION FairSpec
\* The service rests when nobody calls it.
CHECK_DEADLOCK FALSE
PROPERTIES
  RejectedIsReassigned
