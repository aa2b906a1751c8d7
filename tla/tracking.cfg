\* Every move of the orders, every call, one failure.
CONSTANTS
  None = None
  Orders = {o1}
  Drivers = {d1, d2}
  Requests = {r1, r2}
  Workers = {w1}
  FaultBound = 1
SPECIFICATION FairSpec
\* A deleted order with no call about it stays as it is.
CHECK_DEADLOCK FALSE
INVARIANTS
  TypeOK
  RoomHearsItsDriver
  JobFollowsAssignment
PROPERTIES
  EtaArrives
  EtaStops
