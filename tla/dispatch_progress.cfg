\* Timers and progress; nothing is reassigned and nothing fails.
CONSTANTS
  None = None
  Orders = {o1}
  Drivers = {d1, d2}
  Workers = {w1}
  Requests = {r1}
  MaxAttempts = 3
  Calls <- AllButReassign
  ResetBound = 0
  FaultBound = 0
SPECIFICATION FairSpec
\* The service rests when nobody calls it.
CHECK_DEADLOCK FALSE
INVARIANTS
  OfferHasTimer
PROPERTIES
  StaleTimeoutSkipped
  OfferResolved
  NewOrderTakenUp
  HandlersFinish
