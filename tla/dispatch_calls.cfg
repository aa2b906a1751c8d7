\* Two calls at a time, every call, against one worker; expired orders are
\* reopened and nothing fails.
CONSTANTS
  None = None
  Orders = {o1}
  Drivers = {d1, d2}
  Workers = {w1}
  Requests = {r1, r2}
  MaxAttempts = 2
  Calls <- CallNames
  ResetBound = 4
  FaultBound = 0
SPECIFICATION Spec
SYMMETRY Symmetry
\* The service rests when nobody calls it.
CHECK_DEADLOCK FALSE
INVARIANTS
  TypeOK
  ArrivalNoticeTrue
  AttemptAccounting
PROPERTIES
  AuditExact
  EveryWriteVersioned
  DeletedRowFrozen
