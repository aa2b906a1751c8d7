\* Two processes, one of which may fail once at any step.
CONSTANTS
  None = None
  Orders = {o1}
  Drivers = {d1, d2}
  Workers = {w1, w2}
  Requests = {r1}
  MaxAttempts = 3
  Calls <- AllButReassign
  ResetBound = 0
  FaultBound = 1
SPECIFICATION Spec
SYMMETRY Symmetry
\* The service rests when nobody calls it.
CHECK_DEADLOCK FALSE
INVARIANTS
  AssignmentAgrees
PROPERTIES
  ImplementsLifecycle
  NoRepeatOffer
