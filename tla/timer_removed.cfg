\* A rejection cancels the timer of the offer that follows it.
CONSTANTS
  None = None
  Orders = {o1}
  Drivers = {d1, d2}
  Workers = {w1}
  Requests = {r1, r2}
  MaxAttempts = 3
  Calls = {"reject", "reassign"}
  ResetBound = 0
  FaultBound = 0
SPECIFICATION Spec
SYMMETRY Symmetry
\* The service rests when nobody calls it.
CHECK_DEADLOCK FALSE
INVARIANTS
  OfferHasTimer
