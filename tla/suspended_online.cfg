\* As drivers.cfg.
CONSTANTS
  PerMilli = 2
  MAX_LIMIT = 2
  DriverIds = {1, 2, 3}
  Calls = {c1, c2}
  None = None
  Creations <- SmallCreations
  Limits <- SmallLimits
  Busy = {1}
  MaxPosition = 1
SPECIFICATION Spec
SYMMETRY Symmetry
INVARIANTS
  SuspendedIsOffline
