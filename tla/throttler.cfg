\* Two overlapping requests at a time, windows that follow on each other,
\* blocks shorter and longer than the window, one restart or lost answer.
CONSTANTS
  Callers = {c1, c2}
  Configs <- SmallConfigs
  MaxTime = 6
  MaxHits = 7
  FaultBound = 1
SPECIFICATION Spec
SYMMETRY Symmetry
\* The bounds on time and on requests end the run.
CHECK_DEADLOCK FALSE
INVARIANTS
  TypeOK
  AtMostTwoLimits
  PenaltyServed
  ExcessOnly
