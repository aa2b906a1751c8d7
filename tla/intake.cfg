\* Two orders, calls with one key or none, two overlapping ticks, batches of
\* one row, and enough failures to give a row up.
CONSTANTS
  Keys = {k1}
  None = None
  Requests = {r1, r2}
  Ticks = {t1, t2}
  BatchSize = 1
  MaxAttempts = 2
  MaxOrders = 2
  FaultBound = 2
SPECIFICATION FairSpec
\* The bound on orders ends the run.
CHECK_DEADLOCK FALSE
INVARIANTS
  TypeOK
  SequentialDedupe
  ProcessedWasTriggered
  AttemptsWereMade
PROPERTIES
  RowsSettle
