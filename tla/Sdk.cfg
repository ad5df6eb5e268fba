SPECIFICATION TimerSpec
CONSTANTS
  FlagKeys = {k1}
  Contents = {c1, c2}
  c1 = c1
  Bootstrap = None
  None = None
  MaxChanges = 2
  HighWater = 2
  MaxDistinct = 2
  MaxCalls = 1
CHECK_DEADLOCK FALSE
INVARIANT SnapshotWasServed
PROPERTIES NeverBackwards QuietAfterClose CloseAndReadyResolve Converges
