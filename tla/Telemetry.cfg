SPECIFICATION FullSpec
CONSTANTS
  Tuples = {t1, t2, t3, t4}
  Malformed = {t3, t4}
  HighWater = 2
  MaxDistinct = 3
  ServerCap = 2
  CountCap = 1
  MaxRecords <- MCMaxRecords
  t1 = t1
CHECK_DEADLOCK FALSE
INVARIANTS Conservation NeverDoubleCounted DistinctBounded LossNeedsFailure
PROPERTY EventuallySent
