SPECIFICATION FairSpec
CONSTANTS
  f1 = f1
  r1 = r1
  r2 = r2
  r3 = r3
  va = va
  vb = vb
  u1 = u1
  u2 = u2
  None = None
  Flags = {f1}
  Existing = {f1}
  Reqs = {r1, r2}
  EnvSeq <- MCEnvSeq
  Columns <- MCColumns
  Values <- MCValues
  DefaultCols <- MCDefaults
  ChildKeys <- MCKeys
  ChildVals <- MCVals
  Bodies <- MCBodies
  Workload <- RaceWorkload
  ExclusiveWriters = FALSE
  Failures = FALSE
INVARIANTS AuditAfterIsCommitted AuditedOnce RulesFromOnePut
PROPERTY EveryRequestAnswered
