SPECIFICATION Spec
CONSTANTS
  f1 = f1
  r1 = r1
  r2 = r2
  r3 = r3
  va = va
  vb = vb
  u1 = u1
  u2 = u2
  None = None
  Flags = {f1}
  Existing = {}
  Reqs = {r1, r2, r3}
  EnvSeq <- MCEnvSeq
  Columns <- MCColumns
  Values <- MCValues
  DefaultCols <- MCDefaults
  ChildKeys <- MCKeys
  ChildVals <- MCVals
  Bodies <- MCBodies
  Workload <- LifeWorkload
  ExclusiveWriters = FALSE
  Failures = TRUE
INVARIANTS TypeOK WholeFlags
