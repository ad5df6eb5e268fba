SPECIFICATION Spec
CONSTANTS
  f1 = f1
  r1 = r1
  r2 = r2
  r3 = r3
  va = va
  vb = vb
  u1 = u1
  admin = admin
  server = server
  stranger = stranger
  hit = hit
  miss = miss
  None = None
  Flags = {f1}
  Existing = {}
  Reqs = {r1, r2, r3}
  EnvSeq <- MCEnvSeq
  Columns <- MCColumns
  Values <- MCValues
  DefaultCols <- MCDefaults
  ChildKeys <- MCKeys
  ChildVals <- MCVals
  Bodies <- MCBodies
  Workload <- MCWorkload
  Keys = {admin, server}
  KeyKind <- MCKind
  KeyEnv <- MCKeyEnv
  Outcomes = {hit, miss}
  Adapters = {"sqlite", "memory"}
  Batches <- MCBatches
  Creds <- MCCreds
  Throttle = 1
  HourTicks = 2
  MaxClock = 2
INVARIANTS TotalsAreWhatWasWritten LastUsedFollows
PROPERTIES ContractUnlessOverlapped TransactionsEnd
CHECK_DEADLOCK FALSE
