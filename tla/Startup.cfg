SPECIFICATION FairSpec
CONSTANTS
  Instances = {i1, i2}
  k1 = k1
  k2 = k2
  bad = bad
  None = None
  AdminKeys = {k1}
  ServerKeys = {k2}
  Checksums = {"a", "b"}
  Versions = {1, 2, 3}
  EnvSeq <- MCEnvSeq
  Deployments <- MCDeployments
  MaxCrashes = 2
CHECK_DEADLOCK FALSE
INVARIANTS ReadyMeansMigrated ReadStaysTrue AppliedInOrder
PROPERTY LockNeverStuck
