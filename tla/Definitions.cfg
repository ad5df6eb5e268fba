SPECIFICATION Spec
CONSTANTS
  Undefined = Undefined
  None = None
  Bucket <- MCBucket
  Within <- MCWithin
  FlagOrder <- MCFlagOrder
  UnitOrder <- MCUnitOrder
  Env = "production"
  Salt <- MCSalt
  Patches <- MCPatches
  RuleBodies <- MCRuleBodies
  OverrideBodies <- MCOverrideBodies
  Contexts <- MCContexts
  Rollouts <- MCRollouts
  Bootstraps <- MCBootstraps
  Existing = {"dark"}
  MaxWrites = 3
  MaxLost = 1
INVARIANTS NotModifiedExactlyWhenEqual NewConfigNeverWithOldRules
PROPERTIES RaisingRolloutKeepsUnits PreviewForetellsWrites EventuallyCurrent
