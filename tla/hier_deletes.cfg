\* One thread inserts and removes while two others delete.
CONSTANTS
  t1 = t1
  t2 = t2
  t3 = t3
  Thread = {t1, t2, t3}
  NIds = 2
  NSubs = 2
  ShardOf <- TwoShards
  MaxId = 2
  MaxSub = 2
  InitialCap = 1
  SubLimit = 2
  B = 1
  OpsOf <- OthersDelete
  MaxTotal = 4
SPECIFICATION Spec
INVARIANTS NoIdUnmarked DeleteMissesNothing
PROPERTY SubBitmapsAreTalliedSets
