\* Three threads insert and remove pairs, some of them past the capacities.
CONSTANTS
  t1 = t1
  t2 = t2
  t3 = t3
  Thread = {t1, t2, t3}
  NIds = 3
  NSubs = 3
  ShardOf <- TwoShards
  MaxId <- NoLimit
  MaxSub <- NoLimit
  InitialCap = 2
  SubLimit = 2
  B = 1
  OpsOf <- AllUpdate
  MaxTotal = 6
SPECIFICATION Spec
INVARIANTS TypeOK PrimaryMarksIds
PROPERTY ImplementsTalliedSet
