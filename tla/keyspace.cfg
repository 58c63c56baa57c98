\* Two callers and, in turn, each group of a keyspace's operations.
CONSTANTS
  c1 = c1
  c2 = c2
  p1 = p1
  p2 = p2
  p3 = p3
  Caller = {c1, c2}
  Prefix = {p1, p2, p3}
  W = 2
  NShards = 2
  ShardOf <- TwoShards
  Configs <- BothConfigs
  Setups <- AllSetups
  Probe = {0, 1, 3, 6}
  Ranges <- SomeRanges
  Patterns <- SomePatterns
  MaxTrackers = 4
SPECIFICATION Spec
INVARIANTS TypeOK ReferencesExact ChangesSeen BulkExact OneTrackerPerPrefix WalkSound
CHECK_DEADLOCK FALSE
