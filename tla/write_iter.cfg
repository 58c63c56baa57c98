\* Workers of one range: three that claim, three that take all, one that wraps.
CONSTANTS
  w1 = w1
  w2 = w2
  w3 = w3
  Worker = {w1, w2, w3}
  MaxId = 4
  B = 3
  Builds <- OneRangeBuilds
  Removable = {2}
  MaxRounds = 3
SPECIFICATION FairSpec
INVARIANTS TypeOK UniqueClaims NoneMeansExhausted AllHandedOnce EvenRounds
PROPERTY EveryIteratorEnds
CHECK_DEADLOCK FALSE
