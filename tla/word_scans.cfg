SPECIFICATION Spec
CONSTANTS
  B = 2
  Sizes = {0, 1, 3, 4, 5, 7, 8, 9, 11, 12, 13}
  Fills <- Two
  Machines <- AllMachines
  Counters <- OtherCounters
  MaxStores = 2
INVARIANTS
  FirstWordFound
  PopcountExact
CHECK_DEADLOCK FALSE
