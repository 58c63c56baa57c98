SPECIFICATION Spec
CONSTANTS
  B = 2
  Sizes = {8}
  Fills <- Two
  Machines <- AllMachines
  Counters <- Avx2Counters
  MaxStores = 1
INVARIANT
  PopcountExact
CHECK_DEADLOCK FALSE
