CONSTANTS
  r1 = r1
  r2 = r2
  Iter = {r1, r2}
  MaxId = 4
  MaxSub = 4
  SubCapacity = 2
  Setups <- AllSetups
  Candidates <- Multipliers
  U = 32
  MaxCalls = 5
  MaxChanges = 1
SPECIFICATION FairSpec
INVARIANTS TypeOK ScansComplete RandomVisitsOnce LimitKept DeletesComplete WritersClaimOnce
PROPERTY NextReturns
CHECK_DEADLOCK FALSE
