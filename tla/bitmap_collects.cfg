\* One thread flips bits while the other counts, copies or verifies.
CONSTANTS
  t1 = t1
  Thread = {t1, t2}
  B = 2
  NWords = 2
  Batch = 2
  CountMod = 16
  MaxDrift = 1
  OpsOf <- OneCollects
  Ranges <- AllRanges
SPECIFICATION Spec
INVARIANT CollectSound
PROPERTY VerifyRepairs
