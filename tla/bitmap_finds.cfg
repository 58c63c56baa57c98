\* One thread flips bits while the other scans three words for one.
CONSTANTS
  t1 = t1
  Thread = {t1, t2}
  B = 2
  NWords = 3
  Batch = 2
  CountMod = 16
  MaxDrift = 1
  OpsOf <- OneFinds
  Ranges <- SomeRanges
SPECIFICATION Spec
INVARIANT FindsSound
