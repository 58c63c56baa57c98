\* Two threads run every update on two words of two bits.
CONSTANTS
  t1 = t1
  Thread = {t1, t2}
  B = 2
  NWords = 2
  Batch = 2
  CountMod = 16
  MaxDrift = 1
  OpsOf <- AllUpdate
  Ranges <- AllRanges
SPECIFICATION Spec
INVARIANTS TypeOK Accounting CountExactWhenQuiet
PROPERTY ImplementsTalliedSet
