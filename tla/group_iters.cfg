\* Writers, deleters and readers over a simple tracker a and a hierarchical one h.
CONSTANTS
  a = a
  h = h
  w1 = w1
  w2 = w2
  w3 = w3
  Tracker = {a, h}
  Hier = {h}
  MaxId = 2
  MaxSub = 2
  Capacity = 2
  B = 1
  Worker = {w1, w2, w3}
  Builds <- GroupBuilds
SPECIFICATION Spec
INVARIANTS TypeOK FlagsGivenBack HandedOverOnce SweepMissesNothing NoneMeansExhausted
PROPERTY ImplementsLockedPool
