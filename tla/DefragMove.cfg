\* A crash while a record is being moved and a checkpoint runs.
CONSTANTS
  k1 = k1
  k2 = k2
  w1 = w1
  Nil = Nil
  Defrag = defrag
  Keys = {k1, k2}
  Writers = {w1}
  Lens = {1, 2}
  Loaded <- Straddling
  SegSize = 2
  NumSegs = 4
  Budget = 10
  MaxPuts = 1
  MaxGen = 3
  MaxCycles = 3
SPECIFICATION Spec
CHECK_DEADLOCK FALSE
INVARIANT MoveKeepsValue
