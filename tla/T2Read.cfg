\* A writer and a reader of one key beside endless checkpoint cycles.
SPECIFICATION FairSpecRead
CONSTANTS
  w1 = w1
  k1 = k1
  v1 = v1
  v2 = v2
  r1 = r1
  Nil = Nil
  Writers = {w1}
  Readers = {r1}
  Keys = {k1}
  Values = {v1, v2}
  Len <- LenDef
  Capacity = 2
  VersionMod = 8
  MaxVersion = 2
  MaxUsed = 2
INVARIANT GetAtomic
PROPERTY CycleEnds
