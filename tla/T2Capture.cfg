\* Two writers of two keys beside endless checkpoint cycles.
SPECIFICATION Spec
CONSTANTS
  w1 = w1
  w2 = w2
  k1 = k1
  k2 = k2
  small = small
  large = large
  Nil = Nil
  Writers = {w1, w2}
  Keys = {k1, k2}
  Values = {small, large}
  Len <- LenDef
  Capacity = 3
  VersionMod = 2
  MaxVersion = 2
  MaxUsed = 3
SYMMETRY WriterSymmetry
INVARIANTS TypeOK CaptureQuiescent NoInPlaceBelowTarget BaseDurable LogFollowsStore NoDanglingOffset
PROPERTIES BaseImmutable BoundaryMonotone
