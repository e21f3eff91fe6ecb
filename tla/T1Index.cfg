\* Two writers of two keys, deletes included, two reorganize() calls.
CONSTANTS
  w1 = w1
  w2 = w2
  r1 = r1
  inlineA = inlineA
  offsetB = offsetB
  Nil = Nil
  Writers = {w1, w2}
  Readers = {}
  Keys <- TwoKeys
  Payloads <- OneAndDeleted
  HashOf <- HashOfDef
  Operations <- GetAndScan
  AppendCap = 1
  MaxPuts = 3
  MaxGen = 2
SPECIFICATION Spec
SYMMETRY Symmetry
CHECK_DEADLOCK FALSE
INVARIANTS NoUseAfterFree LastPutWins
