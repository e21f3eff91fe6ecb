\* A get or scan beside puts of the same key and a reorganize(): every call returns.
CONSTANTS
  w1 = w1
  w2 = w2
  r1 = r1
  inlineA = inlineA
  offsetB = offsetB
  Nil = Nil
  Writers = {w1}
  Readers = {r1}
  Keys <- OneKey
  Payloads <- LivePayloads
  HashOf <- HashOfDef
  Operations <- GetAndScan
  AppendCap = 2
  MaxPuts = 2
  MaxGen = 1
SPECIFICATION FairSpec
CHECK_DEADLOCK FALSE
INVARIANTS NoUseAfterFree NoDuplicateSlot RegularRead
PROPERTY CallsEnd
