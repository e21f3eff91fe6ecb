\* A writer, whose append regions never fill, and a reader.
SPECIFICATION FairSpec
CONSTANTS
  c = c
  u1 = u1
  w1 = w1
  r1 = r1
  Keys <- TwoKeys
  Prefix <- Distinct
  Writers = {w1}
  Readers = {r1}
  Workers = {u1}
  Checkpointer = {c}
  AppendCap = 2
  TargetShardSize = 1
  SplitPercent = 200
  LoadedEntries <- OneShard
  LoadedBoundaries <- NoBoundaries
  CallKeys <- ReadFirst
  MaxPuts = 2
  MaxSlots = 3
INVARIANTS ReadFresh
PROPERTIES PutsEnd SplitsEnd
CHECK_DEADLOCK FALSE
