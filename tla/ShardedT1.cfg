\* A writer of a shard that two workers merge and split and a checkpoint dumps.
SPECIFICATION Spec
CONSTANTS
  c = c
  u1 = u1
  u2 = u2
  w1 = w1
  Keys <- TwoKeys
  Prefix <- Distinct
  Writers = {w1}
  Readers = {}
  Workers = {u1,u2}
  Checkpointer = {c}
  AppendCap = 1
  TargetShardSize = 1
  SplitPercent = 200
  LoadedEntries <- OneShard
  LoadedBoundaries <- NoBoundaries
  CallKeys <- GreatestKey
  MaxPuts = 2
  MaxSlots = 3
SYMMETRY WorkerSymmetry
INVARIANTS NoUseAfterFree LastPutWins RangeOwned NoLostMaintenance
CHECK_DEADLOCK FALSE
