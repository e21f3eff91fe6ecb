\* Two writers and two rotations, with failing I/O, truncation and open, and a crash
\* anywhere.
CONSTANTS
  w1 = w1
  w2 = w2
  Writers = {w1, w2}
  Rotator = rot
  RingCap = 2
  MaxLsn = 3
  MaxGen = 3
  MaxCrashes = 1
  Faults <- AllFaults
SPECIFICATION FairSpec
CHECK_DEADLOCK FALSE
INVARIANTS OneLeader RingMatches LogOrdered AckedRecoverable
PROPERTIES PromiseKept AppendsEnd
