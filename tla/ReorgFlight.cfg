\* Two callers, the worker, and writers.
CONSTANTS
  c1 = c1
  c2 = c2
  Worker = worker
  Callers = {c1, c2}
  Threshold = 2
  Stride = 2
  MaxSize = 2
  MaxCalls = 3
  MaxFails = 1
SPECIFICATION FairSpec
INVARIANTS OneCycle ReturnMeansDone
PROPERTIES CallsReturn PressureResolved
