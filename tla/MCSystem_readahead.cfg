CONSTANTS
  Windows <- LongWindows
  NoReq = NoReq
  AggregationTimes = {1}
  CombinationTimes = {3}
  WaitingSize = 64
  DeadLockGap = 3
SPECIFICATION Spec
INVARIANTS
  ReadAheadBounded
