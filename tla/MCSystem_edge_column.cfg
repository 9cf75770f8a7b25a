CONSTANTS
  Windows <- LaggingWindows
  NoReq = NoReq
  AggregationTimes = {1, 2}
  CombinationTimes = {3}
  WaitingSize = 64
  DeadLockGap = 2
SPECIFICATION Spec
INVARIANTS
  EdgesOfTheAggregatedColumn
