CONSTANTS
  Windows <- AlignedWindows
  NoReq = NoReq
  AggregationTimes = {4}
  CombinationTimes = {3}
  WaitingSize = 64
  DeadLockGap = 2
SPECIFICATION Spec
INVARIANTS
  ReportsOnlyDeadLocks
