CONSTANTS
  Windows <- AlignedWindows
  NoReq = NoReq
  AggregationTimes = {0, 1, 2}
  CombinationTimes = {3}
  WaitingSize = 64
  DeadLockGap = 3
SPECIFICATION FairSpec
PROPERTIES
  RunHalts
  WriteBackHappens
