CONSTANTS
  Windows <- LaggingWindows
  NoReq = NoReq
  AggregationTimes = {0, 1, 4}
  CombinationTimes = {3, 6}
  WaitingSize = 64
  DeadLockGap = 3
SPECIFICATION Spec
INVARIANTS
  TypeOK
  InductiveInvariant
  OnlyTwoAssertionsFail
  AnswersFindTheirSlot
  EdgesAtMostOneColumnBehind
  AtMostFiveRequests
  NeverStuck
  RunEndsComplete
PROPERTIES
  ImplementsColumnPipeline
  UsesMemoryPort
