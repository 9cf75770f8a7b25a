SPECIFICATION FairSpec
CONSTANTS
  Demands <- SharedLines
  WaitingSize = 64
INVARIANTS
  TypeOK
  EachAwaitedLineUnderWayOnce
  MapsAgree
  MemoryIndInv
  DoneWhenTransferred
PROPERTIES
  ImplementsMemoryPort
  EveryRequestIsDone
