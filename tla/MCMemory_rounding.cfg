SPECIFICATION Spec
CONSTANTS
  Demands <- OddRanges
  WaitingSize = 64
INVARIANTS
  TransfersItsRange
