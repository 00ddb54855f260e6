SPECIFICATION Spec
CONSTANTS
  MaxSub = 4
  MaxRange = 9
  NumThreads = 3
INVARIANTS
  TypeOK
  EachItemAtMostOnce
  QueueMissesNothing
  SerialMissesRemainder
  EvenSplit
  DeletedOnceIfEnoughItems
