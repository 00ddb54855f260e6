SPECIFICATION Spec
CONSTANTS
  MaxJobs = 4
  MaxHandle = 7
  MaxSub = 2
INVARIANTS
  TypeOK
  PendingExact
  ParentOlder
  NotDoneOwnsSlot
PROPERTIES
  DoneStable
  RunningKeepsHandle
CHECK_DEADLOCK FALSE
