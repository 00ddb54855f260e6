SPECIFICATION FairSpec
CONSTANTS
  Tasks = {t1, t2, t3}
  ExitTask = exitTask
  NoTask = noTask
  NumPrios = 2
  PriorityNormal = 1
  Main = main
  Adders = {a1}
  MayExit = TRUE
INVARIANTS
  TypeOK
  SleepIsNoticed
  FifoPerPriority
  FinalizedInOrder
  NothingDropped
PROPERTIES
  ShutdownReturns
  TasksFinalized
