SPECIFICATION Spec
CONSTANTS
  Main = main
  Workers = {w1}
  NoThread = none
  MaxJobs = 4
  NumPrios = 2
  MaxStack = 8
  SubCounts = {1}
  UserPrios = {0}
  WaitKinds <- BlockSucc
  MaxAdds = 4
  PoolMayFill = TRUE
  Groups = TRUE
INVARIANTS
  TypeOK
  DoneMeansEnded
  SlotPinned
  WorkAccounted
  FreeExact
  TreeExact
PROPERTIES
  PoolSpec
