SPECIFICATION Spec
CONSTANTS
  Main = main
  Workers = {w1}
  NoThread = none
  MaxJobs = 3
  NumPrios = 2
  MaxStack = 8
  SubCounts = {1}
  UserPrios = {0}
  WaitKinds <- BlockSucc
  MaxAdds = 3
  PoolMayFill = FALSE
  Groups = FALSE
INVARIANTS
  NoLostWakeup
