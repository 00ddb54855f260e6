SPECIFICATION FairSpec
CONSTANTS
  Main = main
  Workers = {w1}
  NoThread = none
  MaxJobs = 2
  NumPrios = 2
  MaxStack = 8
  SubCounts = {1}
  UserPrios = {0}
  WaitKinds <- BlockSucc
  MaxAdds = 2
  PoolMayFill = TRUE
  Groups = FALSE
PROPERTIES
  AddsReturn
