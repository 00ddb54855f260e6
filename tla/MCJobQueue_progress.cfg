SPECIFICATION FairSpec
CONSTANTS
  Main = main
  Workers = {w1, w2}
  NoThread = none
  MaxJobs = 3
  NumPrios = 2
  MaxStack = 8
  SubCounts = {1}
  UserPrios = {0}
  WaitKinds <- MixedWaits
  MaxAdds = 2
  PoolMayFill = FALSE
  Groups = TRUE
PROPERTIES
  JobsDone
  WaitsReturn
  StopCompletes
