SPECIFICATION Spec
CONSTANTS
  Main = main
  Workers = {w1, w2}
  NoThread = none
  MaxJobs = 3
  NumPrios = 2
  MaxStack = 8
  SubCounts = {3}
  UserPrios = {0}
  WaitKinds <- Children
  MaxAdds = 3
  PoolMayFill = FALSE
  Groups = FALSE
SYMMETRY Symmetry
INVARIANTS
  QueueExact
  EnoughAwake
  StopFindsNothing
