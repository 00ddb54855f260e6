SPECIFICATION Spec
CONSTANTS
  N = 48
  Base = 0
  Sizes = {4, 12, 24}
  Aligns = {4}
  MaxBacking = 1
INVARIANTS
  BlocksApart
