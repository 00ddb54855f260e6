SPECIFICATION Spec
CONSTANTS
  N = 56
  Base = 4
  Sizes = {1, 8, 12}
  Aligns = {4, 16}
  MaxBacking = 1
INVARIANTS
  TypeOK
  RingTiled
  EmptyExact
  UsedExact
PROPERTIES
  HeapSpec
