SPECIFICATION Spec
CONSTANTS
  NSectors = 4
  Targets = {a, b}
  Lengths = {1, 2}
  ZERO_CHUNK = 2
  MaxSeq = 3
  EraseCrashes = TRUE
SYMMETRY TargetSymmetry
INVARIANTS
  RecoversCommitted
