SPECIFICATION Spec
CONSTANTS
  NSectors = 4
  Targets = {a, b}
  Lengths = {1, 2, 3}
  ZERO_CHUNK = 2
  MaxSeq = 4
  EraseCrashes = FALSE
SYMMETRY TargetSymmetry
INVARIANTS
  LogTypeOK
  RecoversCommitted
  OpenNeverRefuses
  ChainIsLive
