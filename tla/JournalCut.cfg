CONSTANTS
  NFs = 2
  LogLens = {4, 5}
  DescCap = 4
  MaxWS = 8
  Counts = {0, 1}
  MaxSeq = 3
  MaxCuts = 2
  ErrorPhases = {}
  CutsRecovery = TRUE
  CacheBlocks = 12
  v1 = v1
  v2 = v2
  Values <- MCValues
  Blocks <- MCBlocks
SPECIFICATION Spec
SYMMETRY Symmetric
PROPERTY CommitIsAtomic
