CONSTANTS
  b1 = b1
  b2 = b2
  b3 = b3
  b4 = b4
  v1 = v1
  v2 = v2
  Torn = Torn
  Blocks <- MCBlocks
  Values <- MCValues
  CacheBlocks = 3
SPECIFICATION Spec
SYMMETRY Symmetric
INVARIANTS TypeOK ReadsLastWrite OneSlotPerBlock CleanIsStored
PROPERTIES RecentStay
