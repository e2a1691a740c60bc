CONSTANTS
  NBlocks = 5
  SPB = 2
  UpdateRate = 2
  MaxMoves = 6
  MaxAccess = 3
  FaultPhases = {"data", "move"}
  v = v
  Erased = Erased
  Torn = Torn
  Blank = Blank
  Values <- MCValues
  Clears <- MCClears
SPECIFICATION Spec
INVARIANTS TypeOK AlwaysMountable MoveErasesOnce MemoryMatchesMedium
PROPERTIES DurableAdvances ImplementsDisk
