CONSTANTS
  NBlocks = 5
  SPB = 2
  UpdateRate = 2
  MaxMoves = 3
  MaxAccess = 3
  FaultPhases = {"config"}
  v = v
  Erased = Erased
  Torn = Torn
  Blank = Blank
  Values <- MCValues
  Clears <- MCClears
SPECIFICATION Spec
INVARIANT AlwaysMountable
