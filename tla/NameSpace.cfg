CONSTANTS
  n1 = n1
  n2 = n2
  Names <- MCNames
  NInodes = 5
  NBlocks = 4
  EPB = 3
  MaxDirBlocks = 2
  MaxLinks = 65535
  MaxSteps = 5
SYMMETRY NameSymmetry
SPECIFICATION Spec
INVARIANTS TypeOK LinksAgree TreeShaped NothingStray
PROPERTIES ImplementsNameTree
