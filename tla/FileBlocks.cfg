CONSTANTS
  NDirect = 1
  PPB = 2
  NBlocks = 10
  NFiles = 2
  Sizes <- MCSizes
  MaxFull = 1
SPECIFICATION Spec
INVARIANTS TypeOK OneOwner BitmapExact BlocksCounted
PROPERTIES ImplementsFileContents

