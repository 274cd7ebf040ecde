SPECIFICATION BridgeSpec
CONSTANTS
  MaxCommandWords = 3
  PayloadLimit = 1
  Shapes <- MCShapes
  MaxFrames = 2
  FifoKeepsUp = FALSE
INVARIANTS PublishedWhole
