SPECIFICATION CoreSpec
CONSTANTS
  NumVoices = 2
  FrameCount = 1
  EngineSlots = 2
  FifoDepth = 1
  MaxGeneration = 1
  MaxBlocks = 1
  Events = {"RELEASE_NOW", "UPDATE"}
INVARIANTS ScanUndisturbed
