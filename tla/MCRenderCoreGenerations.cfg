SPECIFICATION FairCoreSpec
CONSTANTS
  NumVoices = 1
  FrameCount = 1
  EngineSlots = 1
  FifoDepth = 1
  MaxGeneration = 2
  MaxBlocks = 1
  Events = {"STOP", "RELEASE", "AUDIO", "INVALID"}
INVARIANTS GenerationsAccounted
PROPERTIES ImplementsPipeline CommandsAndBlocksEnd
