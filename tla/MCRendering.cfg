SPECIFICATION MCSpec
CONSTANTS
  Voices = {v1}
  FrameCount = 2
  MaxBlocks = 4
  MaxCommandWords = 3
  PayloadLimit = 1
  Shapes <- MCShapes
  MaxFrames = 2
  FifoKeepsUp = TRUE
  Frac = 2
  Regions <- MCRegions
  Increments = {1, 3}
  Envelopes <- MCEnvelopes
  AttackFull = 3
  Silence = 3
  MaxStarts = 2
  Full = 6
  PhaseMod = 8
  Notes <- MCNotes
  MaxElapsed = 4
  MaxTicks = 6
  PresetChoices <- MCPresetChoices
  InstrumentChoices <- MCInstrumentChoices
  SampleChoices <- MCSampleChoices
  PoolWords = 8
  MaxKey = 2
  MaxVelocity = 1
  AmountMax = 4
  DefaultCutoff = 3
  CoarseWords = 2
  OperLimit = 61
  MaxPrograms = 7
  MaxLayers = 2
INVARIANTS BanksInOrder CommandBoundary EndsOnce ReadsInside FoldIsReplay FontIsPlayed
PROPERTIES BlockTimelineAdvances CommitDrains
CHECK_DEADLOCK FALSE
