SPECIFICATION MCSpec
CONSTANTS
  Depth = 4
  BatchItems = 2
  SequenceMod = 8
  MaxEvents = 10
  MaxSessions = 1
  FrameWords = 3
  QueueCapacity = 2
  CommandWords = {1, 3}
  MaxCommands = 4
  MaxErrors = 1
  MaxResets = 2
  Ring = 3
  FrameMod = 12
  Nominal = 2
  Target = 2
  Margin = 0
  Window = 2
  Stopped = 1
  MaxFpgaResets = 1
  Capacity = 2
  CountMod = 4
  Kinds = {"realtime", "head", "body", "tail"}
  MaxPackets = 3
  MaxPanics = 1
  MaxOutages = 1
INVARIANTS TypeOK WindowIntact StreamFaithful NothingLost ResyncCoversReset EveryPacketAccounted AtMostOneCrossesPanic
PROPERTIES EverythingSent PacketFits PlaysWhenSteady IngressDrains
CHECK_DEADLOCK FALSE
