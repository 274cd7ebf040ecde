SPECIFICATION Spec
CONSTANTS
  VoiceCount = 2
  ChannelCount = 1
  Notes = {"chord", "bass"}
  Layers <- MCLayers
  Slice = 1
  BendFeeds = {"pitch", "filter"}
  Elapsed = {5}
  Limits = {1, 4}
  MaxNotes = 2
  MaxControls = 2
INVARIANTS SlotsAccounted NoHungNote ControllersReachVoices AdvancedOnce
CHECK_DEADLOCK FALSE
