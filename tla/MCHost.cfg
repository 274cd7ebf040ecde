SPECIFICATION MCSpec
CONSTANTS
  HostVoiceCount = 2
  KindList <- MCKindList
  LifecycleCapacity = 3
  TransactionWords = 3
  StartWords = 2
  MidiCapacity = 2
  LifecycleReserve = 1
  ErrorLimit = 1
  MaxMidiEvents = 3
  ModelVoiceCount = 2
  KeyList <- MCKeyList
  Layers <- MCLayers
  PresetOf <- MCPresetOf
  Feeds <- MCFeeds
  BankSlots = 2
  BankEntries = 2
  MaxNotes = 2
  MaxChanges = 1
  CompiledVoiceCount = 3
  CompiledNotes = {"hat", "drum"}
  ZoneClasses <- MCZoneClasses
  MaxCompiledNotes = 3
  DataMod = 4
  CentsMax = 2
  MaxControls = 4
  MaxMessages = 4
  MaxRealtime = 1
  MaxDelta = 1
  TempoValues = {3}
  Programs = {2}
  TrackCount = 2
  MaxFileEvents = 4
  SampleUnits = 2
  WindowStart = 1
  SampleCount = 2
  LayerCount <- MCLayerCount
INVARIANTS HostAgrees SilentAtExit RegionsStayPut MirrorFollows ExclusiveIndexExact PoliciesAgree DecodesWhatWasSent FileIsPlayed
PROPERTIES HostExits
CHECK_DEADLOCK FALSE
