SPECIFICATION SessionSpec
CONSTANTS
  Depth = 2
  BatchItems = 1
  SequenceMod = 4
  MaxEvents = 3
  MaxSessions = 4
  AttemptLimit = 2
  PollLimit = 2
  MaxRestarts = 2
INVARIANTS ConsumesOwnLog
PROPERTIES ImplementsChannel
CHECK_DEADLOCK FALSE
