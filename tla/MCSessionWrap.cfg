SPECIFICATION FairSessionSpec
CONSTANTS
  Depth = 2
  BatchItems = 2
  SequenceMod = 4
  MaxEvents = 5
  MaxSessions = 2
  AttemptLimit = 2
  PollLimit = 1
  MaxRestarts = 1
PROPERTIES EventuallyConsumed
CHECK_DEADLOCK FALSE
