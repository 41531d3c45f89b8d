SPECIFICATION Spec
CONSTANTS
  NONE = NONE
  MAX_SIGNALS = 2
  StatisticsAnywhere = FALSE
INVARIANTS TypeOK UsedIsInitialized FlagFollowsLink
PROPERTIES StopEndsProgram
CHECK_DEADLOCK FALSE
