SPECIFICATION Spec
CONSTANTS
  Messages = {m1, m2}
  NULL = NULL
  FIRST = FIRST
  NONE = NONE
  MAX_DEVICES = 2
  MAX_TICKS = 1
  SignalAnywhere = FALSE
INVARIANTS TypeOK MemoryIsOwned
PROPERTIES ImplementsChannel QueuedIsReceived StopEndsMainLoop
CHECK_DEADLOCK FALSE
