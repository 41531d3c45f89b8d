SPECIFICATION Spec
CONSTANTS
  Messages = {m1}
  NULL = NULL
  FIRST = FIRST
  NONE = NONE
  MAX_DEVICES = 2
  MAX_TICKS = 1
  SignalAnywhere = FALSE
PROPERTIES StopNotifiesMainLoop
CHECK_DEADLOCK FALSE
