SPECIFICATION Spec
CONSTANTS
  SensorGroups <- MCSensorGroups
  ReadingsOf <- MCReadingsOf
  Configurations <- MCConfigurations
  FlippedBits = {6, 27, 36}
  TICK = 30
  MAX_TIME = 60
  NOISE_END = 0
  LONG_BITS = 64
  NULL_SENSOR = NULL_SENSOR
INVARIANTS RepetitionIsUsed
CHECK_DEADLOCK FALSE
