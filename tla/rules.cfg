SPECIFICATION Spec
CONSTANTS
  r1 = r1
  r2 = r2
  s1 = s1
  s2 = s2
  Sensors = {s1, s2}
  Order <- MCOrder
  SensorOf <- MCSensorOf
  Arguments <- MCArguments
  Temperatures = {0, 2, 3}
  NONE = NONE
  NO_BOUND <- MCNoBound
  DAY = 3
INVARIANTS TypeOK
PROPERTIES PublishedFollowsReading LocksFollowSimpleArguments BoundsSwitchOnTime
