SPECIFICATION Spec
CONSTANTS
  POOL_SIZE = 8
  MAX_CHAINS = 3
  MAX_SEQUENCE_LENGTH = 3
  IGNORABLE_SKIP = 2
  MAX_IGNORD_SKIPS = 1
  MAX_PERIOD = 7
  min_sequence_length = 2
  min_duration = 4
  max_duration = 6
  Durations = {5, 9}
  MissedInterrupts = FALSE
INVARIANTS TypeOK RegionsInOrder
PROPERTIES ImplementsChannel
