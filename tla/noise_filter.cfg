SPECIFICATION Spec
CONSTANTS
  POOL_SIZE = 6
  MAX_CHAINS = 3
  MAX_SEQUENCE_LENGTH = 4
  IGNORABLE_SKIP = 2
  MAX_IGNORD_SKIPS = 2
  MAX_PERIOD = 7
  min_sequence_length = 2
  min_duration = 4
  max_duration = 6
  Durations = {1, 3, 5, 40000}
  MissedInterrupts = FALSE
INVARIANTS NoOverflow IntervalsWithinLimits LevelsAlternate
