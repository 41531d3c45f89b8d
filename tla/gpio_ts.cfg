SPECIFICATION Spec
CONSTANTS
  POOL_SIZE = 9
  MAX_CHAINS = 2
  MAX_SEQUENCE_LENGTH = 4
  N_ITEMS = 4
  MinSequenceLengths = {1, 3, 4}
INVARIANTS TypeOK NothingLost AllFreeWhenTaken
CHECK_DEADLOCK FALSE
