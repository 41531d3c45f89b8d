SPECIFICATION Spec
CONSTANTS
  s1 = s1
  s2 = s2
  s3 = s3
  Sensors = {s1, s2, s3}
  NULL = NULL
  Definition <- MCDefinition
  Values = {v1, v2}
  Capacities = {2, 3}
  HISTORY_DEPTH = 1
  MIN_GAP = 1
  max_unchanged_gap = 2
  MAX_TIME = 3
  MAX_RECORDS = 3
INVARIANTS TypeOK SortedByDefinition HistoryIsCurrent HistoryIsLinked LatestIsCopied CountIsEnough
CHECK_DEADLOCK FALSE
