SPECIFICATION FairSpec
CONSTANTS
  Cell = {c1, c2, c3}
  NULL = NULL
  Entries <- Loops
  SCHEDULE_EVERY_N_TICKS = 2
  MAX_PIDS = 3
PROPERTIES
  EveryReadyTaskRuns
CHECK_DEADLOCK FALSE
