SPECIFICATION FairSpec
CONSTANTS
  Cell = {c1, c2, c3}
  NULL = NULL
  Entries <- Returns
  SCHEDULE_EVERY_N_TICKS = 2
  MAX_PIDS = 3
INVARIANTS
  WalkOnTasks
CHECK_DEADLOCK FALSE
