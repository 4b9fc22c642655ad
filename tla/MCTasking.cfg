SPECIFICATION FairSpec
CONSTANTS
  Cell = {c1, c2, c3, c4}
  NULL = NULL
  Entries <- Either
  SCHEDULE_EVERY_N_TICKS = 3
  MAX_PIDS = 4
INVARIANTS
  TypeOK
  NoLiveTaskFreed
  OneCycle
  ExitNeverReturns
  EoiOwed
PROPERTIES
  NoSwitchInUser
  ServedUnlessHogged
CHECK_DEADLOCK FALSE
