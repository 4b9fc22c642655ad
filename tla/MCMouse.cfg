SPECIFICATION FairSpec
CONSTANTS
  MAX_POS = 7
  X0 = 4
  Y0 = 2
  Flags <- MCFlags
  Deltas <- Calm
  CFG = 101
  MAX_FAULTS = 2
  NONE = NONE
INVARIANTS
  TypeOK
  ConfigKept
  StaysAligned
PROPERTIES
  PacketsApplied
  Resynchronises
