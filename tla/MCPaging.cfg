SPECIFICATION Spec
CONSTANTS
  PAGE = 2
  ENTRIES = 4
  NUM_PAGE_TABLES = 1
  NUM_EXTRA_TABLES = 2
  Regions <- MCRegions
  ABSENT = ABSENT
INVARIANTS
  TypeOK
  Identity
PROPERTIES
  NothingUnmapped
  RegionMapped
CHECK_DEADLOCK FALSE
