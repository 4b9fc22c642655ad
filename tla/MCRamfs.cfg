SPECIFICATION CommandsSpec
CONSTANTS
  RAMFS_MAX_FILES = 2
  Name <- MCName
  TooLong <- MCTooLong
  Arg <- MCArg
  NOTHING = ""
  Content = {"", "x", "yy"}
  EMPTY = ""
  Len <- MCLen
  Buffer = {b1, b2, b3}
  NULL = NULL
INVARIANTS
  TypeOK
  BuffersOwned
  FilesReachable
PROPERTIES
  FileStoreSpec
