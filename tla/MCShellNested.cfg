SPECIFICATION Spec
CONSTANTS
  CMD_BUFFER_SIZE = 3
  Char = {USERTEST, SPACE}
  USERTEST = USERTEST
  SPACE = SPACE
  ENTER = ENTER
  BACKSPACE = BACKSPACE
  NUL = NUL
  NONE = NONE
  Devices <- MCDevices
  Masks <- MCMasks
INVARIANTS
  ReturnPointKept
