SPECIFICATION Spec
CONSTANTS
  RING = 8192
  HEADROOM = 16
  PAD = 1500
  ALIGNMENT = 8
  GUARD = 2
  MAX_LENGTH = 1600
  Lengths <- Ethernet
  BadLengths = {}
  IN_RING = 1
  TX_DESCRIPTORS = 1
  COUNT_MOD = 1
INVARIANTS
  DmaInBuffer
