SPECIFICATION FairSpec
CONSTANTS
  RING = 32
  HEADROOM = 4
  PAD = 2
  ALIGNMENT = 4
  GUARD = 2
  MAX_LENGTH = 12
  Lengths <- SmallFrames
  BadLengths <- Runt
  IN_RING = 3
  TX_DESCRIPTORS = 2
  COUNT_MOD = 2
INVARIANTS
  TypeOK
  InStep
  NoLostWakeup
  DmaInBlock
  TransmitInStep
PROPERTIES
  EveryFrameTaken
