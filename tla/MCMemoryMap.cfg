SPECIFICATION MapSpec
CONSTANTS
  Frames = 4
  FrameSize = 4
  Base = 8
  Addresses = {0, 4, 8, 10, 12, 16, 20, 24, 26}
  AddrMax = 63
  NullEnd = 1
  Text <- MCText
  Data <- MCData
  User <- MCUser
  HeapStart = 32
  HeapEnd = 40
  SectionSize = 8
  Device = 6
  BlockSizes <- MCBlockSizes
  BlocksPerSize = 2
  MaxRegions = 8
  Cells = 5
  Chars = {0, 1, 2, 3}
  HighBit = 2
  CharSigned = TRUE
  MaxLength = 3
INVARIANTS HeldIsInUse BlocksApart ValidatorExact UtilsAreStandard
PROPERTIES AllocCleared
