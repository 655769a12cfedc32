SPECIFICATION Spec
CONSTANTS
  SizeMod = 16
  Word = 2
  RamStart = 2
  RamEnd = 12
  Lengths = {1, 15}
  Aligns = {0, 4}
  MaxPid = 1
  MaxMaps = 1
PROPERTY MapHonoursEveryRequest
