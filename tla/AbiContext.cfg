SPECIFICATION Spec
CONSTANTS
  SizeMod = 8
  Word = 1
  RamStart = 1
  RamEnd = 6
  Lengths = {0, 1, 7}
  Aligns = {0, 2, 3}
  MaxPid = 2
  MaxMaps = 3
INVARIANTS TypeOK OwnedOnce PromisesBacked PromisesDisjoint
PROPERTIES MapHonoursRequest MemorySpec
