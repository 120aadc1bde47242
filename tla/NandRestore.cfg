SPECIFICATION Spec
CONSTANTS
  NandSectors = 8
  SecretSector = 2
  MaxPartitions = 3
  BufSectors = 3
  WordSize = 16
  PartTables <- MCPartTables
  Oversized <- MCOversized
  ForeignImages = FALSE
  HeaderReadFails = FALSE
  Kept = Kept
INVARIANTS RestoreInv OkIsComplete
PROPERTIES ProtectedKept FirmKept ImplementsImage RestoreEnds
