SPECIFICATION StorageSpec
CONSTANTS
  Cards = {c1, c2, blank}
  FatCards = {c1, c2}
  NoCard = NoCard
  Chip = Chip
  Unread = Unread
  MaxPartitions = 2
  NandOutcomes = {"ok", "noNand", "noHeader"}
  PullDuringMount = TRUE
  LastDrive = 2
INVARIANTS StorageInv VolumeOfMedium
PROPERTIES ReleaseRestores
