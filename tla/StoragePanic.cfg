SPECIFICATION StorageSpec
CONSTANTS
  Cards = {c1, c2}
  FatCards = {c1, c2}
  NoCard = NoCard
  Chip = Chip
  Unread = Unread
  MaxPartitions = 2
  NandOutcomes = {"ok", "noNand", "noHeader"}
  PullDuringMount = TRUE
  LastDrive = 3
INVARIANTS NoPanic
