SPECIFICATION Spec
CONSTANTS
  Cards = {c1}
  FatCards = {c1}
  NoCard = NoCard
  Chip = Chip
  Unread = Unread
  MaxPartitions = 1
  NandOutcomes = {"ok", "noNand"}
  PullDuringMount = FALSE
  LastDrive = 2
  Chunks = 2
  StackSurvives = FALSE
INVARIANTS RawReleased
