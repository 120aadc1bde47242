SPECIFICATION Spec
CONSTANTS
  Cards = {c1, c2}
  FatCards = {c1, c2}
  NoCard = NoCard
  Chip = Chip
  Unread = Unread
  MaxPartitions = 1
  NandOutcomes = {"ok"}
  PullDuringMount = FALSE
  LastDrive = 2
  Chunks = 2
  StackSurvives = FALSE
INVARIANTS ToolsInv LeavesNoTrace
PROPERTIES ImagesKept ToolsEnd
