SPECIFICATION Spec
CONSTANTS
  option = option
  buttons = buttons
  mode = mode
  duration = duration
  a = a
  b = b
  bad = bad
  A = A
  B = B
  normal = normal
  remark = remark
  EOL = EOL
  Tokens <- MCTokens
  Null = Null
  NoFile = NoFile
  PathKeys = {option}
  PadKeys = {buttons}
  WordKeys = {mode}
  IntKeys = {duration}
  PathParts = {a, b}
  Buttons <- MCButtons
  Words = {normal}
  Digits = {0, 5}
  Zero = 0
  MaxFileSize = 14
  ButtonsOf <- MCButtonsOf
  DataOf <- MCDataOf
  Texts <- MCTexts
  DefaultText <- MCDefault
  SectorSize = 6
  MaxEdits = 0
  MaxStarts = 2
PROPERTIES MovedIsFound
