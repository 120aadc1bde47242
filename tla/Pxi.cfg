SPECIFICATION Spec
CONSTANTS
  Cmds = {"open", "launch"}
  Launch = "launch"
  Args <- MCArgs
  MaxParams = 3
  FifoWords = 2
  MaxCalls = 3
  Panics = TRUE
CHECK_DEADLOCK FALSE
INVARIANTS PxiInv LaunchOrder
PROPERTIES ImplementsRpc CallEnds PanicClosesFiles LaunchEndsOrSleeps
