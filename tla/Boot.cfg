CONSTANTS
  N_BOOTSLOTS = 2
  Firms = {"plain", "init"}
  ScreenInit = {"init"}
  Combos = {"none", "combo"}
  MaxChanges = 2
SPECIFICATION Spec
INVARIANTS BootInv SlotMatches RebootReturns HomeShowsMenu
PROPERTIES AutobootLaunches
CHECK_DEADLOCK FALSE
