SPECIFICATION BrowserSpec
CONSTANTS
  MaxFiles = 3
  MaxDirs = 2
  MaxHeld = 2
  Nested = FALSE
  Paths = {"sdmc", "nand", "firm1", "dir", "a", "b", "c", "d", "e", "f", "n", "old"}
  Root = "root"
  Parent <- MCParent
  Drive <- MCDrive
  Folders = {"sdmc", "nand", "dir"}
  Fitting = {"firm1", "a", "b", "c", "e", "f", "n"}
  Place <- MCPlace
  Sdmc = "sdmc"
  Cards = {"one", "two"}
  Contents <- MCContents
  System = {"nand", "n"}
  Firm1 = "firm1"
  Menus <- MCMenus
  MENU_MAX_DEPTH = 2
  MAX_DIR_ENTRIES = 3
  N_DIR_READ = 2
  BRWS_MAX_ENTRIES = 2
  Requests <- MCRequests
  MaxCards = 2
CHECK_DEADLOCK FALSE
INVARIANTS HandlesInv BrowserInv
PROPERTY CancelEnds
