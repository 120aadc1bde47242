CONSTANTS
  Images <- MCImages
  Installed <- MCInstalled
  VERS <- MCVERS
  MaxSize = 10
  BlkSize = 4
  MaxJobs = 3
SPECIFICATION Spec
INVARIANTS FirmInv
PROPERTIES Isolated NeverOlder NoBootloop
CHECK_DEADLOCK FALSE
