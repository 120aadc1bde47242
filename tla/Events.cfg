CONSTANTS
  MaxMoves = 2
  Earlier = {"lcdOn", "lightsOff"}
SPECIFICATION Spec
INVARIANTS EventsInv KeysHonest
PROPERTIES LoopEnds
CHECK_DEADLOCK FALSE
