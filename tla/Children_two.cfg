SPECIFICATION Spec
CONSTANTS
  NKids = 2
  MaxRunning = 1
  Bounds <- MCBounds
INVARIANTS TypeOK TaskOnce StopsHold SlotsRight 
PROPERTY StartsInOrder
CHECK_DEADLOCK FALSE
