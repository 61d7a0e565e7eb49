\* Coordinators die and are rebuilt while operations run and are cancelled.
SPECIFICATION Spec
CONSTANTS
  o1 = o1
  o2 = o2
  Op = {o1, o2}
  Last = 2
  None = None
  MaxDeaths = 1
  Stoppable = {o1}
INVARIANTS NothingLost CancelReaches
PROPERTIES Delivered
CHECK_DEADLOCK FALSE
