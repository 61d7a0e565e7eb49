\* One line, one call and an Esc.
SPECIFICATION SceneSpec
CONSTANTS
  l1 = l1
  l2 = l2
  c1 = c1
  c2 = c2
  Line <- OneLine
  Call <- OneCall
  Steers = {}
  News = {}
  Nudges = {}
  Asks = {}
  Blocked = {}
  MaxFails = 0
  MaxCancels = 1
  MaxDeaths = 0
  MaxChanges = 0
  MaxSteps = 9
  Startups = {"mounting"}
  SteerInterrupts = FALSE
  Wake = Wake
  NoTurn = NoTurn
CHECK_DEADLOCK FALSE
PROPERTIES NothingAfterEsc
