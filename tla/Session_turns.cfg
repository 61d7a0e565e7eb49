\* Three scenes: lines, calls, a notice and the stop hook; an Esc and a steer;
\* coordinators that fail or are restarted.
SPECIFICATION SceneSpec
CONSTANTS
  l1 = l1
  l2 = l2
  c1 = c1
  c2 = c2
  Line <- TwoLines
  Call <- TwoCalls
  Steers = {s1}
  News = {n1}
  Nudges = {g1}
  Asks = {c2}
  Blocked = {}
  MaxFails = 1
  MaxCancels = 1
  MaxDeaths = 1
  MaxChanges = 1
  MaxSteps = 2
  Startups = {"mounting", "watched"}
  SteerInterrupts = FALSE
  Wake = Wake
  NoTurn = NoTurn
CHECK_DEADLOCK FALSE
INVARIANTS TypeOK NothingHidden InputsLand
PROPERTIES QuietDone LinesServed EscParks WaitsEnd
