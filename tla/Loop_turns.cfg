SPECIFICATION Spec
CONSTANTS
  NoSession = NoSession
  Sessions = {A, B}
  NJobs = 1
  MaxSteps = 1
  StopRetries = 1
  Bounds <- MCBounds
INVARIANTS OneTurn TypedLands FinishToldOnce CancelHits
PROPERTY TypedAndNewsArrive
CHECK_DEADLOCK FALSE
