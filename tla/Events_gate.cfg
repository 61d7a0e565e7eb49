\* A turn's goroutine that emits and subscribes, a remounting one, the exit; no
\* listener emits.
SPECIFICATION Spec
CONSTANTS
  e1 = e1
  kernel = kernel
  ui = ui
  activity = activity
  Emitters = {e1}
  Mounter = kernel
  RowIds = {ui, activity}
  Echo = {}
  MaxEmits = 2
  MaxCalls = 1
  MaxRuns = 1
  NoRow = NoRow
  Nobody = Nobody
INVARIANTS TypeOK ListenersOfRows
PROPERTIES RemountDropsNothing NobodyStuck
CHECK_DEADLOCK FALSE
