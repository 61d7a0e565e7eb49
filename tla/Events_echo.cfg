\* A listener that emits when it hears done, and a Remount.
SPECIFICATION Spec
CONSTANTS
  e1 = e1
  kernel = kernel
  ui = ui
  activity = activity
  Emitters = {e1}
  Mounter = kernel
  RowIds = {ui, activity}
  Echo = {activity}
  MaxEmits = 1
  MaxCalls = 1
  MaxRuns = 0
  NoRow = NoRow
  Nobody = Nobody
PROPERTIES EmitsReturn
CHECK_DEADLOCK FALSE
