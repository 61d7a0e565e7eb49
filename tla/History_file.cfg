SPECIFICATION Spec
CONSTANTS
  a = a
  b = b
  Stores = {a, b}
  Serve = Serve
  Nobody = Nobody
  MaxLines = 1
  MaxNotices = 1
  MaxFaults = 1
  MaxOpens = 2
SYMMETRY Symmetry
INVARIANTS TypeOK SeqsRight Durable NoticesOnce
PROPERTY LinesKept
CHECK_DEADLOCK FALSE
