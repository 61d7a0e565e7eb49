\* A native call and an approval in one reply.
SPECIFICATION Spec
CONSTANTS
  q1 = q1
  q2 = q2
  Calls = {q1, q2}
  Scenes <- Approval
  MaxMounts = 2
  NoCall = NoCall
PROPERTY ArmKept
CHECK_DEADLOCK FALSE
