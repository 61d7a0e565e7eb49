\* Two questions of one kind; a remount, a stop or a death, and answers.
SPECIFICATION Spec
CONSTANTS
  q1 = q1
  q2 = q2
  Calls = {q1, q2}
  Scenes <- Answers
  MaxMounts = 2
  NoCall = NoCall
INVARIANTS TypeOK AnswersHome
PROPERTIES ArmKept CallsReturn
CHECK_DEADLOCK FALSE
