CONSTANTS
  CAP = 2
  PIPE = 2
  MOST = 4
SPECIFICATION Spec
INVARIANTS
  AnswerIsWhole
  NothingLeftBehind
PROPERTY Answered
CHECK_DEADLOCK FALSE
