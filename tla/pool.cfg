CONSTANTS
  h1 = h1
  w1 = w1
  w2 = w2
  Hosts = {h1}
  Workers = {w1, w2}
  Programs <- MCPrograms
  MAX_NESTING = 6
  CELLS = 2
  STEPS = 2
SPECIFICATION Spec
INVARIANTS
  LimitAsDeep
  SameAsSequential
PROPERTY Answers
CHECK_DEADLOCK FALSE
