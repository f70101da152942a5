SPECIFICATION Spec
CONSTANTS
  left = left  right = right  lent = lent
  Names <- MCNames
  Elements = {0, 1}
  Blocks = {lent}
  Allocs <- MCAllocs
  Joins <- MCJoins
  LEN = 2
  STEPS = 5
  Vectors <- MCVectors
  None = None
PROPERTIES ImplementsPrivate JoinMadeOnce
CHECK_DEADLOCK FALSE
