CONSTANTS
  Threads = {t1, t2, t3}
  Texts = {empty, a, b, c}
  EmptyText = empty
  ID_SPACE = 3
  NoText = NoText
  NoId = NoId
  Panicked = Panicked
SPECIFICATION Spec
INVARIANTS
  Inverse
  PanicsOnlyWhenFull
PROPERTIES
  ImplementsInterning
SYMMETRY MCSymmetry
