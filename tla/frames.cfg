CONSTANTS
  Names = {x, y}
  Values = {v, w}
  NoValue = NoValue
  Defs = {"outer", "inner"}
  Enclosing <- MCEnclosing
  RECURSION_LIMIT = 3
  MAX_KEPT_SLOTS = 1
SPECIFICATION Spec
INVARIANTS
  DormantFramesEmpty
PROPERTY ImplementsCallStack
SYMMETRY MCSymmetry
