CONSTANTS
  RECURSION_LIMIT = 2
  BRANCH_LIMIT = 1
  LENGTH = 1
  ITEMS = 0
  HEIGHT = 6
  EmptyResult = "loud"
  Forms <- ThrowForms
SPECIFICATION Spec
INVARIANT DepthBalanced
PROPERTIES
  ThrowStopsWhereItShould
  GapsGetThrough
