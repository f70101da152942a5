CONSTANTS
  RECURSION_LIMIT = 1
  BRANCH_LIMIT = 2
  LENGTH = 1
  ITEMS = 1
  HEIGHT = 4
  EmptyResult = "none"
  Forms <- ProgramForms
SPECIFICATION FairSpec
PROPERTIES
  BreakStopsAtItsLoop
  Ends
