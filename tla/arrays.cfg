SPECIFICATION Spec
CONSTANTS
  Largest = 31
  Lanes = 2
  LaneWork = 4
  ConvergeLimit = 4
PROPERTIES
  ElementsStay
  CellsComeBack
  StructureComesBack
  SearchesAndSortsAgree
  PassesAreElementwise
  FoldsAreRegrouped
  SelectionsComeBack
  VerbsMeanTheirCells
CHECK_DEADLOCK FALSE
