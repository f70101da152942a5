SPECIFICATION Spec
CONSTANTS
  Largest = 31
  Lanes = 2
  LaneWork = 4
  ConvergeLimit = 4
PROPERTIES
  AplIsGrammar
  NameStandsForItsDefinition
  ParseIsGrammar
  RepresentationComesBack
  NamesAsRun
  TacitMeansItsBody
  BodiesKeepTheirWords
