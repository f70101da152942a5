CONSTANTS
  Names = {x}
  Values = {v}
  NoValue = NoValue
  Defs = {"atHome", "noHome"}
  Enclosing <- NoEnclosing
  RECURSION_LIMIT = 2
  MAX_KEPT_SLOTS = 1
  LocNames <- CallsLocNames
  BASE_LOCALE = "base"
  Z_LOCALE = "z"
  Numeral <- CallsNumeral
  Bare = "bare"
  Spellings <- CallsSpellings
  Home <- CallsHome
  Paths = {}
  NoLocale = NoLocale
SPECIFICATION Spec
PROPERTIES
  ImplementsFrames
  LocalePutBack
