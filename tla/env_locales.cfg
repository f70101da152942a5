CONSTANTS
  Names = {x}
  Values = {v}
  NoValue = NoValue
  Defs = {}
  Enclosing <- NoEnclosing
  RECURSION_LIMIT = 2
  MAX_KEPT_SLOTS = 1
  LocNames <- LocalesLocNames
  BASE_LOCALE = "base"
  Z_LOCALE = "z"
  Numeral <- LocalesNumeral
  Bare = "bare"
  Spellings <- LocalesSpellings
  Home <- CallsHome
  Paths <- LocalesPaths
  NoLocale = NoLocale
SPECIFICATION Spec
PROPERTIES
  HandedOutOnce
  NamedLocalesSurvive
