CONSTANTS
  CodeCount = 4
  CodeSpace = 3
  Categories <- MCCategories
  Colon = 1
  NoValue = NoValue
  MaxNameLen = 2
  Newline = 4
SPECIFICATION Spec
INVARIANT NamesMatchReasons
