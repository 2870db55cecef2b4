CONSTANTS
  CodeCount = 4
  CodeSpace = 4
  Categories <- MCCategories
  Colon = 1
  Newline = 3
  NoValue = NoValue
  MaxNameLen = 2
SPECIFICATION Spec
INVARIANT NamesMatchReasons
