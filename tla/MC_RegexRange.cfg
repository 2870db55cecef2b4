CONSTANTS
  CodeCount = 5
  CodeSpace = 5
  Categories <- MCCategories
  Colon = 1
  Newline = 4
  NoValue = NoValue
  MaxNameLen = 3
SPECIFICATION Spec
INVARIANTS TypeOK RangeCorrect NamesMatchReasonsBeforeNewline SchemasIsolated
