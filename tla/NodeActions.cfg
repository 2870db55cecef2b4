CONSTANTS
  NoValue = NoValue

SPECIFICATION Spec

INVARIANTS TypeOK SoftFallback

PROPERTY OperationsReturn
