CONSTANTS
  r1 = r1
  r2 = r2
  Requests <- MCRequests
  MaxPolls = 2
  NoValue = NoValue

SPECIFICATION Spec

INVARIANT TypeOK

PROPERTY ConsoleContract
