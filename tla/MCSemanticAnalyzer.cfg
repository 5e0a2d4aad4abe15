CONSTANTS
  A = A
  B = B
  MCNoName = MCNoName
  Name <- MCName
  NoName = MCNoName
  Parsed <- MCParsed

SPECIFICATION Spec

INVARIANTS
  TypeOK
  InsertsCounted
  AcceptedIsAnalyzed
  FaultsReported

\* The analyzer stops when it returns.
CHECK_DEADLOCK FALSE
