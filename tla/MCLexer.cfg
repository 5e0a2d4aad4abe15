CONSTANTS
  Letter = {"a", "r"}
  Digit = {"1"}
  ReservedType <- MCReservedType
  DirectiveType <- MCDirectiveType
  Inputs <- MCInputs
  MaxLength = 4
  MaxLines = 3

SPECIFICATION FairSpec

INVARIANTS
  TypeOK
  TextAccounted
  ErrorsAtFaults
  
  ReportsShowLine

PROPERTIES
  Terminates

\* The lexer stops when it has reported.
CHECK_DEADLOCK FALSE
