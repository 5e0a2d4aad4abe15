CONSTANTS
  SetName = {"SETA", "SETB", "SETC"}
  Sessions <- MCSessions
  ArraySize = 3
  LineSize = 12
  MaxPieces = 3
  MaxLines = 4

SPECIFICATION FairSpec

INVARIANTS
  TypeOK
  AcceptsLanguage
  ScanAheadOfNumbers

PROPERTIES
  ExecutedAsWritten
  Terminates

\* The program stops at "stop" and at the end of its input.
CHECK_DEADLOCK FALSE
