CONSTANTS
  a = a
  b = b
  d = d
  x = x
  Name <- MCName
  NoName = NoName
  Units <- MCUnits

SPECIFICATION Spec

INVARIANTS
  TypeOK
  LabelsAtTheirCode
  ObjectContiguous
  HeaderMatches
  ObjectDescribesProgram
  ListingsComplete
  OnlyPlacedIsPublished

\* The generator stops when it has written its files.
CHECK_DEADLOCK FALSE
