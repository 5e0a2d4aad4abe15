CONSTANTS
  a = a
  b = b
  d = d
  x = x
  Name <- MCName
  NoName = NoName
  Units <- MCUnits

SPECIFICATION Spec

INVARIANT RegisterPairKept

CHECK_DEADLOCK FALSE
