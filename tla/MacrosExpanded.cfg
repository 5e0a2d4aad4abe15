CONSTANTS
  m = m
  n = n
  Name <- MCName
  Sources <- MCSources

SPECIFICATION Spec

INVARIANT
  MacrosExpanded

CHECK_DEADLOCK FALSE
