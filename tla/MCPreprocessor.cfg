CONSTANTS
  m = m
  n = n
  Name <- MCName
  Sources <- MCSources

SPECIFICATION FairSpec

INVARIANTS
  TypeOK
  MacrosAccounted
  DefinitionsTaken
  TextPassedThrough

PROPERTY
  Terminates

\* The preprocessor stops when it returns.
CHECK_DEADLOCK FALSE
