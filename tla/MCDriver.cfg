CONSTANTS
  Path <- MCPath
  CommandLines <- MCCommandLines
  Program <- MCProgram
  Existing <- MCExisting

SPECIFICATION Spec

INVARIANTS
  StructuresFreed
  PublishedIfCorrect
  OneProgramPerDirectory

\* The assembler stops at the end of its command line.
CHECK_DEADLOCK FALSE
