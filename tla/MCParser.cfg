CONSTANTS
  A = A
  MCNoName = MCNoName
  MaxTokens = 3
  MaxLines = 3
  Name <- MCName
  NoName = MCNoName
  TokenLists <- MCTokenLists

SPECIFICATION FairSpec

INVARIANTS
  TypeOK
  HandsOverParsed
  OneErrorPerLine
  AcceptsLanguage
  StatementsInPlace

PROPERTY
  Terminates

\* The parser stops when it returns.
CHECK_DEADLOCK FALSE
