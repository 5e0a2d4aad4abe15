CONSTANTS
  a = a
  b = b
  c = c
  d = d
  Key <- MCKey
  Hash <- MCHash
  Decl = {label, external}
  Capacity = 3
  Empty = Empty
  NoKey = NoKey
  NoDecl = NoDecl

SPECIFICATION FairSpec

INVARIANTS
  ProbeChainUnbroken

PROPERTIES
  CellsStable
  CallReturns
  RefinesSymbolTable
