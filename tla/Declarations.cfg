SPECIFICATION Spec
CONSTANTS
  x = x
  y = y
  pt = pt
  none = none
  Names <- TwoNames
  Tags <- OneTag
  NoTag = none
  InitLength = 3
  Kits <- Everything
INVARIANTS ScopesTypeOK ScopeRestored AcceptsValid Diagnosed LookupAgrees SymbolsRight
PROPERTY EntriesKept
CHECK_DEADLOCK FALSE
