SPECIFICATION Spec
CONSTANTS
  L = L
  M = M
  Grammars <- JumpsOfAllKinds
  LabelNames <- Labels
  ReturnsValue = TRUE
  Apart = {"invalid", "constant statement expression", "constant condition with an effect", "true constant other than 1", "unreachable initialiser", "value behind a jump"}
INVARIANT Accepted
PROPERTY Implements
