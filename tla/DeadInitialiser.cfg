SPECIFICATION Spec
CONSTANTS
  L = L
  M = M
  Grammars <- DeadDecl
  LabelNames <- Labels
  ReturnsValue = FALSE
  Apart = {"invalid"}
INVARIANT Accepted
