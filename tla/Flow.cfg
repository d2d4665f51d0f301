SPECIFICATION FairSpec
CONSTANTS
  L = L
  M = M
  Grammars <- LoopsAndConditions
  LabelNames <- Labels
  ReturnsValue = FALSE
  Apart = {"invalid", "constant statement expression", "constant condition with an effect", "true constant other than 1", "unreachable initialiser", "value behind a jump"}
INVARIANT Accepted
PROPERTIES Implements MachineAdvances
