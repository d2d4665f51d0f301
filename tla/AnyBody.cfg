SPECIFICATION Spec
CONSTANTS
  L = L
  M = M
  Grammars <- AllKinds
  LabelNames <- Labels
  ReturnsValue = TRUE
  Apart = {}
INVARIANTS ParseTypeOK TreeShape GotosResolved CodeGenTypeOK LoopStackMatchesCalls OpenInsertPoint AllTerminated
