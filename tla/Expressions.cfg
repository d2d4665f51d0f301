SPECIFICATION Spec
CONSTANTS
  Bits <- Small
  Objects <- Memory
  Cells <- MemoryCells
  Leaves <- LeavesOf
  Kits <- Everything
INVARIANTS ValueRight FoldAgrees BranchesOnValue OperandsAgree AcceptsValid
CHECK_DEADLOCK FALSE
