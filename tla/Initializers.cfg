SPECIFICATION FairSpec
CONSTANTS
  Space = 12
  Objects <- ObjectTypes
  Kits <- AllKits
INVARIANTS Initialised AcceptsValid Diagnosed
PROPERTY ReadsOn
CHECK_DEADLOCK FALSE
