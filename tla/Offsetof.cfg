SPECIFICATION LayoutSpec
CONSTANTS
  Scalars = {1}
  Arrays = {3}
  BitTypes = {4}
  BitWidths = {10}
  RecordKinds = {TRUE}
  MaxObjs = 3
  MaxTypes = 1
INVARIANT OffsetofIsAddress
CHECK_DEADLOCK FALSE
