SPECIFICATION AccessSpec
CONSTANTS
  Scalars = {2}
  Arrays = {3}
  BitTypes = {4}
  BitWidths = {5, 28}
  RecordKinds = {TRUE, FALSE}
  MaxObjs = 3
  MaxTypes = 2
  Signed = TRUE
  Wide = FALSE
  MaxStores = 2
PROPERTY IsRecord
CHECK_DEADLOCK FALSE
