SPECIFICATION LayoutSpec
CONSTANTS
  Scalars = {8}
  Arrays = {3}
  BitTypes = {1, 4}
  BitWidths = {0, 4, 28}
  RecordKinds = {TRUE, FALSE}
  MaxObjs = 4
  MaxTypes = 2
INVARIANTS LayoutTypeOK IndexFindsElement MembersApart OffsetsAgree CastsToMember
CHECK_DEADLOCK FALSE
