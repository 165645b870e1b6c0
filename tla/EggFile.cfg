CONSTANTS
  WordBits = 5
  LossyWidths <- MCLossyWidths
  Low <- MCLow
  High <- MCHigh
  DictionaryRows = 3
  SampleSize = 3
  DistinctPercent = 70
  Rows = 4
  Sources <- MCSources
  RowGroupSize = 8
  SizeOf <- MCSizeOf
SPECIFICATION Spec
INVARIANTS
  TypeOK
  TableIsWhole
  StatsBoundTheirGroup
  GroupsAreFull
  ExportIsReadable
PROPERTY
  BatchFollowsThosePassed
CHECK_DEADLOCK FALSE
