CONSTANTS
  Inputs <- MCInputs
  Ops <- MCOps
  Bytes <- MCBytes
  HalfRange = 4
SPECIFICATION Spec
INVARIANTS
  TypeOK
  RowsReachTheirGroup
  GroupsAreExact
  TotalsAreExact
CHECK_DEADLOCK FALSE
