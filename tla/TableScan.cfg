CONSTANTS
  Columns <- MCColumns
  Narrow <- MCNarrow
  Lowest = 0
  Highest = 2
  Tables <- MCTables
  Conditions <- MCConditions
  Condition <- MCCondition
  None = None
  MaxFilters = 2
SPECIFICATION FairSpec
INVARIANTS
  TypeOK
  ScanIsExact
PROPERTY
  ScanEnds
CHECK_DEADLOCK FALSE
