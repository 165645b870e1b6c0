CONSTANTS
  Cells <- MCCells
  Inputs <- MCInputs
  OrderByIds <- MCOrderByIds
  IsDesc = TRUE
  K = 2
  Narrow = {}
  Lowest = 0
  Highest = 2
  Tables <- MCTables
  Conditions <- MCConditions
  Condition <- MCCondition
  None = None
  HalfRange = 4
  Comparisons <- MCComparisons
  Likes = {"LIKE"}
  Mixed = {"AND"}
  Offset = 1
  Limit = 1
  Everything = 9
  HavingCount = 1
  Common = 60
SPECIFICATION PlansSpec
INVARIANTS
  ResultIsBest
  AnswerIsExact
  RefusedWithoutRowsOnly
  PlansFitTheScheme
PROPERTY
  QueryEnds
CHECK_DEADLOCK FALSE
