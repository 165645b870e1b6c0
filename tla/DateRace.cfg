CONSTANTS
  loader = loader
  query = query
  Threads <- TwoThreads
  Fields <- MCFields
  Values = {0, 1}
  MaxCalls = 1
  Nobody = Nobody
SPECIFICATION Spec
INVARIANT FormatDateIsExact
CHECK_DEADLOCK FALSE
