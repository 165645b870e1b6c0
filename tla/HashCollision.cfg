CONSTANTS
  Inputs <- CollidingInputs
  Ops <- MCOps
  Bytes <- MCBytes
  HalfRange = 4
SPECIFICATION Spec
INVARIANT GroupedExactly
CHECK_DEADLOCK FALSE
