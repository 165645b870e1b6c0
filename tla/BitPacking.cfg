CONSTANTS
  WordBits = 64
  ByteBits = 8
  Length = 9
  Widths <- SmallWidths
  Columns <- MCColumns
SPECIFICATION Spec
INVARIANTS
  TypeOK
  RoundTrip
  ReadsInside
CHECK_DEADLOCK FALSE
