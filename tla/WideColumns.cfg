CONSTANTS
  WordBits = 64
  ByteBits = 8
  Length = 9
  Widths <- LargeWidths
  Columns <- MCColumns
SPECIFICATION Spec
INVARIANT
  RoundTrip
CHECK_DEADLOCK FALSE
