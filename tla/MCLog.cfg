SPECIFICATION LogSpec
CONSTANTS
  Message <- MCMessage
  BYTE = 4
  WORD = 2
  MAX_SEGMENT_BYTES = 5
  MAX_BYTES_INDEX = 7
  MaxOffset = 6
  MaxOpens = 1
INVARIANTS AckedIsStored NewestIsIndexed 
CHECK_DEADLOCK FALSE
