CONSTANTS
  MaxChunks = 6
  Size <- MCSize
  ReadMark = 2
  WriteMark = 3
SPECIFICATION Spec
INVARIANTS AllThenFinish Backpressure
PROPERTIES PipeFinishes
CHECK_DEADLOCK FALSE
