SPECIFICATION FaultSpec
CHECK_DEADLOCK FALSE
CONSTANTS
  NumHart = 1
  NumProc = 2
  Val = {0, 1}
  Depth = 3
PROPERTY TrapsServed
