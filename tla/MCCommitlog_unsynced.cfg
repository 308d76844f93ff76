SPECIFICATION Spec
CONSTANTS
  MaxSegmentSize = 4
  MaxAppends = 4
  Plans <- Unsynced
INVARIANT DurableIsReadBack
CHECK_DEADLOCK FALSE
