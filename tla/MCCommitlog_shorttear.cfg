SPECIFICATION Spec
CONSTANTS
  MaxSegmentSize = 4
  MaxAppends = 4
  Plans <- ShortTear
INVARIANT CommittedIsReadBack
CHECK_DEADLOCK FALSE
