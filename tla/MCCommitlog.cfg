SPECIFICATION Spec
CONSTANTS
  MaxSegmentSize = 4
  MaxAppends = 4
  Plans <- AllPlans
INVARIANT TypeOK
INVARIANT DurableIsReadBack
INVARIANT CommittedIsReadBack
INVARIANT ResetToContract
CHECK_DEADLOCK FALSE
