SPECIFICATION Spec
CONSTANTS
  Schemas <- Mixed
  AllocationStep = 3
  MaxSequences = 2
INVARIANT TypeOK
INVARIANT SequencesMatchRows
 
INVARIANT ValuesUniqueWhenAllocated
