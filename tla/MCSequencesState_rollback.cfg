SPECIFICATION Spec
CONSTANTS
  Schemas <- ByOne
  AllocationStep = 4
  MaxSequences = 1
INVARIANT ValuesUnique
