SPECIFICATION Spec
CONSTANTS
  MaxKey = 2
  MaxValue = 2
  Row <- MCRow
  IndexId <- MCIndexId
  Project <- MCProject
  MaxSchemaChanges = 3
INVARIANT TxStateInvariant
INVARIANT NeverPanics
INVARIANT PointerMapIsCurrent
INVARIANT ReplayReproduces
PROPERTY ImplementsTable
