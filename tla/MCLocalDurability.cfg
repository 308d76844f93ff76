SPECIFICATION FairSpec
CONSTANTS
  MaxTxs = 3
  RecordLimits = {1, 2}
  MaxFaults = 2
  IoFaults = {"err", "exists", "panic"}
  Crashes = {"process", "power"}
  DepthMod = 8
INVARIANT HistoryIsComplete
INVARIANT DurableIsStable
INVARIANT CloseIsComplete
INVARIANT DepthIsAccurate
PROPERTY ImplementsHistory
PROPERTY EventuallyDurable
PROPERTY CloseReturns
CHECK_DEADLOCK FALSE
