SPECIFICATION FairSpec
CONSTANTS
  MaxTxs = 3
  RecordLimits = {1}
  MaxFaults = 1
  IoFaults = {"err"}
  Crashes = {}
  DepthMod = 8
PROPERTY DurableAfterRetry
CHECK_DEADLOCK FALSE
