SPECIFICATION Spec
CONSTANTS
  t1 = t1
  Thread = {t1}
  Plain = {}
  SNAPSHOT_FREQUENCY = 2
  InitialTxs = 1
  MaxTx = 6
  MaxFaults = 3
PROPERTY OpensUnlessArchived
