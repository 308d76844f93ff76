SPECIFICATION Spec
CONSTANTS
  t1 = t1
  Thread = {t1}
  Plain = {}
  SNAPSHOT_FREQUENCY = 2
  InitialTxs = 0
  MaxTx = 3
  MaxFaults = 2
PROPERTY StaleInvalidated
