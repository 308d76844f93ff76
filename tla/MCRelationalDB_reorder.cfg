SPECIFICATION Spec
CONSTANTS
  t1 = t1
  t2 = t2
  Thread = {t1, t2}
  Plain = {t2}
  SNAPSHOT_FREQUENCY = 2
  InitialTxs = 1
  MaxTx = 3
  MaxFaults = 0
INVARIANT LogIsCommitOrder
