SPECIFICATION Spec
CONSTANTS
  t1 = t1
  t2 = t2
  Thread = {t1, t2}
  Plain = {}
  SNAPSHOT_FREQUENCY = 2
  InitialTxs = 1
  MaxTx = 6
  MaxFaults = 3
SYMMETRY Threads
INVARIANT TypeOK
INVARIANT LogIsCommitOrder
INVARIANT SnapshotsAgree
PROPERTY RestoresHistory
PROPERTY TakesGoodSnapshots
