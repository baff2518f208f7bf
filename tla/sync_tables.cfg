SPECIFICATION Spec
CONSTANTS
  w1 = w1
  w2 = w2
  a1 = a1
  a2 = a2
  NoOne = NoOne
  NoThreshold = NoThreshold
  Workers = {w1, w2}
  Alerts = {a1, a2}
  MaxTx = 2
  Limit = 2
  MaxSent = 0
  Kind <- MCKind
  Threshold <- MCThreshold
  Tx <- MCTx
  Faults = {"redis_error", "slow_sync", "delete_alert", "delete_wallet"}
SYMMETRY WorkerSymmetry
INVARIANTS TypeOK OneWriter NoOrphans NoGap
PROPERTIES AlertComplete ImplementsLedger
CHECK_DEADLOCK FALSE
