SPECIFICATION Spec
CONSTANTS
  w1 = w1
  w2 = w2
  a1 = a1
  a2 = a2
  NoOne = NoOne
  NoThreshold = NoThreshold
  Workers = {w1, w2}
  Alerts = {a1}
  MaxTx = 2
  Limit = 2
  MaxSent = 2
  Kind <- MCKind
  Threshold <- MCThreshold
  Tx <- MCTx
  Faults = {"db_error", "redis_error"}
SYMMETRY WorkerSymmetry
INVARIANTS RepeatOnlyIfUndone
