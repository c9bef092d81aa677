CONSTANTS
  p = p
  q = q
  None = None
  Batches <- MCBatches
  Writers = {p, q}
  Clients = {p}
  Async = TRUE
  Pollers = {q}
  Reapers = {}
  MayClose = FALSE
  Faults = FALSE
  Busy = FALSE
  Crashes = {}
  MaxAttempts = 2
  Inodes = {1, 2, 3}
  MaxWrites = 2
  MaxSeq = 4
  MaxTime = 1
  SnapshotCap = 2
  SnapshotAge = 0
SPECIFICATION Spec
INVARIANTS CheckpointPerBatch
CHECK_DEADLOCK FALSE
