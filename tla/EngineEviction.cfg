CONSTANTS
  p = p
  q = q
  None = None
  Batches <- MCBatches
  Writers = {p}
  Clients = {p}
  Async = FALSE
  Pollers = {}
  Reapers = {}
  MayClose = TRUE
  Faults = FALSE
  Busy = FALSE
  Crashes = {}
  MaxAttempts = 2
  Inodes = {1}
  MaxWrites = 2
  MaxSeq = 4
  MaxTime = 1
  SnapshotCap = 2
  SnapshotAge = 0
SPECIFICATION Spec
INVARIANTS CheckpointPerBatch
CHECK_DEADLOCK FALSE
