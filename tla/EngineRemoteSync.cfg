CONSTANTS
  p = p
  q = q
  None = None
  Batches <- MCBatches
  Writers = {p}
  Clients = {p}
  Async = FALSE
  Pollers = {p}
  Reapers = {}
  MayClose = FALSE
  Faults = FALSE
  Busy = FALSE
  Crashes = {}
  MaxAttempts = 2
  Inodes = {1, 2, 3}
  MaxWrites = 3
  MaxSeq = 4
  MaxTime = 1
  SnapshotCap = 2
  SnapshotAge = 0
SPECIFICATION Spec
INVARIANTS CheckpointPerBatch
CHECK_DEADLOCK FALSE
