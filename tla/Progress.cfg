SPECIFICATION ProgressSpec
CONSTANTS
  None = None  p = p  d1 = d1  t1 = t1  t2 = t2  u1 = u1  r1 = r1
  c1 = c1  c2 = c2  fld = fld  tr = tr
  SnapshotCap = 2
  SnapshotAge = 0
  Batches <- MCBatches
  Writers = {p}
  Clients = {p}
  Async = TRUE
  Pollers = {}
  Reapers = {}
  MayClose = FALSE
  Faults = TRUE
  Busy = FALSE
  Crashes = {}
  MaxAttempts = 2
  Inodes = {1}
  MaxWrites = 2
  MaxSeq = 3
  MaxTime = 0
INVARIANTS CheckpointPerBatch CheckpointMatchesSeq QueuedUntilReplicated
PROPERTIES SnapshotImmutable FlushConcludes WritesBackedUp TransitionsConclude TimedStatusEnds
CHECK_DEADLOCK FALSE
