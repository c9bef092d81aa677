CONSTANTS
  w1 = w1
  w2 = w2
  a = a
  b = b
  c = c
  r1 = r1
  r2 = r2
  Writers = {w1, w2}
  Tasks = {a, b, c}
  WriterOf <- MCWriterOf
  None = None
  Batches <- MCBatches
  Ops = {"append", "sync"}
  Retains = {0}
  LeaseSecs = 1
  SnapshotCap = 1
  SnapshotAge = 0
  Warm = FALSE
  MaxTime = 1
  MaxSeq = 2
SPECIFICATION Spec
INVARIANTS SingleActiveWriter SegmentsWhole
