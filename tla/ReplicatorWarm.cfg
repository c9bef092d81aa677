CONSTANTS
  w1 = w1
  w2 = w2
  a = a
  b = b
  c = c
  r1 = r1
  r2 = r2
  Writers = {w1, w2}
  Tasks = {a, c}
  WriterOf <- MCWriterOf
  None = None
  Batches <- PairBatch
  Ops = {"append", "upsert", "compact", "sync"}
  Retains = {0, 1}
  LeaseSecs = 1
  SnapshotCap = 2
  SnapshotAge = 1
  Warm = TRUE
  MaxTime = 1
  MaxSeq = 4
SPECIFICATION WarmSpec
INVARIANTS TypeOK ManifestContiguous ListedSegmentsStored AckedAppendLogged CatalogSound
PROPERTIES TakeoverAfterExpiry ImplementsLog
