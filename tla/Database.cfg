SPECIFICATION DatabaseSpec
CONSTANTS
  None = None  d1 = d1  d2 = d2  c1 = c1  c2 = c2  f = f  g = g  tr = tr
  n1 = n1  n2 = n2  m = m  all = all  r1 = r1  w1 = w1  w2 = w2
  Docs = {d1}
  Colls = {c1, c2}
  Fields = {f, g}
  Names = {tr}
  Inputs <- Patches
  Specs <- LifeSpecs
  Lives <- LifeTimes
  Batches <- TxPairs
  ArchiveTtl = 1
  Features = {"change", "rename", "import", "recompute", "crash"}
  MaxKeys = 4
  MaxTime = 1
  Namespaces = {n1, n2}
  Metrics = m
  AnyScope = all
  Readers = {r1}
  Writers = {w1, w2}
  MaxChanges = 2
  Deletes = FALSE
INVARIANTS CountersMatch AppliedOnce CachedFresh
PROPERTIES LeavesArchivedOrClean ArchiveKept
CHECK_DEADLOCK FALSE
