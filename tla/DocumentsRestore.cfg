SPECIFICATION Spec
CONSTANTS
  d1 = d1  d2 = d2  c1 = c1  c2 = c2  f = f  g = g  tr = tr
  None = None
  Docs = {d1}
  Colls = {c1}
  Fields = {f, g}
  Names = {tr}
  Inputs <- Patches
  Specs = {}
  Lives <- LifeTimes
  Batches = {}
  ArchiveTtl = 1
  Features = {"change", "rename", "import", "recompute"}
  MaxKeys = 5
  MaxTime = 1
PROPERTIES VersionsIndependent
CHECK_DEADLOCK FALSE
