SPECIFICATION MCSpec
CONSTANTS
  None = None  h1 = h1  p1 = p1
  MaxJobs = 2
  Kinds = {"import", "export", "backup", "admin"}
  Hashes = {h1}
  Lines = 3
  BadLines = {3}
  Packed = FALSE
  Rows = 3
  MaxEdits = 1
  Paths = {p1}
  BatchSize = 2
  Faults = TRUE
  Crashes = TRUE
  MaxRetries = 1
INVARIANTS RecordedIsApplied
CHECK_DEADLOCK FALSE
