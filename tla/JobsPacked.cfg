SPECIFICATION MCSpec
CONSTANTS
  None = None  h1 = h1  p1 = p1
  MaxJobs = 2
  Kinds = {"import", "export", "backup", "admin"}
  Hashes = {h1}
  Lines = 3
  BadLines = {}
  Packed = TRUE
  Rows = 3
  MaxEdits = 1
  Paths = {p1}
  BatchSize = 2
  Faults = TRUE
  Crashes = TRUE
  MaxRetries = 1
INVARIANTS AppliedAtMostOnce
CHECK_DEADLOCK FALSE
