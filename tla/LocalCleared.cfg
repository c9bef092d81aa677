SPECIFICATION LocalSpec
CONSTANTS
  None = None  d1 = d1  d2 = d2  d3 = d3  t1 = t1  t2 = t2  req1 = req1  req2 = req2
  Parts = {"free"}
  Dbs = {d1, d2}
  Tasks = {t1, t2}
  MaxActive = 1
  Operations = {"insert", "query", "delete_db"}
  Coordinated = TRUE
  IdleSecs = 0
  BackupEvery = 0
  KeepCount = 1
  MaxRequests = 4
  Faults = FALSE
INVARIANTS ActiveCapped ConnectionCleared
CHECK_DEADLOCK FALSE
