SPECIFICATION LocalSpec
CONSTANTS
  None = None  d1 = d1  d2 = d2  d3 = d3  t1 = t1  t2 = t2  req1 = req1  req2 = req2
  Parts = {"pool", "mixed", "queue"}
  Dbs = {d1, d2, d3}
  Tasks = {t1, t2}
  MaxActive = 1
  Operations = {"insert", "query", "delete_db", "restore_backup"}
  Coordinated = TRUE
  IdleSecs = 1
  BackupEvery = 1
  KeepCount = 1
  MaxRequests = 3
  Faults = FALSE
INVARIANTS PoolBounded AckedReachable
PROPERTIES WritesConclude
CHECK_DEADLOCK FALSE
