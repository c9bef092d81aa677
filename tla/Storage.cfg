CONSTANTS
  req1 = req1  req2 = req2  req3 = req3  doc = doc  q = q  p1 = p1  p2 = p2  t1 = t1  t2 = t2  w1 = w1  w2 = w2
  None = None
  DocOf <- MCDocOf
  Requests = {req1, req2, req3}
  Deletes = {}
  Modes = {"accepted", "prepared", "committed"}
  Docs = {doc}
  Readers = {q}
  Capacity = 1
  IdleRetires = FALSE
  Fails = TRUE
  TimesOut = TRUE
  MaxGens = 1
SPECIFICATION StorageSpec
INVARIANTS TypeOK Serialized AppliedInOrder AppliedOnce NothingLost OverlayCovers
INVARIANTS ReplicationSafe
CHECK_DEADLOCK FALSE
