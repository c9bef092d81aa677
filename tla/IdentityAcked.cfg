SPECIFICATION Spec
CONSTANTS
  None = None  u1 = u1  u2 = u2  k1 = k1  g1 = g1  r1 = r1  r2 = r2
  Users = {u1}
  Kinds = {k1}
  Providers = {g1}
  Statuses = {"active"}
  Slots = {r1}
  Operations = {"user_update_status"}
  ForeignKeys = TRUE
  Faults = TRUE
  MaxRequests = 3
  MaxNow = 1
PROPERTIES AckedPersisted
CHECK_DEADLOCK FALSE
