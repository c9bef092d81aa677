SPECIFICATION ServicesSpec
CONSTANTS
  req1 = req1  req2 = req2  req3 = req3  doc = doc
  u1 = u1  k1 = k1  g1 = g1  i1 = i1  i2 = i2
  None = None
  Users = {u1}
  Kinds = {k1}
  Providers = {g1}
  Statuses = {"active"}
  Slots = {i1, i2}
  Operations = {"user_create", "user_update_status", "soft_delete", "purge", "user_link_provider", "user_unlink_provider", "user_create_token", "user_consume_token", "user_revoke_token"}
  ForeignKeys = TRUE
  Faults = TRUE
  MaxRequests = 2
  MaxNow = 1
INVARIANTS ConsumedOnce SingleActive RevocationsLast QueueKept
INVARIANTS MatchersAgree ScopeKept OnlyTargetsChange
CHECK_DEADLOCK FALSE
