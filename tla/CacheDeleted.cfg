SPECIFICATION CacheSpec
CONSTANTS
  Namespaces = {n1}
  Metrics = m
  AnyScope = all
  Readers = {r1}
  Writers = {w1}
  MaxChanges = 2
  Deletes = TRUE
INVARIANT DeletedNotServed
CHECK_DEADLOCK FALSE
