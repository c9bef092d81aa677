CONSTANTS
  a = a
  b = b
  c = c
  doc = doc
  q = q
  None = None
  DocOf <- MCDocOf
  Requests = {a, b, c}
  Deletes = {c}
  Modes = {"committed"}
  Docs = {doc}
  Readers = {}
  Capacity = 2
  IdleRetires = FALSE
  Fails = FALSE
  TimesOut = FALSE
  MaxGens = 2
SPECIFICATION Spec
INVARIANTS Serialized
CHECK_DEADLOCK FALSE
