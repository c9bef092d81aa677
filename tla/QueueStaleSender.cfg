CONSTANTS
  a = a
  b = b
  c = c
  doc = doc
  q = q
  None = None
  DocOf <- MCDocOf
  Requests = {a, b, c}
  Deletes = {}
  Modes = {"accepted", "committed"}
  Docs = {doc}
  Readers = {}
  Capacity = 1
  IdleRetires = TRUE
  Fails = FALSE
  TimesOut = FALSE
  MaxGens = 3
SPECIFICATION Spec
INVARIANTS Serialized
CHECK_DEADLOCK FALSE
