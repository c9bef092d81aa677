CONSTANTS
  a = a
  b = b
  c = c
  doc = doc
  q = q
  None = None
  DocOf <- MCDocOf
  Requests = {a, b, c}
  Deletes = {}
  Modes = {"prepared"}
  Docs = {doc}
  Readers = {q}
  Capacity = 1
  IdleRetires = FALSE
  Fails = FALSE
  TimesOut = FALSE
  MaxGens = 1
SPECIFICATION Spec
INVARIANTS ReadsSeePending
CHECK_DEADLOCK FALSE
