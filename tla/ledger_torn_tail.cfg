SPECIFICATION Spec
CONSTANTS
  None = None
  Responses = {A, B}
  Writers = {w1}
  Readers = {d}
  Paths = {p}
  Bodies = {d1, d2}
  MaxRows = 2
  MaxCrashes = 1
  MaxFailures = 0
  MaxIndexLosses = 0
  TornWrites = TRUE
INVARIANTS ReadsAreCurrent
