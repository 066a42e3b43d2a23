SPECIFICATION Spec
CONSTANTS
  None = None
  Responses = {A, B}
  Writers = {w1}
  Readers = {}
  Paths = {p}
  Bodies = {d1, d2}
  MaxRows = 3
  MaxCrashes = 1
  MaxFailures = 0
  MaxIndexLosses = 0
  TornWrites = FALSE
INVARIANTS BodiesRestorable
