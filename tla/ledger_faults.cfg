SPECIFICATION Spec
CONSTANTS
  None = None
  Responses = {A, B}
  Writers = {w1, w2}
  Readers = {}
  Paths = {p}
  Bodies = {d1, d2}
  MaxRows = 3
  MaxCrashes = 1
  MaxFailures = 1
  MaxIndexLosses = 1
  TornWrites = TRUE
SYMMETRY Symmetry
INVARIANTS TypeOK VerifiedIndexIsExact
PROPERTIES DurableRowsNeverChange
