SPECIFICATION Spec
CONSTANTS
  None = None
  Responses = {A, B}
  Writers = {w1}
  Readers = {d}
  Paths = {p}
  Bodies = {d1}
  MaxRows = 3
  MaxCrashes = 1
  MaxFailures = 0
  MaxIndexLosses = 0
  TornWrites = FALSE
SYMMETRY Symmetry
INVARIANTS ReadsAreCurrent FramesFormOneChain
PROPERTIES RefinesLineage
