SPECIFICATION Spec
CONSTANTS
  None = None
  Responses = {A, B}
  Writers = {w1, w2}
  Readers = {}
  Paths = {p}
  Bodies = {d1, d2}
  MaxRows = 4
  MaxCrashes = 0
  MaxFailures = 0
  MaxIndexLosses = 0
  TornWrites = FALSE
INVARIANTS FramesFormOneChain CasParentWasCurrent BodiesRestorable IndexedManifestIsExpanded
PROPERTIES RefinesLineage RefusalsAreTrue
