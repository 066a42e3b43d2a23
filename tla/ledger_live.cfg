SPECIFICATION FairSpec
CONSTANTS
  None = None
  Responses = {A}
  Writers = {w1, w2}
  Readers = {d}
  Paths = {p}
  Bodies = {d1, d2}
  MaxRows = 2
  MaxCrashes = 0
  MaxFailures = 1
  MaxIndexLosses = 0
  TornWrites = TRUE
PROPERTIES JobsEnd LookupsEnd
