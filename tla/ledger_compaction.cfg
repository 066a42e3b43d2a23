SPECIFICATION Spec
CONSTANTS
  None = None
  Responses = {A, B}
  Previews = {d1, d2}
  MaxHistory = 3
  MaxRows = 4
SYMMETRY Symmetry
CHECK_DEADLOCK FALSE
INVARIANTS TypeOK RowsSurvive PreviewsReadable LookupsStayRight
