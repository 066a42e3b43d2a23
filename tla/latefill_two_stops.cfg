SPECIFICATION Spec
CONSTANTS
  None = None
  b1 = b1
  b2 = b2
  Branches <- TwoBranches
  Later <- Nothing
  Repairs <- Nothing
  Needs <- Independent
  Present <- Nothing
  Inspected <- Nothing
  Workers = {w1}
  Controls = {c1, c2}
  Retries = {}
  MaxRequeues = 0
  MaxFaults = 0
  MaxLosses = 0
  MaxStartFailures = 0
  MaxUnwritten = 0
SYMMETRY Symmetry
INVARIANTS StaleResultsIgnored
