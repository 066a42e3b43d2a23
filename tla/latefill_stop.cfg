SPECIFICATION Spec
CONSTANTS
  None = None
  b1 = b1
  b2 = b2
  Branches <- TwoBranches
  Later <- Nothing
  Repairs <- Nothing
  Needs <- SecondNeedsFirst
  Present <- OnlyFirst
  Inspected <- OnlyFirst
  Workers = {w1}
  Controls = {c1}
  Retries = {}
  MaxRequeues = 1
  MaxFaults = 1
  MaxLosses = 1
  MaxStartFailures = 1
  MaxUnwritten = 1
SYMMETRY Symmetry
INVARIANTS TypeOK StaleResultsIgnored QuietViewIsFinal NothingForgotten
