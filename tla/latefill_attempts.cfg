SPECIFICATION FairSpec
CONSTANTS
  None = None
  b1 = b1
  b2 = b2
  Branches <- TwoBranches
  Later <- OnlySecond
  Repairs <- OnlySecond
  Needs <- SecondNeedsFirst
  Present <- OnlyFirst
  Inspected <- OnlyFirst
  Workers = {w1, w2}
  Controls = {}
  Retries = {r1}
  MaxRequeues = 0
  MaxFaults = 1
  MaxLosses = 1
  MaxStartFailures = 0
  MaxUnwritten = 0
INVARIANTS OneWorker ClaimHasHolder
PROPERTIES FulfilledStays AttemptsEnd OwedWorkSettles
