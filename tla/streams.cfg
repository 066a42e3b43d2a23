SPECIFICATION StreamsFairSpec
CONSTANTS
  None = None
  b1 = b1
  b2 = b2
  b3 = b3
  b4 = b4
  i1 = i1
  i2 = i2
  Waves = {1, 2}
  Branches = {b1, b2, b3, b4}
  Instances = {i1, i2}
  WaveOf <- RepairLast
  Rank <- Numbered
  Usable <- BothInstances
  Barred <- NoneBarred
  Pinned <- Nothing
  Local <- OnlyRepair
  FastLane <- OnlyRepair
  Group <- TwoGroups
  MaxParallel = 3
  Async = TRUE
  MaxFaults = 1
INVARIANTS StreamsTypeOK OneCallPerWave ReturnIsComplete LoadIsEven LeavesInformed NoEarlyEnd
PROPERTIES UpdatesNeverReopen EverybodyEnds
