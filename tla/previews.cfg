SPECIFICATION PreviewFairSpec
CONSTANTS
  None = None
  p1 = p1
  p2 = p2
  p3 = p3
  Packages = {p1, p2, p3}
  Readers = {r1, r2}
  Size <- OneLarge
  MaxPackages = 2
  MaxBytes = 4
  MaxFailures = 1
INVARIANTS PreviewTypeOK LeasedOnDisk WithinBounds
PROPERTIES PackagesGo
