SPECIFICATION FairSpec
CONSTANTS
  s1 = s1
  s2 = s2
  l1 = l1
  x1 = x1
  x2 = x2
  c1 = c1
  c2 = c2
  Starter = {s1, s2}
  LightStarter = {}
  Closer = {}
  Conn = {c1}
  MaxCrashes = 1
  MaxDiskFaults = 1
INVARIANTS FileWhole
PROPERTIES DiskOnlyGrows ConnectedIsSaved
CHECK_DEADLOCK FALSE
