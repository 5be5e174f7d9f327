SPECIFICATION FairSpec
CONSTANTS
  s1 = s1
  s2 = s2
  l1 = l1
  x1 = x1
  x2 = x2
  c1 = c1
  c2 = c2
  Starter = {s1}
  LightStarter = {l1}
  Closer = {x1}
  Conn = {c1}
  MaxCrashes = 1
  MaxDiskFaults = 1
INVARIANTS TypeOK ShutdownSaves
PROPERTIES ShutdownStopsTasks
CHECK_DEADLOCK FALSE
