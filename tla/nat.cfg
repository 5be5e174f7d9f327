SPECIFICATION FairSpec
CONSTANTS
  n1 = n1
  c1 = c1
  Other = Other
  Free = Free
  Node = {n1}
  Call = {c1}
  Host <- MCHost
  Proto = {"udp"}
  MaxPort = 2
  Job <- MCJob
  MaxRetries = 3
  Lease = 3
  Floor = 2
  Slack = 0
  MaxCrashes = 1
  MaxFaults = 1
INVARIANTS TypeOK NoLeak OldIsGone
PROPERTIES KeptNeverLapses RenewalRestores CallsReturn
CHECK_DEADLOCK FALSE
