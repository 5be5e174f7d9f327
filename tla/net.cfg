SPECIFICATION MCSpec
CONSTANTS
  Low = Low
  High = High
  None = None
  k1 = k1
  k2 = k2
  k3 = k3
  Conn = {k1, k2, k3}
  Dialer <- MCDialer
  MaxFaults = 1
  ha = ha
  hb = hb
  hc = hc
  Host = {ha, hb, hc}
  Punch <- MCPunch
  MaxRetries = 2
  MaxLoss = 1
  Nobody = Nobody
  w1 = w1
  Way = {w1}
  NumAddrs = 2
  DialRetries = 1
  Mode = "auto"
  MaxChanges = 2
  Mover = {1, 2, 3}
  Reporter = {1}
  Target = {"initializing", "mapping", "released"}
  MaxHistory = 2
  Recorder <- MCRecorder
  Checker <- MCChecker
  Summary = {1}
  MaxSamples = 2
  MaxOperations = 1
  Provider <- MCProvider
  pmp1 = pmp1
  pmp2 = pmp2
  pcp1 = pcp1
  Asker = {pmp1, pmp2, pcp1}
  Speaks <- MCSpeaks
  KnownProto = {"pmp", "pcp"}
  Inner = {1}
  Outer = {8, 9}
  Lifetime = 3
  Epoch = 5
  Windows = TRUE
  MaxDetect = 3
  Candidate <- MCCandidate
  s1 = s1
  s2 = s2
  NoSite = NoSite
  Site = {s1, s2}
  Ephemeral = {1, 2}
  Configured <- MCConfigured
  a1 = a1
  a2 = a2
  n1 = n1
  n2 = n2
  Peer = {n1, n2}
  Me = Me
  MaxRecent = 1
  LpdWindow = 2
  MaxNow = 3
  Iface = {a1, a2}
  NoIface = NoIface
  Broker = {n1, n2}
  MaxTries = 3
  PeerId = {n1, n2}
  PeerAddr = {a1, a2}
  KindOf <- MCKindOf
  FailLimit = 2
  MaxCount = 2
  Week = 1
  MaxTime = 2
  MaxUpserts = 4
  Worker = {ha, hb}
  Pool = 1
  Duration = 1
  MaxRequests = 2
  MaxLate = 1
INVARIANTS LiveIsRegistered NatSafe ReachSafe
PROPERTIES Converges WaysReturn BenchEnds
CHECK_DEADLOCK FALSE
