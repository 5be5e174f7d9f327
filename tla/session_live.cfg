SPECIFICATION FairSpec
CONSTANTS
  c1 = c1
  c2 = c2
  c3 = c3
  i1 = i1
  p1 = p1
  p2 = p2
  a1 = a1
  a2 = a2
  None = None
  Call = {c1}
  Accept = {i1}
  Peer = {p1}
  Above = {p1}
  Addr = {a1}
  Tier <- MCTier
  MaxSessions = 2
PROPERTIES AttemptsReturn RemovedSessionsEnd SignalEmptiesTable
CHECK_DEADLOCK FALSE
