SPECIFICATION MCSpec
CONSTANTS
  app1 = app1
  old = old
  None = None
  Id = {app1, old}
  AppId = app1
  Threshold = 2
  MaxRestarts = 1
  MaxFaults = 1
  exact = exact
  all = all
  Pattern = {exact, all}
  Matches <- MCMatches
  KeyOf <- MCKeyOf
  Window = 2
  MaxEvents = 4
  MaxDrops = 1
  c1 = c1
  r1 = r1
  r2 = r2
  Caller = {c1}
  Refresh = {r1, r2}
  Retries = 1
  MaxMoves = 2
  MaxLost = 1
  Gone = Gone
  Free = Free
  Asking = Asking
  MaxCalls = 3
  MaxOpenFails = 1
INVARIANT CommSafe
PROPERTIES Settles EventsArrive CacheCatchesUp
CHECK_DEADLOCK FALSE
