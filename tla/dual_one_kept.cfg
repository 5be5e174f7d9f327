SPECIFICATION Spec
CONSTANTS
  Low = Low
  High = High
  None = None
  k1 = k1
  k2 = k2
  k3 = k3
  Conn = {k1, k2}
  Dialer <- MCDialer
  MaxFaults = 0
INVARIANT OneIsKept
CHECK_DEADLOCK FALSE
