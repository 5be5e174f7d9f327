SPECIFICATION FairSpec
CONSTANTS
  None = None
  A = A
  B = B
  ta = ta
  tb = tb
  da = da
  Node = {A, B}
  Tick = {ta, tb}
  Send = {da}
  End <- MCEnd
  ProbeKind = probe
  ReplyKind = reply
  DataKind = data
  Window = 1
PROPERTIES BothEndsEnd StuckSendEndsSession LinkFallsSilent
CHECK_DEADLOCK FALSE
