SPECIFICATION FairSpec
CONSTANTS
  None = None
  s1 = s1
  s2 = s2
  p1 = p1
  Sender = {s1, s2, p1}
  Caller <- MCCaller
  Payload <- MCPayload
  Base = 3
  MaxFrame = 2
  MaxReadBuf = 4
  Chunk = 3
INVARIANTS TypeOK FramesIntact
PROPERTIES SentArrives SendsReturn FailedSendEndsSession
CHECK_DEADLOCK FALSE
