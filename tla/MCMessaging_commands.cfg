\* Two commands at a time on two peers, one of an older build; the stream stalls
\* and breaks.  The pong of one ping may come when the other is pending.
SPECIFICATION FairSpec
CONSTANTS
  Addr = {a1, a2}
  Older = {a1}
  Stream = {s1}
  Caller = {c1, c2}
  Nonce = {n1, n2}
  window = 1
  MaxIn = 1
  None = None
INVARIANTS TypeOK OneSendAtATime PendingAwaited PongAnswersItsPing
PROPERTY CommandsReturn
CHECK_DEADLOCK FALSE
