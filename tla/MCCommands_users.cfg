\* Commands of the console and the web that send, connect and disconnect, with
\* a peer that may be suspended.
SPECIFICATION FairSpec
CONSTANTS
  p1 = p1  p2 = p2  self = self  n1 = n1  n2 = n2  a0 = a0  a1 = a1  a2 = a2
  k1 = k1  k2 = k2
  None = None  Console = console
  Self = self
  Peer = {p1}
  Conn = {k1}
  To <- Leads
  Name = {n1, n2}
  Addr = {a0, a1}
  NameOf <- SameName
  AddrOf <- OwnAddr
  Timeout = 0
  Requests = {r}
  Handlers = {h}
  Operations = {"send","ping","broadcast","connect","disconnect","stall","quit"}
PROPERTIES QuitIsHandled RequestsAnswered
CHECK_DEADLOCK FALSE
