\* One peer that may fall silent at any time, the cleaner, and streams that are
\* torn down while the peer is connected again.
SPECIFICATION FairSpec
CONSTANTS
  p1 = p1  p2 = p2  self = self  t1 = t1  t2 = t2
  n1 = n1  n2 = n2  a1 = a1  a2 = a2  a0 = a0
  c1 = c1  c2 = c2
  None = None  Cleaner = cleaner  Gossiper = gossiper
  Self = self
  Peer = {p1}
  Name = {n1, n2}
  Addr = {a0, a1}
  NameOf <- SameName
  AddrOf <- OwnAddr
  Timeout = 1
  Conn = {c1, c2}
  Threads = {t1}
  Workload = {"handshake", "heartbeat", "disconnectPeer", "clean"}
  AutoConnect = TRUE
PROPERTIES SilentPeerRemoved DeadStreamDropped
