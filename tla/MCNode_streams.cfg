\* Joining through the peer, gossip with auto-connect, heartbeats to it and
\* DisconnectPeer share the pool's entry for one peer.
SPECIFICATION Spec
CONSTANTS
  p1 = p1  p2 = p2  self = self  t1 = t1  t2 = t2
  n1 = n1  n2 = n2  a1 = a1  a2 = a2  a0 = a0
  c1 = c1  c2 = c2
  None = None  Cleaner = cleaner  Gossiper = gossiper
  Self = self
  Peer = {p1}
  Name = {n1, n2}
  Addr = {a0, a1}
  NameOf <- SameName
  AddrOf <- OwnAddr
  Timeout = 0
  Conn = {c1, c2}
  Threads = {t1}
  Workload = {"connect", "sendHeartbeat", "disconnectPeer", "gossip"}
  AutoConnect = TRUE
SYMMETRY GoroutineSymmetry
INVARIANTS PooledOpen StreamsServed OfflineAccounted
