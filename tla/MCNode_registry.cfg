\* Two handler goroutines and the cleaner race on the registry.  No dial
\* succeeds (Conn is empty), so the pool stays empty.
SPECIFICATION Spec
CONSTANTS
  p1 = p1  p2 = p2  self = self  t1 = t1  t2 = t2
  n1 = n1  n2 = n2  a1 = a1  a2 = a2  a0 = a0
  c1 = c1  c2 = c2
  None = None  Cleaner = cleaner  Gossiper = gossiper
  Self = self
  Peer = {p1, p2}
  Name = {n1, n2}
  Addr = {a0, a1, a2}
  NameOf <- SameName
  AddrOf <- OwnAddr
  Timeout = 0
  Conn = {}
  Threads = {t1, t2}
  Workload = {"handshake", "heartbeat", "disconnect", "notify", "disconnectPeer", "clean"}
  AutoConnect = FALSE
SYMMETRY RegistrySymmetry
INVARIANTS TypeOK RegistryConsistent PeersFindable OfflineIsTransient OfflineAccounted
