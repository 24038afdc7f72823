\* Three nodes in a chain of seeds; one message is lost, two nodes disconnect, or
\* one freezes, crashes or stops.  The gossip interval is the timeout, as in
\* types/config.go.
SPECIFICATION FairSpec
CONSTANTS
  a = a
  b = b
  c = c
  Node = {a, b, c}
  SeedOf <- Chain
  HeartbeatTimeout = 1
  GossipInterval = 1
  Workload = {"lose", "disconnect", "freeze", "crash", "stop"}
  MaxEvents = 1
  None = None
INVARIANTS TypeOK UnheededStreamsTold NetworksApart
PROPERTIES Rediscovers RelaysDieOut ForgottenUnlessRumoured PeersLetGo
