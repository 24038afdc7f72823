\* Two nodes, one stops.
SPECIFICATION FairSpec
CONSTANTS
  a = a
  b = b
  c = c
  Node = {a, b}
  SeedOf <- Pair
  HeartbeatTimeout = 2
  GossipInterval = 2
  Workload = {"stop"}
  MaxEvents = 1
  None = None
PROPERTY StopReturns
