---------------------------- MODULE ClusterProofs ----------------------------
(***************************************************************************)
(* Proofs about Cluster: type correctness, and that a node only keeps a    *)
(* stream it does not heed to a peer whose Disconnect it has handled, for  *)
(* any number of nodes, any seeds and any timeouts.                        *)
(*                                                                         *)
(* Types needs that no connection is to be made by a node to itself: the   *)
(* stream and the registration it ends in would be the node's own.         *)
(***************************************************************************)
EXTENDS Cluster, TLAPS

-----------------------------------------------------------------------------
(* Type correctness.                                                       *)

\* No node lists, is connected to or connects to itself.
NotItself ==
  /\ \A n \in Node : age[n][n] = None /\ <<n, n>> \notin stream
  /\ \A k \in conns : k.by # k.to

Ages == [Node -> [Node -> (0 .. HeartbeatTimeout) \cup {None}]]

Types ==
  /\ phase \in [Node -> Phase]
  /\ age \in Ages
  /\ stream \subseteq Node \X Node
  /\ joins \subseteq Join /\ conns \subseteq Connection
  /\ todo \in [Node -> SUBSET Node]
  /\ since \in [Node -> 0 .. GossipInterval]
  /\ joined \subseteq Node /\ told \subseteq Node \X Node
  /\ events \in 0 .. MaxEvents

TypeInv == Types /\ NotItself

\* Events are counted up to their bound.
LEMMA EventCounted ==
  ASSUME Types, NEW e, Event(e)
  PROVE  events' \in 0 .. MaxEvents
BY ClusterAssumption DEF Types, Event

\* A node registers another, or unregisters it: the ages stay ages, and no node
\* comes to list itself.
LEMMA RefreshedTypes ==
  ASSUME TypeInv, NEW n \in Node, NEW m \in Node, n # m
  PROVE  /\ Refreshed(n, m) \in Ages
         /\ \A x \in Node : Refreshed(n, m)[x][x] = None
<1>1. 0 \in 0 .. HeartbeatTimeout
  BY ClusterAssumption
<1> QED
  BY <1>1 DEF TypeInv, Types, NotItself, Ages, Refreshed

LEMMA UnregisteredTypes ==
  ASSUME TypeInv, NEW n \in Node, NEW m \in Node
  PROVE  /\ Unregistered(n, m) \in Ages
         /\ \A x \in Node : Unregistered(n, m)[x][x] = None
BY DEF TypeInv, Types, NotItself, Ages, Unregistered

\* The goroutines that broadcastNodeJoin starts are joins of others.
LEMMA BroadcastTypes ==
  ASSUME NEW n \in Node, NEW m \in Node, NEW others \in SUBSET Node
  PROVE  Broadcast(n, m, others) \subseteq Join
BY DEF Broadcast, Join

LEMMA AutoConnectTypes ==
  ASSUME NEW n \in Node, NEW m \in Node
  PROVE  AutoConnect(n, m) \subseteq Connection /\ \A k \in AutoConnect(n, m) : k.by # k.to
BY DEF AutoConnect, Connection

LEMMA HandshakeTypes ==
  ASSUME TypeInv, NEW n \in Node, NEW s \in Node, Handshake(n, s)
  PROVE  TypeInv'
<1>1. s # n
  BY ClusterAssumption DEF Handshake
<1>2. 0 \in 0 .. HeartbeatTimeout
  BY ClusterAssumption
<1>3. age' \in Ages /\ \A x \in Node : age'[x][x] = None
  BY <1>1, <1>2 DEF Handshake, TypeInv, Types, NotItself, Ages
<1>4. List(s) \subseteq Node
  BY DEF List
<1>5. joins' \subseteq Join
  BY <1>4, BroadcastTypes DEF Handshake, TypeInv, Types
<1>6. conns' \subseteq Connection /\ \A k \in conns' : k.by # k.to
  <2> DEFINE found == [by : {n}, to : (List(s) \cup {s}) \ {n}]
  <2>1. found \subseteq Connection /\ \A k \in found : k.by # k.to
    BY <1>4 DEF Connection
  <2>2. conns' = conns \cup AutoConnect(s, n) \cup found
    BY DEF Handshake
  <2> QED
    BY <2>1, <2>2, AutoConnectTypes DEF TypeInv, Types, NotItself
<1> QED
  BY <1>3, <1>5, <1>6 DEF Handshake, TypeInv, Types, NotItself

LEMMA NotifyTypes ==
  ASSUME TypeInv, NEW j \in Join, NotifyNodeJoin(j)
  PROVE  TypeInv'
<1>1. j.to \in Node /\ j.new \in Node /\ List(j.to) \subseteq Node
  BY DEF Join, List
<1>2. age' \in Ages /\ \A x \in Node : age'[x][x] = None
  <2>1. age' = age \/ (j.to # j.new /\ age' = Refreshed(j.to, j.new))
    BY DEF NotifyNodeJoin
  <2>2. j.to # j.new => /\ Refreshed(j.to, j.new) \in Ages
                       /\ \A x \in Node : Refreshed(j.to, j.new)[x][x] = None
    BY <1>1, RefreshedTypes
  <2>3. age \in Ages /\ \A x \in Node : age[x][x] = None
    BY DEF TypeInv, Types, NotItself
  <2> QED
    BY <1>1, <2>1, <2>2, <2>3
<1>3. joins' \subseteq Join
  BY <1>1, BroadcastTypes DEF NotifyNodeJoin, TypeInv, Types
<1>4. conns' \subseteq Connection /\ \A k \in conns' : k.by # k.to
  BY <1>1, AutoConnectTypes DEF NotifyNodeJoin, TypeInv, Types, NotItself
<1> QED
  BY <1>2, <1>3, <1>4 DEF NotifyNodeJoin, TypeInv, Types, NotItself, ghosts

LEMMA ConnectTypes ==
  ASSUME TypeInv, NEW k \in Connection, ConnectToPeer(k)
  PROVE  TypeInv'
<1>1. k.by \in Node /\ k.to \in Node /\ k.by # k.to
  BY DEF Connection, ConnectToPeer, TypeInv, NotItself
<1>2. age' \in Ages /\ \A x \in Node : age'[x][x] = None
  <2>1. age' = age \/ age' = Refreshed(k.by, k.to)
    BY DEF ConnectToPeer, regs
  <2>2. k.by # k.to => /\ Refreshed(k.by, k.to) \in Ages
                       /\ \A x \in Node : Refreshed(k.by, k.to)[x][x] = None
    BY <1>1, RefreshedTypes
  <2>3. age \in Ages /\ \A x \in Node : age[x][x] = None
    BY DEF TypeInv, Types, NotItself
  <2> QED
    BY <1>1, <2>1, <2>2, <2>3
<1>3. stream' \subseteq Node \X Node /\ \A x \in Node : <<x, x>> \notin stream'
  BY <1>1 DEF ConnectToPeer, TypeInv, Types, NotItself, regs
<1> QED
  BY <1>2, <1>3 DEF ConnectToPeer, TypeInv, Types, NotItself, ghosts

LEMMA GossipTypes ==
  ASSUME TypeInv, NEW n \in Node, PerformGossipRound(n)
  PROVE  TypeInv'
<1> DEFINE asked == {m \in Node : <<n, m>> \in stream /\ Serves(m)}
           new == (UNION {List(m) : m \in asked}) \ (List(n) \cup {n})
<1>1. new \subseteq Node \ {n} /\ List(n) \subseteq Node
  BY DEF List
<1>2. /\ joins' = joins \cup UNION {Broadcast(n, m, List(n)) : m \in new}
      /\ conns' = conns \cup [by : {n}, to : new]
  BY DEF PerformGossipRound
<1> HIDE DEF new
<1>3. joins' \subseteq Join
  BY <1>1, <1>2, BroadcastTypes DEF TypeInv, Types
<1>4. conns' \subseteq Connection /\ \A k \in conns' : k.by # k.to
  BY <1>1, <1>2 DEF TypeInv, Types, NotItself, Connection
<1>5. since' \in [Node -> 0 .. GossipInterval]
  BY ClusterAssumption DEF PerformGossipRound, TypeInv, Types
<1> QED
  BY <1>3, <1>4, <1>5 DEF PerformGossipRound, TypeInv, Types, NotItself, regs, ghosts

\* What is due has been done, so no age and no ticker is at its limit.
LEMMA TickTypes ==
  ASSUME TypeInv, Tick
  PROVE  TypeInv'
<1>1. ASSUME NEW n \in Node, NEW m \in Node
      PROVE  age'[n][m] \in (0 .. HeartbeatTimeout) \cup {None}
  <2>1. age[n][m] \in (0 .. HeartbeatTimeout) \cup {None}
    BY DEF TypeInv, Types, Ages
  <2>2. Loops(n) => age[n][m] # HeartbeatTimeout
    BY DEF Tick, Stale
  <2>3. age'[n][m] = IF age[n][m] = None \/ ~Loops(n) THEN age[n][m]
                     ELSE IF Beats(m, n) THEN 0 ELSE age[n][m] + 1
    BY DEF Tick
  <2> QED
    BY <2>1, <2>2, <2>3, ClusterAssumption
<1>2. age' \in Ages
  BY <1>1 DEF Tick, Ages
<1>3. \A n \in Node : age'[n][n] = None
  BY DEF Tick, TypeInv, NotItself
<1>4. since' \in [Node -> 0 .. GossipInterval]
  <2>1. \A n \in Node : Loops(n) => since[n] # GossipInterval
    BY DEF Tick, GossipDue
  <2>2. since' = [n \in Node |-> IF Loops(n) THEN since[n] + 1 ELSE since[n]]
    BY DEF Tick
  <2> QED
    BY <2>1, <2>2, ClusterAssumption DEF TypeInv, Types
<1> QED
  BY <1>2, <1>3, <1>4 DEF Tick, TypeInv, Types, NotItself, relays, ghosts

LEMMA TellTypes ==
  ASSUME TypeInv, NEW n \in Node, NEW m \in Node, NEW registry \in Ages,
         \A x \in Node : registry[x][x] = None, TellDisconnect(n, m, registry)
  PROVE  /\ age' \in Ages /\ \A x \in Node : age'[x][x] = None
         /\ told' \subseteq Node \X Node
<1> DEFINE heard == [registry EXCEPT ![m][n] = None]
<1>1. heard \in Ages /\ \A x \in Node : heard[x][x] = None
  BY DEF Ages
<1>2. told \subseteq Node \X Node
  BY DEF TypeInv, Types
<1>3. \/ age' = heard /\ told' = told \cup {<<m, n>>}
      \/ age' = registry /\ told' = told
  BY DEF TellDisconnect
<1> HIDE DEF heard
<1> QED
  BY <1>1, <1>2, <1>3

LEMMA ExitsTypes ==
  ASSUME TypeInv, NEW n \in Node, Exits(n), events' \in 0 .. MaxEvents
  PROVE  TypeInv'
<1>1. age' \in Ages /\ \A x \in Node : age'[x][x] = None
  BY DEF Exits, TypeInv, Types, NotItself, Ages
<1>2. phase' \in [Node -> Phase]
  BY DEF Exits, TypeInv, Types, Phase
<1>3. since' \in [Node -> 0 .. GossipInterval]
  BY ClusterAssumption DEF Exits, TypeInv, Types
<1>4. /\ stream' \subseteq stream /\ conns' \subseteq conns
      /\ todo' \in [Node -> SUBSET Node] /\ UNCHANGED <<joins, joined, told>>
  BY DEF Exits, TypeInv, Types
<1> QED
  BY <1>1, <1>2, <1>3, <1>4 DEF TypeInv, Types, NotItself

LEMMA InitTypes == Init => TypeInv
<1> SUFFICES ASSUME Init PROVE TypeInv
  OBVIOUS
<1>1. since \in [Node -> 0 .. GossipInterval]
  BY ClusterAssumption DEF Init
<1>2. events \in 0 .. MaxEvents
  BY ClusterAssumption DEF Init
<1> QED
  BY <1>1, <1>2 DEF Init, TypeInv, Types, NotItself, Ages, Phase

LEMMA NextTypes == TypeInv /\ [Next]_vars => TypeInv'
<1> SUFFICES ASSUME TypeInv, [Next]_vars PROVE TypeInv'
  OBVIOUS
<1>1. ASSUME NEW n \in Node, NEW m \in Node, Handshake(n, m) PROVE TypeInv'
  BY <1>1, HandshakeTypes
<1>2. ASSUME NEW n \in Node, NEW m \in Node, DisconnectPeer(n, m) PROVE TypeInv'
  <2>1. age' \in Ages /\ (\A x \in Node : age'[x][x] = None) /\ told' \subseteq Node \X Node
    BY <1>2, UnregisteredTypes, TellTypes DEF DisconnectPeer
  <2>2. events' \in 0 .. MaxEvents
    BY <1>2, EventCounted DEF DisconnectPeer, TypeInv
  <2> QED
    BY <1>2, <2>1, <2>2 DEF DisconnectPeer, TypeInv, Types, NotItself, relays
<1>3. ASSUME NEW n \in Node, Stop(n) PROVE TypeInv'
  <2>1. events' \in 0 .. MaxEvents
    BY <1>3, EventCounted DEF Stop, TypeInv
  <2>2. List(n) \subseteq Node
    BY DEF List
  <2> QED
    BY <1>3, <2>1, <2>2 DEF Stop, TypeInv, Types, NotItself, regs, relays, Phase
<1>4. ASSUME NEW n \in Node, Crash(n) PROVE TypeInv'
  BY <1>4, EventCounted, ExitsTypes DEF Crash, TypeInv
<1>5. ASSUME NEW n \in Node, Freeze(n) PROVE TypeInv'
  <2>1. events' \in 0 .. MaxEvents
    BY <1>5, EventCounted DEF Freeze, TypeInv
  <2> QED
    BY <1>5, <2>1 DEF Freeze, TypeInv, Types, NotItself, regs, relays, Phase
<1>6. ASSUME NEW j \in joins, LoseJoin(j) PROVE TypeInv'
  <2>1. events' \in 0 .. MaxEvents
    BY <1>6, EventCounted DEF LoseJoin, TypeInv
  <2> QED
    BY <1>6, <2>1 DEF LoseJoin, TypeInv, Types, NotItself, regs
<1>7. ASSUME NEW j \in Join, NotifyNodeJoin(j) PROVE TypeInv'
  BY <1>7, NotifyTypes
<1>8. ASSUME NEW k \in Connection, ConnectToPeer(k) PROVE TypeInv'
  BY <1>8, ConnectTypes
<1>9. ASSUME Tick PROVE TypeInv'
  BY <1>9, TickTypes
<1>10. ASSUME NEW n \in Node, PerformGossipRound(n) PROVE TypeInv'
  BY <1>10, GossipTypes
<1>11. ASSUME NEW n \in Node, GracefulStop(n) PROVE TypeInv'
  <2>1. since' \in [Node -> 0 .. GossipInterval]
    BY <1>11, ClusterAssumption DEF GracefulStop, TypeInv, Types
  <2> QED
    BY <1>11, <2>1 DEF GracefulStop, TypeInv, Types, NotItself, regs, relays, ghosts, Phase
<1>12. ASSUME NEW n \in Node, CloseAll(n) PROVE TypeInv'
  BY <1>12, ExitsTypes DEF CloseAll, TypeInv, Types
<1>13. ASSUME NEW n \in Node, NEW m \in Node, CleanupStalePeer(n, m) PROVE TypeInv'
  <2>1. age' \in Ages /\ \A x \in Node : age'[x][x] = None
    BY <1>13, UnregisteredTypes DEF CleanupStalePeer
  <2> QED
    BY <1>13, <2>1 DEF CleanupStalePeer, TypeInv, Types, NotItself, relays, ghosts
<1>14. ASSUME NEW n \in Node, NEW m \in Node, RecvFails(n, m) PROVE TypeInv'
  <2>1. age' \in Ages /\ \A x \in Node : age'[x][x] = None
    BY <1>14, UnregisteredTypes DEF RecvFails
  <2> QED
    BY <1>14, <2>1 DEF RecvFails, TypeInv, Types, NotItself, relays, ghosts
<1>15. ASSUME NEW n \in Node, NEW m \in Node, SendDisconnect(n, m) PROVE TypeInv'
  <2>1. age \in Ages /\ \A x \in Node : age[x][x] = None
    BY DEF TypeInv, Types, NotItself
  <2>2. age' \in Ages /\ (\A x \in Node : age'[x][x] = None) /\ told' \subseteq Node \X Node
    BY <1>15, <2>1, TellTypes DEF SendDisconnect
  <2> QED
    BY <1>15, <2>2 DEF SendDisconnect, TypeInv, Types, NotItself, relays
<1>16. CASE UNCHANGED vars
  BY <1>16 DEF vars, regs, relays, ghosts, TypeInv, Types, NotItself
<1> QED
  BY <1>1, <1>2, <1>3, <1>4, <1>5, <1>6, <1>7, <1>8, <1>9, <1>10, <1>11, <1>12, <1>13,
     <1>14, <1>15, <1>16 DEF Next, Command, Environment, Relays

LEMMA SpecTypes == Spec => []TypeInv
BY InitTypes, NextTypes, PTL DEF Spec

\* Every state of the cluster is one of the types TypeOK lists; no node registers
\* itself or has a stream to itself, however joins are relayed and gossiped
\* (service.go NotifyNodeJoin, node.go performGossipRound).
THEOREM ClusterTyped == Spec => []TypeOK
<1>1. TypeInv => TypeOK
  BY DEF TypeInv, Types, NotItself, Ages, TypeOK
<1> QED
  BY <1>1, SpecTypes, PTL

-----------------------------------------------------------------------------
(* Streams and registrations.                                              *)

\* The peers a node lists once it has registered or unregistered one.
LEMMA ListAfter ==
  ASSUME TypeInv, NEW n \in Node, NEW m \in Node
  PROVE  /\ \A x, y \in Node : y \in List(x) => Refreshed(n, m)[x][y] # None
         /\ Refreshed(n, m)[n][m] # None
         /\ \A x, y \in Node : y \in List(x) /\ <<x, y>> # <<n, m>> => Unregistered(n, m)[x][y] # None
BY ClusterAssumption DEF TypeInv, Types, Ages, List, Refreshed, Unregistered

\* A step that makes no stream, drops one with the registration of its peer and
\* otherwise unregisters only where a Disconnect is handled.
LEMMA Heeded ==
  ASSUME UnheededStreamsTold, stream' \subseteq stream, told \subseteq told',
         \A x, y \in Node : <<x, y>> \in stream' /\ age[x][y] # None /\ <<x, y>> \notin told'
                            => age'[x][y] # None
  PROVE  UnheededStreamsTold'
BY DEF UnheededStreamsTold, List

\* The registry that a Disconnect of n leaves, where it is handled or fails.
LEMMA TellHeeded ==
  ASSUME NEW n \in Node, NEW m \in Node, NEW registry \in Ages, TellDisconnect(n, m, registry)
  PROVE  /\ told \subseteq told'
         /\ \A x, y \in Node : registry[x][y] # None /\ <<x, y>> \notin told' => age'[x][y] # None
<1> DEFINE heard == [registry EXCEPT ![m][n] = None]
<1>1. \A x, y \in Node : <<x, y>> # <<m, n>> => heard[x][y] = registry[x][y]
  BY DEF Ages
<1>2. \/ age' = heard /\ told' = told \cup {<<m, n>>}
      \/ age' = registry /\ told' = told
  BY DEF TellDisconnect
<1> HIDE DEF heard
<1> QED
  BY <1>1, <1>2

LEMMA NextHeeded == TypeInv /\ UnheededStreamsTold /\ [Next]_vars => UnheededStreamsTold'
<1> SUFFICES ASSUME TypeInv, UnheededStreamsTold, [Next]_vars PROVE UnheededStreamsTold'
  OBVIOUS
<1>a. age \in Ages
  BY DEF TypeInv, Types
<1>1. ASSUME NEW n \in Node, NEW m \in Node, Handshake(n, m) PROVE UnheededStreamsTold'
  <2>1. \A x, y \in Node : age[x][y] # None => age'[x][y] # None
    BY <1>a, <1>1, ClusterAssumption DEF Handshake, Ages
  <2> QED
    BY <1>1, <2>1, Heeded DEF Handshake
<1>2. ASSUME NEW n \in Node, NEW m \in Node, DisconnectPeer(n, m) PROVE UnheededStreamsTold'
  <2> DEFINE registry == Unregistered(n, m)
  <2>1. registry \in Ages /\ TellDisconnect(n, m, registry) /\ stream' = stream \ {<<n, m>>}
    BY <1>2, UnregisteredTypes DEF DisconnectPeer
  <2>2. \A x, y \in Node : age[x][y] # None /\ <<x, y>> # <<n, m>> => registry[x][y] # None
    BY ListAfter DEF List
  <2> HIDE DEF registry
  <2>3. /\ told \subseteq told'
        /\ \A x, y \in Node : registry[x][y] # None /\ <<x, y>> \notin told' => age'[x][y] # None
    BY <2>1, TellHeeded
  <2> QED
    BY <2>1, <2>2, <2>3, Heeded
<1>3. ASSUME NEW n \in Node, Stop(n) \/ Freeze(n) \/ GracefulStop(n) PROVE UnheededStreamsTold'
  BY <1>3, Heeded DEF Stop, Freeze, GracefulStop, regs, ghosts
<1>4. ASSUME NEW n \in Node, Crash(n) \/ CloseAll(n) PROVE UnheededStreamsTold'
  <2>1. Exits(n)
    BY <1>4 DEF Crash, CloseAll
  <2>2. \A x, y \in Node : x # n => age'[x][y] = age[x][y]
    BY <1>a, <2>1 DEF Exits, Ages
  <2>3. \A y \in Node : <<n, y>> \notin stream'
    BY <2>1 DEF Exits
  <2>4. stream' \subseteq stream /\ told' = told
    BY <2>1 DEF Exits
  <2> QED
    BY <2>2, <2>3, <2>4, Heeded
<1>5. ASSUME NEW j \in joins, LoseJoin(j) PROVE UnheededStreamsTold'
  BY <1>5, Heeded DEF LoseJoin, regs
<1>6. ASSUME NEW j \in Join, NotifyNodeJoin(j) PROVE UnheededStreamsTold'
  <2>1. age' = age \/ age' = Refreshed(j.to, j.new)
    BY <1>6 DEF NotifyNodeJoin
  <2>2. \A x, y \in Node : age[x][y] # None => age'[x][y] # None
    BY <2>1, ListAfter DEF Join, List
  <2> QED
    BY <1>6, <2>2, Heeded DEF NotifyNodeJoin, ghosts
<1>7. ASSUME NEW k \in Connection, ConnectToPeer(k) PROVE UnheededStreamsTold'
  <2>0. k.by \in Node /\ k.to \in Node
    BY DEF Connection
  <2>1. CASE UNCHANGED regs
    BY <1>7, <2>1, Heeded DEF ConnectToPeer, regs, ghosts
  <2>2. CASE stream' = stream \cup {<<k.by, k.to>>} /\ age' = Refreshed(k.by, k.to)
    <3>1. \A x, y \in Node : age[x][y] # None \/ <<x, y>> = <<k.by, k.to>> => age'[x][y] # None
      BY <2>0, <2>2, ListAfter DEF List
    <3> QED
      BY <1>7, <2>2, <3>1 DEF ConnectToPeer, UnheededStreamsTold, List, ghosts
  <2> QED
    BY <1>7, <2>1, <2>2 DEF ConnectToPeer
<1>8. ASSUME Tick PROVE UnheededStreamsTold'
  <2>1. ASSUME NEW x \in Node, NEW y \in Node, age[x][y] # None PROVE age'[x][y] # None
    <3>1. age[x][y] \in 0 .. HeartbeatTimeout
      BY <1>a, <2>1 DEF Ages
    <3>2. Loops(x) => age[x][y] # HeartbeatTimeout
      BY <1>8 DEF Tick, Stale
    <3>3. age'[x][y] = IF age[x][y] = None \/ ~Loops(x) THEN age[x][y]
                       ELSE IF Beats(y, x) THEN 0 ELSE age[x][y] + 1
      BY <1>8 DEF Tick
    <3> QED
      BY <2>1, <3>1, <3>2, <3>3, ClusterAssumption
  <2> QED
    BY <1>8, <2>1, Heeded DEF Tick, ghosts
<1>9. ASSUME NEW n \in Node, PerformGossipRound(n) PROVE UnheededStreamsTold'
  <2>1. UNCHANGED <<age, stream, told>>
    BY <1>9 DEF PerformGossipRound, regs, ghosts
  <2> QED
    BY <2>1, Heeded
<1>10. ASSUME NEW n \in Node, NEW m \in Node, CleanupStalePeer(n, m) \/ RecvFails(n, m)
       PROVE  UnheededStreamsTold'
  <2>1. age' = Unregistered(n, m) /\ stream' = stream \ {<<n, m>>} /\ told' = told
    BY <1>10 DEF CleanupStalePeer, RecvFails, ghosts
  <2>2. \A x, y \in Node : age[x][y] # None /\ <<x, y>> # <<n, m>> => age'[x][y] # None
    BY <2>1, ListAfter DEF List
  <2> QED
    BY <2>1, <2>2, Heeded
<1>11. ASSUME NEW n \in Node, NEW m \in Node, SendDisconnect(n, m) PROVE UnheededStreamsTold'
  <2>1. TellDisconnect(n, m, age) /\ stream' = stream
    BY <1>11 DEF SendDisconnect
  <2> QED
    BY <1>a, <2>1, TellHeeded, Heeded
<1>12. CASE UNCHANGED vars
  BY <1>12, Heeded DEF vars, regs, ghosts
<1> QED
  BY <1>1, <1>2, <1>3, <1>4, <1>5, <1>6, <1>7, <1>8, <1>9, <1>10, <1>11, <1>12
     DEF Next, Command, Environment, Relays

\* A node that keeps a stream to a peer it has not registered, and so never finds
\* stale, has handled a Disconnect of that peer, which unregisters it and leaves
\* the stream open (service.go Disconnect): cleaner, receive loop, disconnect
\* command and exit all drop the stream with the registration.
THEOREM UnheededOnlyWhenTold == Spec => []UnheededStreamsTold
<1>1. Init => UnheededStreamsTold
  BY DEF Init, UnheededStreamsTold
<1> QED
  BY <1>1, NextHeeded, SpecTypes, PTL DEF Spec

-----------------------------------------------------------------------------
(* Networks stay apart until they are joined.                              *)

\* n and m are on the same side of S.
Same(S, n, m) == n \in S <=> m \in S

\* Nothing a node knows, is told or is to connect to crosses the border of S.
Apart(S) ==
  /\ \A n, m \in Node : age[n][m] # None => Same(S, n, m)
  /\ \A n, m \in Node : <<n, m>> \in stream => Same(S, n, m)
  /\ \A j \in joins : Same(S, j.to, j.new)
  /\ \A k \in conns : Same(S, k.by, k.to)

\* Who is told of m by n, or connected to m by n, is on m's side if n is.
LEMMA BroadcastApart ==
  ASSUME NEW S, Apart(S), NEW n \in Node, NEW m \in Node, Same(S, n, m)
  PROVE  /\ \A j \in Broadcast(n, m, List(n)) : Same(S, j.to, j.new)
         /\ \A k \in AutoConnect(n, m) : Same(S, k.by, k.to)
BY DEF Broadcast, AutoConnect, List, Apart, Same

LEMMA RefreshedApart ==
  ASSUME TypeInv, NEW S, Apart(S), NEW n \in Node, NEW m \in Node, Same(S, n, m)
  PROVE  \A x, y \in Node : Refreshed(n, m)[x][y] # None => Same(S, x, y)
BY DEF TypeInv, Types, Ages, Apart, Refreshed

\* A step that only forgets.
LEMMA ForgetApart ==
  ASSUME NEW S, Apart(S), stream' \subseteq stream, joins' \subseteq joins, conns' \subseteq conns,
         \A x, y \in Node : age'[x][y] # None => age[x][y] # None
  PROVE  Apart(S)'
BY DEF Apart, Same

LEMMA TellForgets ==
  ASSUME NEW n \in Node, NEW m \in Node, NEW registry \in Ages, TellDisconnect(n, m, registry)
  PROVE  \A x, y \in Node : age'[x][y] # None => registry[x][y] # None
<1> DEFINE heard == [registry EXCEPT ![m][n] = None]
<1>1. \A x, y \in Node : heard[x][y] # None => registry[x][y] # None
  BY DEF Ages
<1>2. age' = heard \/ age' = registry
  BY DEF TellDisconnect
<1> HIDE DEF heard
<1> QED
  BY <1>1, <1>2

LEMMA UnregisteredForgets ==
  ASSUME TypeInv, NEW n \in Node, NEW m \in Node
  PROVE  \A x, y \in Node : Unregistered(n, m)[x][y] # None => age[x][y] # None
BY DEF TypeInv, Types, Ages, Unregistered

LEMMA HandshakeApart ==
  ASSUME TypeInv, NEW S, Apart(S), NEW n \in Node, NEW s \in Node, Handshake(n, s), Network(S)'
  PROVE  Apart(S)'
<1>1. Same(S, n, s) /\ Same(S, s, n)
  BY DEF Handshake, Network, Same
<1>2. \A x, y \in Node : age'[x][y] # None => Same(S, x, y)
  BY <1>1, ClusterAssumption DEF Handshake, TypeInv, Types, Ages, Apart
<1>3. \A j \in joins' : Same(S, j.to, j.new)
  BY <1>1, BroadcastApart DEF Handshake, Apart
<1>4. \A k \in conns' : Same(S, k.by, k.to)
  <2> DEFINE found == [by : {n}, to : (List(s) \cup {s}) \ {n}]
  <2>1. \A k \in found : Same(S, k.by, k.to)
    BY <1>1 DEF List, Apart, Same
  <2>2. conns' = conns \cup AutoConnect(s, n) \cup found
    BY DEF Handshake
  <2> QED
    BY <1>1, <2>1, <2>2, BroadcastApart DEF Apart
<1> QED
  BY <1>2, <1>3, <1>4 DEF Handshake, Apart, Same

LEMMA NotifyApart ==
  ASSUME TypeInv, NEW S, Apart(S), NEW j \in Join, NotifyNodeJoin(j)
  PROVE  Apart(S)'
<1>1. j.to \in Node /\ j.new \in Node /\ Same(S, j.to, j.new)
  BY DEF Join, NotifyNodeJoin, Apart
<1>2. \A x, y \in Node : age'[x][y] # None => Same(S, x, y)
  <2>1. age' = age \/ age' = Refreshed(j.to, j.new)
    BY DEF NotifyNodeJoin
  <2>2. \A x, y \in Node : Refreshed(j.to, j.new)[x][y] # None => Same(S, x, y)
    BY <1>1, RefreshedApart
  <2> QED
    BY <2>1, <2>2 DEF Apart
<1>3. \A i \in joins' : Same(S, i.to, i.new)
  BY <1>1, BroadcastApart DEF NotifyNodeJoin, Apart
<1>4. \A k \in conns' : Same(S, k.by, k.to)
  BY <1>1, BroadcastApart DEF NotifyNodeJoin, Apart
<1> QED
  BY <1>2, <1>3, <1>4 DEF NotifyNodeJoin, Apart, Same

LEMMA ConnectApart ==
  ASSUME TypeInv, NEW S, Apart(S), NEW k \in Connection, ConnectToPeer(k)
  PROVE  Apart(S)'
<1>1. k.by \in Node /\ k.to \in Node /\ Same(S, k.by, k.to)
  BY DEF Connection, ConnectToPeer, Apart
<1>2. CASE UNCHANGED regs
  BY <1>2, ForgetApart DEF ConnectToPeer, regs
<1>3. CASE stream' = stream \cup {<<k.by, k.to>>} /\ age' = Refreshed(k.by, k.to)
  <2>1. \A x, y \in Node : age'[x][y] # None => Same(S, x, y)
    BY <1>1, <1>3, RefreshedApart
  <2>2. \A x, y \in Node : <<x, y>> \in stream' => Same(S, x, y)
    BY <1>1, <1>3 DEF Apart
  <2> QED
    BY <2>1, <2>2 DEF ConnectToPeer, Apart, Same
<1> QED
  BY <1>2, <1>3 DEF ConnectToPeer

\* n is told by m, on its side, of peers of m, on m's.
LEMMA GossipApart ==
  ASSUME TypeInv, NEW S, Apart(S), NEW n \in Node, PerformGossipRound(n)
  PROVE  Apart(S)'
<1> DEFINE asked == {m \in Node : <<n, m>> \in stream /\ Serves(m)}
           new == (UNION {List(m) : m \in asked}) \ (List(n) \cup {n})
<1>1. \A x \in new : x \in Node /\ Same(S, n, x)
  <2>1. \A m \in asked : m \in Node /\ Same(S, n, m)
    BY DEF Apart
  <2>2. \A m \in Node : \A x \in List(m) : x \in Node /\ Same(S, m, x)
    BY DEF Apart, List
  <2>3. \A x \in new : \E m \in asked : x \in List(m)
    OBVIOUS
  <2> HIDE DEF asked, new
  <2> QED
    BY <2>1, <2>2, <2>3 DEF Same
<1>2. /\ joins' = joins \cup UNION {Broadcast(n, m, List(n)) : m \in new}
      /\ conns' = conns \cup [by : {n}, to : new]
      /\ UNCHANGED regs
  BY DEF PerformGossipRound
<1> HIDE DEF new
<1>3. \A j \in joins' : Same(S, j.to, j.new)
  BY <1>1, <1>2, BroadcastApart DEF Apart
<1>4. \A k \in conns' : Same(S, k.by, k.to)
  BY <1>1, <1>2 DEF Apart
<1> QED
  BY <1>2, <1>3, <1>4 DEF Apart, Same, regs

LEMMA NextApart ==
  ASSUME TypeInv, NEW S, Apart(S), [Next]_vars, Network(S)'
  PROVE  Apart(S)'
<1>a. age \in Ages
  BY DEF TypeInv, Types
<1>1. ASSUME NEW n \in Node, NEW m \in Node, Handshake(n, m) PROVE Apart(S)'
  BY <1>1, HandshakeApart
<1>2. ASSUME NEW n \in Node, NEW m \in Node, DisconnectPeer(n, m) PROVE Apart(S)'
  <2>1. Unregistered(n, m) \in Ages /\ TellDisconnect(n, m, Unregistered(n, m))
    BY <1>2, UnregisteredTypes DEF DisconnectPeer
  <2>2. \A x, y \in Node : age'[x][y] # None => age[x][y] # None
    BY <2>1, TellForgets, UnregisteredForgets
  <2> QED
    BY <1>2, <2>2, ForgetApart DEF DisconnectPeer, relays
<1>3. ASSUME NEW n \in Node, Stop(n) \/ Freeze(n) \/ GracefulStop(n) PROVE Apart(S)'
  BY <1>3, ForgetApart DEF Stop, Freeze, GracefulStop, regs, relays
<1>4. ASSUME NEW n \in Node, Crash(n) \/ CloseAll(n) PROVE Apart(S)'
  <2>1. Exits(n)
    BY <1>4 DEF Crash, CloseAll
  <2>2. \A x, y \in Node : age'[x][y] # None => age[x][y] # None
    BY <1>a, <2>1 DEF Exits, Ages
  <2> QED
    BY <2>1, <2>2, ForgetApart DEF Exits
<1>5. ASSUME NEW j \in joins, LoseJoin(j) PROVE Apart(S)'
  BY <1>5, ForgetApart DEF LoseJoin, regs
<1>6. ASSUME NEW j \in Join, NotifyNodeJoin(j) PROVE Apart(S)'
  BY <1>6, NotifyApart
<1>7. ASSUME NEW k \in Connection, ConnectToPeer(k) PROVE Apart(S)'
  BY <1>7, ConnectApart
<1>8. ASSUME Tick PROVE Apart(S)'
  <2>1. \A x, y \in Node : age'[x][y] # None => age[x][y] # None
    BY <1>8 DEF Tick
  <2> QED
    BY <1>8, <2>1, ForgetApart DEF Tick, relays
<1>9. ASSUME NEW n \in Node, PerformGossipRound(n) PROVE Apart(S)'
  BY <1>9, GossipApart
<1>10. ASSUME NEW n \in Node, NEW m \in Node, CleanupStalePeer(n, m) \/ RecvFails(n, m)
       PROVE  Apart(S)'
  <2>1. \A x, y \in Node : age'[x][y] # None => age[x][y] # None
    BY <1>10, UnregisteredForgets DEF CleanupStalePeer, RecvFails
  <2> QED
    BY <1>10, <2>1, ForgetApart DEF CleanupStalePeer, RecvFails, relays
<1>11. ASSUME NEW n \in Node, NEW m \in Node, SendDisconnect(n, m) PROVE Apart(S)'
  <2>1. \A x, y \in Node : age'[x][y] # None => age[x][y] # None
    BY <1>a, <1>11, TellForgets DEF SendDisconnect
  <2> QED
    BY <1>11, <2>1, ForgetApart DEF SendDisconnect, relays
<1>12. CASE UNCHANGED vars
  BY <1>12, ForgetApart DEF vars, regs, relays
<1> QED
  BY <1>1, <1>2, <1>3, <1>4, <1>5, <1>6, <1>7, <1>8, <1>9, <1>10, <1>11, <1>12
     DEF Next, Command, Environment, Relays

\* Nobody leaves joined.
LEMMA JoinedGrows ==
  ASSUME [Next]_vars
  PROVE  joined \subseteq joined'
BY DEF Next, Command, Environment, Relays, vars, ghosts, Handshake, DisconnectPeer, Stop, Crash,
       Freeze, LoseJoin, NotifyNodeJoin, ConnectToPeer, Tick, PerformGossipRound, GracefulStop,
       CloseAll, Exits, CleanupStalePeer, RecvFails, SendDisconnect

AllApart == \A S \in SUBSET Node : Network(S) => Apart(S)

\* What a node knows spreads along handshakes only: relays (service.go
\* NotifyNodeJoin), gossip (node.go performGossipRound) and auto-connect never
\* register or connect a node of another network, one that nobody of this one
\* has joined and that has joined nobody of it.
THEOREM NoLeakBetweenNetworks == Spec => []NetworksApart
<1>1. Init => AllApart
  BY DEF Init, AllApart, Apart
<1>2. TypeInv /\ AllApart /\ [Next]_vars => AllApart'
  <2> SUFFICES ASSUME TypeInv, AllApart, [Next]_vars, NEW S \in SUBSET Node, Network(S)'
               PROVE  Apart(S)'
    BY DEF AllApart
  <2>1. Network(S)
    BY JoinedGrows DEF Network
  <2> QED
    BY <2>1, NextApart DEF AllApart
<1>3. AllApart => NetworksApart
  BY DEF AllApart, Apart, Same, NetworksApart, List
<1> QED
  BY <1>1, <1>2, <1>3, SpecTypes, PTL DEF Spec
=============================================================================
