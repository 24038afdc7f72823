------------------------------ MODULE Cluster ------------------------------
(***************************************************************************)
(* Several p2pnode processes: who has registered whom, how nodes hear of   *)
(* each other (handshakes, relayed joins, gossip), how a silent peer is    *)
(* forgotten, and how a process stops.                                     *)
(*                                                                         *)
(*   membership handlers      internal/membership/application/service.go   *)
(*   loops, relays and Stop   internal/node/node.go                        *)
(*   handshake and connect    internal/client/client.go, discovery.go      *)
(*   auto-connect, Run        cmd/p2pnode/root/root.go                     *)
(*                                                                         *)
(* A step is one remote call with its handler, or one step of a loop.  The *)
(* interleavings inside a node are the subject of module Node, which has   *)
(* one node and leaves the others to the environment.                      *)
(*                                                                         *)
(* Time.  A tick is long against HeartbeatInterval and the timeouts of the *)
(* calls (1 to 5 seconds), so within one the heartbeats are exchanged and  *)
(* the relays and connections under way end.  The gossip loop and the      *)
(* cleaner are on tickers: neither is a tick late, in either order.        *)
(***************************************************************************)
EXTENDS Integers, FiniteSets

CONSTANTS
  Node,
  SeedOf,             \* the node whose address each process is started with; or None
  HeartbeatTimeout,   \* in ticks
  GossipInterval,     \* in ticks
  Workload,           \* what users and the environment may do
  MaxEvents,          \* bound: how often they do it, joins apart
  None

ASSUME ClusterAssumption ==
  /\ SeedOf \in [Node -> Node \cup {None}]
  /\ \A n \in Node : SeedOf[n] # n
  /\ HeartbeatTimeout \in Nat \ {0}
  /\ GossipInterval \in Nat \ {0}
  /\ MaxEvents \in Nat
  /\ None \notin Node \cup (0 .. HeartbeatTimeout)

VARIABLES
  phase,     \* of each process
  age,       \* age[n][m]: ticks since n's lastActive of m; None: not registered
  stream,    \* <<n, m>>: n's pool has a stream that m serves
  joins,     \* notifySinglePeerJoin goroutines: tell node to of node new
  conns,     \* connections to be made: node by to node to
  todo,      \* the peers a leaving node has yet to send Disconnect
  since,     \* ticks since the last gossip round of each node
  joined,    \* nodes whose seed connection was made
  told,      \* <<m, n>>: m has handled a Disconnect of n
  events     \* what users and the environment have done

regs == <<age, stream>>
relays == <<joins, conns>>
ghosts == <<joined, told, events>>
vars == <<phase, regs, relays, todo, since, ghosts>>

\* leaving: in the loop of Stop.  graceful: in GracefulStop.  frozen: suspended;
\* its connections stay open and nobody answers on them.
Phase == {"running", "leaving", "graceful", "gone", "frozen"}

Join == [to : Node, new : Node]
Connection == [by : Node, to : Node]

TypeOK ==
  /\ phase \in [Node -> Phase]
  /\ age \in [Node -> [Node -> (0 .. HeartbeatTimeout) \cup {None}]]
  /\ stream \subseteq Node \X Node
  /\ joins \subseteq Join /\ conns \subseteq Connection
  /\ todo \in [Node -> SUBSET Node]
  /\ since \in [Node -> 0 .. GossipInterval]
  /\ joined \subseteq Node /\ told \subseteq Node \X Node
  /\ events \in 0 .. MaxEvents
  /\ \A n \in Node : age[n][n] = None /\ <<n, n>> \notin stream

Init ==
  /\ phase = [n \in Node |-> "running"]
  /\ age = [n \in Node |-> [m \in Node |-> None]]
  /\ stream = {}
  /\ joins = {} /\ conns = {}
  /\ todo = [n \in Node |-> {}]
  /\ since \in [Node -> 0 .. GossipInterval - 1]   \* the processes start at any time
  /\ joined = {} /\ told = {}
  /\ events = 0

-----------------------------------------------------------------------------
(* A node and its registry.                                                *)

\* Its gRPC server takes calls: until GracefulStop.
Serves(n) == phase[n] \in {"running", "leaving"}

\* Its loops run: until close(stopChan).
Loops(n) == phase[n] \in {"running", "leaving"}

\* Its goroutines run.
Alive(n) == phase[n] \in {"running", "leaving", "graceful"}

List(n) == {m \in Node : age[n][m] # None}

\* age after n registers m or hears of it, and after n unregisters m.
Refreshed(n, m) == [age EXCEPT ![n][m] = 0]
Unregistered(n, m) == [age EXCEPT ![n][m] = None]

\* broadcastNodeJoin of node m by node n, whose registry lists others.
Broadcast(n, m, others) == [to : others \ {n, m}, new : {m}]

\* Auto-connect of the peer_discovered subscriber.
AutoConnect(n, m) == IF n = m THEN {} ELSE {[by |-> n, to |-> m]}

Event(e) ==
  /\ e \in Workload
  /\ events < MaxEvents
  /\ events' = events + 1

-----------------------------------------------------------------------------
(* Joining, relaying, connecting.                                          *)

\* Mutant: the answer also lists the address the seed was started with.
HandshakeTellsSeed(n, s) ==
  /\ s = SeedOf[n] /\ Serves(s)
  /\ n \notin joined /\ phase[n] = "running"
  /\ age' = [age EXCEPT ![s][n] = 0, ![n][s] = 0]
  /\ joins' = joins \cup Broadcast(s, n, List(s))
  /\ conns' = conns \cup AutoConnect(s, n)
                    \cup [by : {n}, to : (List(s) \cup {s, SeedOf[s]}) \ {n, None}]
  /\ joined' = joined \cup {n}
  /\ UNCHANGED <<phase, stream, todo, since, told, events>>

\* HandshakeAndConnect with its seed: s registers n and emits peer_discovered, then n registers
\* s and is to connect to the peers s lists and to s.
Handshake(n, s) ==
  /\ s = SeedOf[n] /\ Serves(s)
  /\ n \notin joined /\ phase[n] = "running"
  /\ age' = [age EXCEPT ![s][n] = 0, ![n][s] = 0]
  /\ joins' = joins \cup Broadcast(s, n, List(s))
  /\ conns' = conns \cup AutoConnect(s, n)
                    \cup [by : {n}, to : (List(s) \cup {s}) \ {n}]
  /\ joined' = joined \cup {n}
  /\ UNCHANGED <<phase, stream, todo, since, told, events>>

\* Mutant: a known node is announced again.
RelayKnown(j) ==
  /\ j \in joins
  /\ IF Serves(j.to) /\ j.to # j.new
     THEN /\ age' = Refreshed(j.to, j.new)
          /\ joins' = (joins \ {j}) \cup Broadcast(j.to, j.new, List(j.to))
          /\ conns' = conns \cup AutoConnect(j.to, j.new)
     ELSE /\ joins' = joins \ {j}
          /\ UNCHANGED <<age, conns>>
  /\ UNCHANGED <<phase, stream, todo, since, ghosts>>

\* NotifyNodeJoin at j.to, or the call fails: nobody serves it.
NotifyNodeJoin(j) ==
  /\ j \in joins
  /\ IF Serves(j.to) /\ j.to # j.new
     THEN /\ age' = Refreshed(j.to, j.new)
          /\ IF j.new \in List(j.to)
             THEN joins' = joins \ {j} /\ UNCHANGED conns
             ELSE /\ joins' = (joins \ {j}) \cup Broadcast(j.to, j.new, List(j.to))
                  /\ conns' = conns \cup AutoConnect(j.to, j.new)
     ELSE /\ joins' = joins \ {j}
          /\ UNCHANGED <<age, conns>>
  /\ UNCHANGED <<phase, stream, todo, since, ghosts>>

\* A call that times out is not repeated.
LoseJoin(j) ==
  /\ j \in joins
  /\ Event("lose")
  /\ joins' = joins \ {j}
  /\ UNCHANGED <<phase, regs, conns, todo, since, joined, told>>

\* Mutant: the peer is connected and not registered.
ConnectOnly(k) ==
  /\ k \in conns
  /\ conns' = conns \ {k}
  /\ stream' = IF Alive(k.by) /\ (<<k.by, k.to>> \in stream \/ Serves(k.to))
               THEN stream \cup {<<k.by, k.to>>} ELSE stream
  /\ UNCHANGED <<phase, age, joins, todo, since, ghosts>>

\* One peer of ConnectToPeers: a pooled stream is taken as it is, else the peer
\* must serve a new one; then it is registered.
ConnectToPeer(k) ==
  /\ k \in conns
  /\ conns' = conns \ {k}
  /\ IF Alive(k.by) /\ (<<k.by, k.to>> \in stream \/ Serves(k.to))
     THEN /\ stream' = stream \cup {<<k.by, k.to>>}
          /\ age' = Refreshed(k.by, k.to)
     ELSE UNCHANGED regs
  /\ UNCHANGED <<phase, joins, todo, since, ghosts>>

-----------------------------------------------------------------------------
(* The loops.                                                              *)

\* The gossip ticker of n has fired.
GossipDue(n) == Loops(n) /\ since[n] = GossipInterval

\* A round: every peer n has a stream to and that serves is asked, and each node
\* n has not registered is emitted; it is not registered.
PerformGossipRound(n) ==
  /\ GossipDue(n)
  /\ LET asked == {m \in Node : <<n, m>> \in stream /\ Serves(m)}
         new == (UNION {List(m) : m \in asked}) \ (List(n) \cup {n})
     IN  /\ joins' = joins \cup UNION {Broadcast(n, m, List(n)) : m \in new}
         /\ conns' = conns \cup [by : {n}, to : new]
  /\ since' = [since EXCEPT ![n] = 0]
  /\ UNCHANGED <<phase, regs, todo, ghosts>>

\* Mutant: GetStale is one interval late.
StaleLate(n, m) == Loops(n) /\ age[n][m] = HeartbeatTimeout + 1

\* m is in n's GetStale, or is about to be.
Stale(n, m) == Loops(n) /\ age[n][m] = HeartbeatTimeout

\* Mutant: the stream is left in the pool.
CleanupKeepsStream(n, m) ==
  /\ Stale(n, m)
  /\ age' = Unregistered(n, m)
  /\ UNCHANGED <<phase, stream, relays, todo, since, ghosts>>

\* Mutant: a peer whose stream is open is taken for alive.
CleanerTrustsStream(n, m) ==
  /\ Stale(n, m)
  /\ age' = IF <<n, m>> \in stream THEN Refreshed(n, m) ELSE Unregistered(n, m)
  /\ UNCHANGED <<phase, stream, relays, todo, since, ghosts>>

\* n's cleaner unregisters m and closes what the pool has for its address.
CleanupStalePeer(n, m) ==
  /\ Stale(n, m)
  /\ age' = Unregistered(n, m)
  /\ stream' = stream \ {<<n, m>>}
  /\ UNCHANGED <<phase, relays, todo, since, ghosts>>

\* m's heartbeats reach n, which only refreshes peers it has registered.
Beats(m, n) == Loops(m) /\ n \in List(m) /\ Serves(n)

\* A tick: what is due has been done.
Tick ==
  /\ joins = {} /\ conns = {}
  /\ \A n \in Node : ~GossipDue(n) /\ \A m \in Node : ~Stale(n, m)
  /\ age' = [n \in Node |-> [m \in Node |->
               IF age[n][m] = None \/ ~Loops(n) THEN age[n][m]
               ELSE IF Beats(m, n) THEN 0 ELSE age[n][m] + 1]]
  /\ since' = [n \in Node |-> IF Loops(n) THEN since[n] + 1 ELSE since[n]]
  /\ UNCHANGED <<phase, stream, relays, todo, ghosts>>

\* The stream of a process that is gone fails: recvPeerMessageLoop.
RecvFails(n, m) ==
  /\ <<n, m>> \in stream
  /\ Alive(n) /\ phase[m] = "gone"
  /\ stream' = stream \ {<<n, m>>}
  /\ age' = Unregistered(n, m)
  /\ UNCHANGED <<phase, relays, todo, since, ghosts>>

-----------------------------------------------------------------------------
(* Disconnecting and stopping.                                             *)

\* sendDisconnectToPeer: m unregisters n and keeps its stream to n; or the call
\* fails.
TellDisconnect(n, m, registry) ==
  \/ Serves(m) /\ age' = [registry EXCEPT ![m][n] = None] /\ told' = told \cup {<<m, n>>}
  \/ age' = registry /\ UNCHANGED told

\* A user's command at n.
DisconnectPeer(n, m) ==
  /\ Event("disconnect")
  /\ phase[n] = "running" /\ m \in List(n)
  /\ TellDisconnect(n, m, Unregistered(n, m))
  /\ stream' = stream \ {<<n, m>>}
  /\ UNCHANGED <<phase, relays, todo, since, joined>>

\* The console ends, Run's context is done: Stop begins.
Stop(n) ==
  /\ Event("stop")
  /\ phase[n] = "running"
  /\ phase' = [phase EXCEPT ![n] = "leaving"]
  /\ todo' = [todo EXCEPT ![n] = List(n)]
  /\ UNCHANGED <<regs, relays, since, joined, told>>

SendDisconnect(n, m) ==
  /\ phase[n] = "leaving" /\ m \in todo[n]
  /\ TellDisconnect(n, m, age)
  /\ todo' = [todo EXCEPT ![n] = @ \ {m}]
  /\ UNCHANGED <<phase, stream, relays, since, joined, events>>

\* close(stopChan), and GracefulStop takes no more calls.
GracefulStop(n) ==
  /\ phase[n] = "leaving" /\ todo[n] = {}
  /\ phase' = [phase EXCEPT ![n] = "graceful"]
  /\ since' = [since EXCEPT ![n] = 0]
  /\ UNCHANGED <<regs, relays, todo, ghosts>>

\* Streams into n that its server still serves.
Inbound(n) == {m \in Node : <<m, n>> \in stream /\ phase[m] # "gone"}

\* The process of n and its memory are gone, its connections close.
Exits(n) ==
  /\ phase' = [phase EXCEPT ![n] = "gone"]
  /\ age' = [age EXCEPT ![n] = [m \in Node |-> None]]
  /\ stream' = stream \ ({n} \X Node)
  /\ conns' = {k \in conns : k.by # n}
  /\ todo' = [todo EXCEPT ![n] = {}]
  /\ since' = [since EXCEPT ![n] = 0]
  /\ UNCHANGED <<joins, joined, told>>

\* GracefulStop has seen the last stream end; CloseAll, and the process exits.
CloseAll(n) ==
  /\ phase[n] = "graceful" /\ Inbound(n) = {}
  /\ Exits(n)
  /\ UNCHANGED events

\* The environment: a process is killed, a host is cut off.
Crash(n) ==
  /\ Event("crash")
  /\ phase[n] # "gone"
  /\ Exits(n)

Freeze(n) ==
  /\ Event("freeze")
  /\ phase[n] = "running"
  /\ phase' = [phase EXCEPT ![n] = "frozen"]
  /\ UNCHANGED <<regs, relays, todo, since, joined, told>>

-----------------------------------------------------------------------------
Command ==
  \/ \E n, m \in Node : Handshake(n, m) \/ DisconnectPeer(n, m)
  \/ \E n \in Node : Stop(n)

Environment ==
  \/ \E n \in Node : Crash(n) \/ Freeze(n)
  \/ \E j \in joins : LoseJoin(j)

Relays == (\E j \in Join : NotifyNodeJoin(j)) \/ (\E k \in Connection : ConnectToPeer(k))

Next ==
  \/ Command \/ Environment \/ Relays \/ Tick
  \/ \E n \in Node : PerformGossipRound(n) \/ GracefulStop(n) \/ CloseAll(n)
  \/ \E n, m \in Node : CleanupStalePeer(n, m) \/ RecvFails(n, m) \/ SendDisconnect(n, m)

Spec == Init /\ [][Next]_vars

(***************************************************************************)
(* Calls and goroutines end, the tickers tick.  Users and the environment  *)
(* owe nothing.  The cleaner is due at every tick, but so may the gossip   *)
(* round be that refreshes a peer just before the cleaner looks: the       *)
(* phases of the two tickers never change, so weak fairness is all that    *)
(* can be said.                                                            *)
(***************************************************************************)
FairSpec ==
  /\ Spec
  /\ WF_vars(Tick) /\ WF_vars(Relays)
  /\ \A n \in Node : WF_vars(PerformGossipRound(n)) /\ WF_vars(GracefulStop(n)) /\ WF_vars(CloseAll(n))
  /\ \A n, m \in Node :
       WF_vars(CleanupStalePeer(n, m)) /\ WF_vars(RecvFails(n, m)) /\ WF_vars(SendDisconnect(n, m))

-----------------------------------------------------------------------------
(* Properties.                                                             *)

\* A node heeds the streams to the peers it has registered: its cleaner closes
\* them when the peer falls silent.  A stream to any other was left open by a
\* Disconnect of that peer, and by nothing else.
UnheededStreamsTold ==
  \A n, m \in Node : <<n, m>> \in stream /\ m \notin List(n) => <<n, m>> \in told

\* Nodes that no node outside has joined, and of which none has joined outside.
Network(S) == \A n \in joined : n \in S <=> SeedOf[n] \in S

\* Relays, gossip and auto-connect carry what a node knows to whoever it knows,
\* and no further: before a node of one joins the other, two networks neither
\* register nor connect each other's nodes.
NetworksApart ==
  \A S \in SUBSET Node : Network(S) =>
    \A n, m \in Node : m \in List(n) \/ <<n, m>> \in stream => (n \in S <=> m \in S)

\* A node that knows every other and that every other knows, while all run.
Hub(h) ==
  /\ \A n \in Node : phase[n] = "running"
  /\ \A n \in Node \ {h} : n \in List(h) /\ h \in List(n)

\* As long as some node is in touch with all others, gossip brings back what is
\* missing: each learns of each again and again, whatever relay was lost and
\* whoever was disconnected or timed out.
Rediscovers ==
  ([]<>(\E h \in Node : Hub(h))) => \A n, m \in Node : []<>(n = m \/ m \in List(n))

\* More than that, all come to know each other and stay so.  With a gossip
\* interval equal to the timeout the code does not have this property: README.
Converges ==
  ([]<>(\E h \in Node : Hub(h))) => <>[](\A h \in Node : Hub(h))

\* The relays of a join die out (docs/DDD_TUTORIAL.md, 7.4): time goes on.
RelaysDieOut == []<>(joins = {} /\ conns = {})

\* A process that sends no heartbeats any more.
Absent(n) == phase[n] \in {"graceful", "gone", "frozen"}

\* cleanupStalePeers "removes peers that haven't sent a heartbeat recently"
\* (node.go:469): a process that stops, dies or is cut off is forgotten by every
\* node that runs, whatever the others still tell of it.  The code
\* does not have this property: README.
GoneForgotten ==
  <>[](\A n, m \in Node : phase[n] = "running" /\ Absent(m) => m \notin List(n))

\* Somebody is telling somebody of m.
Rumoured(m) == \E j \in joins : j.new = m

\* Nothing but rumours keeps an absent process registered: neither a stream that
\* is still open to it, nor a connection that auto-connect makes, nor gossip.
ForgottenUnlessRumoured ==
  \A m \in Node :
    <>[](Absent(m) /\ ~Rumoured(m)) =>
      <>[](\A n \in Node : phase[n] = "running" => m \notin List(n))

\* A peer that keeps its stream to n open: it has heard that n leaves, so its
\* cleaner does not look for n any more, or it does not run.
Holds(m, n) == m \in Inbound(n) /\ (<<m, n>> \in told \/ phase[m] # "running")

\* Once nobody tells of n any more, its GracefulStop waits for such peers only:
\* those the Disconnect did not reach find n silent, and their cleaner closes the
\* stream.
PeersLetGo ==
  \A n \in Node :
    <>[]~Rumoured(n) => <>[](phase[n] = "graceful" => \E m \in Node : Holds(m, n))

\* A node that stops is gone in the end.
StopReturns == \A n \in Node : phase[n] = "leaving" ~> phase[n] = "gone"
=============================================================================
