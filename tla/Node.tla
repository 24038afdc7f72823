-------------------------------- MODULE Node --------------------------------
(***************************************************************************)
(* One node: the goroutines of a p2pnode process that share its registry   *)
(* and its connection pool.                                                *)
(*                                                                         *)
(*   membership handlers  internal/membership/application/service.go       *)
(*   background loops     internal/node/node.go                            *)
(*   client operations    internal/client/client.go, discovery.go          *)
(*   auto-connect         cmd/p2pnode/root/root.go (onNodeStarted)         *)
(*                                                                         *)
(* A step of a goroutine is one call of the registry, of the pool or of    *)
(* the notifier, together with the local computation up to the next such   *)
(* call: those calls lock, everything between them interleaves.  The other *)
(* nodes are the environment: they may call a handler at any time, answer  *)
(* or fail any call made to them, and break any stream.                    *)
(*                                                                         *)
(* Notifier.Emit runs its subscribers in the caller's goroutine.  The two  *)
(* that change this state, broadcastNodeJoin and auto-connect, are part of *)
(* the emitting goroutine here, in either order; the notifier's own state  *)
(* is modelled in module Notifier.                                         *)
(***************************************************************************)
EXTENDS PeerRegistry, ConnPool, FiniteSets

CONSTANTS
  Threads,      \* goroutines that run handlers, client calls and spawned jobs
  Cleaner,      \* the goroutine of startPeerCleaner
  Gossiper,     \* the goroutine of startGossipLoop
  Workload,     \* the operations that may begin
  AutoConnect   \* TRUE when onNodeStarted has subscribed (the CLI program)

Proc == Threads \cup {Cleaner, Gossiper}

ASSUME NodeAssumption ==
  /\ AutoConnect \in BOOLEAN
  /\ Cleaner \notin Threads /\ Gossiper \notin Threads /\ Cleaner # Gossiper
  /\ None \notin UUID /\ None \notin Conn
  /\ Proc \cap Conn = {}
  /\ IsFiniteSet(Proc) /\ IsFiniteSet(Conn)

VARIABLES
  reg,    \* the registry
  pool,   \* the connection pool
  th,     \* what each goroutine of Proc is doing
  recv,   \* the recvPeerMessageLoop goroutine of each stream
  jobs,   \* goroutines spawned with go and not yet scheduled
  owed    \* removals of a peer minus peer_offline notifications emitted for it

vars == <<reg, pool, th, recv, jobs, owed>>

Op == {"none", "handshake", "notify", "disconnect", "disconnectPeer", "connect",
       "gossip", "clean", "sendHeartbeat", "sendJoin"}

PC == {"idle", "list", "touch", "register", "status", "unreg", "emit", "close",
       "loop", "ask", "discovered", "has", "set", "stream", "setStream", "add",
       "rpc"}

Callbacks == {"broadcast"} \cup (IF AutoConnect THEN {"autoConnect"} ELSE {})

Thread == [op    : Op,
           pc    : PC,
           u     : UUID \cup {None},      \* the peer at hand
           todo  : SUBSET UUID,           \* peers the loop has not reached
           addrs : SUBSET Addr,           \* addresses the gossip round has not asked
           seed  : UUID \cup {None},      \* resp.Peer, last of the list to connect
           c     : Conn \cup {None},      \* the connection the goroutine holds
           cb    : SUBSET {"broadcast", "autoConnect"}]  \* subscribers not yet called

Idle == [op |-> "none", pc |-> "idle", u |-> None, todo |-> {}, addrs |-> {},
         seed |-> None, c |-> None, cb |-> {}]

RecvLoop == [pc : {"none", "recv", "emit", "delConn", "delStream"},
             u  : UUID \cup {None}]

NoLoop == [pc |-> "none", u |-> None]

Job == [op : {"sendHeartbeat", "sendJoin"}, u : UUID]

TypeOK ==
  /\ reg \in Registry
  /\ pool \in Pool
  /\ th \in [Proc -> Thread]
  /\ recv \in [Conn -> RecvLoop]
  /\ jobs \subseteq Job
  /\ owed \in [UUID -> Int]

\* A goroutine that is past choosing a peer has one, and one that is past
\* dialling has a connection.
Equipped ==
  /\ \A t \in Proc : /\ th[t].pc \notin {"idle", "loop", "ask"} => th[t].u \in UUID
                     /\ th[t].pc \in {"set", "stream", "setStream", "rpc"} => th[t].c \in Conn
  /\ \A c \in Conn : recv[c].pc # "none" => recv[c].u \in UUID

Init ==
  /\ reg = NewPeerRegistry
  /\ pool = NewConnPool
  /\ th = [t \in Proc |-> Idle]
  /\ recv = [c \in Conn |-> NoLoop]
  /\ jobs = {}
  /\ owed = [u \in UUID |-> 0]

-----------------------------------------------------------------------------
(* Control flow of the goroutines.                                         *)

At(t, pc) == th[t].pc = pc
Runs(t, op, pc) == th[t].op = op /\ th[t].pc = pc

\* The goroutine begins op at pc with peer u.
Begin(t, op, pc, u) ==
  /\ At(t, "idle")
  /\ op \in Workload
  /\ th' = [th EXCEPT ![t] = [Idle EXCEPT !.op = op, !.pc = pc, !.u = u]]

Goto(t, pc) == th' = [th EXCEPT ![t].pc = pc]

\* Done with one peer: the operations over a list go on with the next one.
AfterPeer(t) ==
  IF th[t].op \in {"clean", "gossip", "connect"}
  THEN [th[t] EXCEPT !.pc = "loop", !.u = None, !.c = None]
  ELSE Idle

\* Back in Emit with the subscribers cb still to call.
InEmit(t, cb) ==
  IF cb = {} THEN [AfterPeer(t) EXCEPT !.cb = {}]
  ELSE [th[t] EXCEPT !.pc = "discovered", !.c = None, !.cb = cb]

\* connectToSinglePeer and the rest of its loop body are done with a peer.
AfterConnect(t) ==
  IF th[t].op = "connect" THEN AfterPeer(t) ELSE InEmit(t, th[t].cb)

\* A connection that no goroutine and no map refers to: what a dial returns.
Fresh(c) ==
  /\ c \notin pool.open
  /\ recv[c] = NoLoop
  /\ \A t \in Proc : th[t].c # c

-----------------------------------------------------------------------------
(* Membership service: the requests other nodes make.                      *)

\* A request with no signature or a valid one; others are rejected unchanged.
Handshake(t, u) ==
  /\ Begin(t, "handshake", "list", u)
  /\ reg' = Register(reg, u, "ONLINE")
  /\ UNCHANGED <<pool, recv, jobs, owed>>

\* List, Emit(peer_online), and Emit(peer_discovered) if the list has a peer.
HandshakeNotify(t) ==
  /\ Runs(t, "handshake", "list")
  /\ th' = [th EXCEPT ![t] = InEmit(t, IF List(reg) = {} THEN {} ELSE Callbacks)]
  /\ UNCHANGED <<reg, pool, recv, jobs, owed>>

\* lastActive is refreshed before the signature is looked at.
Heartbeat(u) ==
  /\ "heartbeat" \in Workload
  /\ reg' = UpdateLastActive(reg, u)
  /\ UNCHANGED <<pool, th, recv, jobs, owed>>

Disconnect(t, u) ==
  /\ Begin(t, "disconnect", IF u \in List(reg) THEN "status" ELSE "unreg", u)
  /\ UNCHANGED <<reg, pool, recv, jobs, owed>>

NotifyNodeJoin(t, u) ==
  /\ u # Self
  /\ Begin(t, "notify", IF u \in List(reg) THEN "touch" ELSE "register", u)
  /\ UNCHANGED <<reg, pool, recv, jobs, owed>>

NotifyKnown(t) ==
  /\ Runs(t, "notify", "touch")
  /\ reg' = UpdateLastActive(reg, th[t].u)
  /\ th' = [th EXCEPT ![t] = Idle]
  /\ UNCHANGED <<pool, recv, jobs, owed>>

\* The NodeInfo is the one broadcastNodeJoin builds: it has no status.
NotifyUnknown(t) ==
  /\ Runs(t, "notify", "register")
  /\ reg' = Register(reg, th[t].u, "UNKNOWN")
  /\ th' = [th EXCEPT ![t] = InEmit(t, Callbacks)]
  /\ UNCHANGED <<pool, recv, jobs, owed>>

-----------------------------------------------------------------------------
(* Removal of a peer: Disconnect, Node.DisconnectPeer, cleanupStalePeers.  *)

\* GetByName found u; its RPC to u changes nothing here.
DisconnectPeer(t, n) ==
  /\ \E u \in GetByName(reg, n) : Begin(t, "disconnectPeer", "unreg", u)
  /\ UNCHANGED <<reg, pool, recv, jobs, owed>>

\* The ticker of startPeerCleaner fires: GetStale.
CleanupStalePeers ==
  /\ At(Cleaner, "idle")
  /\ "clean" \in Workload
  /\ th' = [th EXCEPT ![Cleaner] = [Idle EXCEPT !.op = "clean", !.pc = "loop",
                                      !.todo = GetStale(reg, Timeout)]]
  /\ UNCHANGED <<reg, pool, recv, jobs, owed>>

\* Mutant: the found/not found test of the loop is inverted.
CleanNextInverted ==
  /\ Runs(Cleaner, "clean", "loop")
  /\ \/ /\ th[Cleaner].todo = {}
        /\ th' = [th EXCEPT ![Cleaner] = Idle]
     \/ \E u \in th[Cleaner].todo :
          th' = [th EXCEPT ![Cleaner].todo = @ \ {u},
                           ![Cleaner].u = IF u \notin List(reg) THEN u ELSE None,
                           ![Cleaner].pc = IF u \notin List(reg) THEN "status"
                                                                 ELSE "loop"]
  /\ UNCHANGED <<reg, pool, recv, jobs, owed>>

\* Get(uuid) for the next stale uuid, or the end of the round.
CleanNext ==
  /\ Runs(Cleaner, "clean", "loop")
  /\ \/ /\ th[Cleaner].todo = {}
        /\ th' = [th EXCEPT ![Cleaner] = Idle]
     \/ \E u \in th[Cleaner].todo :
          th' = [th EXCEPT ![Cleaner].todo = @ \ {u},
                           ![Cleaner].u = IF u \in List(reg) THEN u ELSE None,
                           ![Cleaner].pc = IF u \in List(reg) THEN "status"
                                                              ELSE "loop"]
  /\ UNCHANGED <<reg, pool, recv, jobs, owed>>

\* Mutant: the peer is marked and not removed.
SetOfflineOnly(t) ==
  /\ At(t, "status")
  /\ reg' = UpdateStatus(reg, th[t].u, "OFFLINE")
  /\ th' = [th EXCEPT ![t] = AfterPeer(t)]
  /\ UNCHANGED <<pool, recv, jobs, owed>>

SetOffline(t) ==
  /\ At(t, "status")
  /\ reg' = UpdateStatus(reg, th[t].u, "OFFLINE")
  /\ Goto(t, "unreg")
  /\ UNCHANGED <<pool, recv, jobs, owed>>

\* Mutant: the result of Unregister is ignored.
UnregisterPeerAlwaysTells(t) ==
  /\ At(t, "unreg")
  /\ reg' = Unregister(reg, th[t].u)
  /\ owed' = [owed EXCEPT ![th[t].u] = IF Removed(reg, th[t].u) THEN @ + 1 ELSE @]
  /\ Goto(t, IF th[t].op = "disconnectPeer" THEN "close" ELSE "emit")
  /\ UNCHANGED <<pool, recv, jobs>>

\* Only the caller whose Unregister removed the peer goes on to tell of it.
UnregisterPeer(t) ==
  /\ At(t, "unreg")
  /\ reg' = Unregister(reg, th[t].u)
  /\ IF Removed(reg, th[t].u)
     THEN /\ owed' = [owed EXCEPT ![th[t].u] = @ + 1]
          /\ Goto(t, IF th[t].op = "disconnectPeer" THEN "close" ELSE "emit")
     ELSE /\ th' = [th EXCEPT ![t] = AfterPeer(t)]
          /\ UNCHANGED owed
  /\ UNCHANGED <<pool, recv, jobs>>

EmitOffline(t) ==
  /\ At(t, "emit")
  /\ owed' = [owed EXCEPT ![th[t].u] = @ - 1]
  /\ IF th[t].op = "clean" THEN Goto(t, "close")
                           ELSE th' = [th EXCEPT ![t] = AfterPeer(t)]
  /\ UNCHANGED <<reg, pool, recv, jobs>>

CloseConn(t) ==
  /\ At(t, "close")
  /\ pool' = CloseByAddr(pool, AddrOf[th[t].u])
  /\ IF th[t].op = "disconnectPeer" THEN Goto(t, "emit")
                                    ELSE th' = [th EXCEPT ![t] = AfterPeer(t)]
  /\ UNCHANGED <<reg, recv, jobs, owed>>

-----------------------------------------------------------------------------
(* Emit(peer_discovered): the subscribers.                                 *)

\* Mutant: the goroutines get the address where they expect the uuid.
BroadcastToAddrs(t) ==
  /\ At(t, "discovered")
  /\ "broadcast" \in th[t].cb
  /\ jobs' = jobs \cup [op : {"sendJoin"},
                        u : {AddrOf[u] : u \in List(reg) \ {Self, th[t].u}}]
  /\ th' = [th EXCEPT ![t] = InEmit(t, th[t].cb \ {"broadcast"})]
  /\ UNCHANGED <<reg, pool, recv, owed>>

BroadcastNodeJoin(t) ==
  /\ At(t, "discovered")
  /\ "broadcast" \in th[t].cb
  /\ jobs' = jobs \cup [op : {"sendJoin"}, u : List(reg) \ {Self, th[t].u}]
  /\ th' = [th EXCEPT ![t] = InEmit(t, th[t].cb \ {"broadcast"})]
  /\ UNCHANGED <<reg, pool, recv, owed>>

\* ConnectToPeers, which both subscribers' callers share, skips the node itself.
Connectable(u) == u # Self /\ AddrOf[u] # AddrOf[Self]

AutoConnectPeer(t) ==
  /\ At(t, "discovered")
  /\ "autoConnect" \in th[t].cb
  /\ LET left == th[t].cb \ {"autoConnect"}
     IN  th' = [th EXCEPT ![t] = IF Connectable(th[t].u)
                                 THEN [@ EXCEPT !.pc = "has", !.cb = left]
                                 ELSE InEmit(t, left)]
  /\ UNCHANGED <<reg, pool, recv, jobs, owed>>

-----------------------------------------------------------------------------
(* Client: connecting to peers.                                            *)

\* HandshakeSeedNode was accepted by seed, which knows the peers in known.
HandshakeSeedNode(t, seed, known) ==
  /\ At(t, "idle")
  /\ "connect" \in Workload
  /\ \E status \in {"ONLINE", "BUSY"} : reg' = Register(reg, seed, status)
  /\ th' = [th EXCEPT ![t] = [Idle EXCEPT !.op = "connect", !.pc = "loop",
                                !.todo = known, !.seed = seed]]
  /\ UNCHANGED <<pool, recv, jobs, owed>>

\* The next peer of ConnectToPeers' list, whose last one is the seed.
ConnectNext(t) ==
  /\ Runs(t, "connect", "loop")
  /\ \/ \E u \in th[t].todo :
          th' = [th EXCEPT ![t].todo = @ \ {u},
                           ![t].u = IF Connectable(u) THEN u ELSE None,
                           ![t].pc = IF Connectable(u) THEN "has" ELSE "loop"]
     \/ /\ th[t].todo = {} /\ th[t].seed # None
        /\ th' = [th EXCEPT ![t].seed = None,
                            ![t].u = IF Connectable(th[t].seed) THEN th[t].seed ELSE None,
                            ![t].pc = IF Connectable(th[t].seed) THEN "has" ELSE "loop"]
     \/ /\ th[t].todo = {} /\ th[t].seed = None
        /\ th' = [th EXCEPT ![t] = Idle]
  /\ UNCHANGED <<reg, pool, recv, jobs, owed>>

\* HasStream, and the dial if there is none; the dial may fail.
ConnectCheck(t) ==
  /\ At(t, "has")
  /\ IF HasStream(pool, AddrOf[th[t].u])
     THEN Goto(t, "add") /\ UNCHANGED pool
     ELSE \/ \E c \in {d \in Conn : Fresh(d)} :
               /\ pool' = Dialled(pool, c)
               /\ th' = [th EXCEPT ![t].pc = "set", ![t].c = c]
          \/ /\ th' = [th EXCEPT ![t] = AfterConnect(t)]
             /\ UNCHANGED pool
  /\ UNCHANGED <<reg, recv, jobs, owed>>

\* SetConn, of connectToSinglePeer and of the two spawned jobs.
PoolConn(t) ==
  /\ At(t, "set")
  /\ pool' = SetConn(pool, AddrOf[th[t].u], th[t].c)
  /\ Goto(t, IF th[t].op \in {"sendHeartbeat", "sendJoin"} THEN "rpc" ELSE "stream")
  /\ UNCHANGED <<reg, recv, jobs, owed>>

OpenStream(t) ==
  /\ At(t, "stream")
  /\ th[t].c \in pool.open
  /\ Goto(t, "setStream")
  /\ UNCHANGED <<reg, pool, recv, jobs, owed>>

\* Mutant: the pool keeps the connection that is closed.
OpenStreamFailsKeepsConn(t) ==
  /\ At(t, "stream")
  /\ pool' = Closed(pool, th[t].c)
  /\ th' = [th EXCEPT ![t] = AfterConnect(t)]
  /\ UNCHANGED <<reg, recv, jobs, owed>>

\* DeletePeerConn removes what the pool has now; the Close is of the own one.
OpenStreamFails(t) ==
  /\ At(t, "stream")
  /\ pool' = Closed(DeleteConn(pool, AddrOf[th[t].u]), th[t].c)
  /\ th' = [th EXCEPT ![t] = AfterConnect(t)]
  /\ UNCHANGED <<reg, recv, jobs, owed>>

PoolStream(t) ==
  /\ At(t, "setStream")
  /\ pool' = SetStream(pool, AddrOf[th[t].u], th[t].c)
  /\ recv' = [recv EXCEPT ![th[t].c] = [pc |-> "recv", u |-> th[t].u]]
  /\ th' = [th EXCEPT ![t].pc = "add", ![t].c = None]
  /\ UNCHANGED <<reg, jobs, owed>>

(***************************************************************************)
(* Auto-connect registers a NodeInfo without a status, ConnectToPeers'     *)
(* seed has the status it answered with, and the others the status in the  *)
(* seed's registry, where a peer that is being removed is OFFLINE.  That   *)
(* OFFLINE is hearsay here: no goroutine of this node is about to act on   *)
(* it.                                                                     *)
(***************************************************************************)
ConnectedStatus(t) ==
  IF th[t].op # "connect" THEN {"UNKNOWN"}
  ELSE IF th[t].seed = None THEN {"ONLINE", "BUSY"} ELSE NodeStatus \ {"OFFLINE"}

AddOnlinePeer(t) ==
  /\ At(t, "add")
  /\ \E status \in ConnectedStatus(t) : reg' = Register(reg, th[t].u, status)
  /\ th' = [th EXCEPT ![t] = AfterConnect(t)]
  /\ UNCHANGED <<pool, recv, jobs, owed>>

-----------------------------------------------------------------------------
(* Client: recvPeerMessageLoop of the stream on connection c, after Recv   *)
(* has failed.  The messages it receives before do not change this state.  *)

\* Mutant: the result of RemoveOnlinePeer is ignored.
RecvFailsAlwaysTells(c) ==
  /\ recv[c].pc = "recv"
  /\ reg' = Unregister(reg, recv[c].u)
  /\ owed' = [owed EXCEPT ![recv[c].u] = IF Removed(reg, recv[c].u) THEN @ + 1 ELSE @]
  /\ recv' = [recv EXCEPT ![c].pc = "emit"]
  /\ UNCHANGED <<pool, th, jobs>>

RecvFails(c) ==
  /\ recv[c].pc = "recv"
  /\ reg' = Unregister(reg, recv[c].u)
  /\ IF Removed(reg, recv[c].u)
     THEN /\ owed' = [owed EXCEPT ![recv[c].u] = @ + 1]
          /\ recv' = [recv EXCEPT ![c].pc = "emit"]
     ELSE /\ recv' = [recv EXCEPT ![c].pc = "delConn"]
          /\ UNCHANGED owed
  /\ UNCHANGED <<pool, th, jobs>>

RecvEmitOffline(c) ==
  /\ recv[c].pc = "emit"
  /\ owed' = [owed EXCEPT ![recv[c].u] = @ - 1]
  /\ recv' = [recv EXCEPT ![c].pc = "delConn"]
  /\ UNCHANGED <<reg, pool, th, jobs>>

\* Mutant: the loop ends without DeletePeerStream.
RecvDeleteConnOnly(c) ==
  /\ recv[c].pc = "delConn"
  /\ pool' = DeleteConn(pool, AddrOf[recv[c].u])
  /\ recv' = [recv EXCEPT ![c] = NoLoop]
  /\ UNCHANGED <<reg, th, jobs, owed>>

RecvDeleteConn(c) ==
  /\ recv[c].pc = "delConn"
  /\ pool' = DeleteConn(pool, AddrOf[recv[c].u])
  /\ recv' = [recv EXCEPT ![c].pc = "delStream"]
  /\ UNCHANGED <<reg, th, jobs, owed>>

\* Mutant: the loop ends and leaves its stream in the pool.
RecvKeepsStream(c) ==
  /\ recv[c].pc = "delStream"
  /\ recv' = [recv EXCEPT ![c] = NoLoop]
  /\ UNCHANGED <<reg, pool, th, jobs, owed>>

RecvDeleteStream(c) ==
  /\ recv[c].pc = "delStream"
  /\ pool' = DeleteStream(pool, AddrOf[recv[c].u])
  /\ recv' = [recv EXCEPT ![c] = NoLoop]
  /\ UNCHANGED <<reg, th, jobs, owed>>

-----------------------------------------------------------------------------
(* Gossip: performGossipRound.                                             *)

PerformGossipRound ==
  /\ At(Gossiper, "idle")
  /\ "gossip" \in Workload
  /\ StreamAddrs(pool) # {}
  /\ th' = [th EXCEPT ![Gossiper] = [Idle EXCEPT !.op = "gossip", !.pc = "ask",
                                       !.addrs = StreamAddrs(pool)]]
  /\ UNCHANGED <<reg, pool, recv, jobs, owed>>

\* GossipWithPeer on the next address; a failed call counts as no answer.
GossipAsk ==
  /\ Runs(Gossiper, "gossip", "ask")
  /\ \E a \in th[Gossiper].addrs, answer \in SUBSET UUID :
       th' = [th EXCEPT ![Gossiper].addrs = @ \ {a},
                        ![Gossiper].todo = answer, ![Gossiper].pc = "loop"]
  /\ UNCHANGED <<reg, pool, recv, jobs, owed>>

\* Get for the next peer of the answer; an unknown one is discovered.
GossipNext ==
  /\ Runs(Gossiper, "gossip", "loop")
  /\ \/ \E u \in th[Gossiper].todo :
          LET next == [th[Gossiper] EXCEPT !.todo = @ \ {u}]
          IN  th' = [th EXCEPT ![Gossiper] =
                       IF u = Self \/ u \in List(reg) THEN next
                       ELSE [next EXCEPT !.u = u, !.pc = "discovered", !.cb = Callbacks]]
     \/ /\ th[Gossiper].todo = {}
        /\ th' = [th EXCEPT ![Gossiper] = IF th[Gossiper].addrs = {} THEN Idle
                                          ELSE [th[Gossiper] EXCEPT !.pc = "ask"]]
  /\ UNCHANGED <<reg, pool, recv, jobs, owed>>

-----------------------------------------------------------------------------
(* The spawned calls: sendHeartbeatToPeer and notifySinglePeerJoin.        *)

\* The ticker of startHeartbeatLoop fires: List, and go for every peer.
SendHeartbeatToAllPeers ==
  /\ "sendHeartbeat" \in Workload
  /\ jobs' = jobs \cup [op : {"sendHeartbeat"}, u : List(reg) \ {Self}]
  /\ UNCHANGED <<reg, pool, th, recv, owed>>

\* GetConn, and the dial if there is none; a failed dial ends the goroutine.
RunJob(t, j) ==
  /\ At(t, "idle")
  /\ j \in jobs
  /\ jobs' = jobs \ {j}
  /\ LET run == [Idle EXCEPT !.op = j.op, !.u = j.u]
         conn == pool.conns[AddrOf[j.u]]
     IN  IF conn # None
         THEN /\ th' = [th EXCEPT ![t] = [run EXCEPT !.pc = "rpc", !.c = conn]]
              /\ UNCHANGED pool
         ELSE \/ \E c \in {d \in Conn : Fresh(d)} :
                   /\ pool' = Dialled(pool, c)
                   /\ th' = [th EXCEPT ![t] = [run EXCEPT !.pc = "set", !.c = c]]
              \/ UNCHANGED <<th, pool>>
  /\ UNCHANGED <<reg, recv, owed>>

\* A failed call and an UNKNOWN answer end the goroutine without an update.  An
\* answer that was received counts, even if the connection is closed by now.
JobEnds(t) ==
  /\ At(t, "rpc")
  /\ th' = [th EXCEPT ![t] = Idle]
  /\ UNCHANGED <<reg, pool, recv, jobs, owed>>

HeartbeatAnswered(t) ==
  /\ Runs(t, "sendHeartbeat", "rpc")
  /\ \E status \in {"ONLINE", "BUSY"} : reg' = UpdateStatus(reg, th[t].u, status)
  /\ th' = [th EXCEPT ![t] = Idle]
  /\ UNCHANGED <<pool, recv, jobs, owed>>

-----------------------------------------------------------------------------
\* The clock.
Tick ==
  /\ reg' = Elapse(reg)
  /\ UNCHANGED <<pool, th, recv, jobs, owed>>

\* A goroutine begins something.
Start ==
  \/ \E t \in Threads, u \in UUID :
       Handshake(t, u) \/ Disconnect(t, u) \/ NotifyNodeJoin(t, u)
  \/ \E t \in Threads, n \in Name : DisconnectPeer(t, n)
  \/ \E t \in Threads, u \in UUID, known \in SUBSET UUID : HandshakeSeedNode(t, u, known)
  \/ \E u \in UUID : Heartbeat(u)
  \/ SendHeartbeatToAllPeers
  \/ PerformGossipRound

\* A goroutine goes on with what it has begun.
Step(t) ==
  \/ HandshakeNotify(t) \/ NotifyKnown(t) \/ NotifyUnknown(t)
  \/ SetOffline(t) \/ UnregisterPeer(t) \/ EmitOffline(t) \/ CloseConn(t)
  \/ BroadcastNodeJoin(t) \/ AutoConnectPeer(t)
  \/ ConnectNext(t) \/ ConnectCheck(t) \/ PoolConn(t)
  \/ OpenStream(t) \/ OpenStreamFails(t) \/ PoolStream(t) \/ AddOnlinePeer(t)
  \/ JobEnds(t) \/ HeartbeatAnswered(t)

RecvStep(c) == RecvEmitOffline(c) \/ RecvDeleteConn(c) \/ RecvDeleteStream(c)

Next ==
  \/ Start
  \/ Tick
  \/ CleanupStalePeers \/ CleanNext
  \/ GossipAsk \/ GossipNext
  \/ \E t \in Threads, j \in jobs : RunJob(t, j)
  \/ \E t \in Proc : Step(t)
  \/ \E c \in Conn : RecvFails(c) \/ RecvStep(c)

Spec == Init /\ [][Next]_vars

(***************************************************************************)
(* Goroutines that can run do run, the tickers of the cleaner and of the   *)
(* clock keep firing, and Recv fails on a stream whose connection has been *)
(* closed.  Nothing makes a peer call, answer or disconnect.               *)
(***************************************************************************)
FairSpec ==
  /\ Spec
  /\ WF_vars(Tick) /\ WF_vars(CleanupStalePeers) /\ WF_vars(CleanNext)
  /\ WF_vars(GossipAsk) /\ WF_vars(GossipNext)
  /\ \A t \in Proc : WF_vars(Step(t))
  /\ \A c \in Conn : WF_vars(RecvStep(c))
  /\ \A c \in Conn : WF_vars(c \notin pool.open /\ RecvFails(c))

-----------------------------------------------------------------------------
(* Properties.                                                             *)

\* The maps of the registry agree, whichever goroutines race on it: the uuid
\* maps have the same keys, the node itself is never registered, and the name
\* index holds each address once and only for a registered peer.
RegistryConsistent == MapsAgree(reg) /\ IndexSound(reg)

\* Every registered peer's address is listed under its name, as long as no two
\* peers share an address (registry.go:73 adds to the index on the first
\* Register only, registry.go:93 removes on Unregister).
PeersFindable == IndexComplete(reg)

\* GetAddrByName answers for every registered peer, as SendTextMessage by name
\* relies on.  The code does not have this property: README.
NamesResolve == \A u \in List(reg) : GetAddrByName(reg, NameOf[u]) # None

\* A peer that this node has marked OFFLINE is unregistered next: the goroutine
\* that marked it (membership service.go:148-152, node.go:482-483) is about to,
\* whichever others register, touch or remove the peer in between.  The OFFLINE
\* that a seed reported (client.go:100) is another value: it may stay until a
\* heartbeat is answered.
OfflineIsTransient ==
  \A u \in UUID : reg.onlinePeers[u] = "OFFLINE" =>
    \E t \in Proc : At(t, "unreg") /\ th[t].u = u

\* The goroutines that have removed u and not yet told the subscribers.
Debtors(u) ==
  {t \in Proc : th[t].u = u /\ (At(t, "emit") \/ Runs(t, "disconnectPeer", "close"))}
  \cup {c \in Conn : recv[c].u = u /\ recv[c].pc = "emit"}

\* However many of Disconnect, DisconnectPeer, the cleaner and a failing stream
\* race to remove a peer, each removal is answered by exactly one peer_offline:
\* the removals not yet notified are those some goroutine is about to notify.
OfflineAccounted == \A u \in UUID : owed[u] = Cardinality(Debtors(u))

\* A connection that heartbeat or notify goroutines obtain with GetConn has
\* not been closed by another goroutine before they got it.
PooledOpen == PooledConnsOpen(pool)

\* A stream in the pool still has its receive loop, which will remove it: no
\* dead stream stays in the pool and blocks reconnecting to its peer.
StreamsServed ==
  \A a \in Addr : HasStream(pool, a) =>
    /\ recv[pool.streams[a]].pc # "none"
    /\ AddrOf[recv[pool.streams[a]].u] = a

\* Connections that some goroutine still uses: one that dialled or borrowed it,
\* or the receive loop of its stream.
InUse == {th[t].c : t \in Proc} \cup {c \in Conn : recv[c].pc # "none"}

\* An open connection is in the pool, where CloseByAddr and CloseAll find it,
\* or still in use.  The code does not have this property: README.
NoConnLeaked == pool.open \subseteq Pooled(pool) \cup InUse

\* "cleanupStalePeers removes peers that haven't sent a heartbeat recently"
\* (node.go:469).  The list of them is read once (node.go:471) and not asked again
\* before Unregister (node.go:483): a peer whose heartbeat arrives meanwhile is
\* removed.  The code does not have this property.
CleanerRemovesOnlySilent ==
  [][At(Cleaner, "unreg") /\ ~At(Cleaner, "unreg")' =>
       th[Cleaner].u \in GetStale(reg, Timeout) \/ ~Removed(reg, th[Cleaner].u)]_vars

\* A peer that is never heard of again is unregistered: each peer is again and
\* again either unregistered or fresh, that is, heard of less than a tick ago.
SilentPeerRemoved ==
  \A u \in Peer : []<>(u \notin List(reg) \/ reg.lastActive[u] = 0)

\* A stream whose connection was closed leaves the pool, whatever the receive
\* loops of older streams and new connects to its address do meanwhile.
DeadStreamDropped ==
  \A c \in Conn : []<>(c \in pool.open \/ \A a \in Addr : pool.streams[a] # c)
=============================================================================
