----------------------------- MODULE NodeProofs -----------------------------
(***************************************************************************)
(* Proofs about Node, in two layers.                                       *)
(*                                                                         *)
(* TypeInv is TypeOK strengthened with what a goroutine holds at each      *)
(* program counter (Equipped): a goroutine about to register a peer has a  *)
(* peer at hand, one about to pool a connection has a connection.  The     *)
(* strengthening is needed because the steps apply the registry's and the  *)
(* pool's operations to what the goroutine holds.                          *)
(*                                                                         *)
(* RegStep lists everything that a step does to the registry, so that the  *)
(* invariants of the registry follow from the lemmas of RegistryProofs,    *)
(* whichever goroutine takes the step.                                     *)
(***************************************************************************)
EXTENDS Node, RegistryProofs, FiniteSetTheorems

-----------------------------------------------------------------------------
(* Type correctness.                                                       *)

\* A goroutine state that satisfies TypeOK and Equipped.
Ready(x) ==
  /\ x \in Thread
  /\ x.pc \notin {"idle", "loop", "ask"} => x.u \in UUID
  /\ x.pc \in {"set", "stream", "setStream", "rpc"} => x.c \in Conn

ReadyLoop(x) == x \in RecvLoop /\ (x.pc # "none" => x.u \in UUID)

TypeInv ==
  /\ reg \in Registry /\ pool \in Pool /\ jobs \subseteq Job
  /\ owed \in [UUID -> Int]
  /\ th \in [Proc -> Thread] /\ \A t \in Proc : Ready(th[t])
  /\ recv \in [Conn -> RecvLoop] /\ \A c \in Conn : ReadyLoop(recv[c])

\* A loop goes on with a peer of its list, or passes over it.
LEMMA LoopReady ==
  ASSUME NEW x \in Thread, NEW left \in SUBSET UUID, NEW v, NEW pc,
         (pc \in {"has", "status"} /\ v \in UUID) \/ (pc = "loop" /\ v = None)
  PROVE  Ready([x EXCEPT !.todo = left, !.u = v, !.pc = pc])
BY DEF Ready, Thread, PC

\* Idle, and the states the control-flow operators return to, are ready.
LEMMA ReturnsReady ==
  ASSUME TypeInv, NEW t \in Proc, th[t].pc \notin {"idle", "loop", "ask"},
         NEW cb \in SUBSET {"broadcast", "autoConnect"}
  PROVE  Ready(AfterPeer(t)) /\ Ready(InEmit(t, cb)) /\ Ready(AfterConnect(t))
<1>1. th[t] \in Thread /\ th[t].u \in UUID
  BY DEF TypeInv, Ready
<1>2. Ready(Idle)
  BY DEF Ready, Idle, Thread, Op, PC
<1>3. Ready(AfterPeer(t))
  <2>1. Ready([th[t] EXCEPT !.pc = "loop", !.u = None, !.c = None])
    BY <1>1 DEF Ready, Thread, PC
  <2> QED
    BY <1>2, <2>1 DEF AfterPeer
<1>4. ASSUME NEW x \in SUBSET {"broadcast", "autoConnect"}
      PROVE  Ready(InEmit(t, x))
  <2>1. Ready([AfterPeer(t) EXCEPT !.cb = {}])
    BY <1>3 DEF Ready, Thread
  <2>2. Ready([th[t] EXCEPT !.pc = "discovered", !.c = None, !.cb = x])
    BY <1>1 DEF Ready, Thread, PC
  <2> QED
    BY <2>1, <2>2 DEF InEmit
<1>5. th[t].cb \in SUBSET {"broadcast", "autoConnect"}
  BY <1>1 DEF Thread
<1> QED
  BY <1>3, <1>4, <1>5 DEF AfterConnect

LEMMA IdleReady == Ready(Idle)
  BY DEF Ready, Idle, Thread, Op, PC

\* Replacing the state of one goroutine by a ready one.
LEMMA OneThread ==
  ASSUME TypeInv, NEW t \in Proc, NEW x, Ready(x), th' = [th EXCEPT ![t] = x]
  PROVE  th' \in [Proc -> Thread] /\ \A s \in Proc : Ready(th'[s])
  BY DEF TypeInv, Ready

LEMMA OneLoop ==
  ASSUME TypeInv, NEW c \in Conn, NEW x, ReadyLoop(x), recv' = [recv EXCEPT ![c] = x]
  PROVE  recv' \in [Conn -> RecvLoop] /\ \A d \in Conn : ReadyLoop(recv'[d])
  BY DEF TypeInv, ReadyLoop

LEMMA CallbacksType == Callbacks \in SUBSET {"broadcast", "autoConnect"}
  BY DEF Callbacks

\* The initial state is typed.
LEMMA TypeInvInit == Init => TypeInv
<1> SUFFICES ASSUME Init PROVE TypeInv
  OBVIOUS
<1>1. reg \in Registry
  BY DEF Init, Registry, NewPeerRegistry
<1>2. pool \in Pool
  BY DEF Init, Pool, NewConnPool
<1>3. \A t \in Proc : Ready(th[t])
  BY IdleReady DEF Init
<1>4. \A c \in Conn : ReadyLoop(recv[c])
  BY DEF Init, ReadyLoop, RecvLoop, NoLoop
<1> QED
  BY <1>1, <1>2, <1>3, <1>4 DEF Init, TypeInv, Ready, ReadyLoop

\* What a goroutine that is busy with a peer knows about it.
LEMMA AtPeer ==
  ASSUME TypeInv, NEW t \in Proc, th[t].pc \notin {"idle", "loop", "ask"}
  PROVE  th[t].u \in UUID /\ AddrOf[th[t].u] \in Addr /\ th[t] \in Thread
  BY RegistryAssumption DEF TypeInv, Ready

\* Every write of the registry is typed when its uuid is.
LEMMA RegTyped ==
  ASSUME TypeInv, NEW u \in UUID
  PROVE  /\ \A s \in NodeStatus : Register(reg, u, s) \in Registry
         /\ \A s \in NodeStatus : UpdateStatus(reg, u, s) \in Registry
         /\ Unregister(reg, u) \in Registry
         /\ UpdateLastActive(reg, u) \in Registry
         /\ Elapse(reg) \in Registry
<1>1. reg \in Registry
  BY DEF TypeInv
<1>2. \A s \in NodeStatus : Register(reg, u, s) \in Registry /\ UpdateStatus(reg, u, s) \in Registry
  BY <1>1, WriteTypes
<1>3. "ONLINE" \in NodeStatus
  BY DEF NodeStatus
<1> QED
  BY <1>1, <1>2, <1>3, WriteTypes

\* The steps of Next that begin an operation.
LEMMA StartTyped ==
  ASSUME TypeInv, Start PROVE TypeInv'
<1> USE DEF TypeInv
<1>a. Threads \subseteq Proc /\ Gossiper \in Proc /\ Cleaner \in Proc
  BY DEF Proc
<1>1. ASSUME NEW t \in Threads, NEW op \in Op, NEW pc \in PC, NEW u \in UUID,
             Begin(t, op, pc, u), pc \notin {"set", "stream", "setStream", "rpc"}
      PROVE  th' \in [Proc -> Thread] /\ \A s \in Proc : Ready(th'[s])
  <2>1. Ready([Idle EXCEPT !.op = op, !.pc = pc, !.u = u])
    BY <1>1 DEF Ready, Idle, Thread
  <2> QED
    BY <1>1, <1>a, <2>1, OneThread DEF Begin
<1>2. ASSUME NEW t \in Threads, NEW u \in UUID, Handshake(t, u) PROVE TypeInv'
  BY <1>1, <1>2, RegTyped DEF Handshake, Op, PC, NodeStatus
<1>3. ASSUME NEW t \in Threads, NEW u \in UUID, Disconnect(t, u) PROVE TypeInv'
  BY <1>1, <1>3 DEF Disconnect, Op, PC
<1>4. ASSUME NEW t \in Threads, NEW u \in UUID, NotifyNodeJoin(t, u) PROVE TypeInv'
  BY <1>1, <1>4 DEF NotifyNodeJoin, Op, PC
<1>5. ASSUME NEW t \in Threads, NEW n \in Name, DisconnectPeer(t, n) PROVE TypeInv'
  BY <1>1, <1>5 DEF DisconnectPeer, Op, PC, GetByName, List
<1>6. ASSUME NEW t \in Threads, NEW u \in UUID, NEW known \in SUBSET UUID,
             HandshakeSeedNode(t, u, known)
      PROVE  TypeInv'
  <2>1. Ready([Idle EXCEPT !.op = "connect", !.pc = "loop", !.todo = known, !.seed = u])
    BY DEF Ready, Idle, Thread, Op, PC
  <2>2. th' \in [Proc -> Thread] /\ \A s \in Proc : Ready(th'[s])
    BY <1>6, <1>a, <2>1, OneThread DEF HandshakeSeedNode
  <2> QED
    BY <1>6, <2>2, RegTyped DEF HandshakeSeedNode, NodeStatus
<1>7. ASSUME NEW u \in UUID, Heartbeat(u) PROVE TypeInv'
  BY <1>7, RegTyped DEF Heartbeat
<1>8. ASSUME SendHeartbeatToAllPeers PROVE TypeInv'
  BY <1>8 DEF SendHeartbeatToAllPeers, Job, List
<1>9. ASSUME PerformGossipRound PROVE TypeInv'
  <2>1. Ready([Idle EXCEPT !.op = "gossip", !.pc = "ask", !.addrs = StreamAddrs(pool)])
    BY DEF Ready, Idle, Thread, Op, PC, StreamAddrs
  <2>2. th' \in [Proc -> Thread] /\ \A s \in Proc : Ready(th'[s])
    BY <1>9, <1>a, <2>1, OneThread DEF PerformGossipRound
  <2> QED
    BY <1>9, <2>2 DEF PerformGossipRound
<1> QED
  BY <1>2, <1>3, <1>4, <1>5, <1>6, <1>7, <1>8, <1>9 DEF Start

\* The steps of a goroutine that runs an operation.
LEMMA StepTyped ==
  ASSUME TypeInv, NEW t \in Proc, Step(t) PROVE TypeInv'
<1> USE DEF TypeInv
<1>0. \A u \in UUID : AddrOf[u] \in Addr
  BY RegistryAssumption
<1>1. ASSUME NEW pc \in PC, Goto(t, pc), th[t].u \in UUID,
             pc \in {"set", "stream", "setStream", "rpc"} => th[t].c \in Conn
      PROVE  th' \in [Proc -> Thread] /\ \A s \in Proc : Ready(th'[s])
  <2>1. Ready([th[t] EXCEPT !.pc = pc])
    BY <1>1 DEF Ready, Thread
  <2>2. th' = [th EXCEPT ![t] = [th[t] EXCEPT !.pc = pc]]
    BY <1>1 DEF Goto
  <2> QED
    BY <2>1, <2>2, OneThread
<1>2. ASSUME th[t].pc \notin {"idle", "loop", "ask"},
             NEW cb \in SUBSET {"broadcast", "autoConnect"},
             \/ th' = [th EXCEPT ![t] = Idle]
             \/ th' = [th EXCEPT ![t] = AfterPeer(t)]
             \/ th' = [th EXCEPT ![t] = AfterConnect(t)]
             \/ th' = [th EXCEPT ![t] = InEmit(t, cb)]
      PROVE  th' \in [Proc -> Thread] /\ \A s \in Proc : Ready(th'[s])
  BY <1>2, IdleReady, ReturnsReady, OneThread
<1>3. CASE HandshakeNotify(t)
  <2>1. (IF List(reg) = {} THEN {} ELSE Callbacks) \in SUBSET {"broadcast", "autoConnect"}
    BY CallbacksType
  <2> QED
    BY <1>2, <1>3, <2>1 DEF HandshakeNotify, Runs
<1>4. CASE NotifyKnown(t)
  BY <1>2, <1>4, AtPeer, RegTyped DEF NotifyKnown, Runs
<1>5. CASE NotifyUnknown(t)
  BY <1>2, <1>5, AtPeer, RegTyped, CallbacksType DEF NotifyUnknown, Runs, NodeStatus
<1>6. CASE SetOffline(t)
  BY <1>1, <1>6, AtPeer, RegTyped DEF SetOffline, At, NodeStatus, PC
<1>7. CASE UnregisterPeer(t)
  <2>1. th[t].u \in UUID
    BY <1>7, AtPeer DEF UnregisterPeer, At
  <2>2. th' \in [Proc -> Thread] /\ \A s \in Proc : Ready(th'[s])
    <3>1. CASE Removed(reg, th[t].u)
      BY <1>1, <1>7, <2>1, <3>1 DEF UnregisterPeer, At, PC
    <3>2. CASE ~Removed(reg, th[t].u)
      BY <1>2, <1>7, <3>2 DEF UnregisterPeer, At
    <3> QED
      BY <3>1, <3>2
  <2>3. owed' \in [UUID -> Int]
    BY <1>7, <2>1 DEF UnregisterPeer
  <2> QED
    BY <1>7, <2>1, <2>2, <2>3, RegTyped DEF UnregisterPeer
<1>8. CASE EmitOffline(t)
  <2>1. th[t].u \in UUID
    BY <1>8, AtPeer DEF EmitOffline, At
  <2>2. th' \in [Proc -> Thread] /\ \A s \in Proc : Ready(th'[s])
    <3>1. CASE th[t].op = "clean"
      BY <1>1, <1>8, <2>1, <3>1 DEF EmitOffline, At, PC
    <3>2. CASE th[t].op # "clean"
      BY <1>2, <1>8, <3>2 DEF EmitOffline, At
    <3> QED
      BY <3>1, <3>2
  <2>3. owed' \in [UUID -> Int]
    BY <1>8, <2>1 DEF EmitOffline
  <2> QED
    BY <1>8, <2>2, <2>3 DEF EmitOffline
<1>9. CASE CloseConn(t)
  <2>1. th[t].u \in UUID
    BY <1>9, AtPeer DEF CloseConn, At
  <2>2. th' \in [Proc -> Thread] /\ \A s \in Proc : Ready(th'[s])
    <3>1. CASE th[t].op = "disconnectPeer"
      BY <1>1, <1>9, <2>1, <3>1 DEF CloseConn, At, PC
    <3>2. CASE th[t].op # "disconnectPeer"
      BY <1>2, <1>9, <3>2 DEF CloseConn, At
    <3> QED
      BY <3>1, <3>2
  <2>3. pool' \in Pool
    BY <1>9 DEF CloseConn, CloseByAddr, Pool
  <2> QED
    BY <1>9, <2>2, <2>3 DEF CloseConn
<1>10. CASE BroadcastNodeJoin(t)
  <2>1. th[t].cb \ {"broadcast"} \in SUBSET {"broadcast", "autoConnect"}
    BY <1>10, AtPeer DEF BroadcastNodeJoin, At, Thread
  <2>2. th' \in [Proc -> Thread] /\ \A s \in Proc : Ready(th'[s])
    BY <1>2, <1>10, <2>1 DEF BroadcastNodeJoin, At
  <2>3. jobs' \subseteq Job
    BY <1>10 DEF BroadcastNodeJoin, Job, List
  <2> QED
    BY <1>10, <2>2, <2>3 DEF BroadcastNodeJoin
<1>11. CASE AutoConnectPeer(t)
  <2> DEFINE left == th[t].cb \ {"autoConnect"}
  <2>0. th[t] \in Thread /\ th[t].u \in UUID
    BY <1>11, AtPeer DEF AutoConnectPeer, At
  <2>1. left \in SUBSET {"broadcast", "autoConnect"}
    BY <2>0 DEF Thread
  <2>2. Ready([th[t] EXCEPT !.pc = "has", !.cb = left])
    <3> HIDE DEF left
    <3> QED
      BY <2>0, <2>1 DEF Ready, Thread, PC
  <2>3. Ready(InEmit(t, left))
    BY <1>11, <2>1, ReturnsReady DEF AutoConnectPeer, At
  <2>4. th' = [th EXCEPT ![t] = IF Connectable(th[t].u)
                                THEN [th[t] EXCEPT !.pc = "has", !.cb = left]
                                ELSE InEmit(t, left)]
    BY <1>11 DEF AutoConnectPeer
  <2>5. th' \in [Proc -> Thread] /\ \A s \in Proc : Ready(th'[s])
    BY <2>2, <2>3, <2>4, OneThread
  <2> QED
    BY <1>11, <2>5 DEF AutoConnectPeer
<1>12. CASE ConnectNext(t)
  <2>1. th[t] \in Thread
    OBVIOUS
  <2>3. th[t].todo \in SUBSET UUID /\ th[t].seed \in UUID \cup {None}
    BY <2>1 DEF Thread
  <2>4. CASE \E u \in th[t].todo :
               th' = [th EXCEPT ![t].todo = @ \ {u},
                                ![t].u = IF Connectable(u) THEN u ELSE None,
                                ![t].pc = IF Connectable(u) THEN "has" ELSE "loop"]
    <3>1. PICK u \in th[t].todo :
               th' = [th EXCEPT ![t].todo = @ \ {u},
                                ![t].u = IF Connectable(u) THEN u ELSE None,
                                ![t].pc = IF Connectable(u) THEN "has" ELSE "loop"]
      BY <2>4
    <3> DEFINE left == th[t].todo \ {u}
               v == IF Connectable(u) THEN u ELSE None
               pc == IF Connectable(u) THEN "has" ELSE "loop"
               x == [th[t] EXCEPT !.todo = left, !.u = v, !.pc = pc]
    <3>2. Ready(x)
      <4>1. left \in SUBSET UUID
        BY <2>3
      <4>u. u \in UUID
        BY <2>3
      <4>2. (pc = "has" /\ v \in UUID) \/ (pc = "loop" /\ v = None)
        BY <4>u
      <4> HIDE DEF left, v, pc
      <4> QED
        BY <2>1, <4>1, <4>2, LoopReady
    <3>3. th' = [th EXCEPT ![t] = x]
      BY <3>1
    <3> HIDE DEF x
    <3>4. th' \in [Proc -> Thread] /\ \A s \in Proc : Ready(th'[s])
      BY <3>2, <3>3, OneThread
    <3> QED
      BY <3>4, <1>12 DEF ConnectNext
  <2>5. CASE /\ th[t].seed # None
             /\ th' = [th EXCEPT ![t].seed = None,
                            ![t].u = IF Connectable(th[t].seed) THEN th[t].seed ELSE None,
                            ![t].pc = IF Connectable(th[t].seed) THEN "has" ELSE "loop"]
    <3> DEFINE v == IF Connectable(th[t].seed) THEN th[t].seed ELSE None
               pc == IF Connectable(th[t].seed) THEN "has" ELSE "loop"
               x == [th[t] EXCEPT !.seed = None, !.u = v, !.pc = pc]
    <3>1. Ready(x)
      <4>1. CASE Connectable(th[t].seed)
        <5>1. pc = "has" /\ v = th[t].seed /\ v \in UUID
          BY <2>3, <2>5, <4>1
        <5> HIDE DEF pc, v
        <5> QED
          BY <2>1, <5>1 DEF Ready, Thread, PC
      <4>2. CASE ~Connectable(th[t].seed)
        <5>1. pc = "loop" /\ v = None
          BY <4>2
        <5> HIDE DEF pc, v
        <5> QED
          BY <2>1, <5>1 DEF Ready, Thread, PC
      <4> QED
        BY <4>1, <4>2
    <3>2. th' = [th EXCEPT ![t] = x]
      BY <2>5
    <3> HIDE DEF x
    <3>3. th' \in [Proc -> Thread] /\ \A s \in Proc : Ready(th'[s])
      BY <3>1, <3>2, OneThread
    <3> QED
      BY <3>3, <1>12 DEF ConnectNext
  <2>6. CASE th' = [th EXCEPT ![t] = Idle]
    BY <2>6, <1>12, IdleReady, OneThread DEF ConnectNext
  <2> QED
    BY <1>12, <2>4, <2>5, <2>6 DEF ConnectNext
<1>13. CASE ConnectCheck(t)
  <2>1. th[t].u \in UUID /\ th[t] \in Thread
    BY <1>13, AtPeer DEF ConnectCheck, At
  <2>2. CASE Goto(t, "add") /\ UNCHANGED pool
    BY <1>1, <1>13, <2>1, <2>2 DEF ConnectCheck, PC
  <2>3. CASE \E c \in {d \in Conn : Fresh(d)} :
               /\ pool' = Dialled(pool, c)
               /\ th' = [th EXCEPT ![t].pc = "set", ![t].c = c]
    <3>1. PICK c \in Conn : /\ pool' = Dialled(pool, c)
                            /\ th' = [th EXCEPT ![t].pc = "set", ![t].c = c]
      BY <2>3
    <3>2. Ready([th[t] EXCEPT !.pc = "set", !.c = c])
      BY <2>1 DEF Ready, Thread, PC
    <3>3. th' = [th EXCEPT ![t] = [th[t] EXCEPT !.pc = "set", !.c = c]]
      BY <3>1
    <3>4. th' \in [Proc -> Thread] /\ \A s \in Proc : Ready(th'[s])
      BY <3>2, <3>3, OneThread
    <3>5. pool' \in Pool
      BY <3>1, PoolTypes
    <3> QED
      BY <1>13, <3>4, <3>5 DEF ConnectCheck
  <2>4. CASE th' = [th EXCEPT ![t] = AfterConnect(t)] /\ UNCHANGED pool
    BY <1>2, <1>13, <2>4 DEF ConnectCheck, At
  <2> QED
    BY <1>13, <2>2, <2>3, <2>4 DEF ConnectCheck
<1>14. CASE PoolConn(t)
  <2>1. th[t].u \in UUID /\ th[t].c \in Conn
    BY <1>14 DEF PoolConn, At, Ready
  <2>2. th' \in [Proc -> Thread] /\ \A s \in Proc : Ready(th'[s])
    BY <1>1, <1>14, <2>1 DEF PoolConn, PC
  <2> QED
    BY <1>14, <2>1, <2>2, PoolTypes DEF PoolConn
<1>15. CASE OpenStream(t)
  <2>1. th[t].u \in UUID /\ th[t].c \in Conn
    BY <1>15 DEF OpenStream, At, Ready
  <2> QED
    BY <1>1, <1>15, <2>1 DEF OpenStream, PC
<1>16. CASE OpenStreamFails(t)
  <2>1. th[t].c \in Conn
    BY <1>16 DEF OpenStreamFails, At, Ready
  <2>2. th' \in [Proc -> Thread] /\ \A s \in Proc : Ready(th'[s])
    BY <1>2, <1>16 DEF OpenStreamFails, At
  <2>3. DeleteConn(pool, AddrOf[th[t].u]) \in Pool
    BY <2>1, PoolTypes
  <2> QED
    BY <1>16, <2>1, <2>2, <2>3, PoolTypes DEF OpenStreamFails
<1>17. CASE PoolStream(t)
  <2>1. th[t].u \in UUID /\ th[t].c \in Conn /\ th[t] \in Thread
    BY <1>17 DEF PoolStream, At, Ready
  <2>2. Ready([th[t] EXCEPT !.pc = "add", !.c = None])
    BY <2>1 DEF Ready, Thread, PC
  <2>3. th' = [th EXCEPT ![t] = [th[t] EXCEPT !.pc = "add", !.c = None]]
    BY <1>17 DEF PoolStream
  <2>4. th' \in [Proc -> Thread] /\ \A s \in Proc : Ready(th'[s])
    BY <2>2, <2>3, OneThread
  <2>5. ReadyLoop([pc |-> "recv", u |-> th[t].u])
    BY <2>1 DEF ReadyLoop, RecvLoop
  <2>6. recv' \in [Conn -> RecvLoop] /\ \A d \in Conn : ReadyLoop(recv'[d])
    BY <1>17, <2>1, <2>5, OneLoop DEF PoolStream
  <2> QED
    BY <1>17, <2>1, <2>4, <2>6, PoolTypes DEF PoolStream
<1>18. CASE AddOnlinePeer(t)
  <2>1. th[t].u \in UUID
    BY <1>18, AtPeer DEF AddOnlinePeer, At
  <2>2. ConnectedStatus(t) \subseteq NodeStatus
    BY DEF ConnectedStatus, NodeStatus
  <2>3. th' \in [Proc -> Thread] /\ \A s \in Proc : Ready(th'[s])
    BY <1>2, <1>18 DEF AddOnlinePeer, At
  <2> QED
    BY <1>18, <2>1, <2>2, <2>3, RegTyped DEF AddOnlinePeer
<1>19. CASE JobEnds(t)
  BY <1>2, <1>19 DEF JobEnds, At
<1>20. CASE HeartbeatAnswered(t)
  BY <1>2, <1>20, AtPeer, RegTyped DEF HeartbeatAnswered, Runs, NodeStatus
<1> QED
  BY <1>3, <1>4, <1>5, <1>6, <1>7, <1>8, <1>9, <1>10, <1>11, <1>12, <1>13, <1>14,
     <1>15, <1>16, <1>17, <1>18, <1>19, <1>20 DEF Step

\* The background loops between the peers they handle.
LEMMA LoopTyped ==
  ASSUME TypeInv, CleanupStalePeers \/ CleanNext \/ GossipAsk \/ GossipNext
  PROVE  TypeInv'
<1> USE DEF TypeInv
<1>a. Gossiper \in Proc /\ Cleaner \in Proc
  BY DEF Proc
<1>1. CASE CleanupStalePeers
  <2>1. Ready([Idle EXCEPT !.op = "clean", !.pc = "loop", !.todo = GetStale(reg, Timeout)])
    BY DEF Ready, Idle, Thread, Op, PC, GetStale, List
  <2> QED
    BY <1>1, <1>a, <2>1, OneThread DEF CleanupStalePeers
<1>2. CASE CleanNext
  <2>1. CASE th' = [th EXCEPT ![Cleaner] = Idle]
    BY <1>2, <1>a, <2>1, IdleReady, OneThread DEF CleanNext
  <2>2. ASSUME NEW u \in th[Cleaner].todo,
               th' = [th EXCEPT ![Cleaner].todo = @ \ {u},
                                ![Cleaner].u = IF u \in List(reg) THEN u ELSE None,
                                ![Cleaner].pc = IF u \in List(reg) THEN "status" ELSE "loop"]
        PROVE  TypeInv'
    <3> DEFINE left == th[Cleaner].todo \ {u}
               v == IF u \in List(reg) THEN u ELSE None
               pc == IF u \in List(reg) THEN "status" ELSE "loop"
               x == [th[Cleaner] EXCEPT !.todo = left, !.u = v, !.pc = pc]
    <3>1. th[Cleaner] \in Thread
      BY <1>a DEF Ready
    <3>2. th[Cleaner].todo \in SUBSET UUID
      BY <3>1 DEF Thread
    <3>a. left \in SUBSET UUID
      BY <3>2
    <3>b. (pc = "status" /\ v \in UUID) \/ (pc = "loop" /\ v = None)
      <4>u. u \in UUID
        BY <3>2
      <4> QED
        BY <4>u
    <3>3. th' = [th EXCEPT ![Cleaner] = x]
      BY <2>2
    <3> HIDE DEF left, v, pc
    <3>4. Ready(x)
      BY <3>1, <3>a, <3>b, LoopReady
    <3> HIDE DEF x
    <3> QED
      BY <1>2, <1>a, <3>3, <3>4, OneThread DEF CleanNext
  <2> QED
    BY <1>2, <2>1, <2>2 DEF CleanNext
<1>3. CASE GossipAsk
  <2>1. PICK a \in th[Gossiper].addrs, answer \in SUBSET UUID :
          th' = [th EXCEPT ![Gossiper].addrs = @ \ {a},
                           ![Gossiper].todo = answer, ![Gossiper].pc = "loop"]
    BY <1>3 DEF GossipAsk
  <2> DEFINE x == [th[Gossiper] EXCEPT !.addrs = th[Gossiper].addrs \ {a},
                                       !.todo = answer, !.pc = "loop"]
  <2>2. th[Gossiper] \in Thread
    BY <1>a DEF Ready
  <2>3. Ready(x)
    BY <2>2 DEF Ready, Thread, PC
  <2>4. th' = [th EXCEPT ![Gossiper] = x]
    BY <2>1
  <2> HIDE DEF x
  <2> QED
    BY <1>3, <1>a, <2>3, <2>4, OneThread DEF GossipAsk
<1>4. CASE GossipNext
  <2>1. th[Gossiper] \in Thread
    BY <1>a DEF Ready
  <2>2. ASSUME NEW u \in th[Gossiper].todo,
               th' = [th EXCEPT ![Gossiper] =
                        IF u = Self \/ u \in List(reg)
                        THEN [th[Gossiper] EXCEPT !.todo = @ \ {u}]
                        ELSE [[th[Gossiper] EXCEPT !.todo = @ \ {u}] EXCEPT
                                 !.u = u, !.pc = "discovered", !.cb = Callbacks]]
        PROVE  TypeInv'
    <3> DEFINE next == [th[Gossiper] EXCEPT !.todo = @ \ {u}]
    <3>1. Ready(next) /\ next \in Thread /\ u \in UUID
      BY <1>4, <2>1 DEF Ready, Thread, PC, GossipNext, Runs
    <3>2. th' = [th EXCEPT ![Gossiper] =
                   IF u = Self \/ u \in List(reg) THEN next
                   ELSE [next EXCEPT !.u = u, !.pc = "discovered", !.cb = Callbacks]]
      BY <2>2
    <3> HIDE DEF next
    <3>3. Ready([next EXCEPT !.u = u, !.pc = "discovered", !.cb = Callbacks])
      BY <3>1, CallbacksType DEF Ready, Thread, PC
    <3> QED
      BY <1>4, <1>a, <3>1, <3>2, <3>3, OneThread DEF GossipNext
  <2>3. CASE th' = [th EXCEPT ![Gossiper] = IF th[Gossiper].addrs = {} THEN Idle
                                            ELSE [th[Gossiper] EXCEPT !.pc = "ask"]]
    <3>1. Ready([th[Gossiper] EXCEPT !.pc = "ask"])
      BY <2>1 DEF Ready, Thread, PC
    <3> QED
      BY <1>4, <1>a, <2>3, <3>1, IdleReady, OneThread DEF GossipNext
  <2> QED
    BY <1>4, <2>2, <2>3 DEF GossipNext
<1> QED
  BY <1>1, <1>2, <1>3, <1>4

\* A spawned goroutine is scheduled.
LEMMA JobTyped ==
  ASSUME TypeInv, NEW t \in Threads, NEW j \in jobs, RunJob(t, j) PROVE TypeInv'
<1> USE DEF TypeInv
<1> DEFINE run == [Idle EXCEPT !.op = j.op, !.u = j.u]
<1>1. t \in Proc /\ j.op \in Op /\ j.u \in UUID
  BY DEF Proc, Job, Op
<1>2. ASSUME NEW c \in Conn, NEW pc \in {"rpc", "set"}
      PROVE  Ready([run EXCEPT !.pc = pc, !.c = c])
  BY <1>1 DEF Ready, Idle, Thread, PC
<1>3. AddrOf[j.u] \in Addr
  BY <1>1, RegistryAssumption
<1>4. pool.conns[AddrOf[j.u]] \in Conn \cup {None}
  BY <1>3 DEF Pool
<1>5. jobs' \subseteq Job
  BY DEF RunJob
<1> HIDE DEF run
<1>6. CASE /\ pool.conns[AddrOf[j.u]] # None
           /\ th' = [th EXCEPT ![t] = [run EXCEPT !.pc = "rpc", !.c = pool.conns[AddrOf[j.u]]]]
           /\ UNCHANGED pool
  <2>1. Ready([run EXCEPT !.pc = "rpc", !.c = pool.conns[AddrOf[j.u]]])
    BY <1>2, <1>4, <1>6
  <2>2. th' \in [Proc -> Thread] /\ \A s \in Proc : Ready(th'[s])
    BY <1>1, <1>6, <2>1, OneThread
  <2> QED
    BY <1>5, <1>6, <2>2 DEF RunJob
<1>7. CASE \E c \in {d \in Conn : Fresh(d)} :
             /\ pool' = Dialled(pool, c)
             /\ th' = [th EXCEPT ![t] = [run EXCEPT !.pc = "set", !.c = c]]
  <2>1. PICK c \in Conn : /\ pool' = Dialled(pool, c)
                          /\ th' = [th EXCEPT ![t] = [run EXCEPT !.pc = "set", !.c = c]]
    BY <1>7
  <2>2. th' \in [Proc -> Thread] /\ \A s \in Proc : Ready(th'[s])
    BY <1>1, <1>2, <2>1, OneThread
  <2> QED
    BY <1>5, <2>1, <2>2, PoolTypes DEF RunJob
<1>8. CASE UNCHANGED <<th, pool>>
  BY <1>5, <1>8 DEF RunJob
<1> QED
  BY <1>6, <1>7, <1>8 DEF RunJob, run

\* The receive loops.
LEMMA RecvTyped ==
  ASSUME TypeInv, NEW c \in Conn, RecvFails(c) \/ RecvStep(c) PROVE TypeInv'
<1> USE DEF TypeInv
<1>1. recv[c] \in RecvLoop /\ recv[c].u \in UUID
  BY DEF ReadyLoop, RecvFails, RecvStep, RecvEmitOffline, RecvDeleteConn, RecvDeleteStream
<1>2. ASSUME NEW pc \in {"emit", "delConn", "delStream"}, recv' = [recv EXCEPT ![c].pc = pc]
      PROVE  recv' \in [Conn -> RecvLoop] /\ \A d \in Conn : ReadyLoop(recv'[d])
  <2>1. ReadyLoop([recv[c] EXCEPT !.pc = pc])
    BY <1>1 DEF ReadyLoop, RecvLoop
  <2>2. recv' = [recv EXCEPT ![c] = [recv[c] EXCEPT !.pc = pc]]
    BY <1>2
  <2> QED
    BY <2>1, <2>2, OneLoop
<1>3. CASE RecvFails(c)
  <2>1. recv' = [recv EXCEPT ![c].pc = "emit"] \/ recv' = [recv EXCEPT ![c].pc = "delConn"]
    BY <1>3 DEF RecvFails
  <2>2. owed' \in [UUID -> Int]
    BY <1>1, <1>3 DEF RecvFails
  <2> QED
    BY <1>1, <1>2, <1>3, <2>1, <2>2, RegTyped DEF RecvFails
<1>4. CASE RecvEmitOffline(c)
  <2>1. owed' \in [UUID -> Int]
    BY <1>1, <1>4 DEF RecvEmitOffline
  <2> QED
    BY <1>2, <1>4, <2>1 DEF RecvEmitOffline
<1>5. CASE RecvDeleteConn(c)
  BY <1>2, <1>5, PoolTypes DEF RecvDeleteConn
<1>6. CASE RecvDeleteStream(c)
  <2>1. ReadyLoop(NoLoop)
    BY DEF ReadyLoop, RecvLoop, NoLoop
  <2> QED
    BY <1>6, <2>1, PoolTypes, OneLoop DEF RecvDeleteStream
<1> QED
  BY <1>3, <1>4, <1>5, <1>6 DEF RecvStep

LEMMA TypeInvNext == TypeInv /\ [Next]_vars => TypeInv'
<1> SUFFICES ASSUME TypeInv, [Next]_vars PROVE TypeInv'
  OBVIOUS
<1>1. CASE Start
  BY <1>1, StartTyped
<1>2. CASE Tick
  <2>1. Self \in UUID
    BY DEF UUID
  <2> QED
    BY <1>2, <2>1, RegTyped DEF Tick, TypeInv
<1>3. CASE CleanupStalePeers \/ CleanNext \/ GossipAsk \/ GossipNext
  BY <1>3, LoopTyped
<1>4. CASE \E t \in Threads, j \in jobs : RunJob(t, j)
  BY <1>4, JobTyped
<1>5. CASE \E t \in Proc : Step(t)
  BY <1>5, StepTyped
<1>6. CASE \E c \in Conn : RecvFails(c) \/ RecvStep(c)
  BY <1>6, RecvTyped
<1>7. CASE UNCHANGED vars
  BY <1>7 DEF vars, TypeInv
<1> QED
  BY <1>1, <1>2, <1>3, <1>4, <1>5, <1>6, <1>7 DEF Next

LEMMA TypeInvOK == TypeInv => TypeOK /\ Equipped
  BY DEF TypeInv, TypeOK, Equipped, Ready, ReadyLoop

LEMMA TypeInvariant == Spec => []TypeInv
<1> QED
  BY TypeInvInit, TypeInvNext, PTL DEF Spec

\* Type correctness: in particular no goroutine ever uses a peer or a
\* connection it has not got.
THEOREM TypeCorrect == Spec => []TypeOK
<1> QED
  BY TypeInvariant, TypeInvOK, PTL

-----------------------------------------------------------------------------
(* The registry.                                                           *)

RegInv == RegistryConsistent /\ (DistinctPeers => PeersFindable)

\* Every step changes the registry by at most one call of one of its writes.
RegStep ==
  \/ reg' = reg
  \/ \E u \in UUID :
       \/ \E s \in NodeStatus : reg' \in {Register(reg, u, s), UpdateStatus(reg, u, s)}
       \/ reg' \in {Unregister(reg, u), UpdateLastActive(reg, u), Elapse(reg)}

LEMMA NextRegStep == TypeInv /\ [Next]_vars => RegStep
<1> SUFFICES ASSUME TypeInv, [Next]_vars PROVE RegStep
  OBVIOUS
<1>1. CASE Start
  BY <1>1 DEF Start, RegStep, Handshake, Disconnect, NotifyNodeJoin, DisconnectPeer,
     HandshakeSeedNode, Heartbeat, SendHeartbeatToAllPeers, PerformGossipRound, NodeStatus
<1>2. CASE Tick
  BY <1>2 DEF Tick, RegStep, UUID
<1>3. CASE CleanupStalePeers \/ CleanNext \/ GossipAsk \/ GossipNext
  BY <1>3 DEF RegStep, CleanupStalePeers, CleanNext, GossipAsk, GossipNext
<1>4. CASE \E t \in Threads, j \in jobs : RunJob(t, j)
  BY <1>4 DEF RegStep, RunJob
<1>5. ASSUME NEW t \in Proc, Step(t) PROVE RegStep
  <2>1. CASE HandshakeNotify(t) \/ EmitOffline(t) \/ CloseConn(t) \/ BroadcastNodeJoin(t)
             \/ AutoConnectPeer(t) \/ ConnectNext(t) \/ ConnectCheck(t) \/ PoolConn(t)
             \/ OpenStream(t) \/ OpenStreamFails(t) \/ PoolStream(t) \/ JobEnds(t)
    BY <2>1 DEF RegStep, HandshakeNotify, EmitOffline, CloseConn, BroadcastNodeJoin,
       AutoConnectPeer, ConnectNext, ConnectCheck, PoolConn, OpenStream, OpenStreamFails,
       PoolStream, JobEnds
  <2>2. CASE NotifyKnown(t)
    BY <2>2, AtPeer DEF NotifyKnown, Runs, RegStep
  <2>3. CASE NotifyUnknown(t)
    BY <2>3, AtPeer DEF NotifyUnknown, Runs, RegStep, NodeStatus
  <2>4. CASE SetOffline(t)
    BY <2>4, AtPeer DEF SetOffline, At, RegStep, NodeStatus
  <2>5. CASE UnregisterPeer(t)
    BY <2>5, AtPeer DEF UnregisterPeer, At, RegStep
  <2>6. CASE AddOnlinePeer(t)
    <3>1. ConnectedStatus(t) \subseteq NodeStatus
      BY DEF ConnectedStatus, NodeStatus
    <3> QED
      BY <2>6, <3>1, AtPeer DEF AddOnlinePeer, At, RegStep
  <2>7. CASE HeartbeatAnswered(t)
    BY <2>7, AtPeer DEF HeartbeatAnswered, Runs, RegStep, NodeStatus
  <2> QED
    BY <1>5, <2>1, <2>2, <2>3, <2>4, <2>5, <2>6, <2>7 DEF Step
<1>6. ASSUME NEW c \in Conn, RecvFails(c) \/ RecvStep(c) PROVE RegStep
  BY <1>6 DEF TypeInv, ReadyLoop, RegStep, RecvFails, RecvStep, RecvEmitOffline,
     RecvDeleteConn, RecvDeleteStream
<1>7. CASE UNCHANGED vars
  BY <1>7 DEF vars, RegStep
<1> QED
  BY <1>1, <1>2, <1>3, <1>4, <1>5, <1>6, <1>7 DEF Next

LEMMA RegInvInit == Init => RegInv
<1> SUFFICES ASSUME Init PROVE RegInv
  OBVIOUS
<1>1. List(reg) = {}
  BY DEF Init, NewPeerRegistry, List
<1>2. MapsAgree(reg)
  BY <1>1 DEF Init, NewPeerRegistry, MapsAgree
<1>3. \A n \in Name : reg.nameToAddrs[n] = <<>>
  BY DEF Init, NewPeerRegistry
<1>4. IndexSound(reg)
  BY <1>3 DEF IndexSound, IsInjective, Contains
<1> QED
  BY <1>1, <1>2, <1>4 DEF RegInv, RegistryConsistent, PeersFindable, IndexComplete

LEMMA RegInvNext == TypeInv /\ RegInv /\ RegStep => RegInv'
<1> SUFFICES ASSUME TypeInv, RegInv, RegStep PROVE RegInv'
  OBVIOUS
<1>1. reg \in Registry /\ MapsAgree(reg) /\ IndexSound(reg)
      /\ (DistinctPeers => IndexComplete(reg))
  BY DEF TypeInv, RegInv, RegistryConsistent, PeersFindable
<1>2. MapsAgree(reg') /\ IndexSound(reg') /\ (DistinctPeers => IndexComplete(reg'))
  <2>1. CASE reg' = reg
    BY <1>1, <2>1
  <2>2. ASSUME NEW u \in UUID, NEW s \in NodeStatus, reg' = Register(reg, u, s)
        PROVE  MapsAgree(reg') /\ IndexSound(reg') /\ (DistinctPeers => IndexComplete(reg'))
    BY <1>1, <2>2, RegisterConsistent
  <2>3. ASSUME NEW u \in UUID, reg' = Unregister(reg, u)
        PROVE  MapsAgree(reg') /\ IndexSound(reg') /\ (DistinctPeers => IndexComplete(reg'))
    BY <1>1, <2>3, UnregisterConsistent
  <2>4. ASSUME NEW u \in UUID, NEW s \in NodeStatus,
               reg' \in {UpdateLastActive(reg, u), UpdateStatus(reg, u, s), Elapse(reg)}
        PROVE  MapsAgree(reg') /\ IndexSound(reg') /\ (DistinctPeers => IndexComplete(reg'))
    BY <1>1, <2>4, UpdateConsistent
  <2>5. "ONLINE" \in NodeStatus
    BY DEF NodeStatus
  <2> QED
    BY <2>1, <2>2, <2>3, <2>4, <2>5 DEF RegStep
<1> QED
  BY <1>2 DEF RegInv, RegistryConsistent, PeersFindable

LEMMA RegInvariant == Spec => []RegInv
<1> QED
  BY RegInvInit, RegInvNext, NextRegStep, TypeInvariant, PTL DEF Spec

\* The maps of the registry agree in every reachable state, for any number of
\* peers and goroutines.
THEOREM RegistryStaysConsistent == Spec => []RegistryConsistent
<1>1. RegInv => RegistryConsistent
  BY DEF RegInv
<1> QED
  BY <1>1, RegInvariant, PTL

\* If no two peers share name and address, every registered peer stays listed
\* under its name.
THEOREM PeersStayFindable == Spec => [](DistinctPeers => PeersFindable)
<1>1. RegInv => (DistinctPeers => PeersFindable)
  BY DEF RegInv
<1> QED
  BY <1>1, RegInvariant, PTL
=============================================================================
