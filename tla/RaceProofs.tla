----------------------------- MODULE RaceProofs -----------------------------
(***************************************************************************)
(* Proofs about the goroutines of Node that race: each removal of a peer   *)
(* is notified exactly once, no peer stays registered as OFFLINE, no       *)
(* pooled connection is closed, and no pooled stream has lost its loop.    *)
(*                                                                         *)
(* All need to know which goroutine may be where: only UnregisterPeer      *)
(* leads to "emit" or "close", only the steps of the removal leave them,   *)
(* and a goroutine that dials has a connection of its own.  ThreadStep     *)
(* says so of every step at once.                                          *)
(***************************************************************************)
EXTENDS NodeProofs

Removal == {"status", "unreg", "emit", "close"}

\* A goroutine that dials has its connection from a dial.
Dialling == {"set", "stream", "setStream"}
DialKept(t) ==
  th'[t].pc \in Dialling =>
    \/ /\ PoolConn(t) \/ OpenStream(t)
       /\ th[t].pc \in Dialling /\ th'[t].c = th[t].c /\ th'[t].u = th[t].u
    \/ th'[t].pc = "set" /\ Fresh(th'[t].c) /\ pool' = Dialled(pool, th'[t].c)

\* A step of t outside the last part of a removal.
Elsewhere(t) ==
  /\ th[t].pc \notin Removal
  /\ th'[t].pc \notin {"emit", "close"}
  /\ DialKept(t)

RemovalStep(t) == SetOffline(t) \/ UnregisterPeer(t) \/ EmitOffline(t) \/ CloseConn(t)

\* One goroutine moves at most.
ThreadStep ==
  /\ \A t \in Proc : th'[t] = th[t] \/ Elsewhere(t) \/ RemovalStep(t)
  /\ \E t \in Proc : \A s \in Proc : s # t => th'[s] = th[s]

LEMMA Moves ==
  ASSUME TypeInv, NEW t \in Proc, NEW x, th' = [th EXCEPT ![t] = x],
         th[t].pc \notin Removal, x.pc \notin {"emit", "close", "set", "stream", "setStream"}
  PROVE  ThreadStep
BY DEF TypeInv, ThreadStep, Elsewhere, DialKept, Dialling

\* Where the control-flow operators lead.
LEMMA ReturnsTo ==
  ASSUME TypeInv, NEW t \in Proc, NEW cb
  PROVE  /\ AfterPeer(t).pc \in {"loop", "idle"}
         /\ InEmit(t, cb).pc \in {"loop", "idle", "discovered"}
         /\ AfterConnect(t).pc \in {"loop", "idle", "discovered"}
<1>1. th[t] \in Thread
  BY DEF TypeInv
<1>2. AfterPeer(t).pc \in {"loop", "idle"} /\ AfterPeer(t) \in Thread
  BY <1>1 DEF AfterPeer, Idle, Thread, Op, PC
<1>3. ASSUME NEW x PROVE InEmit(t, x).pc \in {"loop", "idle", "discovered"}
  BY <1>1, <1>2 DEF InEmit, Thread
<1> QED
  BY <1>2, <1>3 DEF AfterConnect

LEMMA IdleFields == Idle.pc = "idle" /\ Idle.op = "none" /\ Idle \in Thread
BY DEF Idle, Thread, Op, PC

LEMMA StartMoves == ASSUME TypeInv, Start PROVE ThreadStep
<1>0. Threads \subseteq Proc /\ Gossiper \in Proc
  BY DEF Proc
<1> USE <1>0
<1>1. ASSUME NEW t \in Threads, NEW op, NEW pc, NEW u, Begin(t, op, pc, u),
             pc \notin {"emit", "close", "set", "stream", "setStream"}
      PROVE  ThreadStep
  <2> DEFINE x == [Idle EXCEPT !.op = op, !.pc = pc, !.u = u]
  <2>1. x.pc = pc /\ x.op = op
    BY IdleFields DEF Thread
  <2>2. th' = [th EXCEPT ![t] = x] /\ th[t].pc = "idle" /\ op \in Workload
    BY <1>1 DEF Begin, At
  <2> HIDE DEF x
  <2> QED
    BY <1>1, <2>1, <2>2, Moves DEF Removal
<1>2. ASSUME NEW t \in Threads, NEW u \in UUID,
             Handshake(t, u) \/ Disconnect(t, u) \/ NotifyNodeJoin(t, u)
      PROVE  ThreadStep
  BY <1>1, <1>2 DEF Handshake, Disconnect, NotifyNodeJoin
<1>3. ASSUME NEW t \in Threads, NEW n \in Name, DisconnectPeer(t, n) PROVE ThreadStep
  BY <1>1, <1>3 DEF DisconnectPeer
<1>4. ASSUME NEW t \in Threads, NEW u \in UUID, NEW known \in SUBSET UUID,
             HandshakeSeedNode(t, u, known)
      PROVE  ThreadStep
  <2> DEFINE x == [Idle EXCEPT !.op = "connect", !.pc = "loop", !.todo = known, !.seed = u]
  <2>1. x.pc = "loop"
    BY IdleFields DEF Thread
  <2>2. th' = [th EXCEPT ![t] = x] /\ th[t].pc = "idle" /\ "connect" \in Workload
    BY <1>4 DEF HandshakeSeedNode, At
  <2> HIDE DEF x
  <2> QED
    BY <2>1, <2>2, Moves DEF Removal
<1>5. CASE PerformGossipRound
  <2> DEFINE x == [Idle EXCEPT !.op = "gossip", !.pc = "ask", !.addrs = StreamAddrs(pool)]
  <2>1. x.pc = "ask" /\ x.op = "gossip"
    BY IdleFields DEF Thread
  <2>2. th' = [th EXCEPT ![Gossiper] = x] /\ th[Gossiper].pc = "idle"
    BY <1>5 DEF PerformGossipRound, At
  <2> HIDE DEF x
  <2> QED
    BY <2>1, <2>2, Moves DEF Removal
<1>6. ASSUME (\E u \in UUID : Heartbeat(u)) \/ SendHeartbeatToAllPeers PROVE ThreadStep
  BY <1>6 DEF Heartbeat, SendHeartbeatToAllPeers, ThreadStep
<1> QED
  BY <1>2, <1>3, <1>4, <1>5, <1>6 DEF Start

LEMMA StepMoves == ASSUME TypeInv, NEW t \in Proc, Step(t) PROVE ThreadStep
<1>0. th[t] \in Thread /\ th \in [Proc -> Thread]
  BY DEF TypeInv
<1>1. ASSUME th[t].pc \notin Removal, NEW cb,
             \/ th' = [th EXCEPT ![t] = Idle]
             \/ th' = [th EXCEPT ![t] = AfterPeer(t)]
             \/ th' = [th EXCEPT ![t] = AfterConnect(t)]
             \/ th' = [th EXCEPT ![t] = InEmit(t, cb)]
      PROVE  ThreadStep
  BY <1>1, Moves, ReturnsTo, IdleFields
<1>2. ASSUME th[t].pc \notin Removal, NEW pc, pc \notin {"emit", "close", "set", "stream", "setStream"},
             th' = [th EXCEPT ![t].pc = pc]
      PROVE  ThreadStep
  BY <1>0, <1>2 DEF ThreadStep, Elsewhere, DialKept, Dialling, Thread
<1>3. CASE RemovalStep(t)
  BY <1>0, <1>3 DEF RemovalStep, ThreadStep, SetOffline, UnregisterPeer, EmitOffline, CloseConn, Goto
<1>4. CASE HandshakeNotify(t) \/ NotifyKnown(t) \/ NotifyUnknown(t) \/ BroadcastNodeJoin(t)
  BY <1>1, <1>4 DEF HandshakeNotify, NotifyKnown, NotifyUnknown, BroadcastNodeJoin, Runs, At, Removal
<1>5. CASE AutoConnectPeer(t)
  <2> DEFINE left == th[t].cb \ {"autoConnect"}
             x == IF Connectable(th[t].u) THEN [th[t] EXCEPT !.pc = "has", !.cb = left]
                                          ELSE InEmit(t, left)
  <2>1. x.pc \notin {"emit", "close", "set", "stream", "setStream"}
    BY <1>0, ReturnsTo DEF Thread
  <2>2. th' = [th EXCEPT ![t] = x] /\ th[t].pc = "discovered"
    BY <1>5 DEF AutoConnectPeer, At
  <2> HIDE DEF x
  <2> QED
    BY <2>1, <2>2, Moves DEF Removal
<1>6. CASE ConnectNext(t)
  <2>1. th[t].pc = "loop" /\ \A s \in Proc : s # t => th'[s] = th[s]
    BY <1>0, <1>6 DEF ConnectNext, Runs
  <2>2. th'[t].pc \notin {"emit", "close", "set", "stream", "setStream"}
    <3>1. ASSUME NEW v \in th[t].todo,
                 th' = [th EXCEPT ![t].todo = @ \ {v},
                                  ![t].u = IF Connectable(v) THEN v ELSE None,
                                  ![t].pc = IF Connectable(v) THEN "has" ELSE "loop"]
          PROVE  th'[t].pc \notin {"emit", "close", "set", "stream", "setStream"} /\ th'[t].op = th[t].op
      BY <1>0, <3>1 DEF Thread
    <3>2. CASE th' = [th EXCEPT ![t].seed = None,
                        ![t].u = IF Connectable(th[t].seed) THEN th[t].seed ELSE None,
                        ![t].pc = IF Connectable(th[t].seed) THEN "has" ELSE "loop"]
      BY <1>0, <3>2 DEF Thread
    <3>3. CASE th' = [th EXCEPT ![t] = Idle]
      BY <1>0, <3>3, IdleFields
    <3> QED
      BY <1>6, <3>1, <3>2, <3>3 DEF ConnectNext
  <2> QED
    BY <2>1, <2>2 DEF ThreadStep, Elsewhere, DialKept, Dialling, Removal
<1>7. CASE ConnectCheck(t)
  <2>1. th[t].pc = "has"
    BY <1>7 DEF ConnectCheck, At
  <2>2. CASE Goto(t, "add")
    BY <1>0, <2>1, <2>2 DEF Goto, ThreadStep, Elsewhere, DialKept, Dialling, Removal, Thread
  <2>3. ASSUME NEW c, Fresh(c), pool' = Dialled(pool, c),
               th' = [th EXCEPT ![t].pc = "set", ![t].c = c]
        PROVE  ThreadStep
    BY <1>0, <2>1, <2>3 DEF ThreadStep, Elsewhere, DialKept, Dialling, Removal, Thread
  <2>4. CASE th' = [th EXCEPT ![t] = AfterConnect(t)]
    BY <1>1, <2>1, <2>4 DEF Removal
  <2> QED
    BY <1>7, <2>2, <2>3, <2>4 DEF ConnectCheck
<1>8. CASE PoolConn(t) \/ OpenStream(t)
  <2>1. PICK pc \in {"rpc", "stream", "setStream"} : Goto(t, pc) /\ th[t].pc \in Dialling
    BY <1>8 DEF PoolConn, OpenStream, At, Dialling
  <2> QED
    BY <1>0, <1>8, <2>1 DEF Goto, ThreadStep, Elsewhere, DialKept, Dialling, Removal, Thread
<1>9. CASE OpenStreamFails(t) \/ AddOnlinePeer(t) \/ JobEnds(t) \/ HeartbeatAnswered(t)
  BY <1>1, <1>9 DEF OpenStreamFails, AddOnlinePeer, JobEnds, HeartbeatAnswered, Runs, At, Removal
<1>10. CASE PoolStream(t)
  BY <1>0, <1>10 DEF PoolStream, At, ThreadStep, Elsewhere, DialKept, Dialling, Removal, Thread
<1> QED
  BY <1>3, <1>4, <1>5, <1>6, <1>7, <1>8, <1>9, <1>10 DEF Step, RemovalStep

LEMMA NextMoves == TypeInv /\ [Next]_vars => ThreadStep
<1> SUFFICES ASSUME TypeInv, [Next]_vars PROVE ThreadStep
  OBVIOUS
<1>0. th \in [Proc -> Thread] /\ Cleaner \in Proc /\ Gossiper \in Proc /\ Threads \subseteq Proc
  BY DEF TypeInv, Proc
<1>1. CASE CleanupStalePeers
  <2> DEFINE x == [Idle EXCEPT !.op = "clean", !.pc = "loop", !.todo = GetStale(reg, Timeout)]
  <2>1. x.pc = "loop" /\ x.op = "clean"
    BY IdleFields DEF Thread
  <2>2. th' = [th EXCEPT ![Cleaner] = x] /\ th[Cleaner].pc = "idle"
    BY <1>1 DEF CleanupStalePeers, At
  <2> HIDE DEF x
  <2> QED
    BY <1>0, <2>1, <2>2, Moves DEF Removal
<1>2. CASE CleanNext
  <2>1. th[Cleaner].pc = "loop" /\ \A s \in Proc : s # Cleaner => th'[s] = th[s]
    BY <1>0, <1>2 DEF CleanNext, Runs
  <2>2. th'[Cleaner].pc \notin {"emit", "close", "set", "stream", "setStream"}
    <3>1. ASSUME NEW u \in th[Cleaner].todo,
                 th' = [th EXCEPT ![Cleaner].todo = @ \ {u},
                                  ![Cleaner].u = IF u \in List(reg) THEN u ELSE None,
                                  ![Cleaner].pc = IF u \in List(reg) THEN "status" ELSE "loop"]
          PROVE  th'[Cleaner].pc \notin {"emit", "close", "set", "stream", "setStream"}
      BY <1>0, <3>1 DEF Thread
    <3>2. CASE th' = [th EXCEPT ![Cleaner] = Idle]
      BY <1>0, <3>2, IdleFields
    <3> QED
      BY <1>2, <3>1, <3>2 DEF CleanNext
  <2> QED
    BY <1>0, <2>1, <2>2 DEF ThreadStep, Elsewhere, DialKept, Dialling, Removal
<1>3. CASE GossipAsk
  BY <1>0, <1>3 DEF GossipAsk, Runs, ThreadStep, Elsewhere, DialKept, Dialling, Removal, Thread
<1>4. CASE GossipNext
  <2>1. th[Gossiper].pc = "loop" /\ \A s \in Proc : s # Gossiper => th'[s] = th[s]
    BY <1>0, <1>4 DEF GossipNext, Runs
  <2>2. th'[Gossiper].pc \notin {"emit", "close", "set", "stream", "setStream"}
    <3>1. ASSUME NEW u \in th[Gossiper].todo,
                 th' = [th EXCEPT ![Gossiper] =
                          IF u = Self \/ u \in List(reg)
                          THEN [th[Gossiper] EXCEPT !.todo = @ \ {u}]
                          ELSE [[th[Gossiper] EXCEPT !.todo = @ \ {u}]
                                  EXCEPT !.u = u, !.pc = "discovered", !.cb = Callbacks]]
          PROVE  th'[Gossiper].pc \notin {"emit", "close", "set", "stream", "setStream"}
      BY <1>0, <2>1, <3>1 DEF Thread
    <3>2. CASE th' = [th EXCEPT ![Gossiper] = IF th[Gossiper].addrs = {} THEN Idle
                                              ELSE [th[Gossiper] EXCEPT !.pc = "ask"]]
      BY <1>0, <3>2, IdleFields DEF Thread
    <3> QED
      BY <1>4, <3>1, <3>2 DEF GossipNext
  <2> QED
    BY <1>0, <2>1, <2>2 DEF ThreadStep, Elsewhere, DialKept, Dialling, Removal
<1>5. ASSUME NEW t \in Threads, NEW j \in jobs, RunJob(t, j) PROVE ThreadStep
  <2> DEFINE run == [Idle EXCEPT !.op = j.op, !.u = j.u]
  <2>1. run \in [op : {j.op}, pc : {"idle"}, u : {j.u}, todo : {Idle.todo},
                 addrs : {Idle.addrs}, seed : {Idle.seed}, c : {Idle.c}, cb : {Idle.cb}]
    BY DEF Idle
  <2>2. \A c, pc : /\ [run EXCEPT !.pc = pc, !.c = c].c = c
                   /\ [run EXCEPT !.pc = pc, !.c = c].pc = pc
    BY <2>1 DEF TypeInv, Job
  <2>3. th[t].pc = "idle"
    BY <1>5 DEF RunJob, At
  <2> HIDE DEF run
  <2>4. ASSUME NEW c, NEW pc \in {"rpc", "set"},
               pc = "set" => Fresh(c) /\ pool' = Dialled(pool, c),
               th' = [th EXCEPT ![t] = [run EXCEPT !.pc = pc, !.c = c]]
        PROVE  ThreadStep
    <3> DEFINE x == [run EXCEPT !.pc = pc, !.c = c]
    <3>1. x.pc = pc /\ x.c = c
      BY <2>2
    <3>2. th'[t] = x /\ \A s \in Proc : s # t => th'[s] = th[s]
      BY <1>0, <2>4
    <3> HIDE DEF x
    <3> QED
      BY <1>0, <2>3, <2>4, <3>1, <3>2
      DEF ThreadStep, Elsewhere, DialKept, Dialling, Removal
  <2>5. CASE UNCHANGED th
    BY <1>0, <2>5 DEF ThreadStep
  <2> QED
    BY <1>5, <2>4, <2>5 DEF RunJob, run
<1>6. CASE (\E c \in Conn : RecvFails(c) \/ RecvStep(c)) \/ Tick \/ UNCHANGED vars
  BY <1>0, <1>6 DEF RecvFails, RecvStep, RecvEmitOffline, RecvDeleteConn, RecvDeleteStream, Tick, vars,
     ThreadStep
<1> QED
  BY <1>1, <1>2, <1>3, <1>4, <1>5, <1>6, StartMoves, StepMoves DEF Next

-----------------------------------------------------------------------------
(* No peer stays OFFLINE.                                                  *)

\* The statuses that a step gives to peers, and by whom OFFLINE is given.
StatusStep ==
  \A u \in UUID : reg'.onlinePeers[u] = "OFFLINE" =>
    \/ reg.onlinePeers[u] = "OFFLINE"
       /\ \A t \in Proc : UnregisterPeer(t) => th[t].u # u
    \/ \E t \in Proc : SetOffline(t) /\ th[t].u = u

\* What the writers of the registry do to statuses.
LEMMA WriterStatuses ==
  ASSUME NEW r \in Registry, NEW u \in UUID, NEW v \in UUID, NEW s \in NodeStatus
  PROVE  /\ Register(r, v, s).onlinePeers[u] \in {r.onlinePeers[u], s}
         /\ UpdateStatus(r, v, s).onlinePeers[u] \in {r.onlinePeers[u], s}
         /\ u # v => UpdateStatus(r, v, s).onlinePeers[u] = r.onlinePeers[u]
         /\ Unregister(r, v).onlinePeers[u] \in {r.onlinePeers[u], None}
         /\ Unregister(r, u).onlinePeers[u] = None
         /\ UpdateLastActive(r, v).onlinePeers[u] = r.onlinePeers[u]
         /\ Elapse(r).onlinePeers[u] = r.onlinePeers[u]
BY DEF Registry, Register, UpdateStatus, Unregister, Removed, UpdateLastActive, Elapse

LEMMA NextStatus ==
  ASSUME TypeInv, [Next]_vars
  PROVE  StatusStep
<1>0. /\ reg \in Registry /\ None # "OFFLINE" /\ "OFFLINE" \in NodeStatus
      /\ {"UNKNOWN", "ONLINE", "BUSY"} \subseteq NodeStatus \ {"OFFLINE"}
  BY RegistryAssumption DEF TypeInv, NodeStatus
<1>1. SUFFICES ASSUME NEW u \in UUID, reg'.onlinePeers[u] = "OFFLINE"
               PROVE  \/ reg.onlinePeers[u] = "OFFLINE"
                      \/ \E t \in Proc : SetOffline(t) /\ th[t].u = u
  <2>1. ASSUME NEW t \in Proc, UnregisterPeer(t)
        PROVE  th[t].u \in UUID /\ reg'.onlinePeers[th[t].u] = None
    <3>1. th[t].u \in UUID
      BY <2>1, AtPeer DEF UnregisterPeer, At
    <3> QED
      BY <1>0, <2>1, <3>1, WriterStatuses DEF UnregisterPeer
  <2> QED
    BY <1>0, <1>1, <2>1 DEF StatusStep
<1> DEFINE Kept == reg.onlinePeers[u] = "OFFLINE"
<1>2. ASSUME NEW v \in UUID, NEW s \in NodeStatus \ {"OFFLINE"},
             \/ reg' \in {reg, Register(reg, v, s), UpdateStatus(reg, v, s)}
             \/ reg' \in {Unregister(reg, v), UpdateLastActive(reg, v), Elapse(reg)}
      PROVE  Kept
  BY <1>0, <1>1, <1>2, WriterStatuses
<1>3. ASSUME NEW t \in Proc, Step(t), ~SetOffline(t) PROVE Kept
  <2>1. CASE reg' = reg
    BY <1>1, <2>1
  <2>2. CASE NotifyKnown(t) \/ NotifyUnknown(t) \/ UnregisterPeer(t) \/ HeartbeatAnswered(t)
    <3>1. th[t].u \in UUID
      BY <2>2, AtPeer DEF NotifyKnown, NotifyUnknown, UnregisterPeer, HeartbeatAnswered, Runs, At
    <3> HIDE DEF Kept
    <3> QED
      BY <1>0, <1>2, <2>2, <3>1 DEF NotifyKnown, NotifyUnknown, UnregisterPeer, HeartbeatAnswered
  <2>3. CASE AddOnlinePeer(t)
    <3>1. th[t].u \in UUID
      BY <2>3, AtPeer DEF AddOnlinePeer, At
    <3>2. ConnectedStatus(t) \subseteq NodeStatus \ {"OFFLINE"}
      BY <1>0 DEF ConnectedStatus
    <3> HIDE DEF Kept
    <3> QED
      BY <1>2, <2>3, <3>1, <3>2 DEF AddOnlinePeer
  <2> QED
    BY <1>3, <2>1, <2>2, <2>3
    DEF Step, HandshakeNotify, EmitOffline, CloseConn, BroadcastNodeJoin, AutoConnectPeer,
        ConnectNext, ConnectCheck, PoolConn, OpenStream, OpenStreamFails, PoolStream, JobEnds
<1>4. CASE Start
  <2>1. \/ reg' = reg
        \/ \E v \in UUID, s \in {"ONLINE", "BUSY"} :
             reg' = Register(reg, v, s) \/ reg' = UpdateLastActive(reg, v)
    BY <1>4 DEF Start, Handshake, Disconnect, NotifyNodeJoin, DisconnectPeer, HandshakeSeedNode,
                Begin, Heartbeat, SendHeartbeatToAllPeers, PerformGossipRound
  <2> QED
    <3>1. CASE \E v \in UUID, s \in {"ONLINE", "BUSY"} :
                 reg' = Register(reg, v, s) \/ reg' = UpdateLastActive(reg, v)
      BY <1>0, <1>2, <3>1
    <3> QED
      BY <1>1, <2>1, <3>1
<1>5. ASSUME NEW c \in Conn, RecvFails(c) \/ RecvStep(c) PROVE Kept
  <2>1. recv[c].u \in UUID
    BY <1>5 DEF TypeInv, ReadyLoop, RecvFails, RecvStep, RecvEmitOffline, RecvDeleteConn,
                RecvDeleteStream
  <2> HIDE DEF Kept
  <2>2. CASE reg' = reg
    BY <1>0, <1>2, <2>1, <2>2
  <2>3. CASE reg' = Unregister(reg, recv[c].u)
    BY <1>0, <1>2, <2>1, <2>3
  <2> QED
    BY <1>5, <2>2, <2>3
    DEF RecvFails, RecvStep, RecvEmitOffline, RecvDeleteConn, RecvDeleteStream
<1>6. CASE CleanupStalePeers \/ CleanNext \/ GossipAsk \/ GossipNext \/ UNCHANGED vars
           \/ \E t \in Threads, j \in jobs : RunJob(t, j)
  BY <1>1, <1>6 DEF CleanupStalePeers, CleanNext, GossipAsk, GossipNext, RunJob, vars
<1>7. CASE Tick
  BY <1>0, <1>1, <1>7, WriterStatuses DEF Tick
<1>8. ASSUME NEW t \in Proc, Step(t) PROVE Kept \/ (SetOffline(t) /\ th[t].u = u)
  <2>1. CASE SetOffline(t)
    <3>1. th[t].u \in UUID /\ reg' = UpdateStatus(reg, th[t].u, "OFFLINE")
      BY <2>1, AtPeer DEF SetOffline, At
    <3> QED
      BY <1>0, <1>1, <2>1, <3>1, WriterStatuses
  <2> QED
    BY <1>3, <1>8, <2>1
<1> QED
  <2>1. CASE (\E c \in Conn : RecvFails(c) \/ RecvStep(c)) \/ \E t \in Proc : Step(t)
    BY <1>5, <1>8, <2>1
  <2> QED
    BY <1>4, <1>6, <1>7, <2>1 DEF Next

\* A peer that is marked OFFLINE is about to be unregistered by the goroutine that
\* marked it, whatever races with it; an OFFLINE that a seed reported is told apart.
THEOREM OfflineStaysTransient == Spec => []OfflineIsTransient
<1>1. Init => OfflineIsTransient
  <2>1. ASSUME Init PROVE \A u \in UUID : reg.onlinePeers[u] # "OFFLINE"
    BY <2>1, RegistryAssumption DEF Init, NewPeerRegistry, NodeStatus
  <2> QED
    BY <2>1 DEF OfflineIsTransient
<1>2. TypeInv /\ OfflineIsTransient /\ [Next]_vars => OfflineIsTransient'
  <2> SUFFICES ASSUME TypeInv, OfflineIsTransient, [Next]_vars,
                      NEW u \in UUID, reg'.onlinePeers[u] = "OFFLINE"
               PROVE  \E t \in Proc : th'[t].pc = "unreg" /\ th'[t].u = u
    BY DEF OfflineIsTransient, At
  <2>0. StatusStep /\ ThreadStep /\ th \in [Proc -> Thread]
    BY NextStatus, NextMoves DEF TypeInv
  <2>1. CASE reg.onlinePeers[u] = "OFFLINE" /\ \A t \in Proc : UnregisterPeer(t) => th[t].u # u
    <3>1. PICK t \in Proc : th[t].pc = "unreg" /\ th[t].u = u
      BY <2>1 DEF OfflineIsTransient, At
    <3>2. ~RemovalStep(t)
      BY <2>1, <3>1 DEF RemovalStep, SetOffline, EmitOffline, CloseConn, At
    <3> QED
      BY <2>0, <3>1, <3>2 DEF ThreadStep, Elsewhere, Removal
  <2>2. ASSUME NEW t \in Proc, SetOffline(t), th[t].u = u
        PROVE  th'[t].pc = "unreg" /\ th'[t].u = u
    BY <2>0, <2>2 DEF SetOffline, Goto, Thread
  <2> QED
    BY <2>0, <2>1, <2>2 DEF StatusStep
<1> QED
  BY <1>1, <1>2, TypeInvariant, PTL DEF Spec

-----------------------------------------------------------------------------
(* A connection being dialled has no receive loop yet: PoolStream never    *)
(* replaces the loop of another goroutine, which may owe a notification.   *)

DialOwned ==
  \A t \in Proc : th[t].pc \in Dialling =>
    /\ recv[th[t].c] = NoLoop
    /\ \A s \in Proc : s # t /\ th[s].pc \in Dialling => th[s].c # th[t].c

\* Where a removal's steps lead.
LEMMA RemovalLeads ==
  ASSUME TypeInv, NEW t \in Proc, RemovalStep(t)
  PROVE  th'[t].pc \in {"unreg", "emit", "close", "loop", "idle"}
<1>0. th \in [Proc -> Thread]
  BY DEF TypeInv
<1>1. CASE th' = [th EXCEPT ![t] = AfterPeer(t)]
  BY <1>0, <1>1, ReturnsTo
<1>2. ASSUME NEW pc \in {"unreg", "emit", "close"}, Goto(t, pc) PROVE th'[t].pc = pc
  BY <1>0, <1>2 DEF Goto, Thread
<1>3. CASE SetOffline(t)
  BY <1>2, <1>3 DEF SetOffline
<1>4. CASE UnregisterPeer(t)
  BY <1>1, <1>2, <1>4 DEF UnregisterPeer
<1>5. CASE EmitOffline(t)
  BY <1>1, <1>2, <1>5 DEF EmitOffline
<1>6. CASE CloseConn(t)
  BY <1>1, <1>2, <1>6 DEF CloseConn
<1> QED
  BY <1>3, <1>4, <1>5, <1>6 DEF RemovalStep

\* Who changes a receive loop, and whose.
LoopStep ==
  \/ recv' = recv
  \/ \E t \in Proc : PoolStream(t)
  \/ \E c \in Conn : RecvFails(c) \/ RecvStep(c)

LEMMA NextLoops == [Next]_vars => LoopStep
<1> SUFFICES ASSUME [Next]_vars PROVE LoopStep
  OBVIOUS
<1>1. CASE Start
  BY <1>1 DEF Start, LoopStep, Handshake, Disconnect, NotifyNodeJoin, DisconnectPeer,
     HandshakeSeedNode, Heartbeat, SendHeartbeatToAllPeers, PerformGossipRound
<1>2. ASSUME NEW t \in Proc, Step(t) PROVE LoopStep
  BY <1>2 DEF LoopStep, Step, HandshakeNotify, NotifyKnown, NotifyUnknown, SetOffline,
     UnregisterPeer, EmitOffline, CloseConn, BroadcastNodeJoin, AutoConnectPeer, ConnectNext,
     ConnectCheck, PoolConn, OpenStream, OpenStreamFails, AddOnlinePeer, JobEnds,
     HeartbeatAnswered
<1>3. CASE Tick \/ CleanupStalePeers \/ CleanNext \/ GossipAsk \/ GossipNext \/ UNCHANGED vars
           \/ \E t \in Threads, j \in jobs : RunJob(t, j)
  BY <1>3 DEF LoopStep, Tick, CleanupStalePeers, CleanNext, GossipAsk, GossipNext, RunJob, vars
<1>4. CASE \E c \in Conn : RecvFails(c) \/ RecvStep(c)
  BY <1>4 DEF LoopStep
<1> QED
  BY <1>1, <1>2, <1>3, <1>4 DEF Next

\* Only the goroutine that dialled it gives a connection its loop.
LEMMA NoLoopKept ==
  ASSUME TypeInv, LoopStep, NEW c \in Conn, recv[c] = NoLoop
  PROVE  recv'[c] = NoLoop \/ \E t \in Proc : PoolStream(t) /\ th[t].c = c
<1>0. recv \in [Conn -> RecvLoop]
  BY DEF TypeInv
<1>1. ASSUME NEW d \in Conn, RecvFails(d) \/ RecvStep(d) PROVE recv'[c] = recv[c]
  <2>1. d # c
    BY <1>1 DEF RecvFails, RecvStep, RecvEmitOffline, RecvDeleteConn, RecvDeleteStream, NoLoop
  <2> QED
    BY <1>0, <1>1, <2>1
    DEF RecvFails, RecvStep, RecvEmitOffline, RecvDeleteConn, RecvDeleteStream
<1>2. ASSUME NEW t \in Proc, PoolStream(t), th[t].c # c PROVE recv'[c] = recv[c]
  BY <1>0, <1>2 DEF PoolStream
<1> QED
  BY <1>1, <1>2 DEF LoopStep

LEMMA DialOwnedNext ==
  TypeInv /\ TypeInv' /\ DialOwned /\ ThreadStep /\ LoopStep => DialOwned'
<1> SUFFICES ASSUME TypeInv, TypeInv', DialOwned, ThreadStep, LoopStep,
                    NEW t \in Proc, th'[t].pc \in Dialling
             PROVE  /\ recv'[th'[t].c] = NoLoop
                    /\ \A s \in Proc : s # t /\ th'[s].pc \in Dialling => th'[s].c # th'[t].c
  BY DEF DialOwned
<1>0. th \in [Proc -> Thread] /\ recv \in [Conn -> RecvLoop]
  BY DEF TypeInv
<1>1. ASSUME NEW s \in Proc, th'[s].pc \in Dialling
      PROVE  \/ th[s].pc \in Dialling /\ th'[s].c = th[s].c
             \/ Fresh(th'[s].c) /\ th'[s] # th[s]
  <2>1. ~RemovalStep(s)
    BY <1>1, RemovalLeads DEF Dialling
  <2> QED
    BY <1>1, <2>1 DEF ThreadStep, Elsewhere, DialKept
<1>2. th'[t].c \in Conn
  BY DEF TypeInv, Ready, Dialling
<1>3. recv[th'[t].c] = NoLoop /\ \A s \in Proc : s # t /\ th[s].pc \in Dialling => th[s].c # th'[t].c
  BY <1>1 DEF DialOwned, Fresh
<1>4. recv'[th'[t].c] = NoLoop
  <2>1. SUFFICES ASSUME NEW s \in Proc, PoolStream(s), th[s].c = th'[t].c PROVE FALSE
    BY <1>2, <1>3, NoLoopKept
  <2>2. th[s].pc \in Dialling /\ th'[s].pc = "add"
    BY <1>0, <2>1 DEF PoolStream, At, Dialling, Thread
  <2> QED
    BY <1>3, <2>1, <2>2 DEF Dialling
<1>5. ASSUME NEW s \in Proc, s # t, th'[s].pc \in Dialling PROVE th'[s].c # th'[t].c
  <2>1. CASE th[s].pc \in Dialling /\ th'[s].c = th[s].c
    BY <1>3, <1>5, <2>1
  <2>2. CASE Fresh(th'[s].c) /\ th'[s] # th[s]
    <3>1. th'[t] = th[t]
      BY <1>5, <2>2 DEF ThreadStep
    <3> QED
      BY <2>2, <3>1 DEF Fresh
  <2> QED
    BY <1>1, <1>5, <2>1, <2>2
<1> QED
  BY <1>4, <1>5

LEMMA DialOwnedInit == Init => DialOwned
BY IdleFields DEF Init, DialOwned, Dialling

-----------------------------------------------------------------------------
(* The goroutines that owe a notification.                                 *)

ThreadOwes(t, u) ==
  th[t].u = u /\ (th[t].pc = "emit" \/ (th[t].op = "disconnectPeer" /\ th[t].pc = "close"))
LoopOwes(c, u) == recv[c].u = u /\ recv[c].pc = "emit"

LEMMA DebtorsAre ==
  ASSUME NEW u
  PROVE  Debtors(u) = {t \in Proc : ThreadOwes(t, u)} \cup {c \in Conn : LoopOwes(c, u)}
BY DEF Debtors, ThreadOwes, LoopOwes, At, Runs

LEMMA DebtorsFinite == ASSUME NEW u PROVE IsFiniteSet(Debtors(u))
<1>1. IsFiniteSet(Proc \cup Conn)
  BY NodeAssumption, FS_Union
<1>2. Debtors(u) \in SUBSET (Proc \cup Conn)
  BY DEF Debtors
<1> QED
  BY <1>1, <1>2, FS_Subset

\* A step that is no removal and no notification.
Quiet ==
  /\ \A t \in Proc : ~UnregisterPeer(t) /\ ~EmitOffline(t)
  /\ \A c \in Conn : ~RecvFails(c) /\ ~RecvEmitOffline(c)

LEMMA QuietOwes ==
  ASSUME Quiet, [Next]_vars
  PROVE  owed' = owed
<1>1. CASE Start
  BY <1>1 DEF Start, Handshake, Disconnect, NotifyNodeJoin, DisconnectPeer,
     HandshakeSeedNode, Heartbeat, SendHeartbeatToAllPeers, PerformGossipRound
<1>2. ASSUME NEW t \in Proc, Step(t) PROVE owed' = owed
  BY <1>2 DEF Quiet, Step, HandshakeNotify, NotifyKnown, NotifyUnknown, SetOffline,
     CloseConn, BroadcastNodeJoin, AutoConnectPeer, ConnectNext, ConnectCheck, PoolConn,
     OpenStream, OpenStreamFails, PoolStream, AddOnlinePeer, JobEnds, HeartbeatAnswered
<1>3. CASE Tick \/ CleanupStalePeers \/ CleanNext \/ GossipAsk \/ GossipNext \/ UNCHANGED vars
           \/ \E t \in Threads, j \in jobs : RunJob(t, j)
  BY <1>3 DEF Tick, CleanupStalePeers, CleanNext, GossipAsk, GossipNext, RunJob, vars
<1>4. ASSUME NEW c \in Conn, RecvFails(c) \/ RecvStep(c) PROVE owed' = owed
  BY <1>4 DEF Quiet, RecvStep, RecvDeleteConn, RecvDeleteStream
<1> QED
  BY <1>1, <1>2, <1>3, <1>4 DEF Next

LEMMA QuietThreads ==
  ASSUME Quiet, TypeInv, ThreadStep, NEW t \in Proc, NEW u \in UUID
  PROVE  ThreadOwes(t, u)' <=> ThreadOwes(t, u)
<1>0. th \in [Proc -> Thread] /\ th[t] \in Thread
  BY DEF TypeInv
<1>1. CASE th'[t] = th[t]
  BY <1>1 DEF ThreadOwes
<1>2. CASE Elsewhere(t)
  BY <1>2 DEF Elsewhere, ThreadOwes, Removal
<1>3. CASE SetOffline(t)
  BY <1>0, <1>3 DEF SetOffline, Goto, At, ThreadOwes, Thread
<1>4. CASE CloseConn(t)
  <2>1. CASE th[t].op = "disconnectPeer"
    BY <1>0, <1>4, <2>1 DEF CloseConn, Goto, At, ThreadOwes, Thread
  <2>2. CASE th[t].op # "disconnectPeer"
    BY <1>0, <1>4, <2>2, ReturnsTo DEF CloseConn, At, ThreadOwes
  <2> QED
    BY <2>1, <2>2
<1> QED
  BY <1>1, <1>2, <1>3, <1>4 DEF ThreadStep, RemovalStep, Quiet

LEMMA QuietLoops ==
  ASSUME Quiet, TypeInv, DialOwned, LoopStep, NEW c \in Conn, NEW u \in UUID
  PROVE  LoopOwes(c, u)' <=> LoopOwes(c, u)
<1>0. recv \in [Conn -> RecvLoop] /\ recv[c] \in RecvLoop
  BY DEF TypeInv
<1>1. CASE recv' = recv
  BY <1>1 DEF LoopOwes
<1>2. ASSUME NEW t \in Proc, PoolStream(t) PROVE LoopOwes(c, u)' <=> LoopOwes(c, u)
  <2>1. recv[th[t].c] = NoLoop
    BY <1>2 DEF DialOwned, PoolStream, At, Dialling
  <2>2. recv' = [recv EXCEPT ![th[t].c] = [pc |-> "recv", u |-> th[t].u]]
    BY <1>2 DEF PoolStream
  <2> QED
    BY <1>0, <2>1, <2>2 DEF LoopOwes, NoLoop
<1>3. ASSUME NEW d \in Conn, RecvFails(d) \/ RecvStep(d) PROVE LoopOwes(c, u)' <=> LoopOwes(c, u)
  BY <1>0, <1>3
  DEF Quiet, RecvStep, RecvDeleteConn, RecvDeleteStream, LoopOwes, NoLoop, RecvLoop
<1> QED
  BY <1>1, <1>2, <1>3 DEF LoopStep

LEMMA QuietDebtors ==
  ASSUME Quiet, TypeInv, DialOwned, ThreadStep, LoopStep, NEW u \in UUID
  PROVE  Debtors(u)' = Debtors(u)
<1>1. {t \in Proc : ThreadOwes(t, u)'} = {t \in Proc : ThreadOwes(t, u)}
  BY QuietThreads
<1>2. {c \in Conn : LoopOwes(c, u)'} = {c \in Conn : LoopOwes(c, u)}
  BY QuietLoops
<1>3. Debtors(u)' = {t \in Proc : ThreadOwes(t, u)'} \cup {c \in Conn : LoopOwes(c, u)'}
  BY DEF Debtors, ThreadOwes, LoopOwes, At, Runs
<1> QED
  BY <1>1, <1>2, <1>3, DebtorsAre

-----------------------------------------------------------------------------
(* A removal adds one debtor and a notification takes one away.            *)

\* The step makes d a debtor of w, or frees it, and changes no other debt.
Joins(d, w) ==
  /\ owed' = [owed EXCEPT ![w] = @ + 1]
  /\ d \notin Debtors(w)
  /\ \A u \in UUID : Debtors(u)' = IF u = w THEN Debtors(u) \cup {d} ELSE Debtors(u)

Leaves(d, w) ==
  /\ owed' = [owed EXCEPT ![w] = @ - 1]
  /\ d \in Debtors(w)
  /\ \A u \in UUID : Debtors(u)' = IF u = w THEN Debtors(u) \ {d} ELSE Debtors(u)

LEMMA JoinsAccounted ==
  ASSUME TypeInv, OfflineAccounted, NEW d, NEW w \in UUID, Joins(d, w)
  PROVE  OfflineAccounted'
<1> SUFFICES ASSUME NEW u \in UUID PROVE owed'[u] = Cardinality(Debtors(u)')
  BY DEF OfflineAccounted
<1>1. owed[u] = Cardinality(Debtors(u)) /\ owed \in [UUID -> Int]
  BY DEF OfflineAccounted, TypeInv
<1>2. CASE u = w
  <2>1. Cardinality(Debtors(u) \cup {d}) = Cardinality(Debtors(u)) + 1
    BY <1>2, DebtorsFinite, FS_AddElement DEF Joins
  <2> QED
    BY <1>1, <1>2, <2>1 DEF Joins
<1>3. CASE u # w
  BY <1>1, <1>3 DEF Joins
<1> QED
  BY <1>2, <1>3

LEMMA LeavesAccounted ==
  ASSUME TypeInv, OfflineAccounted, NEW d, NEW w \in UUID, Leaves(d, w)
  PROVE  OfflineAccounted'
<1> SUFFICES ASSUME NEW u \in UUID PROVE owed'[u] = Cardinality(Debtors(u)')
  BY DEF OfflineAccounted
<1>1. owed[u] = Cardinality(Debtors(u)) /\ owed \in [UUID -> Int]
  BY DEF OfflineAccounted, TypeInv
<1>2. CASE u = w
  <2>1. Cardinality(Debtors(u) \ {d}) = Cardinality(Debtors(u)) - 1
    BY <1>2, DebtorsFinite, FS_RemoveElement DEF Leaves
  <2> QED
    BY <1>1, <1>2, <2>1 DEF Leaves
<1>3. CASE u # w
  BY <1>1, <1>3 DEF Leaves
<1> QED
  BY <1>2, <1>3

LEMMA DebtorsNext ==
  ASSUME NEW u
  PROVE  Debtors(u)' = {t \in Proc : ThreadOwes(t, u)'} \cup {c \in Conn : LoopOwes(c, u)'}
BY DEF Debtors, ThreadOwes, LoopOwes, At, Runs

\* A removal makes its goroutine a debtor when it removed the peer.
LEMMA UnregisterAccounted ==
  ASSUME TypeInv, OfflineAccounted, NEW t \in Proc, UnregisterPeer(t)
  PROVE  OfflineAccounted'
<1> DEFINE w == th[t].u
<1>0. w \in UUID /\ th[t].pc = "unreg" /\ th \in [Proc -> Thread] /\ recv' = recv
  BY AtPeer DEF UnregisterPeer, At, TypeInv
<1>1. \A u \in UUID : ~ThreadOwes(t, u) /\ t \notin Debtors(u)
  BY <1>0, NodeAssumption DEF ThreadOwes, Debtors, At, Runs
<1>2. \A s \in Proc \ {t}, u \in UUID : ThreadOwes(s, u)' <=> ThreadOwes(s, u)
  BY <1>0 DEF UnregisterPeer, Goto, ThreadOwes
<1>3. \A c \in Conn, u \in UUID : LoopOwes(c, u)' <=> LoopOwes(c, u)
  BY <1>0 DEF LoopOwes
<1>4. CASE Removed(reg, w)
  <2>1. \A u \in UUID : ThreadOwes(t, u)' <=> u = w
    BY <1>0, <1>4 DEF UnregisterPeer, Goto, ThreadOwes, Thread
  <2>2. \A u \in UUID : Debtors(u)' = IF u = w THEN Debtors(u) \cup {t} ELSE Debtors(u)
    BY <1>1, <1>2, <1>3, <2>1, DebtorsAre, DebtorsNext
  <2>3. Joins(t, w)
    BY <1>0, <1>1, <1>4, <2>2 DEF UnregisterPeer, Joins
  <2> QED
    BY <1>0, <2>3, JoinsAccounted
<1>5. CASE ~Removed(reg, w)
  <2>1. \A u \in UUID : ~ThreadOwes(t, u)'
    BY <1>0, <1>5, ReturnsTo DEF UnregisterPeer, ThreadOwes
  <2>2. \A u \in UUID : Debtors(u)' = Debtors(u)
    BY <1>1, <1>2, <1>3, <2>1, DebtorsAre, DebtorsNext
  <2> QED
    BY <1>5, <2>2 DEF UnregisterPeer, OfflineAccounted
<1> QED
  BY <1>4, <1>5

LEMMA EmitAccounted ==
  ASSUME TypeInv, OfflineAccounted, NEW t \in Proc, EmitOffline(t)
  PROVE  OfflineAccounted'
<1> DEFINE w == th[t].u
<1>0. w \in UUID /\ th[t].pc = "emit" /\ th \in [Proc -> Thread] /\ recv' = recv
  BY AtPeer DEF EmitOffline, At, TypeInv
<1>1. \A u \in UUID : ThreadOwes(t, u) <=> u = w
  BY <1>0 DEF ThreadOwes
<1>2. \A s \in Proc \ {t}, u \in UUID : ThreadOwes(s, u)' <=> ThreadOwes(s, u)
  BY <1>0 DEF EmitOffline, Goto, ThreadOwes
<1>3. \A c \in Conn, u \in UUID : LoopOwes(c, u)' <=> LoopOwes(c, u)
  BY <1>0 DEF LoopOwes
<1>4. \A u \in UUID : ~ThreadOwes(t, u)'
  <2>1. CASE th[t].op = "clean"
    BY <1>0, <2>1 DEF EmitOffline, Goto, ThreadOwes, Thread
  <2>2. CASE th[t].op # "clean"
    BY <1>0, <2>2, ReturnsTo DEF EmitOffline, ThreadOwes
  <2> QED
    BY <2>1, <2>2
<1>5. t \in Debtors(w) /\ t \notin Conn
  BY <1>0, <1>1, DebtorsAre, NodeAssumption
<1>6. \A u \in UUID : Debtors(u)' = IF u = w THEN Debtors(u) \ {t} ELSE Debtors(u)
  BY <1>1, <1>2, <1>3, <1>4, <1>5, DebtorsAre, DebtorsNext
<1>7. Leaves(t, w)
  BY <1>5, <1>6 DEF EmitOffline, Leaves
<1> QED
  BY <1>0, <1>7, LeavesAccounted

LEMMA RecvFailsAccounted ==
  ASSUME TypeInv, OfflineAccounted, NEW c \in Conn, RecvFails(c)
  PROVE  OfflineAccounted'
<1> DEFINE w == recv[c].u
<1>0. w \in UUID /\ recv[c].pc = "recv" /\ recv \in [Conn -> RecvLoop] /\ th' = th
  BY DEF RecvFails, TypeInv, ReadyLoop
<1>1. \A u \in UUID : ~LoopOwes(c, u) /\ c \notin Debtors(u)
  BY <1>0, NodeAssumption DEF LoopOwes, Debtors
<1>2. \A d \in Conn \ {c}, u \in UUID : LoopOwes(d, u)' <=> LoopOwes(d, u)
  BY <1>0 DEF RecvFails, LoopOwes
<1>3. \A t \in Proc, u \in UUID : ThreadOwes(t, u)' <=> ThreadOwes(t, u)
  BY <1>0 DEF ThreadOwes
<1>4. CASE Removed(reg, w)
  <2>1. \A u \in UUID : LoopOwes(c, u)' <=> u = w
    BY <1>0, <1>4 DEF RecvFails, LoopOwes, RecvLoop
  <2>2. \A u \in UUID : Debtors(u)' = IF u = w THEN Debtors(u) \cup {c} ELSE Debtors(u)
    BY <1>1, <1>2, <1>3, <2>1, DebtorsAre, DebtorsNext
  <2>3. Joins(c, w)
    BY <1>0, <1>1, <1>4, <2>2 DEF RecvFails, Joins
  <2> QED
    BY <1>0, <2>3, JoinsAccounted
<1>5. CASE ~Removed(reg, w)
  <2>1. \A u \in UUID : ~LoopOwes(c, u)'
    BY <1>0, <1>5 DEF RecvFails, LoopOwes, RecvLoop
  <2>2. \A u \in UUID : Debtors(u)' = Debtors(u)
    BY <1>1, <1>2, <1>3, <2>1, DebtorsAre, DebtorsNext
  <2> QED
    BY <1>5, <2>2 DEF RecvFails, OfflineAccounted
<1> QED
  BY <1>4, <1>5

LEMMA RecvEmitAccounted ==
  ASSUME TypeInv, OfflineAccounted, NEW c \in Conn, RecvEmitOffline(c)
  PROVE  OfflineAccounted'
<1> DEFINE w == recv[c].u
<1>0. w \in UUID /\ recv[c].pc = "emit" /\ recv \in [Conn -> RecvLoop] /\ th' = th
  BY DEF RecvEmitOffline, TypeInv, ReadyLoop
<1>1. \A u \in UUID : (LoopOwes(c, u) <=> u = w) /\ ~LoopOwes(c, u)'
  BY <1>0 DEF RecvEmitOffline, LoopOwes, RecvLoop
<1>2. \A d \in Conn \ {c}, u \in UUID : LoopOwes(d, u)' <=> LoopOwes(d, u)
  BY <1>0 DEF RecvEmitOffline, LoopOwes
<1>3. \A t \in Proc, u \in UUID : ThreadOwes(t, u)' <=> ThreadOwes(t, u)
  BY <1>0 DEF ThreadOwes
<1>4. c \in Debtors(w) /\ c \notin Proc
  BY <1>0, <1>1, DebtorsAre, NodeAssumption
<1>5. \A u \in UUID : Debtors(u)' = IF u = w THEN Debtors(u) \ {c} ELSE Debtors(u)
  BY <1>1, <1>2, <1>3, <1>4, DebtorsAre, DebtorsNext
<1>6. Leaves(c, w)
  BY <1>4, <1>5 DEF RecvEmitOffline, Leaves
<1> QED
  BY <1>0, <1>6, LeavesAccounted

\* Each removal of a peer is answered by exactly one peer_offline notification,
\* whichever of Disconnect, DisconnectPeer, the cleaner and a failing stream race.
THEOREM RemovalsNotifiedOnce == Spec => []OfflineAccounted
<1>1. Init => OfflineAccounted
  <2> SUFFICES ASSUME Init, NEW u \in UUID PROVE owed[u] = Cardinality(Debtors(u))
    BY DEF OfflineAccounted
  <2>1. Debtors(u) = {}
    BY IdleFields DEF Init, Debtors, At, Runs, NoLoop
  <2> QED
    BY <2>1, FS_EmptySet DEF Init
<1>2. TypeInv /\ DialOwned /\ ThreadStep /\ LoopStep /\ OfflineAccounted /\ [Next]_vars
      => OfflineAccounted'
  <2> SUFFICES ASSUME TypeInv, DialOwned, ThreadStep, LoopStep, OfflineAccounted, [Next]_vars
               PROVE  OfflineAccounted'
    OBVIOUS
  <2>1. CASE Quiet
    BY <2>1, QuietOwes, QuietDebtors DEF OfflineAccounted
  <2>2. CASE ~Quiet
    BY <2>2, UnregisterAccounted, EmitAccounted, RecvFailsAccounted, RecvEmitAccounted DEF Quiet
  <2> QED
    BY <2>1, <2>2
<1>3. TypeInv /\ TypeInv' /\ DialOwned /\ [Next]_vars => DialOwned'
  BY NextMoves, NextLoops, DialOwnedNext
<1> QED
  BY <1>1, <1>2, <1>3, NextMoves, NextLoops, DialOwnedInit, TypeInvariant, PTL DEF Spec
-----------------------------------------------------------------------------
(* The pool.  A pooled connection is open because a connection is pooled   *)
(* for one address only, and the goroutine that may still close it, the    *)
(* one whose stream did not open, pooled it for the address that it clears *)
(* first.                                                                  *)

PoolOwned ==
  /\ \A a, b \in Addr : pool.conns[a] = pool.conns[b] => a = b \/ pool.conns[a] = None
  /\ \A t \in Proc : At(t, "set") =>
       th[t].c \in pool.open /\ \A a \in Addr : pool.conns[a] # th[t].c
  /\ \A t \in Proc : At(t, "stream") =>
       \A a \in Addr : pool.conns[a] = th[t].c => a = AddrOf[th[t].u]

\* Everything that a step does to the pool.
PoolStep ==
  \/ pool' = pool
  \/ \E c \in Conn : Fresh(c) /\ pool' = Dialled(pool, c)
  \/ \E t \in Proc : CloseConn(t) \/ PoolConn(t) \/ OpenStreamFails(t) \/ PoolStream(t)
  \/ \E c \in Conn : RecvDeleteConn(c) \/ RecvDeleteStream(c)

LEMMA NextPools == [Next]_vars => PoolStep
<1> SUFFICES ASSUME [Next]_vars PROVE PoolStep
  OBVIOUS
<1>0. CASE pool' = pool
  BY <1>0 DEF PoolStep
<1>1. ASSUME Start PROVE pool' = pool
  BY <1>1 DEF Start, Handshake, Disconnect, NotifyNodeJoin, DisconnectPeer,
     HandshakeSeedNode, Heartbeat, SendHeartbeatToAllPeers, PerformGossipRound
<1>2. ASSUME NEW t \in Proc, Step(t) PROVE PoolStep
  <2>1. CASE ConnectCheck(t)
    BY <2>1 DEF ConnectCheck, PoolStep
  <2>2. CASE CloseConn(t) \/ PoolConn(t) \/ OpenStreamFails(t) \/ PoolStream(t)
    BY <2>2 DEF PoolStep
  <2> QED
    BY <1>0, <1>2, <2>1, <2>2 DEF Step, HandshakeNotify, NotifyKnown, NotifyUnknown, SetOffline,
       UnregisterPeer, EmitOffline, BroadcastNodeJoin, AutoConnectPeer, ConnectNext,
       OpenStream, AddOnlinePeer, JobEnds, HeartbeatAnswered
<1>3. CASE \E t \in Threads, j \in jobs : RunJob(t, j)
  BY <1>3 DEF RunJob, PoolStep
<1>4. CASE Tick \/ CleanupStalePeers \/ CleanNext \/ GossipAsk \/ GossipNext \/ UNCHANGED vars
  BY <1>0, <1>4 DEF Tick, CleanupStalePeers, CleanNext, GossipAsk, GossipNext, vars
<1>5. CASE \E c \in Conn : RecvFails(c) \/ RecvStep(c)
  BY <1>5 DEF PoolStep, RecvFails, RecvStep, RecvEmitOffline
<1> QED
  BY <1>0, <1>1, <1>2, <1>3, <1>4, <1>5 DEF Next

\* How a goroutine comes to hold a connection that it has dialled.
LEMMA Dialers ==
  ASSUME TypeInv, ThreadStep, NEW t \in Proc, th'[t].pc \in {"set", "stream"}
  PROVE  \/ th'[t] = th[t]
         \/ PoolConn(t) /\ th'[t].pc = "stream" /\ th'[t].c = th[t].c /\ th'[t].u = th[t].u
         \/ th'[t].pc = "set" /\ Fresh(th'[t].c) /\ pool' = Dialled(pool, th'[t].c)
<1>1. ~RemovalStep(t)
  BY RemovalLeads
<1>2. CASE OpenStream(t)
  BY <1>2 DEF OpenStream, Goto, TypeInv, Thread
<1>3. CASE PoolConn(t)
  BY <1>3 DEF PoolConn, Goto, TypeInv, Thread
<1> QED
  BY <1>1, <1>2, <1>3 DEF ThreadStep, Elsewhere, DialKept, Dialling

\* A connection is closed and leaves the pool: no goroutine still has to pool it,
\* and no other address has it.
LEMMA DropKeepsPool ==
  ASSUME TypeInv, TypeInv', ThreadStep, PooledOpen, PoolOwned, NEW a \in Addr, NEW d,
         pool'.conns = [pool.conns EXCEPT ![a] = None],
         pool'.open = pool.open \ {pool.conns[a], d},
         \A b \in Addr \ {a} : pool.conns[b] = d => d = None,
         \A t \in Proc : At(t, "set") => th[t].c # d
  PROVE  PooledOpen' /\ PoolOwned'
<1>0. pool \in Pool /\ pool.conns \in [Addr -> Conn \cup {None}] /\ None \notin Conn
  BY PoolAssumption DEF TypeInv, Pool
<1>1. PooledOpen'
  BY <1>0 DEF PooledOpen, PooledConnsOpen, PoolOwned
<1>2. \A b \in Addr : pool'.conns[b] \in {pool.conns[b], None} /\ pool'.conns[a] = None
  BY <1>0
<1>3. ASSUME NEW t \in Proc, th'[t].pc \in {"set", "stream"} PROVE th'[t] = th[t]
  <2>1. CASE Fresh(th'[t].c) /\ pool' = Dialled(pool, th'[t].c) /\ th'[t].pc = "set"
    <3>1. th'[t].c \in pool'.open
      <4>1. th'[t].c \in Conn
        BY <2>1 DEF TypeInv, Ready
      <4>2. Dialled(pool, th'[t].c).open = pool.open \cup {th'[t].c}
        BY <1>0 DEF Dialled, Pool
      <4> QED
        BY <2>1, <4>2
    <3> QED
      BY <2>1, <3>1 DEF Fresh
  <2>2. CASE PoolConn(t)
    <3>1. AddrOf[th[t].u] \in Addr /\ th[t].c \in Conn
      <4>1. th[t].pc = "set"
        BY <2>2 DEF PoolConn, At
      <4> QED
        BY <4>1, AtPeer DEF TypeInv, Ready
    <3>2. pool'.conns[AddrOf[th[t].u]] = th[t].c
      BY <1>0, <2>2, <3>1 DEF PoolConn, SetConn, Pool
    <3>3. pool.conns[AddrOf[th[t].u]] # th[t].c /\ th[t].c # None
      BY <1>0, <2>2, <3>1 DEF PoolOwned, PoolConn
    <3> QED
      BY <1>2, <3>1, <3>2, <3>3
  <2> QED
    BY <1>3, <2>1, <2>2, Dialers
<1>4. \A x, y \in Addr : pool'.conns[x] = pool'.conns[y] => x = y \/ pool'.conns[x] = None
  BY <1>0, <1>2 DEF PoolOwned
<1>5. ASSUME NEW t \in Proc, th'[t].pc = "set"
      PROVE  th'[t].c \in pool'.open /\ \A b \in Addr : pool'.conns[b] # th'[t].c
  <2>1. th[t].pc = "set" /\ th'[t].c = th[t].c /\ th[t].c \in Conn
    BY <1>3, <1>5 DEF TypeInv, Ready
  <2> QED
    BY <1>0, <1>2, <2>1 DEF PoolOwned, At
<1>6. ASSUME NEW t \in Proc, th'[t].pc = "stream", NEW b \in Addr, pool'.conns[b] = th'[t].c
      PROVE  b = AddrOf[th'[t].u]
  <2>1. th[t].pc = "stream" /\ th'[t].c = th[t].c /\ th'[t].u = th[t].u /\ th[t].c \in Conn
    BY <1>3, <1>6 DEF TypeInv, Ready
  <2> QED
    BY <1>0, <1>2, <1>6, <2>1 DEF PoolOwned, At
<1> QED
  BY <1>1, <1>4, <1>5, <1>6 DEF PoolOwned, At

\* Dialling a connection and pooling a stream change no pooled connection.
LEMMA SamePool ==
  ASSUME TypeInv, TypeInv', ThreadStep, PooledOpen, PoolOwned,
         pool'.conns = pool.conns, pool.open \subseteq pool'.open
  PROVE  PooledOpen' /\ PoolOwned'
<1>0. pool \in Pool /\ pool.conns \in [Addr -> Conn \cup {None}] /\ None \notin Conn
  BY PoolAssumption DEF TypeInv, Pool
<1>1. PooledOpen'
  BY DEF PooledOpen, PooledConnsOpen
<1>2. ASSUME NEW t \in Proc, th'[t].pc \in {"set", "stream"}
      PROVE  \/ th'[t] = th[t]
             \/ th'[t].pc = "set" /\ th'[t].c \notin pool.open /\ th'[t].c \in pool'.open
  <2>1. CASE Fresh(th'[t].c) /\ pool' = Dialled(pool, th'[t].c) /\ th'[t].pc = "set"
    BY <1>0, <2>1 DEF Fresh, Dialled, Pool
  <2>2. CASE PoolConn(t)
    <3>1. AddrOf[th[t].u] \in Addr /\ th[t].c \in Conn
      <4>1. th[t].pc = "set"
        BY <2>2 DEF PoolConn, At
      <4> QED
        BY <4>1, AtPeer DEF TypeInv, Ready
    <3>2. pool'.conns[AddrOf[th[t].u]] = th[t].c
      BY <1>0, <2>2, <3>1 DEF PoolConn, SetConn, Pool
    <3> QED
      BY <2>2, <3>1, <3>2 DEF PoolOwned, PoolConn
  <2> QED
    BY <1>2, <2>1, <2>2, Dialers
<1>3. ASSUME NEW t \in Proc, th'[t].pc = "set"
      PROVE  th'[t].c \in pool'.open /\ \A b \in Addr : pool'.conns[b] # th'[t].c
  <2>1. CASE th'[t] = th[t]
    BY <1>3, <2>1 DEF PoolOwned, At
  <2>2. CASE th'[t].c \notin pool.open /\ th'[t].c \in pool'.open
    <3>1. th'[t].c # None
      BY <1>0, <1>3 DEF TypeInv, Ready
    <3> QED
      BY <2>2, <3>1 DEF PooledOpen, PooledConnsOpen
  <2> QED
    BY <1>2, <1>3, <2>1, <2>2
<1>4. ASSUME NEW t \in Proc, th'[t].pc = "stream", NEW b \in Addr, pool'.conns[b] = th'[t].c
      PROVE  b = AddrOf[th'[t].u]
  BY <1>2, <1>4 DEF PoolOwned, At
<1> QED
  BY <1>1, <1>3, <1>4 DEF PoolOwned, At

\* SetConn pools a connection that was pooled nowhere.
LEMMA PoolConnKeepsPool ==
  ASSUME TypeInv, TypeInv', ThreadStep, DialOwned, PooledOpen, PoolOwned,
         NEW t \in Proc, PoolConn(t)
  PROVE  PooledOpen' /\ PoolOwned'
<1> DEFINE a == AddrOf[th[t].u]
           d == th[t].c
<1>0. pool \in Pool /\ pool.conns \in [Addr -> Conn \cup {None}] /\ None \notin Conn
  BY PoolAssumption DEF TypeInv, Pool
<1>1. th[t].pc = "set" /\ a \in Addr /\ d \in Conn
  <2>1. th[t].pc = "set"
    BY DEF PoolConn, At
  <2> QED
    BY <2>1, AtPeer DEF TypeInv, Ready
<1>2. d \in pool.open /\ \A b \in Addr : pool.conns[b] # d
  BY <1>1 DEF PoolOwned, At
<1>3. /\ pool'.open = pool.open /\ pool'.conns[a] = d
      /\ \A b \in Addr \ {a} : pool'.conns[b] = pool.conns[b]
  BY <1>0, <1>1 DEF PoolConn, SetConn, Pool
<1> HIDE DEF a, d
<1>4. PooledOpen'
  BY <1>1, <1>2, <1>3 DEF PooledOpen, PooledConnsOpen
<1>5. \A x, y \in Addr : pool'.conns[x] = pool'.conns[y] => x = y \/ pool'.conns[x] = None
  BY <1>1, <1>2, <1>3 DEF PoolOwned
<1>6. \A s \in Proc \ {t} : th'[s] = th[s]
  BY DEF PoolConn, Goto, TypeInv
<1>7. th'[t].pc # "set" /\ th'[t].c = d /\ AddrOf[th'[t].u] = a
  BY DEF PoolConn, Goto, TypeInv, Thread, a, d
<1>8. \A s \in Proc \ {t} : th[s].pc \in Dialling => th[s].c # d
  BY <1>1 DEF DialOwned, Dialling, d
<1>9. ASSUME NEW s \in Proc, th'[s].pc = "set"
      PROVE  th'[s].c \in pool'.open /\ \A b \in Addr : pool'.conns[b] # th'[s].c
  BY <1>1, <1>3, <1>6, <1>7, <1>8, <1>9 DEF PoolOwned, At, Dialling
<1>10. ASSUME NEW s \in Proc, th'[s].pc = "stream", NEW b \in Addr, pool'.conns[b] = th'[s].c
       PROVE  b = AddrOf[th'[s].u]
  BY <1>1, <1>2, <1>3, <1>6, <1>7, <1>8, <1>10 DEF PoolOwned, At, Dialling
<1> QED
  BY <1>4, <1>5, <1>9, <1>10 DEF PoolOwned, At

LEMMA PoolInvNext ==
  ASSUME TypeInv, TypeInv', ThreadStep, PoolStep, DialOwned, PooledOpen, PoolOwned
  PROVE  PooledOpen' /\ PoolOwned'
<1>0. pool \in Pool /\ pool.conns \in [Addr -> Conn \cup {None}] /\ None \notin Conn
  BY PoolAssumption DEF TypeInv, Pool
<1>1. CASE pool' = pool
  BY <1>1, SamePool
<1>2. ASSUME NEW c \in Conn, pool' = Dialled(pool, c) PROVE PooledOpen' /\ PoolOwned'
  BY <1>0, <1>2, SamePool DEF Dialled, Pool
<1>3. ASSUME NEW t \in Proc, PoolStream(t) PROVE PooledOpen' /\ PoolOwned'
  BY <1>0, <1>3, SamePool DEF PoolStream, SetStream, Pool
<1>4. ASSUME NEW c \in Conn, RecvDeleteStream(c) PROVE PooledOpen' /\ PoolOwned'
  BY <1>0, <1>4, SamePool DEF RecvDeleteStream, DeleteStream, Pool
<1>5. ASSUME NEW t \in Proc, PoolConn(t) PROVE PooledOpen' /\ PoolOwned'
  BY <1>5, PoolConnKeepsPool
<1>6. ASSUME NEW a \in Addr,
             pool' = DeleteConn(pool, a) \/ pool' = CloseByAddr(pool, a)
      PROVE  PooledOpen' /\ PoolOwned'
  <2>1. /\ pool'.conns = [pool.conns EXCEPT ![a] = None]
        /\ pool'.open = pool.open \ {pool.conns[a], pool.conns[a]}
    BY <1>0, <1>6 DEF DeleteConn, CloseByAddr, Pool
  <2>2. \A b \in Addr \ {a} : pool.conns[b] = pool.conns[a] => pool.conns[a] = None
    BY DEF PoolOwned
  <2>3. \A t \in Proc : At(t, "set") => th[t].c # pool.conns[a]
    BY DEF PoolOwned
  <2> QED
    BY <2>1, <2>2, <2>3, DropKeepsPool
<1>7. ASSUME NEW t \in Proc, CloseConn(t) PROVE PooledOpen' /\ PoolOwned'
  BY <1>6, <1>7, AtPeer DEF CloseConn, At
<1>8. ASSUME NEW c \in Conn, RecvDeleteConn(c) PROVE PooledOpen' /\ PoolOwned'
  <2>1. AddrOf[recv[c].u] \in Addr
    BY <1>8, RegistryAssumption DEF RecvDeleteConn, TypeInv, ReadyLoop
  <2> QED
    BY <1>6, <1>8, <2>1 DEF RecvDeleteConn
<1>9. ASSUME NEW t \in Proc, OpenStreamFails(t) PROVE PooledOpen' /\ PoolOwned'
  <2> DEFINE a == AddrOf[th[t].u]
             d == th[t].c
  <2>1. th[t].pc = "stream" /\ a \in Addr /\ d \in Conn
    <3>1. th[t].pc = "stream"
      BY <1>9 DEF OpenStreamFails, At
    <3> QED
      BY <3>1, AtPeer DEF TypeInv, Ready
  <2>2. /\ pool'.conns = [pool.conns EXCEPT ![a] = None]
        /\ pool'.open = pool.open \ {pool.conns[a], d}
    BY <1>0, <1>9 DEF OpenStreamFails, Closed, DeleteConn, Pool
  <2>3. \A b \in Addr \ {a} : pool.conns[b] # d
    BY <2>1 DEF PoolOwned, At
  <2>4. \A s \in Proc : At(s, "set") => th[s].c # d
    BY <2>1 DEF DialOwned, Dialling, At
  <2> HIDE DEF a, d
  <2> QED
    BY <2>1, <2>2, <2>3, <2>4, DropKeepsPool
<1> QED
  BY <1>1, <1>2, <1>3, <1>4, <1>5, <1>7, <1>8, <1>9 DEF PoolStep

\* A connection that GetConn hands out has not been closed, however dials, failing
\* streams, removals and receive loops interleave.
THEOREM PoolStaysOpen == Spec => []PooledOpen
<1>1. Init => PooledOpen /\ PoolOwned
  BY IdleFields DEF Init, NewConnPool, PooledOpen, PooledConnsOpen, PoolOwned, At
<1>2. TypeInv /\ TypeInv' /\ ThreadStep /\ PoolStep /\ DialOwned /\ PooledOpen /\ PoolOwned
      => PooledOpen' /\ PoolOwned'
  BY PoolInvNext
<1>3. TypeInv /\ TypeInv' /\ DialOwned /\ [Next]_vars => DialOwned'
  BY NextMoves, NextLoops, DialOwnedNext
<1> QED
  BY <1>1, <1>2, <1>3, NextMoves, NextPools, DialOwnedInit, TypeInvariant, PTL DEF Spec

-----------------------------------------------------------------------------
(* The streams of the pool and the receive loops.                          *)

\* What the operations of the pool, save SetStream, do to its streams.
LEMMA StreamsKept ==
  ASSUME NEW p \in Pool, NEW q \in Pool, NEW b, NEW c,
         \/ q = SetConn(p, b, c) \/ q = Dialled(p, c) \/ q = DeleteConn(p, b)
         \/ q = Closed(DeleteConn(p, b), c) \/ q = CloseByAddr(p, b) \/ q = DeleteStream(p, b)
  PROVE  \A a \in Addr : q.streams[a] # None => q.streams[a] = p.streams[a]
<1>0. p.streams \in [Addr -> Conn \cup {None}]
  BY DEF Pool
<1>1. CASE q = SetConn(p, b, c) \/ q = Dialled(p, c) \/ q = DeleteConn(p, b)
  BY <1>1 DEF Pool, SetConn, Dialled, DeleteConn
<1>2. CASE q = Closed(DeleteConn(p, b), c)
  BY <1>2 DEF Pool, DeleteConn, Closed
<1>3. CASE q = CloseByAddr(p, b)
  <2>1. q.streams = [p.streams EXCEPT ![b] = None]
    BY <1>3 DEF Pool, CloseByAddr
  <2> QED
    BY <1>0, <2>1
<1>4. CASE q = DeleteStream(p, b)
  <2>1. q.streams = [p.streams EXCEPT ![b] = None]
    BY <1>4 DEF Pool, DeleteStream
  <2> QED
    BY <1>0, <2>1
<1> QED
  BY <1>1, <1>2, <1>3, <1>4

LEMMA StreamsServedNext ==
  ASSUME TypeInv, TypeInv', LoopStep, PoolStep, DialOwned, StreamsServed
  PROVE  StreamsServed'
<1>0. /\ pool \in Pool /\ pool' \in Pool /\ pool.streams \in [Addr -> Conn \cup {None}] /\ None \notin Conn
      /\ recv \in [Conn -> RecvLoop]
  BY PoolAssumption DEF TypeInv, Pool
<1> DEFINE Served(a) == /\ recv[pool.streams[a]].pc # "none"
                        /\ AddrOf[recv[pool.streams[a]].u] = a
<1>1. ASSUME NEW t \in Proc, PoolStream(t) PROVE StreamsServed'
  <2> DEFINE b == AddrOf[th[t].u]
             d == th[t].c
  <2>1. th[t].pc = "setStream" /\ b \in Addr /\ d \in Conn
    <3>1. th[t].pc = "setStream"
      BY <1>1 DEF PoolStream, At
    <3> QED
      BY <3>1, AtPeer DEF TypeInv, Ready
  <2>2. pool'.streams = [pool.streams EXCEPT ![b] = d]
    BY <1>0, <1>1 DEF PoolStream, SetStream, Pool
  <2>3. recv' = [recv EXCEPT ![d] = [pc |-> "recv", u |-> th[t].u]] /\ recv[d].pc = "none"
    BY <1>1, <2>1 DEF PoolStream, DialOwned, Dialling, NoLoop
  <2>4. \A a \in Addr : HasStream(pool, a) => pool.streams[a] # d
    BY <2>3 DEF StreamsServed
  <2>5. SUFFICES ASSUME NEW a \in Addr, pool'.streams[a] # None PROVE Served(a)'
    BY DEF StreamsServed, HasStream
  <2>6. CASE a = b
    BY <1>0, <2>1, <2>2, <2>3, <2>6
  <2>7. CASE a # b
    <3>1. pool'.streams[a] = pool.streams[a] /\ pool.streams[a] \in Conn \ {d}
      BY <1>0, <2>2, <2>4, <2>5, <2>7 DEF HasStream
    <3> QED
      BY <1>0, <2>3, <2>5, <3>1 DEF StreamsServed, HasStream
  <2> QED
    BY <2>6, <2>7
\* Every other step keeps or drops the streams of the pool.
<1>2. CASE \A t \in Proc : ~PoolStream(t)
  <2>1. \A a \in Addr : pool'.streams[a] # None => pool'.streams[a] = pool.streams[a]
    <3>1. ASSUME NEW t \in Proc, CloseConn(t) \/ PoolConn(t) \/ OpenStreamFails(t),
                 NEW a \in Addr, pool'.streams[a] # None
          PROVE  pool'.streams[a] = pool.streams[a]
      <4>1. \/ pool' = CloseByAddr(pool, AddrOf[th[t].u])
            \/ pool' = SetConn(pool, AddrOf[th[t].u], th[t].c)
            \/ pool' = Closed(DeleteConn(pool, AddrOf[th[t].u]), th[t].c)
        BY <3>1 DEF CloseConn, PoolConn, OpenStreamFails
      <4> QED
        BY <1>0, <3>1, <4>1, StreamsKept
    <3>2. ASSUME NEW c \in Conn, RecvDeleteConn(c) \/ RecvDeleteStream(c),
                 NEW a \in Addr, pool'.streams[a] # None
          PROVE  pool'.streams[a] = pool.streams[a]
      <4>1. \/ pool' = DeleteConn(pool, AddrOf[recv[c].u])
            \/ pool' = DeleteStream(pool, AddrOf[recv[c].u])
        BY <3>2 DEF RecvDeleteConn, RecvDeleteStream
      <4> QED
        BY <1>0, <3>2, <4>1, StreamsKept
    <3>3. ASSUME NEW c \in Conn, pool' = Dialled(pool, c), NEW a \in Addr, pool'.streams[a] # None
          PROVE  pool'.streams[a] = pool.streams[a]
      BY <1>0, <3>3, StreamsKept
    <3> QED
      BY <1>2, <3>1, <3>2, <3>3 DEF PoolStep
  <2>2. SUFFICES ASSUME NEW a \in Addr, pool'.streams[a] # None PROVE Served(a)'
    BY DEF StreamsServed, HasStream
  <2> DEFINE c == pool.streams[a]
  <2>3. pool'.streams[a] = c /\ c \in Conn /\ recv[c].pc # "none" /\ AddrOf[recv[c].u] = a
    BY <1>0, <2>1, <2>2 DEF StreamsServed, HasStream
  <2> HIDE DEF c
  <2>4. recv'[c].pc # "none" /\ recv'[c].u = recv[c].u
    <3>1. CASE recv' = recv
      BY <2>3, <3>1
    <3>2. ASSUME NEW d \in Conn, RecvDeleteStream(d) PROVE recv'[c] = recv[c]
      <4>1. d # c
        BY <1>0, <2>2, <2>3, <3>2 DEF RecvDeleteStream, DeleteStream, Pool
      <4> QED
        BY <1>0, <2>3, <3>2, <4>1 DEF RecvDeleteStream
    <3>3. ASSUME NEW d \in Conn, RecvFails(d) \/ RecvEmitOffline(d) \/ RecvDeleteConn(d)
          PROVE  recv'[c].pc # "none" /\ recv'[c].u = recv[c].u
      BY <1>0, <2>3, <3>3 DEF RecvFails, RecvEmitOffline, RecvDeleteConn, RecvLoop
    <3> QED
      BY <1>2, <2>3, <3>1, <3>2, <3>3 DEF LoopStep, RecvStep
  <2> QED
    BY <2>3, <2>4
<1> QED
  BY <1>1, <1>2

\* A stream in the pool still has the loop that will take it out: no dead stream
\* blocks reconnecting to its peer.
THEOREM PooledStreamsServed == Spec => []StreamsServed
<1>1. Init => StreamsServed
  BY DEF Init, NewConnPool, StreamsServed, HasStream
<1>2. TypeInv /\ TypeInv' /\ DialOwned /\ [Next]_vars => DialOwned'
  BY NextMoves, NextLoops, DialOwnedNext
<1>3. TypeInv /\ TypeInv' /\ LoopStep /\ PoolStep /\ DialOwned /\ StreamsServed => StreamsServed'
  BY StreamsServedNext
<1> QED
  BY <1>1, <1>2, <1>3, NextLoops, NextPools, DialOwnedInit, TypeInvariant, PTL DEF Spec
=============================================================================
