--------------------------- MODULE CommandsProofs ---------------------------
(***************************************************************************)
(* Proofs about Commands: type correctness, and that a list shows every    *)
(* peer that stays connected as connected, although it reads the registry  *)
(* and the streams one after the other.                                    *)
(*                                                                         *)
(* A command holds what it works on from one step to the next: a           *)
(* connection while it sends and while it opens a stream, and a peer,      *)
(* never the node itself, while it connects and disconnects (Ready).  A    *)
(* list, which never connects, has collected every steady peer in each of  *)
(* the reads it has done (Listing).                                        *)
(***************************************************************************)
EXTENDS Commands, RegistryProofs

-----------------------------------------------------------------------------
(* Type correctness.                                                       *)

\* A command that has what its next step uses.
Ready(x) ==
  /\ x \in Cmd
  /\ x.pc \in {"send", "set", "stream"} => x.c \in Conn
  /\ x.pc \in {"set", "stream", "add", "unreg", "close"} => x.u \in Peer
  /\ x.pc \in {"dial", "next", "set", "stream", "add"} => x.op # "list"

\* TypeOK without steady and cmd.
NodeTypes ==
  /\ reg \in Registry /\ pool \in Pool /\ Self \notin List(reg)
  /\ recv \in [Conn -> {"none", "recv", "delConn", "delStream"}]
  /\ quit \in {"no", "ctrlC", "yes"}
  /\ status \in Status
  /\ view \in [Peer -> Status \cup {None}]
  /\ answer \in [Peer -> Status \cup {None}]
  /\ stalled \subseteq Peer

TypeInv ==
  /\ NodeTypes
  /\ cmd \in [Proc -> Cmd] /\ \A c \in Proc : Ready(cmd[c])
  /\ steady \in [Client -> SUBSET UUID]

LEMMA IdleReady == Ready(Idle)
BY DEF Ready, Idle, Cmd

\* The command of one goroutine changes to a ready one.
LEMMA OneCommand ==
  ASSUME TypeInv, NEW c \in Proc, NEW x, Ready(x), cmd' = [cmd EXCEPT ![c] = x]
  PROVE  cmd' \in [Proc -> Cmd] /\ \A d \in Proc : Ready(cmd'[d])
BY DEF TypeInv, Ready

LEMMA AnswerTyped ==
  ASSUME TypeInv, NEW c \in Proc, Answer(c)
  PROVE  cmd' \in [Proc -> Cmd] /\ \A d \in Proc : Ready(cmd'[d])
BY IdleReady, OneCommand DEF Answer

\* What the pool has for an address with a stream.
LEMMA PooledStreams ==
  ASSUME NodeTypes
  PROVE  /\ StreamAddrs(pool) \subseteq Addr
         /\ \A a \in Addr : HasStream(pool, a) => pool.streams[a] \in Conn
BY DEF StreamAddrs, HasStream, NodeTypes, Pool

\* Register and Unregister leave the node itself out.
LEMMA SelfStaysOut ==
  ASSUME NodeTypes, NEW u \in Peer, NEW s \in NodeStatus
  PROVE  /\ Register(reg, u, s) \in Registry /\ Unregister(reg, u) \in Registry
         /\ Self \notin List(Register(reg, u, s)) /\ Self \notin List(Unregister(reg, u))
<1>1. u \in UUID /\ u # Self /\ reg \in Registry /\ Self \notin List(reg)
  BY RegistryAssumption DEF UUID, NodeTypes
<1>2. Register(reg, u, s) \in Registry /\ Unregister(reg, u) \in Registry
  BY <1>1, WriteTypes
<1>3. DOMAIN reg.onlinePeers = UUID
  BY <1>1 DEF Registry
<1>4. /\ Register(reg, u, s).onlinePeers = [reg.onlinePeers EXCEPT ![u] = s]
      /\ Unregister(reg, u).onlinePeers \in {reg.onlinePeers, [reg.onlinePeers EXCEPT ![u] = None]}
  BY <1>1 DEF Register, Unregister
<1> QED
  BY <1>1, <1>2, <1>3, <1>4 DEF List

\* What the steps do to the registry.
LEMMA RegTyped ==
  ASSUME NodeTypes, NEW u \in Peer,
         reg' \in {reg, Register(reg, u, "ONLINE"), Unregister(reg, u)}
  PROVE  reg' \in Registry /\ Self \notin List(reg')
<1>1. "ONLINE" \in NodeStatus
  BY DEF NodeStatus
<1> QED
  BY <1>1, SelfStaysOut DEF NodeTypes

\* What the steps do to the pool.
LEMMA PoolTyped ==
  ASSUME NodeTypes, NEW a \in Addr, NEW k \in Conn
  PROVE  /\ Dialled(pool, k) \in Pool /\ SetConn(pool, a, k) \in Pool
         /\ SetStream(pool, a, k) \in Pool /\ Closed(DeleteConn(pool, a), k) \in Pool
         /\ DeleteConn(pool, a) \in Pool /\ DeleteStream(pool, a) \in Pool
         /\ CloseByAddr(pool, a) \in Pool
<1>1. pool \in Pool
  BY DEF NodeTypes
<1>2. DeleteConn(pool, a) \in Pool
  BY <1>1, PoolTypes
<1> QED
  BY <1>1, <1>2, PoolTypes

\* A command is given.
LEMMA GivenTyped ==
  ASSUME TypeInv, NEW c \in Client,
         \/ \E op \in {"send", "ping"}, t \in Name \cup Addr : BeginTo(c, op, t)
         \/ Broadcast(c) \/ \E a \in Addr : ConnectTo(c, a)
         \/ \E n \in Name : DisconnectBegins(c, n)
         \/ BeginList(c)
  PROVE  NodeTypes' /\ cmd' \in [Proc -> Cmd] /\ \A d \in Proc : Ready(cmd'[d])
<1>0. NodeTypes' /\ c \in Proc
  BY DEF TypeInv, NodeTypes, BeginTo, Broadcast, ConnectTo, DisconnectBegins, BeginList, node, rest, Proc
<1>w. ASSUME NEW x, Ready(x), Begin(c, x)
      PROVE  cmd' \in [Proc -> Cmd] /\ \A d \in Proc : Ready(cmd'[d])
  BY <1>0, <1>w, OneCommand DEF Begin
<1>1. ASSUME NEW op \in {"send", "ping"}, NEW t \in Name \cup Addr, BeginTo(c, op, t)
      PROVE  cmd' \in [Proc -> Cmd] /\ \A d \in Proc : Ready(cmd'[d])
  <2>1. Resolve(t) \in Addr
    <3>1. reg.nameToAddrs \in [Name -> Seq(Addr)]
      BY DEF TypeInv, NodeTypes, Registry
    <3>2. ASSUME NEW n \in Name, reg.nameToAddrs[n] # << >> PROVE reg.nameToAddrs[n][1] \in Addr
      BY <3>1, <3>2
    <3> QED
      BY <1>1, <3>2 DEF BeginTo, Resolve, GetAddrByName
  <2>2. Ready([Idle EXCEPT !.op = op, !.pc = "has", !.addrs = {Resolve(t)}])
    BY <2>1 DEF Ready, Idle, Cmd
  <2> QED
    BY <1>1, <1>w, <2>2 DEF BeginTo
<1>2. CASE Broadcast(c)
  <2>1. Ready([Idle EXCEPT !.op = "broadcast", !.pc = "has", !.addrs = StreamAddrs(pool)])
    BY PooledStreams DEF TypeInv, Ready, Idle, Cmd
  <2> QED
    BY <1>0, <1>2, <1>w, <2>1 DEF Broadcast
<1>3. ASSUME NEW a \in Addr, ConnectTo(c, a)
      PROVE  cmd' \in [Proc -> Cmd] /\ \A d \in Proc : Ready(cmd'[d])
  <2>1. Ready([Idle EXCEPT !.op = "connect", !.pc = "dial", !.addrs = {a}])
    BY DEF Ready, Idle, Cmd
  <2> QED
    BY <1>3, <1>w, <2>1 DEF ConnectTo
<1>4. ASSUME NEW n \in Name, DisconnectBegins(c, n)
      PROVE  cmd' \in [Proc -> Cmd] /\ \A d \in Proc : Ready(cmd'[d])
  <2>1. PICK u \in GetByName(reg, n) :
          Begin(c, [Idle EXCEPT !.op = "disconnect", !.pc = "unreg", !.u = u])
    BY <1>4 DEF DisconnectBegins
  <2>2. u \in Peer
    BY DEF GetByName, List, TypeInv, NodeTypes, UUID
  <2>3. Ready([Idle EXCEPT !.op = "disconnect", !.pc = "unreg", !.u = u])
    BY <2>2 DEF Ready, Idle, Cmd
  <2> QED
    BY <1>w, <2>1, <2>3
<1>5. CASE BeginList(c)
  <2>1. Ready([Idle EXCEPT !.op = "list", !.pc = "list"])
    BY DEF Ready, Idle, Cmd
  <2> QED
    BY <1>0, <1>5, <1>w, <2>1 DEF BeginList
<1> QED
  BY <1>0, <1>1, <1>2, <1>3, <1>4, <1>5

\* A command connects.
LEMMA ConnectTyped ==
  ASSUME TypeInv, NEW c \in Proc,
         \/ HandshakeSeedNode(c) \/ ConnectNext(c) \/ PoolConn(c)
         \/ OpenStream(c) \/ OpenStreamFails(c) \/ AddOnlinePeer(c)
  PROVE  NodeTypes' /\ cmd' \in [Proc -> Cmd] /\ \A d \in Proc : Ready(cmd'[d])
<1> DEFINE x == cmd[c]
<1>0. x \in Cmd /\ Ready(x) /\ NodeTypes /\ cmd \in [Proc -> Cmd]
  BY DEF TypeInv
<1>w. ASSUME NEW y, Ready(y), cmd' = [cmd EXCEPT ![c] = y]
      PROVE  cmd' \in [Proc -> Cmd] /\ \A d \in Proc : Ready(cmd'[d])
  BY <1>w, OneCommand
<1>1. CASE HandshakeSeedNode(c)
  <2>1. ASSUME NEW u \in Peer, NEW known \in SUBSET (Peer \ {u}),
               cmd' = [cmd EXCEPT ![c].pc = "next", ![c].addrs = {},
                                  ![c].peers = known, ![c].seed = u]
        PROVE  cmd' \in [Proc -> Cmd] /\ \A d \in Proc : Ready(cmd'[d])
    <3> DEFINE y == [x EXCEPT !.pc = "next", !.addrs = {}, !.peers = known, !.seed = u]
    <3>1. x.op # "list"
      BY <1>0, <1>1 DEF HandshakeSeedNode, At, Ready
    <3>2. Ready(y)
      BY <1>0, <3>1 DEF Ready, Cmd, UUID
    <3>3. cmd' = [cmd EXCEPT ![c] = y]
      BY <1>0, <2>1
    <3> HIDE DEF y
    <3> QED
      BY <1>w, <3>2, <3>3
  <2>2. cmd' \in [Proc -> Cmd] /\ \A d \in Proc : Ready(cmd'[d])
    BY <1>1, <2>1, AnswerTyped DEF HandshakeSeedNode
  <2>3. reg' = reg \/ \E u \in Peer : reg' = Register(reg, u, "ONLINE")
    BY <1>1 DEF HandshakeSeedNode
  <2>4. reg' \in Registry /\ Self \notin List(reg')
    BY <1>0, <2>3, RegTyped DEF NodeTypes
  <2>5. view' \in [Peer -> Status \cup {None}]
    BY <1>0, <1>1 DEF HandshakeSeedNode, NodeTypes, Status
  <2> QED
    BY <1>0, <1>1, <2>2, <2>4, <2>5 DEF HandshakeSeedNode, NodeTypes, rest
<1>2. CASE ConnectNext(c)
  <2>1. ASSUME NEW u \in NextPeers(x)
        PROVE  /\ u \in Peer /\ Ready(Taken(x, u)) /\ AddrOf[u] \in Addr
               /\ Ready([Taken(x, u) EXCEPT !.pc = "add", !.u = u])
               /\ \A k \in Conn : Ready([Taken(x, u) EXCEPT !.pc = "set", !.u = u, !.c = k])
    <3>1. u \in Peer
      BY <1>0 DEF NextPeers, Cmd
    <3>2. Taken(x, u) \in Cmd /\ Taken(x, u).pc = "next" /\ Taken(x, u).op # "list"
      BY <1>0, <1>2 DEF Taken, Cmd, ConnectNext, At, Ready
    <3> QED
      BY <3>1, <3>2, RegistryAssumption DEF Ready, Cmd, UUID
  <2>2. pool' \in Pool
    BY <1>0, <1>2, <2>1, PoolTyped DEF ConnectNext, NodeTypes
  <2>3. cmd' \in [Proc -> Cmd] /\ \A d \in Proc : Ready(cmd'[d])
    BY <1>2, <1>w, <2>1, AnswerTyped DEF ConnectNext
  <2> QED
    BY <1>0, <1>2, <2>2, <2>3 DEF ConnectNext, NodeTypes, rest
<1>3. ASSUME x.pc \in {"set", "stream"} PROVE x.c \in Conn /\ x.u \in Peer /\ AddrOf[x.u] \in Addr
  BY <1>0, <1>3, RegistryAssumption DEF Ready, UUID
<1>4. CASE PoolConn(c)
  <2> DEFINE y == [x EXCEPT !.pc = "stream"]
  <2>1. x.pc = "set" /\ cmd' = [cmd EXCEPT ![c] = y]
    BY <1>0, <1>4 DEF PoolConn, At, Goto
  <2>2. Ready(y)
    BY <1>0, <1>3, <2>1 DEF Ready, Cmd
  <2>3. pool' \in Pool
    BY <1>0, <1>3, <1>4, <2>1, PoolTyped DEF PoolConn
  <2> HIDE DEF y
  <2> QED
    BY <1>0, <1>4, <1>w, <2>1, <2>2, <2>3 DEF PoolConn, NodeTypes, rest
<1>5. CASE OpenStream(c)
  <2> DEFINE y == [x EXCEPT !.pc = "add", !.c = None]
  <2>1. x.pc = "stream" /\ cmd' = [cmd EXCEPT ![c] = y]
    BY <1>0, <1>5 DEF OpenStream, At
  <2>2. Ready(y)
    BY <1>0, <1>3, <2>1 DEF Ready, Cmd
  <2>3. pool' \in Pool
    BY <1>0, <1>3, <1>5, <2>1, PoolTyped DEF OpenStream
  <2>4. recv' \in [Conn -> {"none", "recv", "delConn", "delStream"}]
    BY <1>0, <1>5 DEF OpenStream, NodeTypes
  <2> HIDE DEF y
  <2> QED
    BY <1>0, <1>5, <1>w, <2>1, <2>2, <2>3, <2>4 DEF OpenStream, NodeTypes, rest
<1>6. CASE OpenStreamFails(c)
  <2> DEFINE y == [x EXCEPT !.pc = "next", !.u = None, !.c = None]
  <2>1. x.pc = "stream" /\ cmd' = [cmd EXCEPT ![c] = y]
    BY <1>0, <1>6 DEF OpenStreamFails, At
  <2>2. Ready(y)
    BY <1>0, <2>1 DEF Ready, Cmd
  <2>3. pool' \in Pool
    BY <1>0, <1>3, <1>6, <2>1, PoolTyped DEF OpenStreamFails
  <2> HIDE DEF y
  <2> QED
    BY <1>0, <1>6, <1>w, <2>1, <2>2, <2>3 DEF OpenStreamFails, NodeTypes, rest
<1>7. CASE AddOnlinePeer(c)
  <2> DEFINE y == [x EXCEPT !.pc = "next", !.u = None]
  <2>1. x.pc = "add" /\ cmd' = [cmd EXCEPT ![c] = y]
    BY <1>0, <1>7 DEF AddOnlinePeer, At
  <2>2. Ready(y)
    BY <1>0, <2>1 DEF Ready, Cmd
  <2>3. x.u \in Peer
    BY <1>0, <2>1 DEF Ready
  <2>4. reg' \in Registry /\ Self \notin List(reg')
    BY <1>0, <1>7, <2>3, RegTyped DEF AddOnlinePeer
  <2> HIDE DEF y
  <2> QED
    BY <1>0, <1>7, <1>w, <2>1, <2>2, <2>4 DEF AddOnlinePeer, NodeTypes, rest
<1> QED
  BY <1>1, <1>2, <1>4, <1>5, <1>6, <1>7

\* A command goes on.
LEMMA StepTyped ==
  ASSUME TypeInv, NEW c \in Proc, Step(c)
  PROVE  NodeTypes' /\ cmd' \in [Proc -> Cmd] /\ \A d \in Proc : Ready(cmd'[d])
<1> DEFINE x == cmd[c]
<1>0. x \in Cmd /\ Ready(x) /\ NodeTypes /\ cmd \in [Proc -> Cmd]
  BY DEF TypeInv
<1>n. UNCHANGED <<node, rest>> => NodeTypes'
  BY <1>0 DEF NodeTypes, node, rest
<1>w. ASSUME NEW y, Ready(y), cmd' = [cmd EXCEPT ![c] = y]
      PROVE  cmd' \in [Proc -> Cmd] /\ \A d \in Proc : Ready(cmd'[d])
  BY <1>w, OneCommand
<1>1. CASE FindStream(c)
  <2>1. PICK a \in x.addrs :
          IF HasStream(pool, a)
          THEN cmd' = [cmd EXCEPT ![c].addrs = @ \ {a}, ![c].c = pool.streams[a], ![c].pc = "send"]
          ELSE IF x.addrs = {a} THEN Answer(c)
          ELSE cmd' = [cmd EXCEPT ![c].addrs = @ \ {a}]
    BY <1>1 DEF FindStream
  <2>2. a \in Addr /\ x.pc = "has"
    BY <1>0, <1>1 DEF Cmd, FindStream, At
  <2>3. CASE HasStream(pool, a)
    <3> DEFINE y == [x EXCEPT !.addrs = @ \ {a}, !.c = pool.streams[a], !.pc = "send"]
    <3>1. pool.streams[a] \in Conn
      BY <1>0, <2>2, <2>3, PooledStreams
    <3>2. Ready(y)
      BY <1>0, <3>1 DEF Ready, Cmd
    <3>3. cmd' = [cmd EXCEPT ![c] = y]
      BY <1>0, <2>1, <2>3
    <3> HIDE DEF y
    <3> QED
      BY <1>1, <1>n, <1>w, <3>2, <3>3 DEF FindStream
  <2>4. CASE ~HasStream(pool, a) /\ x.addrs # {a}
    <3> DEFINE y == [x EXCEPT !.addrs = @ \ {a}]
    <3>1. Ready(y)
      BY <1>0, <2>2 DEF Ready, Cmd
    <3>2. cmd' = [cmd EXCEPT ![c] = y]
      BY <1>0, <2>1, <2>4
    <3> HIDE DEF y
    <3> QED
      BY <1>1, <1>n, <1>w, <3>1, <3>2 DEF FindStream
  <2> QED
    BY <1>1, <1>n, <2>1, <2>3, <2>4, AnswerTyped DEF FindStream
<1>2. CASE SendReturns(c)
  <2>1. ASSUME NEW pc \in {"has", "wait"}, cmd' = [cmd EXCEPT ![c].pc = pc, ![c].c = None]
        PROVE  cmd' \in [Proc -> Cmd] /\ \A d \in Proc : Ready(cmd'[d])
    <3> DEFINE y == [x EXCEPT !.pc = pc, !.c = None]
    <3>1. Ready(y)
      BY <1>0 DEF Ready, Cmd
    <3>2. cmd' = [cmd EXCEPT ![c] = y]
      BY <1>0, <2>1
    <3> HIDE DEF y
    <3> QED
      BY <1>w, <3>1, <3>2
  <2> QED
    BY <1>2, <1>n, <2>1, AnswerTyped DEF SendReturns, Sent
<1>3. CASE PingEnds(c) \/ ListAnswers(c)
  BY <1>3, <1>n, AnswerTyped DEF PingEnds, ListAnswers
<1>4. CASE \/ HandshakeSeedNode(c) \/ ConnectNext(c) \/ PoolConn(c)
           \/ OpenStream(c) \/ OpenStreamFails(c) \/ AddOnlinePeer(c)
  BY <1>4, ConnectTyped
<1>5. CASE DisconnectPeer(c)
  <2>1. x.u \in Peer
    BY <1>0, <1>5 DEF DisconnectPeer, At, Ready
  <2>2. NodeTypes'
    <3>1. reg' \in Registry /\ Self \notin List(reg')
      BY <1>0, <1>5, <2>1, RegTyped DEF DisconnectPeer
    <3>2. view' \in [Peer -> Status \cup {None}]
      BY <1>0, <1>5, <2>1 DEF DisconnectPeer, NodeTypes
    <3> QED
      BY <1>0, <1>5, <3>1, <3>2 DEF DisconnectPeer, NodeTypes, rest
  <2>3. CASE Goto(c, "close")
    <3> DEFINE y == [x EXCEPT !.pc = "close"]
    <3>1. Ready(y) /\ cmd' = [cmd EXCEPT ![c] = y]
      BY <1>0, <2>1, <2>3 DEF Ready, Cmd, Goto
    <3> HIDE DEF y
    <3> QED
      BY <1>w, <2>2, <3>1
  <2> QED
    BY <1>5, <2>2, <2>3, AnswerTyped DEF DisconnectPeer
<1>6. CASE DisconnectCloses(c)
  <2>1. AddrOf[x.u] \in Addr
    BY <1>0, <1>6, RegistryAssumption DEF DisconnectCloses, At, Ready, UUID
  <2>2. CloseByAddr(pool, AddrOf[x.u]) \in Pool
    BY <1>0, <2>1 DEF NodeTypes, CloseByAddr, Pool
  <2> QED
    BY <1>0, <1>6, <2>2, AnswerTyped DEF DisconnectCloses, NodeTypes, rest
<1>7. CASE ListPeers(c)
  <2> DEFINE y == [x EXCEPT !.peers = List(reg), !.pc = "streams"]
  <2>1. Ready(y) /\ cmd' = [cmd EXCEPT ![c] = y]
    BY <1>0, <1>7 DEF ListPeers, Ready, Cmd, List
  <2> HIDE DEF y
  <2> QED
    BY <1>7, <1>n, <1>w, <2>1 DEF ListPeers
<1>8. CASE GetStreamsCopy(c)
  <2> DEFINE y == [x EXCEPT !.addrs = StreamAddrs(pool), !.pc = "rows"]
  <2>1. Ready(y) /\ cmd' = [cmd EXCEPT ![c] = y]
    BY <1>0, <1>8, PooledStreams DEF GetStreamsCopy, Ready, Cmd
  <2> HIDE DEF y
  <2> QED
    BY <1>8, <1>n, <1>w, <2>1 DEF GetStreamsCopy
<1> QED
  BY <1>1, <1>2, <1>3, <1>4, <1>5, <1>6, <1>7, <1>8 DEF Step

\* A goroutine of the node begins to auto-connect.
LEMMA AutoConnectTyped ==
  ASSUME TypeInv, NEW h \in Handlers, NEW u \in Peer, AutoConnect(h, u)
  PROVE  cmd' \in [Proc -> Cmd] /\ \A d \in Proc : Ready(cmd'[d])
<1>1. Ready([Idle EXCEPT !.op = "auto", !.pc = "next", !.peers = {u}])
  BY DEF Ready, Idle, Cmd, UUID
<1> QED
  BY <1>1, OneCommand DEF AutoConnect, Proc

\* Statuses, keys, receive loops and what peers do.
OtherStep ==
  \/ \E c \in Client, s \in Status : SetNodeStatus(c, s)
  \/ PressCtrlC \/ Quit
  \/ \E k \in Conn : RecvFails(k) \/ RecvStep(k)
  \/ \E u \in Peer : PeerStep(u) \/ CleanupStalePeer(u)

LEMMA OthersTyped ==
  ASSUME TypeInv, OtherStep
  PROVE  NodeTypes' /\ cmd' \in [Proc -> Cmd] /\ \A d \in Proc : Ready(cmd'[d])
<1>0. NodeTypes
  BY DEF TypeInv
<1>c. cmd' = cmd => cmd' \in [Proc -> Cmd] /\ \A d \in Proc : Ready(cmd'[d])
  BY DEF TypeInv
<1>1. ASSUME NEW c \in Client, NEW s \in Status, SetNodeStatus(c, s) PROVE NodeTypes' /\ cmd' = cmd
  BY <1>0, <1>1 DEF SetNodeStatus, NodeTypes, node
<1>2. CASE PressCtrlC \/ Quit
  <2>1. UNCHANGED <<reg, pool, recv, view, cmd, status, answer, stalled>>
    BY <1>2 DEF PressCtrlC, Quit, node
  <2>2. quit' \in {"ctrlC", "yes"}
    BY <1>2 DEF PressCtrlC, Quit
  <2> QED
    BY <1>0, <1>c, <2>1, <2>2 DEF NodeTypes
<1>3. ASSUME NEW k \in Conn, RecvFails(k) \/ RecvStep(k) PROVE NodeTypes' /\ cmd' = cmd
  <2>1. To[k] \in Peer /\ AddrOf[To[k]] \in Addr
    BY CommandsAssumption, RegistryAssumption DEF UUID
  <2>2. recv' \in [Conn -> {"none", "recv", "delConn", "delStream"}]
    BY <1>0, <1>3 DEF RecvFails, RecvStep, RecvDeleteConn, RecvDeleteStream, NodeTypes
  <2>3. CASE RecvFails(k)
    <3>1. reg' \in Registry /\ Self \notin List(reg')
      BY <1>0, <2>1, <2>3, RegTyped DEF RecvFails
    <3> QED
      BY <1>0, <2>2, <2>3, <3>1 DEF RecvFails, NodeTypes, rest
  <2>4. CASE RecvStep(k)
    <3>1. pool' \in Pool
      BY <1>0, <2>1, <2>4, PoolTyped DEF RecvStep, RecvDeleteConn, RecvDeleteStream
    <3> QED
      BY <1>0, <2>2, <2>4, <3>1 DEF RecvStep, RecvDeleteConn, RecvDeleteStream, NodeTypes, rest
  <2> QED
    BY <1>3, <2>3, <2>4
<1>4. ASSUME NEW u \in Peer, NEW h \in Handlers, PeerHandshake(h, u) \/ PeerRumoured(h, u)
      PROVE  NodeTypes' /\ cmd' \in [Proc -> Cmd] /\ \A d \in Proc : Ready(cmd'[d])
  <2>1. reg' \in {reg, Register(reg, u, "ONLINE")} /\ AutoConnect(h, u)
    BY <1>4 DEF PeerHandshake, PeerRumoured
  <2>2. reg' \in Registry /\ Self \notin List(reg')
    BY <1>0, <2>1, RegTyped
  <2>3. view' \in [Peer -> Status \cup {None}]
    BY <1>0, <1>4 DEF PeerHandshake, PeerRumoured, NodeTypes
  <2> QED
    BY <1>0, <1>4, <2>1, <2>2, <2>3, AutoConnectTyped DEF PeerHandshake, PeerRumoured, NodeTypes, rest
<1>5. ASSUME NEW u \in Peer, PeerDisconnects(u) PROVE NodeTypes' /\ cmd' = cmd
  <2>1. reg' \in Registry /\ Self \notin List(reg')
    BY <1>0, <1>5, RegTyped DEF PeerDisconnects
  <2> QED
    BY <1>0, <1>5, <2>1 DEF PeerDisconnects, NodeTypes, rest
<1>6. ASSUME NEW u \in Peer, CleanupStalePeer(u) PROVE NodeTypes' /\ cmd' = cmd
  <2>1. reg' \in Registry /\ Self \notin List(reg')
    BY <1>0, <1>6, RegTyped DEF CleanupStalePeer
  <2>2. AddrOf[u] \in Addr
    BY RegistryAssumption DEF UUID
  <2>3. CloseByAddr(pool, AddrOf[u]) \in Pool
    BY <1>0, <2>2 DEF NodeTypes, CloseByAddr, Pool
  <2> QED
    BY <1>0, <1>6, <2>1, <2>3 DEF CleanupStalePeer, NodeTypes, rest
<1>7. ASSUME NEW u \in Peer, PeerStalls(u) \/ Heartbeat(u) \/ StatusArrives(u)
      PROVE  NodeTypes' /\ cmd' = cmd
  BY <1>0, <1>7 DEF PeerStalls, Heartbeat, StatusArrives, NodeTypes, node
<1> QED
  BY <1>c, <1>1, <1>2, <1>3, <1>4, <1>5, <1>6, <1>7 DEF OtherStep, PeerStep

\* Every step is one of these.
LEMMA Steps ==
  ASSUME Next
  PROVE  \/ \E c \in Client :
              \/ \E op \in {"send", "ping"}, t \in Name \cup Addr : BeginTo(c, op, t)
              \/ Broadcast(c) \/ \E a \in Addr : ConnectTo(c, a)
              \/ \E n \in Name : DisconnectBegins(c, n)
              \/ BeginList(c)
         \/ \E c \in Proc : Step(c)
         \/ OtherStep
<1>1. Console \in Client /\ Requests \subseteq Client
  BY DEF Client
<1>2. CASE handleCommand
  BY <1>1, <1>2 DEF handleCommand, handleSendCommand, handlePingCommand, handleBroadcastCommand,
     handleListCommand, handleConnectCommand, handleDisconnectCommand, handleStatusCommand, OtherStep
<1>3. ASSUME NEW r \in Requests, setupRoutes(r)
      PROVE  \/ \E op \in {"send", "ping"}, t \in Name \cup Addr : BeginTo(r, op, t)
             \/ Broadcast(r) \/ \E a \in Addr : ConnectTo(r, a)
             \/ \E n \in Name : DisconnectBegins(r, n)
             \/ BeginList(r)
             \/ \E s \in Status : SetNodeStatus(r, s)
  BY <1>3 DEF setupRoutes, handleSendMessage, handlePing, handleBroadcastMessage, handleGetPeers,
     handleConnect, handleDisconnect, handleStatus
<1> QED
  BY <1>1, <1>2, <1>3 DEF Next, OtherStep

LEMMA SteadyNext ==
  ASSUME Next, NEW c \in Client
  PROVE  steady'[c] = {u \in Registered' :
           cmd'[c].op = "list" /\ (cmd'[c].pc = "list" \/ u \in steady[c])}
BY DEF Next

LEMMA TypeInvNext == TypeInv /\ [Next]_vars => TypeInv'
<1> SUFFICES ASSUME TypeInv, [Next]_vars PROVE TypeInv'
  OBVIOUS
<1>1. CASE UNCHANGED vars
  BY <1>1 DEF vars, TypeInv, NodeTypes
<1>2. CASE Next
  <2>1. NodeTypes' /\ cmd' \in [Proc -> Cmd] /\ \A d \in Proc : Ready(cmd'[d])
    BY <1>2, Steps, GivenTyped, StepTyped, OthersTyped
  <2>2. Registered' \subseteq UUID
    BY DEF Registered, List
  <2>3. steady' \in [Client -> SUBSET UUID]
    BY <1>2, <2>2 DEF TypeInv, Next
  <2> QED
    BY <2>1, <2>3 DEF TypeInv
<1> QED
  BY <1>1, <1>2

LEMMA TypeInvariant == Spec => []TypeInv
<1>1. Init => TypeInv
  <2> SUFFICES ASSUME Init PROVE TypeInv
    OBVIOUS
  <2>1. reg \in Registry /\ Self \notin List(reg)
    BY DEF Init, Registry, NewPeerRegistry, List
  <2>2. pool \in Pool
    BY DEF Init, Pool, NewConnPool
  <2>3. NodeTypes
    BY <2>1, <2>2 DEF Init, NodeTypes, Status
  <2> QED
    BY <2>3, IdleReady DEF Init, TypeInv, Ready
<1> QED
  BY <1>1, TypeInvNext, PTL DEF Spec

\* No command uses an address or a peer it has not got, and none disconnects the
\* node from itself: GetByName and GetAddrByName answer with what was registered.
THEOREM CommandsTyped == Spec => []TypeOK
<1>1. TypeInv => TypeOK
  BY DEF TypeInv, NodeTypes, TypeOK
<1> QED
  BY <1>1, TypeInvariant, PTL

-----------------------------------------------------------------------------
(* The list.                                                               *)

\* What the list of client c has read so far has every steady peer.
Listing(c) ==
  /\ cmd[c].op # "list" => steady[c] = {}
  /\ steady[c] \subseteq Registered
  /\ cmd[c].pc # "list" => steady[c] \subseteq cmd[c].peers
  /\ cmd[c].pc = "rows" => \A u \in steady[c] : AddrOf[u] \in cmd[c].addrs

\* What a step can do to a command, as far as lists are concerned.
CmdStep(c) ==
  \/ cmd'[c].op # "list" \/ cmd'[c].pc = "list" \/ cmd'[c] = cmd[c]
  \/ /\ cmd'[c].op = cmd[c].op /\ cmd'[c].peers = cmd[c].peers
     /\ cmd[c].pc # "list" /\ cmd'[c].pc # "rows"
  \/ cmd'[c].peers = List(reg) /\ cmd'[c].op = cmd[c].op /\ cmd'[c].pc = "streams"
  \/ /\ cmd'[c].peers = cmd[c].peers /\ cmd'[c].op = cmd[c].op
     /\ cmd[c].pc = "streams" /\ cmd'[c].addrs = StreamAddrs(pool)

LEMMA NextCmdStep == ASSUME TypeInv, Next, NEW c \in Client PROVE CmdStep(c)
<1>0. cmd \in [Proc -> Cmd] /\ c \in Proc
  BY DEF TypeInv, Proc
<1>a. ASSUME NEW d \in Proc, NEW x, cmd' = [cmd EXCEPT ![d] = x], x.op # "list" \/ x.pc = "list"
      PROVE  CmdStep(c)
  BY <1>0, <1>a DEF CmdStep
<1>b. ASSUME NEW d \in Proc, Answer(d) PROVE CmdStep(c)
  BY <1>0, <1>b DEF Answer, Idle, CmdStep
<1>c. cmd' = cmd => CmdStep(c)
  BY DEF CmdStep
<1>d. ASSUME NEW d \in Proc, NEW x, cmd' = [cmd EXCEPT ![d] = x],
             x.op = cmd[d].op, x.peers = cmd[d].peers, cmd[d].pc # "list", x.pc # "rows"
      PROVE  CmdStep(c)
  BY <1>0, <1>d DEF CmdStep
<1>1. ASSUME NEW d \in Client, NEW x, Begin(d, x), x.op # "list" \/ x.pc = "list"
      PROVE  CmdStep(c)
  BY <1>a, <1>1 DEF Begin, Proc
<1>2. ASSUME NEW d \in Client,
             \/ \E op \in {"send", "ping"}, t \in Name \cup Addr : BeginTo(d, op, t)
             \/ Broadcast(d) \/ \E a \in Addr : ConnectTo(d, a)
             \/ \E n \in Name : DisconnectBegins(d, n)
             \/ BeginList(d)
      PROVE  CmdStep(c)
  BY <1>1, <1>2 DEF BeginTo, Broadcast, ConnectTo, DisconnectBegins, BeginList, Idle
<1>3. ASSUME NEW d \in Proc, Step(d) PROVE CmdStep(c)
  <2>0. cmd[d] \in Cmd
    BY <1>0
  <2>1. CASE FindStream(d)
    <3>1. PICK a \in cmd[d].addrs :
            \/ cmd' = [cmd EXCEPT ![d].addrs = @ \ {a}, ![d].c = pool.streams[a], ![d].pc = "send"]
            \/ Answer(d)
            \/ cmd' = [cmd EXCEPT ![d].addrs = @ \ {a}]
      BY <2>1 DEF FindStream
    <3> DEFINE x == [cmd[d] EXCEPT !.addrs = @ \ {a}, !.c = pool.streams[a], !.pc = "send"]
               y == [cmd[d] EXCEPT !.addrs = @ \ {a}]
    <3>2. x.op = cmd[d].op /\ x.peers = cmd[d].peers /\ x.pc # "rows"
      BY <2>0 DEF Cmd
    <3>3. y.op = cmd[d].op /\ y.peers = cmd[d].peers /\ y.pc = cmd[d].pc
      BY <2>0 DEF Cmd
    <3>4. cmd[d].pc = "has"
      BY <2>1 DEF FindStream, At
    <3>5. cmd' = [cmd EXCEPT ![d] = x] \/ Answer(d) \/ cmd' = [cmd EXCEPT ![d] = y]
      BY <1>0, <3>1
    <3> HIDE DEF x, y
    <3> QED
      BY <1>b, <1>d, <3>2, <3>3, <3>4, <3>5
  <2>2. CASE SendReturns(d)
    <3>1. PICK pc \in {"has", "wait"} :
            Answer(d) \/ cmd' = [cmd EXCEPT ![d].pc = pc, ![d].c = None]
      BY <2>2 DEF SendReturns, Sent
    <3> DEFINE x == [cmd[d] EXCEPT !.pc = pc, !.c = None]
    <3>2. x.op = cmd[d].op /\ x.peers = cmd[d].peers /\ x.pc # "rows"
      BY <2>0 DEF Cmd
    <3>3. Answer(d) \/ cmd' = [cmd EXCEPT ![d] = x]
      BY <1>0, <3>1
    <3>4. cmd[d].pc = "send"
      BY <2>2 DEF SendReturns, At
    <3> HIDE DEF x
    <3> QED
      BY <1>b, <1>d, <3>2, <3>3, <3>4
  <2>3. CASE DisconnectPeer(d)
    <3> DEFINE x == [cmd[d] EXCEPT !.pc = "close"]
    <3>1. x.op = cmd[d].op /\ x.peers = cmd[d].peers /\ x.pc # "rows"
      BY <2>0 DEF Cmd
    <3>2. Answer(d) \/ cmd' = [cmd EXCEPT ![d] = x]
      BY <1>0, <2>3 DEF DisconnectPeer, Goto
    <3>3. cmd[d].pc = "unreg"
      BY <2>3 DEF DisconnectPeer, At
    <3> HIDE DEF x
    <3> QED
      BY <1>b, <1>d, <3>1, <3>2, <3>3
  <2>4. CASE ListPeers(d)
    BY <1>0, <2>4 DEF ListPeers, CmdStep, Cmd
  <2>5. CASE GetStreamsCopy(d)
    BY <1>0, <2>5 DEF GetStreamsCopy, At, CmdStep, Cmd
  <2>6. CASE \/ HandshakeSeedNode(d) \/ ConnectNext(d) \/ PoolConn(d)
             \/ OpenStream(d) \/ OpenStreamFails(d) \/ AddOnlinePeer(d)
    <3>1. cmd[d].op # "list"
      BY <2>6 DEF TypeInv, Ready, HandshakeSeedNode, ConnectNext, PoolConn, OpenStream,
         OpenStreamFails, AddOnlinePeer, At
    <3>2. cmd'[d].op \in {cmd[d].op, "none"} /\ \A e \in Proc \ {d} : cmd'[e] = cmd[e]
      <4>0. Answer(d) => cmd'[d].op = "none" /\ \A e \in Proc \ {d} : cmd'[e] = cmd[e]
        BY <1>0 DEF Answer, Idle
      <4>a. ASSUME NEW y, y.op = cmd[d].op, cmd' = [cmd EXCEPT ![d] = y]
            PROVE  cmd'[d].op = cmd[d].op /\ \A e \in Proc \ {d} : cmd'[e] = cmd[e]
        BY <1>0, <4>a
      <4>1. CASE HandshakeSeedNode(d)
        <5>1. ASSUME NEW u \in Peer, NEW known \in SUBSET (Peer \ {u}),
                     cmd' = [cmd EXCEPT ![d].pc = "next", ![d].addrs = {},
                                        ![d].peers = known, ![d].seed = u]
              PROVE  cmd'[d].op = cmd[d].op /\ \A e \in Proc \ {d} : cmd'[e] = cmd[e]
          BY <1>0, <2>0, <5>1 DEF Cmd
        <5> QED
          BY <4>0, <4>1, <5>1 DEF HandshakeSeedNode
      <4>2. CASE ConnectNext(d)
        <5>1. ASSUME NEW u
              PROVE  /\ Taken(cmd[d], u).op = cmd[d].op
                     /\ [Taken(cmd[d], u) EXCEPT !.pc = "add", !.u = u].op = cmd[d].op
                     /\ \A k : [Taken(cmd[d], u) EXCEPT !.pc = "set", !.u = u, !.c = k].op = cmd[d].op
          BY <2>0 DEF Taken, Cmd
        <5>2. \/ Answer(d)
              \/ \E u : \/ cmd' = [cmd EXCEPT ![d] = Taken(cmd[d], u)]
                       \/ cmd' = [cmd EXCEPT ![d] = [Taken(cmd[d], u) EXCEPT !.pc = "add", !.u = u]]
                       \/ \E k : cmd' = [cmd EXCEPT ![d] =
                                    [Taken(cmd[d], u) EXCEPT !.pc = "set", !.u = u, !.c = k]]
          BY <4>2, Zenon DEF ConnectNext
        <5> QED
          BY <4>0, <4>a, <5>1, <5>2, Zenon
      <4>3. CASE PoolConn(d) \/ OpenStream(d) \/ OpenStreamFails(d) \/ AddOnlinePeer(d)
        BY <1>0, <2>0, <4>3 DEF PoolConn, Goto, OpenStream, OpenStreamFails, AddOnlinePeer, Cmd
      <4> QED
        BY <2>6, <4>1, <4>2, <4>3
    <3> QED
      BY <1>0, <3>1, <3>2 DEF CmdStep
  <2> QED
    BY <1>3, <1>b, <2>1, <2>2, <2>3, <2>4, <2>5, <2>6
    DEF Step, PingEnds, ListAnswers, DisconnectCloses
<1>4. CASE OtherStep
  <2>1. ASSUME NEW h \in Handlers, NEW u \in Peer, AutoConnect(h, u) PROVE CmdStep(c)
    BY <1>a, <2>1 DEF AutoConnect, Idle, Proc
  <2> QED
    BY <1>4, <1>c, <2>1 DEF OtherStep, SetNodeStatus, PressCtrlC, Quit, RecvFails, RecvStep,
       RecvDeleteConn, RecvDeleteStream, PeerStep, PeerHandshake, PeerRumoured, PeerDisconnects,
       PeerStalls, Heartbeat, StatusArrives, CleanupStalePeer
<1> QED
  BY <1>2, <1>3, <1>4, Steps

LEMMA ListingNext ==
  ASSUME TypeInv, [Next]_vars, NEW c \in Client, Listing(c) PROVE Listing(c)'
<1>1. CASE UNCHANGED vars
  BY <1>1 DEF vars, Listing, Registered
<1>2. CASE Next
  <2>1. CASE cmd'[c].op # "list"
    <3>1. steady'[c] = {}
      BY <1>2, <2>1, SteadyNext
    <3> QED
      BY <3>1 DEF Listing
  <2>2. CASE cmd'[c].op = "list" /\ cmd'[c].pc = "list"
    <3>1. steady'[c] = Registered'
      BY <1>2, <2>2, SteadyNext
    <3> QED
      BY <2>2, <3>1 DEF Listing
  <2>3. CASE cmd'[c].op = "list" /\ cmd'[c].pc # "list"
    <3>1. steady'[c] = steady[c] \cap Registered'
      BY <1>2, <2>3, SteadyNext
    <3>2. CmdStep(c)
      BY <1>2, NextCmdStep
    <3>3. \A u \in steady[c] : u \in List(reg) /\ AddrOf[u] \in StreamAddrs(pool)
      BY RegistryAssumption DEF Listing, Registered, StreamAddrs, List
    <3>4. steady[c] \subseteq cmd'[c].peers
      BY <2>3, <3>2, <3>3 DEF CmdStep, Listing
    <3>5. cmd'[c].pc = "rows" => \A u \in steady[c] : AddrOf[u] \in cmd'[c].addrs
      BY <2>3, <3>2, <3>3 DEF CmdStep, Listing
    <3> QED
      BY <2>3, <3>1, <3>4, <3>5 DEF Listing
  <2> QED
    BY <2>1, <2>2, <2>3
<1> QED
  BY <1>1, <1>2

\* A peer that is registered and connected from the first read of a list to the
\* last is shown as connected, whoever else joins, leaves or reconnects between
\* the reads: GetOnlinePeers copies the streams after the peers.
THEOREM SteadyPeersShown == Spec => []ListShowsSteady
<1>1. Init => \A c \in Client : Listing(c)
  BY DEF Init, Listing, Idle
<1>2. TypeInv /\ (\A c \in Client : Listing(c)) /\ [Next]_vars => (\A c \in Client : Listing(c))'
  BY ListingNext
<1>3. TypeInv /\ (\A c \in Client : Listing(c)) => ListShowsSteady
  BY DEF TypeInv, ListShowsSteady, Listing, At, ShownConnected
<1> QED
  BY <1>1, <1>2, <1>3, TypeInvariant, PTL DEF Spec
=============================================================================
