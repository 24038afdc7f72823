------------------------------ MODULE Commands ------------------------------
(***************************************************************************)
(* The commands of users: the console (internal/console/console.go), the   *)
(* handlers of the web server (internal/web/server.go, handlers.go), the   *)
(* adapter between them and the node (cmd/p2pnode/root/root.go), the       *)
(* client calls they end in (internal/client/client.go), and what they     *)
(* read and set in the node (internal/node/node.go).                       *)
(*                                                                         *)
(* The console is one event loop: Update runs a command to its end before  *)
(* it takes the next key.  Web requests run in goroutines of their own.    *)
(* A command is resolved, does its calls one by one, and answers; an       *)
(* answer that changes nothing ends the command at once.  A target is a    *)
(* name or an address; only addresses have a colon.                        *)
(*                                                                         *)
(* A call is a step, as in module Node.  The other goroutines of the node  *)
(* change the registry and the pool under the commands: the receive loops  *)
(* and auto-connect are here again, the cleaner is one step.  The status   *)
(* of a registered peer tells nothing apart here and is always ONLINE.     *)
(***************************************************************************)
EXTENDS PeerRegistry, ConnPool, FiniteSets

CONSTANTS
  Console,   \* the event loop of the console
  Requests,  \* goroutines that serve web requests
  Handlers,  \* goroutines of the node that auto-connect
  To,        \* the peer that a connection leads to
  Operations \* the commands given, and what peers do

Client == {Console} \cup Requests
Proc == Client \cup Handlers

ASSUME CommandsAssumption ==
  /\ Console \notin Requests
  /\ Client \cap Handlers = {}
  /\ To \in [Conn -> Peer]
  /\ Name \cap Addr = {}
  /\ None \notin Name \cup Addr \cup UUID

VARIABLES
  reg,      \* the registry
  pool,     \* the connection pool
  cmd,      \* what each goroutine of Proc does
  recv,     \* the recvPeerMessageLoop of each stream
  steady,   \* peers registered and streamed to since a list began (ghost)
  quit,     \* no; ctrlC: the key is in the queue; yes
  status,   \* selfInfo.Status
  view,     \* this node's status in the registry of each peer, or None
  answer,   \* the status in a heartbeat's answer on its way to each peer
  stalled   \* peers that are suspended: connected, taking no message

vars == <<reg, pool, cmd, recv, steady, quit, status, view, answer, stalled>>
code == <<reg, pool, cmd, recv, quit, status, view, answer, stalled>>
node == <<reg, pool, recv, view>>
rest == <<quit, status, answer, stalled>>

Status == {"ONLINE", "BUSY"}

Cmd == [op : {"none", "send", "ping", "broadcast", "connect", "auto", "disconnect", "list"},
        pc : {"idle", "has", "send", "wait", "dial", "next", "set", "stream", "add",
              "unreg", "close", "list", "streams", "rows"},
        addrs : SUBSET Addr,            \* left to send to, to dial, or streamed to
        c     : Conn \cup {None},       \* the stream sent on, the connection dialled
        u     : Peer \cup {None},       \* the peer at hand
        peers : SUBSET UUID,            \* left to connect, or List's
        seed  : Peer \cup {None}]       \* resp.Peer, last of those to connect

Idle == [op |-> "none", pc |-> "idle", addrs |-> {}, c |-> None, u |-> None,
         peers |-> {}, seed |-> None]

TypeOK ==
  /\ reg \in Registry /\ pool \in Pool
  /\ cmd \in [Proc -> Cmd]
  /\ recv \in [Conn -> {"none", "recv", "delConn", "delStream"}]
  /\ steady \in [Client -> SUBSET UUID]
  /\ quit \in {"no", "ctrlC", "yes"}
  /\ status \in Status
  /\ view \in [Peer -> Status \cup {None}]
  /\ answer \in [Peer -> Status \cup {None}]
  /\ stalled \subseteq Peer

Init ==
  /\ reg = NewPeerRegistry /\ pool = NewConnPool
  /\ cmd = [c \in Proc |-> Idle]
  /\ recv = [k \in Conn |-> "none"]
  /\ steady = [c \in Client |-> {}]
  /\ quit = "no"
  /\ status = "ONLINE"
  /\ view = [u \in Peer |-> None]
  /\ answer = [u \in Peer |-> None]
  /\ stalled = {}

At(c, pc) == cmd[c].pc = pc

\* Update takes a line, or a request arrives.
Free(c) == At(c, "idle") /\ (c = Console => quit = "no")

Begin(c, x) ==
  /\ x.op \in Operations /\ Free(c)
  /\ cmd' = [cmd EXCEPT ![c] = x]

Goto(c, pc) == cmd' = [cmd EXCEPT ![c].pc = pc]

Answer(c) == cmd' = [cmd EXCEPT ![c] = Idle]

-----------------------------------------------------------------------------
(* send, ping, broadcast.                                                  *)

\* The address of a name; an address is no name and stands for itself.
Resolve(t) == IF t \in Name THEN GetAddrByName(reg, t) ELSE t

\* A name that nobody has reaches no stream, whether it is refused (send) or
\* passed on (ping).
BeginTo(c, op, t) ==
  /\ Resolve(t) # None
  /\ Begin(c, [Idle EXCEPT !.op = op, !.pc = "has", !.addrs = {Resolve(t)}])
  /\ UNCHANGED <<node, rest>>

handleSendCommand(t) == BeginTo(Console, "send", t)
handleSendMessage(r, t) == BeginTo(r, "send", t)
handlePingCommand(t) == BeginTo(Console, "ping", t)
handlePing(r, t) == BeginTo(r, "ping", t)

\* StreamAddrs is read once; no address, no send.
Broadcast(c) ==
  /\ StreamAddrs(pool) # {}
  /\ Begin(c, [Idle EXCEPT !.op = "broadcast", !.pc = "has", !.addrs = StreamAddrs(pool)])
  /\ UNCHANGED <<node, rest>>

handleBroadcastCommand == Broadcast(Console)
handleBroadcastMessage(r) == Broadcast(r)

\* SendToStream looks the next address up: it sends on what is there by now.
FindStream(c) ==
  /\ At(c, "has")
  /\ \E a \in cmd[c].addrs :
       IF HasStream(pool, a)
       THEN cmd' = [cmd EXCEPT ![c].addrs = @ \ {a}, ![c].c = pool.streams[a], ![c].pc = "send"]
       ELSE IF cmd[c].addrs = {a} THEN Answer(c)
       ELSE cmd' = [cmd EXCEPT ![c].addrs = @ \ {a}]
  /\ UNCHANGED <<node, rest>>

\* The peer takes no message, and neither an error nor a close ends the stream.
Blocked(k) == To[k] \in stalled /\ k \in pool.open /\ recv[k] = "recv"

\* What follows when Send has returned.
Sent(c) ==
  IF cmd[c].addrs # {} THEN cmd' = [cmd EXCEPT ![c].pc = "has", ![c].c = None]
  ELSE \/ Answer(c)
       \/ cmd[c].op = "ping" /\ cmd' = [cmd EXCEPT ![c].pc = "wait", ![c].c = None]

\* Mutant: a stream that is closed under a Send does not release it.
SendHangs(c) ==
  /\ At(c, "send") /\ To[cmd[c].c] \notin stalled
  /\ Sent(c)
  /\ UNCHANGED <<node, rest>>

\* An error ends a ping, and a broadcast goes on.
SendReturns(c) ==
  /\ At(c, "send") /\ ~Blocked(cmd[c].c)
  /\ Sent(c)
  /\ UNCHANGED <<node, rest>>

\* Mutant: the ping has no time limit.
PingAwaitsPong(c) ==
  /\ At(c, "wait") /\ stalled = {}
  /\ Answer(c)
  /\ UNCHANGED <<node, rest>>

\* The pong or the five seconds.
PingEnds(c) ==
  /\ At(c, "wait")
  /\ Answer(c)
  /\ UNCHANGED <<node, rest>>

-----------------------------------------------------------------------------
(* connect: HandshakeSeedNode and ConnectToPeers.                          *)

\* The console refuses a target that is no address.
ConnectTo(c, a) ==
  /\ Begin(c, [Idle EXCEPT !.op = "connect", !.pc = "dial", !.addrs = {a}])
  /\ UNCHANGED <<node, rest>>

handleConnectCommand(a) == ConnectTo(Console, a)
handleConnect(r, a) == ConnectTo(r, a)

(***************************************************************************)
(* The seed registers this node, as ONLINE (buildHandshakeReq), and its    *)
(* answer has the seed and the peers it knows; or the answer is lost; or   *)
(* nobody answers.                                                         *)
(***************************************************************************)
HandshakeSeedNode(c) ==
  /\ At(c, "dial")
  /\ \/ \E u \in Peer \ stalled :
          /\ AddrOf[u] \in cmd[c].addrs
          /\ view' = [view EXCEPT ![u] = "ONLINE"]
          /\ \/ \E known \in SUBSET (Peer \ {u}) :
                  cmd' = [cmd EXCEPT ![c].pc = "next", ![c].addrs = {},
                                     ![c].peers = known, ![c].seed = u]
               /\ reg' = Register(reg, u, "ONLINE")
             \/ Answer(c) /\ UNCHANGED reg
     \/ Answer(c) /\ UNCHANGED <<reg, view>>
  /\ UNCHANGED <<pool, recv, rest>>

\* What a dial returns: a connection that nothing refers to.
Fresh(k) == k \notin pool.open /\ recv[k] = "none" /\ \A c \in Proc : cmd[c].c # k

\* The peers ConnectToPeers may take next, and the command when it has.
NextPeers(x) == IF x.peers # {} THEN x.peers \cap Peer ELSE {x.seed} \ {None}
Taken(x, u) == [x EXCEPT !.peers = @ \ {u}, !.seed = IF x.peers = {} THEN None ELSE @]

(***************************************************************************)
(* HasStream for the next peer, and the dial if there is none, which may   *)
(* fail.  The node's own address is passed over.                           *)
(***************************************************************************)
ConnectNext(c) ==
  /\ At(c, "next")
  /\ \/ \E u \in NextPeers(cmd[c]) :
          LET x == Taken(cmd[c], u)
          IN  IF HasStream(pool, AddrOf[u])
              THEN cmd' = [cmd EXCEPT ![c] = [x EXCEPT !.pc = "add", !.u = u]] /\ UNCHANGED pool
              ELSE \/ \E k \in Conn :
                        /\ AddrOf[u] # AddrOf[Self] /\ To[k] = u /\ Fresh(k)
                        /\ pool' = Dialled(pool, k)
                        /\ cmd' = [cmd EXCEPT ![c] = [x EXCEPT !.pc = "set", !.u = u, !.c = k]]
                   \/ cmd' = [cmd EXCEPT ![c] = x] /\ UNCHANGED pool
     \/ NextPeers(cmd[c]) = {} /\ Answer(c) /\ UNCHANGED pool
  /\ UNCHANGED <<reg, recv, view, rest>>

PoolConn(c) ==
  /\ At(c, "set")
  /\ pool' = SetConn(pool, AddrOf[cmd[c].u], cmd[c].c)
  /\ Goto(c, "stream")
  /\ UNCHANGED <<reg, recv, view, rest>>

\* Stream and SetStream; the connection may be closed between the two.
OpenStream(c) ==
  /\ At(c, "stream")
  /\ pool' = SetStream(pool, AddrOf[cmd[c].u], cmd[c].c)
  /\ recv' = [recv EXCEPT ![cmd[c].c] = "recv"]
  /\ cmd' = [cmd EXCEPT ![c].pc = "add", ![c].c = None]
  /\ UNCHANGED <<reg, view, rest>>

\* DeletePeerConn removes what the pool has now; the Close is of the own one.
OpenStreamFails(c) ==
  /\ At(c, "stream")
  /\ pool' = Closed(DeleteConn(pool, AddrOf[cmd[c].u]), cmd[c].c)
  /\ cmd' = [cmd EXCEPT ![c].pc = "next", ![c].u = None, ![c].c = None]
  /\ UNCHANGED <<reg, recv, view, rest>>

AddOnlinePeer(c) ==
  /\ At(c, "add")
  /\ reg' = Register(reg, cmd[c].u, "ONLINE")
  /\ cmd' = [cmd EXCEPT ![c].pc = "next", ![c].u = None]
  /\ UNCHANGED <<pool, recv, view, rest>>

-----------------------------------------------------------------------------
(* disconnect.                                                             *)

DisconnectBegins(c, n) ==
  /\ \E u \in GetByName(reg, n) :
       Begin(c, [Idle EXCEPT !.op = "disconnect", !.pc = "unreg", !.u = u])
  /\ UNCHANGED <<node, rest>>

handleDisconnectCommand(n) == DisconnectBegins(Console, n)
handleDisconnect(r, n) == DisconnectBegins(r, n)

\* DisconnectPeer: the peer is told if it answers, then Unregister.
DisconnectPeer(c) ==
  /\ At(c, "unreg")
  /\ reg' = Unregister(reg, cmd[c].u)
  /\ view' = IF cmd[c].u \in stalled THEN view ELSE [view EXCEPT ![cmd[c].u] = None]
  /\ IF Removed(reg, cmd[c].u) THEN Goto(c, "close") ELSE Answer(c)
  /\ UNCHANGED <<pool, recv, rest>>

DisconnectCloses(c) ==
  /\ At(c, "close")
  /\ pool' = CloseByAddr(pool, AddrOf[cmd[c].u])
  /\ Answer(c)
  /\ UNCHANGED <<reg, recv, view, rest>>

-----------------------------------------------------------------------------
(* list: GetOnlinePeers.                                                   *)

BeginList(c) ==
  /\ Begin(c, [Idle EXCEPT !.op = "list", !.pc = "list"])
  /\ UNCHANGED <<node, rest>>

handleListCommand == BeginList(Console)
handleGetPeers(r) == BeginList(r)

ListPeers(c) ==
  /\ At(c, "list")
  /\ cmd' = [cmd EXCEPT ![c].peers = List(reg), ![c].pc = "streams"]
  /\ UNCHANGED <<node, rest>>

GetStreamsCopy(c) ==
  /\ At(c, "streams")
  /\ cmd' = [cmd EXCEPT ![c].addrs = StreamAddrs(pool), ![c].pc = "rows"]
  /\ UNCHANGED <<node, rest>>

\* The peers that the rows show as connected.
ShownConnected(c) == {u \in cmd[c].peers : AddrOf[u] \in cmd[c].addrs}

ListAnswers(c) ==
  /\ At(c, "rows")
  /\ Answer(c)
  /\ UNCHANGED <<node, rest>>

-----------------------------------------------------------------------------
(* status, and the heartbeats that carry it to the peers.                  *)

\* Mutant: a word that is no status is stored as the zero of the enum.
SetAnyStatus(c, s) ==
  /\ "status" \in Operations /\ Free(c)
  /\ status' \in {s, "UNKNOWN"}
  /\ UNCHANGED <<node, cmd, quit, answer, stalled>>

\* SetNodeStatus takes online and busy, and refuses other words.
SetNodeStatus(c, s) ==
  /\ "status" \in Operations /\ Free(c)
  /\ status' = s
  /\ UNCHANGED <<node, cmd, quit, answer, stalled>>

handleStatusCommand(s) == SetNodeStatus(Console, s)
handleStatus(r, s) == SetNodeStatus(r, s)

\* Mutant: the getter of the constructor is left in place.
HeartbeatSaysOnline(u) ==
  /\ "heartbeat" \in Operations
  /\ view[u] # None /\ u \notin stalled /\ answer[u] = None
  /\ answer' = [answer EXCEPT ![u] = "ONLINE"]
  /\ UNCHANGED <<node, cmd, quit, status, stalled>>

\* A peer that has this node registered asks it; GetStatusPB.
Heartbeat(u) ==
  /\ "heartbeat" \in Operations
  /\ view[u] # None /\ u \notin stalled /\ answer[u] = None
  /\ answer' = [answer EXCEPT ![u] = status]
  /\ UNCHANGED <<node, cmd, quit, status, stalled>>

\* The peer's UpdateStatus.
StatusArrives(u) ==
  /\ answer[u] # None /\ u \notin stalled
  /\ answer' = [answer EXCEPT ![u] = None]
  /\ view' = IF view[u] = None THEN view ELSE [view EXCEPT ![u] = answer[u]]
  /\ UNCHANGED <<reg, pool, cmd, recv, quit, status, stalled>>

-----------------------------------------------------------------------------
(* The event loop ends.                                                    *)

PressCtrlC ==
  /\ "quit" \in Operations /\ quit = "no"
  /\ quit' = "ctrlC"
  /\ UNCHANGED <<node, cmd, status, answer, stalled>>

\* Update gets to the key once the command has returned.
Quit ==
  /\ quit = "ctrlC" /\ At(Console, "idle")
  /\ quit' = "yes"
  /\ UNCHANGED <<node, cmd, status, answer, stalled>>

-----------------------------------------------------------------------------
(* The receive loops, peers, and the cleaner.                              *)

\* The stream breaks, or its connection has been closed: RemoveOnlinePeer.
RecvFails(k) ==
  /\ recv[k] = "recv"
  /\ reg' = Unregister(reg, To[k])
  /\ recv' = [recv EXCEPT ![k] = "delConn"]
  /\ UNCHANGED <<pool, cmd, view, rest>>

RecvDeleteConn(k) ==
  /\ recv[k] = "delConn"
  /\ pool' = DeleteConn(pool, AddrOf[To[k]])
  /\ recv' = [recv EXCEPT ![k] = "delStream"]
  /\ UNCHANGED <<reg, cmd, view, rest>>

RecvDeleteStream(k) ==
  /\ recv[k] = "delStream"
  /\ pool' = DeleteStream(pool, AddrOf[To[k]])
  /\ recv' = [recv EXCEPT ![k] = "none"]
  /\ UNCHANGED <<reg, cmd, view, rest>>

\* The auto-connect subscriber calls ConnectToPeers in goroutine h.
AutoConnect(h, u) ==
  /\ At(h, "idle")
  /\ cmd' = [cmd EXCEPT ![h] = [Idle EXCEPT !.op = "auto", !.pc = "next", !.peers = {u}]]

\* A handshake of u; the response is a copy of selfInfo.
PeerHandshake(h, u) ==
  /\ u \notin stalled
  /\ reg' = Register(reg, u, "ONLINE")
  /\ view' = [view EXCEPT ![u] = status]
  /\ AutoConnect(h, u)
  /\ UNCHANGED <<pool, recv, rest>>

\* Another node tells of u, suspended or not: NotifyNodeJoin registers it, a
\* gossip round leaves that to auto-connect.
PeerRumoured(h, u) ==
  /\ u \notin List(reg)
  /\ reg' \in {reg, Register(reg, u, "ONLINE")}
  /\ AutoConnect(h, u)
  /\ UNCHANGED <<pool, recv, view, rest>>

\* A Disconnect from u: it is unregistered, the stream to it stays.
PeerDisconnects(u) ==
  /\ "peerDisconnects" \in Operations
  /\ u \notin stalled /\ u \in List(reg)
  /\ reg' = Unregister(reg, u)
  /\ view' = [view EXCEPT ![u] = None]
  /\ UNCHANGED <<pool, cmd, recv, rest>>

PeerStalls(u) ==
  /\ "stall" \in Operations
  /\ u \notin stalled
  /\ stalled' = stalled \cup {u}
  /\ UNCHANGED <<node, cmd, quit, status, answer>>

\* cleanupStalePeers, of a peer that sends no heartbeats; rumours may keep it
\* fresh for ever all the same (module Cluster).
CleanupStalePeer(u) ==
  /\ u \in stalled \/ view[u] = None
  /\ u \in List(reg)
  /\ reg' = Unregister(reg, u)
  /\ pool' = CloseByAddr(pool, AddrOf[u])
  /\ UNCHANGED <<view, cmd, recv, rest>>

-----------------------------------------------------------------------------
handleCommand ==
  \/ \E t \in Name \cup Addr : handleSendCommand(t) \/ handlePingCommand(t)
  \/ handleBroadcastCommand \/ handleListCommand
  \/ \E a \in Addr : handleConnectCommand(a)
  \/ \E n \in Name : handleDisconnectCommand(n)
  \/ \E s \in Status : handleStatusCommand(s)

setupRoutes(r) ==
  \/ \E t \in Name \cup Addr : handleSendMessage(r, t) \/ handlePing(r, t)
  \/ handleBroadcastMessage(r) \/ handleGetPeers(r)
  \/ \E a \in Addr : handleConnect(r, a)
  \/ \E n \in Name : handleDisconnect(r, n)
  \/ \E s \in Status : handleStatus(r, s)

Step(c) ==
  \/ FindStream(c) \/ SendReturns(c) \/ PingEnds(c)
  \/ HandshakeSeedNode(c) \/ ConnectNext(c) \/ PoolConn(c)
  \/ OpenStream(c) \/ OpenStreamFails(c) \/ AddOnlinePeer(c)
  \/ DisconnectPeer(c) \/ DisconnectCloses(c)
  \/ ListPeers(c) \/ GetStreamsCopy(c) \/ ListAnswers(c)

RecvStep(k) == RecvDeleteConn(k) \/ RecvDeleteStream(k)

PeerStep(u) ==
  \/ \E h \in Handlers : PeerHandshake(h, u) \/ PeerRumoured(h, u)
  \/ PeerDisconnects(u) \/ PeerStalls(u)
  \/ Heartbeat(u) \/ StatusArrives(u)

Registered == {u \in List(reg) : HasStream(pool, AddrOf[u])}

Next ==
  /\ \/ handleCommand \/ PressCtrlC \/ Quit
     \/ \E r \in Requests : setupRoutes(r)
     \/ \E c \in Proc : Step(c)
     \/ \E k \in Conn : RecvFails(k) \/ RecvStep(k)
     \/ \E u \in Peer : PeerStep(u) \/ CleanupStalePeer(u)
  /\ steady' = [c \in Client |-> {u \in Registered' :
                  cmd'[c].op = "list" /\ (cmd'[c].pc = "list" \/ u \in steady[c])}]

Spec == Init /\ [][Next]_vars

(***************************************************************************)
(* Goroutines that can run do run, the calls of a command end unless the   *)
(* peer holds up a Send, Recv fails on a stream whose connection has been  *)
(* closed, and a peer that is not suspended sends heartbeats.  Nothing     *)
(* makes the cleaner remove a peer, or a suspended peer read or go away.   *)
(***************************************************************************)
FairSpec ==
  /\ Spec
  /\ WF_code(Quit)
  /\ \A c \in Proc : WF_code(Step(c))
  /\ \A k \in Conn : WF_code(RecvStep(k)) /\ WF_code(k \notin pool.open /\ RecvFails(k))
  /\ \A u \in Peer : WF_code(Heartbeat(u)) /\ WF_code(StatusArrives(u))

-----------------------------------------------------------------------------
(* Properties.                                                             *)

\* A peer that is registered and connected all the while a list runs is shown
\* as connected, whatever else comes and goes between its three reads.
ListShowsSteady == \A c \in Client : At(c, "rows") => steady[c] \subseteq ShownConnected(c)

\* A command whose Send waits for a suspended peer: conn_pool.go:110-113 has no
\* deadline, so it waits until something ends the stream.
HeldUp(c) == At(c, "send") /\ Blocked(cmd[c].c)

\* Ctrl-C ends the console (console.go:94), though it is handled after the
\* command that Update is in, unless one Send to a suspended peer holds that
\* command up for good: a dial, a failed stream or a closed one does not.
QuitIsHandled == (quit = "ctrlC" ~> quit = "yes") \/ <>[]HeldUp(Console)

\* Every web request is answered, with the same exception.
RequestsAnswered == \A r \in Requests : []<>At(r, "idle") \/ <>[]HeldUp(r)

\* A status that is set and left alone reaches every peer that has this node
\* registered, though a handshake meanwhile says ONLINE.
StatusSpreads ==
  \A s \in Status, u \in Peer :
    <>[](status = s /\ u \notin stalled) => []<>(view[u] \in {s, None})
=============================================================================
