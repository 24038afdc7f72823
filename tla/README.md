# p2ptest in TLA+

p2ptest is a small peer-to-peer node in Go: nodes find each other through a
seed, keep a registry of the peers that are online, exchange heartbeats, gossip
about who else is there, and send each other text messages over gRPC streams.
A console and a web page command a node and show its notifications.
This directory models what the goroutines of a node share, what several nodes
do to each other and what its users see; it checks the models with TLC on small
instances and proves the basic invariants with TLAPS for every instance.

Sources are named relative to `internal/` unless they start with `cmd/`.

## The system

| component | source | state | operations | how it interacts |
|---|---|---|---|---|
| Peer registry | `discovery/domain/registry.go` | four maps under one lock: peers, last activity, registration times, name index | Register, Unregister, UpdateLastActive, UpdateStatus; reads Get, GetByName, List, GetStale, GetAddrByName | called by everything below; every call is one lock section |
| Membership service | `membership/application/service.go` | none of its own | Handshake, Heartbeat, Disconnect, NotifyNodeJoin | gRPC handlers, each in a goroutine of its own; several registry calls per handler, then `Notifier.Emit` |
| Node loops | `node/node.go` | tickers, the own status, pending pings | heartbeat, cleaner and gossip loops; DisconnectPeer; broadcastNodeJoin; Stop | one goroutine per loop, and one spawned per heartbeat and per notification sent |
| Client | `client/*.go` | none of its own | HandshakeSeedNode, ConnectToPeers, recvPeerMessageLoop, GossipWithPeer, SendTextMessage, BroadcastTextMessage, SendPing | calls other nodes; one receive loop per stream |
| Connection pool | `transport/conn_pool.go` | connections and streams by address, a lock per stream | Set/Get/Delete of both, CloseByAddr, CloseAll, SendToStream | client, heartbeats and notifications share one connection per address |
| Auto-connect | `cmd/p2pnode/root/root.go` | none | connects to a discovered peer | a subscriber: runs in the goroutine that emits |
| Notifier | `notifier/notifier.go` | callbacks by token, ring buffer of the latest 100 notifications | Subscribe, Unsubscribe, Emit, History | calls the copied callbacks in the emitter's goroutine, without its lock |
| Discovery service | `discovery/application/service.go` | none | GetPeers, FindNode | reads the registry |
| Messaging service | `messaging/application/service.go` | none | Stream: verify and handle each envelope | one goroutine per stream a peer has opened |
| Web server | `web/*.go` | WebSocket clients with a queue of 256 each | requests; history, then live notifications | subscribes to the notifier; commands the node through an adapter in `root.go` |
| Console | `console/console.go` | a channel of notifications | commands, one at a time in the event loop | the same adapter |
| Shutdown | `node.go` Stop, ConnPool.CloseAll | stopChan | disconnect from all, stop the server, close the pool | with the peers' open streams |
| Crypto, logger, helper, proto | | | | external, generated or without shared state |

What is hard here is not any single operation. Every handler and loop is several
lock sections, and anything can happen between them: a peer is removed by four
kinds of goroutine, the pool is keyed by address while connections come and go,
a receive loop cleans up by address what a newer connection may own, the
cleaner works from a list that ages while it works, and a callback runs after
its subscription has ended. Between nodes, nothing repeats a lost call but the
next gossip round, a relayed rumour counts as a sign of life, and each side of a
pair decides alone whether the other is there. There is no persistence; a
crashed node returns with a fresh uuid at its old name and address. The list of
hazards, each at its line and with the properties that watch it, is in
`PROJECT.json`.

What makes each component correct:

- registry: its maps agree; whoever is registered can be found by name; a
  removal leaves nothing behind;
- membership, cleaner, disconnecting: a removal is notified once, however many
  goroutines race; OFFLINE is a step on the way out and not a resting place; a
  silent peer goes, a live one stays;
- pool and client: nobody is handed a closed connection; a pooled stream has a
  reader; a dead stream leaves the pool; one sender at a time per stream;
- messages and pings: every command returns; a ping leaves nothing behind and is
  answered by its own pong;
- notifier and its subscribers: the history is the latest N notifications in
  order; a client gets each notification once and misses none while its queue
  has room; a client that is gone is forgotten;
- several nodes: nodes that are in touch come to know each other again whatever
  was lost, relays die out, networks that were not joined stay apart, absent
  nodes are forgotten, a node that stops comes to an end;
- commands: they return, the event loop stays responsive, a status reaches the
  peers.

Not all of this holds. What does not is in two tables below: what contradicts a
document or a comment most plainly has a run that shows it, the rest is named with
the instance in which TLC finds it.

## Modules

| module | what it is |
|---|---|
| `P2PTypes` | addresses, statuses and ages, shared by the components |
| `PeerRegistry` | the registry as functions from registries to registries, and the predicates that make one consistent |
| `ConnPool` | the same for the connection pool; `open` stands for gRPC's own state, the connections that are not closed |
| `Node` | one node: its goroutines as a program counter each over one registry and one pool; the other nodes are the environment |
| `EventLog` | what the notifier promises, as an abstract specification |
| `Notifier` | the notifier with its ring buffer, and its refinement of `EventLog` |
| `Delivery` | the notifier (`INSTANCE Notifier`) with its subscribers: WebSocket clients and the console |
| `Messaging` | commands that send on pooled streams, the lock of a stream, pings and pongs, and the service at the other end |
| `Cluster` | several nodes: registries, relays, gossip, time-outs, crashes and Stop |
| `Commands` | console and web commands over a registry and a pool, the status, and the end of the event loop |
| `RegistryProofs` | lemmas about the operations of registry and pool |
| `NodeProofs`, `RaceProofs` | theorems about `Node`: types and registry; who owes a notification, who owns a connection |
| `NotifierProofs`, `MessagingProofs`, `DeliveryProofs`, `CommandsProofs`, `ClusterProofs` | theorems about the module of that name |
| `MCNode`, `MCNotifier`, `MCDelivery`, `MCMessaging`, `MCCluster`, `MCCommands` | instances for TLC, with a `.cfg` per run |

### How Node corresponds to the code

A step is one call of the registry, the pool or `Notifier.Emit`, with the local
computation up to the next such call. `th[t].pc` names the call that comes next;
the table below follows the operations through them.

| operation | steps |
|---|---|
| Handshake | `Handshake` (Register) - `HandshakeNotify` (List, Emit) - subscribers |
| Heartbeat | `Heartbeat` (UpdateLastActive) |
| Disconnect | `Disconnect` (Get) - `SetOffline` - `UnregisterPeer` - `EmitOffline` |
| NotifyNodeJoin | `NotifyNodeJoin` (Get) - `NotifyKnown`, or `NotifyUnknown` (Register) - subscribers |
| DisconnectPeer | `DisconnectPeer` (GetByName) - `UnregisterPeer` - `CloseConn` - `EmitOffline` |
| cleanupStalePeers | `CleanupStalePeers` (GetStale), then for each: `CleanNext` (Get) - `SetOffline` - `UnregisterPeer` - `EmitOffline` - `CloseConn` |
| subscribers of peer_discovered | `BroadcastNodeJoin` and `AutoConnectPeer`, in either order |
| join | `HandshakeSeedNode`, then for each peer and last the seed: `ConnectNext`, connect, `AddOnlinePeer` |
| connect | `ConnectCheck` (HasStream, dial) - `PoolConn` - `OpenStream` or `OpenStreamFails` - `PoolStream` |
| recvPeerMessageLoop | `RecvFails` (Unregister) - `RecvEmitOffline` - `RecvDeleteConn` - `RecvDeleteStream` |
| gossip | `PerformGossipRound`, for each stream `GossipAsk`, for each peer of the answer `GossipNext` (Get) - subscribers |
| sendHeartbeatToPeer, notifySinglePeerJoin | a job; `RunJob` (GetConn, dial) - `PoolConn` - `HeartbeatAnswered` or `JobEnds` |

The other nodes are the environment. They call any handler with any uuid, answer
or fail any call, answer a gossip call with any set of peers, and break any
stream, at any time.

Abstractions. A NodeInfo is its uuid and status; name and address are constants
of the uuid (`NameOf`, `AddrOf`), as in every NodeInfo the program builds.
Stored times are ages in ticks of a clock. A request with a bad signature is
rejected without a change of state - except that Heartbeat refreshes lastActive
before it verifies, which the model does too. A stream is named by the connection
it runs on. Two spawned goroutines with the same operation and peer that have
not yet been scheduled count as one (`jobs` is a set). `owed` is a ghost: removals
of a peer minus the peer_offline notifications for it. A status OFFLINE has two
values: one that this node has set (`SetOffline`), and one that came with a seed's
list of peers (`reported OFFLINE`), because they part ways: the first is a step of
a removal, the second stays until a heartbeat is answered or the peer goes.

### Delivery

A subscriber's callback is one `select` in the emitter's goroutine: it puts the
notification on a channel, gives up because `stopChan` is closed, drops it
because the channel is full, or panics because the channel is closed. `Callback`
has a disjunct for each, and Go takes any that is ready. handleWebSocket is
`HandleWebSocket` - `TakeHistory` - `PushHistory` - `SubscribeClient`, after which
the handler is done and the two pumps run. writePump is `WriterReceives`,
`WriterWrites` and `WriterStops`, then its deferred calls one by one; readPump is
`ReaderFails`. The console subscribes before its forwarding goroutine starts; on
the way out it closes the channel (`ConsoleCloses`), then unsubscribes
(`ConsoleUnsubscribes`). Notifications are numbers in the order of emission, so
that the history, a duplicate and a gap can be told.

### Messaging

A caller is a goroutine that runs SendTextMessage, BroadcastTextMessage or
SendPing; SendToStream is `Lookup` under the pool's lock, then `LockStream` and
`Send` under the stream's own. Send blocks when `window` messages are unread.
HandlePongReceived deletes the pending entry and delivers the round-trip time
in two steps, against `PingAnswered`, `PingTimesOut` and `CancelPendingPing`.
The peers run this build, which signs what it sends and verifies what it gets,
or an older one that does neither; the verification is `verifyEnvelope`, a
function of which fields an envelope has. A stream here is its connection; how
the two diverge is in `Node`.

### Cluster

A step is one remote call with its handler, or one turn of a loop; what happens
inside a node between two calls is in `Node`. `age[n][m]` is n's registry: how
many ticks ago n heard of m. A tick is long against the heartbeat interval and
the deadlines of calls, so `Tick` is only taken when relays and connects are
done, and within it every node that runs refreshes itself at each peer that has
it registered. Gossip and cleaning are due at their tick in either order. A
process is running, leaving (the Disconnect calls of Stop), graceful (inside
GracefulStop), gone, or frozen: suspended with its connections open. `told` is a
ghost: who has handled whose Disconnect; nobody else keeps a stream to a peer it
has not registered (`UnheededStreamsTold`). It separates the peers that hold a
stopping node up (they have heard of it, and their cleaner does not look for it
any more) from those that let it go.

### Commands

`cmd[c].pc` is where a goroutine is in its command: the console's event loop, a
web request, or one of `Handlers`, which run auto-connect. Update runs a command
to its end, so `Quit` needs the console to be idle. The steps of a command are
its calls, as in `Node`:

| command | steps |
|---|---|
| send, ping | name resolved (`BeginTo`) - `FindStream` - `SendReturns` - for a ping `PingEnds` |
| broadcast | StreamAddrs (`Broadcast`), for each address `FindStream` - `SendReturns` |
| connect | `HandshakeSeedNode`, then for each peer the seed knows and last the seed: `ConnectNext` (HasStream, dial) - `PoolConn` - `OpenStream` or `OpenStreamFails` - `AddOnlinePeer` |
| auto-connect | `PeerHandshake` or `PeerRumoured`, then as for connect with the one peer |
| disconnect | name resolved (`DisconnectBegins`) - `DisconnectPeer` - `DisconnectCloses` |
| list | `ListPeers` - `GetStreamsCopy` - `ListAnswers` |
| status | `SetNodeStatus` |

Each call may fail where the code's may: the seed does not answer, or its answer
is lost after it has registered this node; a dial fails; a stream does not open
after its connection was pooled, and the loop goes on with the next peer. The
receive loops tear down by address (`RecvFails`, `RecvDeleteConn`,
`RecvDeleteStream`), so that they meet the connects here too. The cleaner
(`CleanupStalePeer`), a peer's Disconnect and a peer that is suspended are one
step each: their races are the subject of `Node`. `Blocked(k)` is a Send that does
not return: the peer takes no message, and neither an error nor a close ends the
stream. `Heartbeat` and `StatusArrives` carry the status to the peers; a handshake
of this node says ONLINE whatever its status is.

## What the runs check

| run | question | instance | states |
|---|---|---|---|
| `registry` | do the registry's invariants and the accounting of peer_offline survive all handlers, DisconnectPeer and the cleaner? | 2 peers of one name, 2 handler goroutines, cleaner, no dial succeeds | 0.53 M |
| `streams` | does the pool stay usable when goroutines and receive loops fight over one address? | 1 peer, a command goroutine and the gossiper, 2 connections; joining, heartbeats, DisconnectPeer, gossip with auto-connect | 1.35 M |
| `removal` | is a silent peer removed in the end, does a dead stream leave the pool? | 1 peer, timeout of 1 tick, 2 connections, auto-connect, FairSpec | 0.26 M |
| `ring` | does the notifier implement `EventLog`? | ring of 3, 2 emitters, 3 subscriptions, 2 notifications | 46 k |
| `clients` | does a subscriber get each notification once, in order, and none lost while there is room? is a client that is gone forgotten? | 1 client and the console, 1 emitter, history and queue of 2, 3 notifications, FairSpec | 0.57 M |
| `commands` | one sender per stream, no ping left over, none answered by another's pong? does every command return? | 2 peers (one an older build), 1 stream, 2 callers, 2 pings, FairSpec | 0.42 M |
| `converge` | do nodes that are in touch come to know each other, and only those? do relays die out? who keeps a stream to a peer it does not heed? is an absent node forgotten when the rumours end, and what holds up a stop? | 3 nodes in a chain; a lost relay, a disconnect, a freeze, a crash or a stop; gossip interval and timeout of 1 tick, FairSpec | 0.36 M |
| `users` | are quitting and answering held up by anything but one blocked Send? | 1 peer, the console and one web request, 1 connection; send, ping, broadcast, connect, disconnect, FairSpec | 0.17 M |
| `statuses` | does a status reach the peer? | 1 peer, the console and one web request, 1 connection; connect, list, status, heartbeats, FairSpec | 0.26 M |

Why these bounds. A race inside a node needs two actors on one peer, or a peer
and its successor at one address: two goroutines beside the cleaner, the
gossiper and the receive loops give each pair of operations. Two connections are
the smallest number with an old and a new one. `Timeout` 0 lets a peer become
stale with one tick, 1 adds the state between fresh and stale. A ring of three
wraps around and has a middle entry.

In `clients` a history of two wraps around with the third notification, and a queue
of two is empty, partly filled or full when the history and the live notifications
meet in it. One emitter is enough for a notification that falls between the
handler's steps; several emitters at once, with a larger ring, are the subject of
`ring`, and the properties of `clients` are proved for any number of them.

In `commands` two nonces let the pong of a ping that has timed out arrive when the
other ping is pending; a window of one makes Send block behind the first message;
the one stream is pooled for either peer, breaks and is replaced.

In `converge` three nodes are the smallest number with a rumour: one node that
tells a second of a third. The gossip interval is the timeout, as in
`types/config.go` (30 seconds each). With both at one tick, every node's gossip round
and every node's cleaner have a turn in the same tick in any order, so that a round
just before and just after a timeout both occur; what fails at the boundary
(`Converges`, `GoneForgotten` below) fails in this instance too, for each fault.
`MaxEvents` allows one fault or command per behaviour, and the questions are what
the nodes make of it for ever after. A node that stops may fail all its calls: it is
then silent with its streams open, and gone after that.

In `users` the one connection is dialled, pooled, blocked, closed under a Send and
dialled again. In `statuses` one peer is enough, for statuses of different peers
do not meet.

`MaxToken` bounds the subscriptions of a run, `Nonce` its pings, `MaxNote` its
notifications, `MaxIn` unread envelopes. `Workload` and `Operations` select the
operations of a run; together the runs take every action. Symmetry is used in
runs of invariants only: of goroutines and of connections in `streams` and
`registry`, which also exchanges the two peers together with their addresses.

Runs that show the code and its documentation disagree, each with one property:

| run | what TLC finds |
|---|---|
| `signed` | an envelope this version has signed makes the service that receives it panic: the payload it asserts to be a `proto.Message` is the oneof's wrapper. The unit tests send envelopes without a content_hash or without a signature. |
| `closed` | an Emit has copied a callback, the subscriber ends and closes its channel, the callback sends on it: a panic in the emitter's goroutine. |
| `stop` | a node that stops sends Disconnect; its peer unregisters it and keeps its stream; GracefulStop waits for that stream, and no cleaner closes it, for the peer is not registered any more. |

### What does not hold

The modules also define properties a reader may expect and the code does not
have. No run checks them; to see why, put one into a configuration as named here.
Three of them contradict a comment or a document: "cleanupStalePeers removes peers
that haven't sent a heartbeat recently" (`node/node.go:469`) is not so for
`CleanerRemovesOnlySilent` and, from the other side, for `GoneForgotten`; and the
history does not solve that a late client misses notifications
(`docs/DDD_TUTORIAL.md:251`), for `NoGapAfterHistory`.

| property | configuration | what happens |
|---|---|---|
| `Node!NamesResolve` | `registry` with `AddrOf <- SharedAddr` | a node restarts: its new uuid registers at the old name and address. When the old uuid is removed its address goes from the name index, and the new one, still registered, cannot be resolved by name. |
| `Node!CleanerRemovesOnlySilent` | `registry`, without SYMMETRY | a peer is in the stale list, its heartbeat arrives, the cleaner removes it all the same. |
| `Node!NoConnLeaked` | `streams` with 2 threads and `"handshake"` | two goroutines find no connection, dial and call SetConn; the first connection is overwritten and never closed. |
| `Delivery!NoGapAfterHistory` | `closed` | a notification emitted between History and Subscribe reaches the new client by neither, although older and newer ones do. |
| `Messaging!NoCloseDuringSend` | `commands` | CloseByAddr calls CloseSend on a stream that a sender is inside Send of. |
| `Cluster!Converges` | `converge` | a node whose peer has not registered it gets no heartbeats, times the peer out just before the gossip round that would mend it, and so for ever. |
| `Cluster!GoneForgotten` | `converge` | a node crashes; one of the others drops it and at its gossip round is told of it by the third, which drops it in turn and is told by the first: the relay registers the peer, or refreshes it, as a sign of life would. |

`Converges` and `GoneForgotten` are one observation. To converge, gossip wants to
be more frequent than the timeout, so that what is missing is repaired before it
is dropped: with an interval of 1 and a timeout of 2, and without a stop,
`Converges` holds. To forget, it wants to be rarer, so that a rumour dies before
it is repeated. The code has 30 seconds for both, and at equal values neither
holds: `Converges` fails without any fault (`Workload = {}`), and `GoneForgotten`
with `"crash"`, `"freeze"` or `"stop"` alike. What does hold there is what the
runs check. `Rediscovers`: a pair that is dropped is found again, for ever, while
one node is in touch with all. `ForgottenUnlessRumoured` and `PeersLetGo`: nothing
but rumours keeps an absent node registered, and once the rumours end a stop waits
for no peer that has not heard of it.

The exception in `QuitIsHandled`, `RequestsAnswered` and `CommandsReturn` (`HeldUp`)
is what the code has of `SendToStream`: no deadline. A command that sends to a peer
which reads nothing waits until something ends the stream: the peer resumes or
dies, the cleaner removes it, somebody disconnects it. Nothing guarantees any of
these: rumours may keep the peer registered, and after the peer's own Disconnect no
cleaner looks for its stream. For the console this means that no key is
taken any more. The properties say that this is the only way: a single Send
that is blocked for good, and not a lock left behind, a closed or replaced stream, a
dial, a ping, or a Send that was blocked and is no more.

### Fairness

Each FairSpec assumes what Go's scheduler, its tickers and gRPC give, and nothing
of users or peers: no call, command or disconnect ever has to happen.

- `Node`: a goroutine that has begun an operation continues, the cleaner's ticker
  and the clock go on, and Recv returns an error on a stream whose connection was
  closed. RPCs end because each has a deadline. Opening a stream has none
  (`context.Background()`, `client.go:124`), but it fails once its connection
  does; the runs assume that it ends.
- `Delivery`: a writer and a handler that can run do. A write to a healthy
  connection may last for ever, one to a broken connection returns. A read fails
  at the latest at its deadline of 60 seconds. `select` does not pass over a
  ready `stopChan` for ever.
- `Messaging`: a caller that can run does, and a mutex is handed to a waiter in
  the end (strong fairness of `LockStream`: Go's starvation mode). No peer has to
  read, and no stream has to end.
- `Cluster`: loops, relays and the clock go on. The cleaner and a gossip round may
  be due at the same tick in the same order for ever: tickers keep their phases.
  `RelaysDieOut` is therefore a claim, not an assumption: `Tick` waits for the
  relays.
- `Commands`: the event loop, requests and auto-connect continue when they can, the
  receive loop of a closed connection ends, and a peer that is not suspended sends
  heartbeats. Nothing is assumed of the cleaner, for rumours may refresh a
  peer that is suspended. Fairness is stated on the variables of the code, without
  the ghost `steady`.

## What is proved

TLAPS checks all of it, for any sets of peers, names, addresses, goroutines,
streams and connections, any timeout and any buffer size, from the named
assumptions on the constants.

- `NodeProofs!TypeCorrect`: `Spec => []TypeOK`. TypeOK is not inductive: a step
  that registers `th[t].u` needs a peer there. `TypeInv` adds what a goroutine
  holds at each program counter (`Equipped` in `Node`).
- `NodeProofs!RegistryStaysConsistent`: `Spec => []RegistryConsistent`, and
  `PeersStayFindable`: the index is complete if no two peers share name and
  address. The argument: `NextRegStep` shows that every step of every goroutine
  changes the registry by one of its operations or not at all, and
  `RegistryProofs` that each operation preserves the invariants. Removing an
  index entry is sound because the index is injective; it is complete only under
  `DistinctPeers`, and a restarted node is the counterexample without it. The
  three registry predicates together are inductive.
- `RaceProofs!OfflineStaysTransient`: a peer this node has marked OFFLINE is one
  that a goroutine is about to unregister, in every workload. Statuses that joining
  copies from another registry are told apart: OFFLINE among them stays until the
  peer answers a heartbeat or goes.
  `RaceProofs!RemovalsNotifiedOnce`: `owed[u]` is the number of goroutines and
  receive loops that have removed u and not yet told. `ThreadStep` and `LoopStep`
  say of every step who moves and from where to where; with them a step lets at
  most one debtor join or leave, and the cardinality follows. A receive loop
  is only started on a connection nobody else has (`DialOwned`), so that it never
  replaces one that still owes.
- `NotifierProofs!TypeCorrect` and `Refinement`: the notifier implements
  `EventLog` for every buffer size, also 0, which TLC does not run. `RingInv`
  (the ring starts at slot 0 until it is full, and holds notifications only)
  makes storing an entry the same as appending to the history and dropping the
  oldest.
- `MessagingProofs`: `TypeCorrect`, where what a caller holds follows from its
  program counter (`CallShape`) and what a receive loop holds from its own
  (`RecvShape`); `NoConcurrentSend`, because a stream's lock is held exactly by
  who is inside Send on it (`LockHeld`), whatever becomes of the stream in the pool;
  `NoPingLeftPending` and `OnlyAnsweredPings`, where nonces are drawn once
  (`NoncesDrawn`), a nonce whose answer is under way is not pending
  (`NotAnswered`), and every pong on the way was asked for (`PongsAsked`).
- `RaceProofs!PoolStaysOpen` and `PooledStreamsServed`. That the pool hands out
  open connections only is not inductive: `PoolOwned` adds that a connection is
  pooled for one address only, that one a goroutine has dialled and not yet pooled
  is open and in no entry of the pool, and that one whose stream is not open yet is
  pooled for its peer's address or not at all. Then whoever closes a connection
  takes it out of the pool before. `PoolStep` lists what a step can do to the pool.
- `DeliveryProofs`: `NoneTwice`, `NoneOutOfOrder` and `NoneMissed`, with
  `SubscribersTyped`. `Emitting` says whose each notification is and that
  an emitter only calls with its latest; `Recent` that the ring is the tail of
  `1 .. emitted`, where `NotifierProofs` supplies what storing does to a ring; `CallsNew` that a
  callback which is still to be made brings something its subscriber has not got;
  `Phases` and `Registered` tie the handler, the two pumps and the subscription
  together; `Got` that all a subscriber has received was emitted. `Kinds`
  says of every step that it emits, delivers, subscribes or leaves all that alone,
  so that each of them is proved four times and not twenty.
- `CommandsProofs!CommandsTyped` and `SteadyPeersShown`. A list reads the
  registry, then the streams: `Listing` says that each read it has done holds
  every peer that was steady when it was done, and a peer that is steady later
  was so before. `Ready` is what a command holds from one step to the next: a
  connection while it sends and while it opens a stream, and a peer, never the
  node itself, while it connects and disconnects.
- `ClusterProofs!ClusterTyped`, for any number of nodes, any seeds, timeouts and
  workload: no node ever registers or connects itself, which rests on no seed
  being its own and on the checks of NotifyNodeJoin, of the gossip round and of
  auto-connect. `UnheededOnlyWhenTold` is inductive with the types: whatever
  unregisters a peer drops its stream, except the handler of Disconnect. It is the
  safe half of the `stop` run's story: the stream that holds up the stop is one
  the Disconnect itself left open. `NoLeakBetweenNetworks` is proved for one set
  of nodes at a time (`Apart`): no registration, stream, relay or connection under
  way crosses its border.

Every invariant the passing runs check is proved, and so is `ListShowsSteady`,
which no run checks: with one peer nothing else comes and goes, and two are too
many beside the other commands. Only model-checked are the liveness properties
(`SilentPeerRemoved`, `DeadStreamDropped`, `GoneClientsForgotten`,
`CommandsReturn`, `Rediscovers`, `RelaysDieOut`, `ForgottenUnlessRumoured`,
`PeersLetGo`, `QuitIsHandled`, `RequestsAnswered`, `StatusSpreads`), which are out
of the prover's reach, and the properties the code does not have.

## Not modelled

- Generated protocol code, logging, flags and pprof; `helper`, which nothing
  calls. `FindNode` has no caller and `Node.GetPeerInfo` and the like only read.
- Formatting: the console's View and its lines, the JSON of the web handlers.
  `handleGetNotifications` and `handleGetMessages` return History. Starting the
  HTTP server is I/O; `Server.Stop` has no caller.
- Keys and signed bytes: a signature is absent, good or bad. The handlers of the
  membership service reject a bad one and change nothing.
- Restarts at the old address in the instances of `Node`: each peer has an address
  of its own there; `NamesResolve` above is what a restart breaks.
- The data race on `selfInfo` between SetNodeStatus and a handshake's answer: one
  word, old or new, and both are states of `Commands`.
- `Cluster` leaves out the console's connect and restarts (a restarted node is a
  further member to it; what its old uuid does to the name index is in `Node`).
  It takes a call and its handler as one step; a node that fails in the middle
  of a handler is a crash before or after it.

## Plan

1. (done) `PeerRegistry`, `ConnPool`, `Node`; `Notifier` implementing `EventLog`;
   types and registry invariants proved.
2. (done) `Messaging`, `Delivery`, `Cluster`, `Commands`; removals and messaging
   proved.
3. (done) `PooledOpen` and `StreamsServed`; the safety of `Delivery`, `Commands`
   and `Cluster`.
4. The NodeInfo a relayed join registers over a handshake's (service.go:176);
   `Cluster`'s step of a node as an abstraction of `Node`.
