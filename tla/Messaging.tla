----------------------------- MODULE Messaging -----------------------------
(***************************************************************************)
(* Messages over the pooled streams: SendTextMessage, BroadcastTextMessage *)
(* and SendPing (internal/client/client.go, ping.go), the lock of a stream *)
(* (internal/transport/conn_pool.go), the pending pings of a node          *)
(* (internal/node/node.go), the receive loop of a stream, and the service  *)
(* that serves the streams other nodes opened to this one                  *)
(* (internal/messaging/application/service.go).                            *)
(*                                                                         *)
(* Callers are the goroutines that run the commands of the console and the *)
(* web server.  A peer is named by its address and is of the current build *)
(* or of an older one, which neither signs nor verifies: the tutorial      *)
(* (docs/DDD_TUTORIAL.md, 15.4) has the two live side by side.             *)
(*                                                                         *)
(* A stream's connection is not told from the stream: closing either ends  *)
(* both.  How connections and streams diverge is the subject of Node.      *)
(***************************************************************************)
EXTENDS Integers, Sequences, FiniteSets

CONSTANTS
  Addr,     \* addresses of the peers
  Older,    \* those of them whose peer runs an older build
  Stream,   \* streams that may be opened to the peers
  Caller,
  Nonce,    \* bound: the pings sent during a run
  window,   \* bound: messages in flight before flow control blocks Send
  MaxIn,    \* bound: unread envelopes, which are from one peer at a time
  None

ASSUME MessagingAssumption ==
  /\ Older \subseteq Addr
  /\ window \in Nat \ {0} /\ MaxIn \in Nat
  /\ None \notin Addr \cup Stream \cup Caller \cup Nonce

VARIABLES
  streams,   \* ConnPool.streams
  addrOf,    \* the peer a stream leads to; None: not opened yet
  up,        \* streams that are not broken or closed
  lock,      \* lockedStream.mu of each stream: the caller that holds it
  out,       \* what is on its way to the peer: texts, and the nonces of pings
  back,      \* nonces of the pongs on their way from the peer
  recv,      \* the receive loop of each stream
  call,      \* what each caller does
  drawn,     \* nonces in use or used
  pending,   \* keys of Node.pendingPings
  rtt,       \* nonces whose channel holds a round-trip time
  asked,     \* pings a peer has received (ghost)
  inbox,     \* envelopes on the stream each peer has opened to this node
  panicked   \* this node's process is gone

pool == <<streams, addrOf, recv>>
wire == <<up, out, back>>
ping == <<drawn, pending, rtt, asked>>
server == <<inbox, panicked>>
vars == <<pool, wire, lock, call, ping, server>>

Call == [op    : {"none", "text", "broadcast", "ping"},
         pc    : {"idle", "next", "lookup", "lock", "send", "wait", "cancel"},
         a     : Addr \cup {None},      \* targetAddr
         todo  : SUBSET Addr,           \* addresses left to broadcast to
         s     : Stream \cup {None},    \* the stream SendToStream found
         nonce : Nonce \cup {None}]

Idle == [op |-> "none", pc |-> "idle", a |-> None, todo |-> {}, s |-> None,
         nonce |-> None]

\* An envelope as verifyEnvelope sees it: the public key, the content_hash and
\* the signature may be missing, and a signature may be wrong.
Envelope == [key : BOOLEAN, hash : BOOLEAN, sig : {"none", "good", "bad"}]

TypeOK ==
  /\ streams \in [Addr -> Stream \cup {None}]
  /\ addrOf \in [Stream -> Addr \cup {None}]
  /\ up \subseteq Stream
  /\ lock \in [Stream -> Caller \cup {None}]
  /\ out \in [Stream -> Seq({"text"} \cup Nonce)]
  /\ back \in [Stream -> Seq(Nonce)]
  /\ recv \in [Stream -> [pc : {"none", "recv", "deliver", "delConn", "delStream"},
                          nonce : Nonce \cup {None}]]
  /\ call \in [Caller -> Call]
  /\ \A c \in Caller : call[c].pc \in {"lock", "send"} => call[c].s \in Stream
  /\ drawn \subseteq Nonce /\ pending \subseteq Nonce
  /\ rtt \subseteq Nonce /\ asked \subseteq Nonce
  /\ inbox \in [Addr -> Seq(Envelope)]
  /\ panicked \in BOOLEAN

Init ==
  /\ streams = [a \in Addr |-> None]
  /\ addrOf = [s \in Stream |-> None]
  /\ up = {}
  /\ lock = [s \in Stream |-> None]
  /\ out = [s \in Stream |-> << >>]
  /\ back = [s \in Stream |-> << >>]
  /\ recv = [s \in Stream |-> [pc |-> "none", nonce |-> None]]
  /\ call = [c \in Caller |-> Idle]
  /\ drawn = {} /\ pending = {} /\ rtt = {} /\ asked = {}
  /\ inbox = [a \in Addr |-> << >>]
  /\ panicked = FALSE

At(c, pc) == call[c].pc = pc

-----------------------------------------------------------------------------
(* The commands.                                                           *)

HasStream(a) == streams[a] # None
StreamAddrs == {a \in Addr : HasStream(a)}

\* Without a stream the command returns an error at once.
SendTextMessage(c, a) ==
  /\ At(c, "idle")
  /\ HasStream(a)
  /\ call' = [call EXCEPT ![c] = [Idle EXCEPT !.op = "text", !.pc = "lookup", !.a = a]]
  /\ UNCHANGED <<pool, wire, lock, ping, server>>

BroadcastTextMessage(c) ==
  /\ At(c, "idle")
  /\ call' = [call EXCEPT ![c] = [Idle EXCEPT !.op = "broadcast", !.pc = "next",
                                    !.todo = StreamAddrs]]
  /\ UNCHANGED <<pool, wire, lock, ping, server>>

BroadcastNext(c) ==
  /\ At(c, "next")
  /\ \/ /\ call[c].todo = {}
        /\ call' = [call EXCEPT ![c] = Idle]
     \/ \E a \in call[c].todo :
          call' = [call EXCEPT ![c].pc = "lookup", ![c].a = a, ![c].todo = @ \ {a}]
  /\ UNCHANGED <<pool, wire, lock, ping, server>>

\* RecordPingSent with a new random nonce.
SendPing(c, a, n) ==
  /\ At(c, "idle")
  /\ n \notin drawn
  /\ drawn' = drawn \cup {n}
  /\ pending' = pending \cup {n}
  /\ call' = [call EXCEPT ![c] = [Idle EXCEPT !.op = "ping", !.pc = "lookup", !.a = a,
                                    !.nonce = n]]
  /\ UNCHANGED <<pool, wire, lock, rtt, asked, server>>

-----------------------------------------------------------------------------
(* SendToStream.                                                           *)

\* SendToStream has returned to its caller.
Returned(c, ok) ==
  CASE call[c].op = "text"      -> Idle
    [] call[c].op = "broadcast" -> [call[c] EXCEPT !.pc = "next", !.a = None, !.s = None]
    [] call[c].op = "ping"      -> [call[c] EXCEPT !.pc = IF ok THEN "wait" ELSE "cancel",
                                                   !.s = None]

\* Mutant: the lookup's ok is not tested.
LookupUnchecked(c) ==
  /\ At(c, "lookup")
  /\ call' = [call EXCEPT ![c] = [@ EXCEPT !.pc = "lock", !.s = streams[call[c].a]]]
  /\ UNCHANGED <<pool, wire, lock, ping, server>>

\* Mutant: the stream's own lock is not taken.
LookupNoLock(c) ==
  /\ At(c, "lookup")
  /\ LET s == streams[call[c].a]
     IN  call' = [call EXCEPT ![c] = IF s = None THEN Returned(c, FALSE)
                                     ELSE [@ EXCEPT !.pc = "send", !.s = s]]
  /\ UNCHANGED <<pool, wire, lock, ping, server>>

\* The stream is looked up under the pool's lock ...
Lookup(c) ==
  /\ At(c, "lookup")
  /\ LET s == streams[call[c].a]
     IN  call' = [call EXCEPT ![c] = IF s = None THEN Returned(c, FALSE)
                                     ELSE [@ EXCEPT !.pc = "lock", !.s = s]]
  /\ UNCHANGED <<pool, wire, lock, ping, server>>

\* ... and used under its own.
LockStream(c) ==
  /\ At(c, "lock")
  /\ lock[call[c].s] = None
  /\ lock' = [lock EXCEPT ![call[c].s] = c]
  /\ call' = [call EXCEPT ![c].pc = "send"]
  /\ UNCHANGED <<pool, wire, ping, server>>

\* Mutant: an error returns without unlocking the stream.
SendKeepsLock(c) ==
  /\ At(c, "send")
  /\ LET s == call[c].s
     IN  \/ /\ s \in up /\ Len(out[s]) < window
            /\ out' = [out EXCEPT ![s] =
                         Append(@, IF call[c].op = "ping" THEN call[c].nonce ELSE "text")]
            /\ lock' = [lock EXCEPT ![s] = None]
            /\ call' = [call EXCEPT ![c] = Returned(c, TRUE)]
         \/ /\ s \notin up
            /\ call' = [call EXCEPT ![c] = Returned(c, FALSE)]
            /\ UNCHANGED <<out, lock>>
  /\ UNCHANGED <<pool, up, back, ping, server>>

\* Send returns, when flow control lets the envelope go or the stream is down.
Send(c) ==
  /\ At(c, "send")
  /\ LET s == call[c].s
     IN  /\ \/ /\ s \in up /\ Len(out[s]) < window
               /\ out' = [out EXCEPT ![s] =
                            Append(@, IF call[c].op = "ping" THEN call[c].nonce ELSE "text")]
               /\ call' = [call EXCEPT ![c] = Returned(c, TRUE)]
            \/ /\ s \notin up
               /\ call' = [call EXCEPT ![c] = Returned(c, FALSE)]
               /\ UNCHANGED out
         /\ lock' = [lock EXCEPT ![s] = None]
  /\ UNCHANGED <<pool, up, back, ping, server>>

-----------------------------------------------------------------------------
(* The answer to a ping.                                                   *)

\* The channel has the round-trip time.
PingAnswered(c) ==
  /\ At(c, "wait")
  /\ call[c].nonce \in rtt
  /\ call' = [call EXCEPT ![c] = Idle]
  /\ UNCHANGED <<pool, wire, lock, ping, server>>

\* The five seconds are over, whatever the channel has by now.
PingTimesOut(c) ==
  /\ At(c, "wait")
  /\ call' = [call EXCEPT ![c].pc = "cancel"]
  /\ UNCHANGED <<pool, wire, lock, ping, server>>

\* Mutant: the ping ends and leaves its entry.
KeepPendingPing(c) ==
  /\ At(c, "cancel")
  /\ call' = [call EXCEPT ![c] = Idle]
  /\ UNCHANGED <<pool, wire, lock, ping, server>>

CancelPendingPing(c) ==
  /\ At(c, "cancel")
  /\ pending' = pending \ {call[c].nonce}
  /\ call' = [call EXCEPT ![c] = Idle]
  /\ UNCHANGED <<pool, wire, lock, drawn, rtt, asked, server>>

\* Mutant: a pong wakes any ping that waits.
HandleAnyPong(s) ==
  /\ recv[s].pc = "recv" /\ s \in up
  /\ back[s] # << >>
  /\ IF pending = {} THEN UNCHANGED <<pending, recv>>
     ELSE \E n \in pending : /\ pending' = pending \ {n}
                              /\ recv' = [recv EXCEPT ![s] = [pc |-> "deliver", nonce |-> n]]
  /\ back' = [back EXCEPT ![s] = Tail(@)]
  /\ UNCHANGED <<streams, addrOf, up, out, lock, call, drawn, rtt, asked, server>>

\* The receive loop takes a pong: HandlePongReceived looks its nonce up and
\* deletes it under pingMu.  An unknown nonce is ignored.
HandlePongReceived(s) ==
  /\ recv[s].pc = "recv" /\ s \in up
  /\ back[s] # << >>
  /\ LET n == Head(back[s])
     IN  /\ pending' = pending \ {n}
         /\ recv' = IF n \in pending THEN [recv EXCEPT ![s] = [pc |-> "deliver", nonce |-> n]]
                                     ELSE recv
  /\ back' = [back EXCEPT ![s] = Tail(@)]
  /\ UNCHANGED <<streams, addrOf, up, out, lock, call, drawn, rtt, asked, server>>

\* The send to the channel, which has room for one, outside pingMu.
DeliverRtt(s) ==
  /\ recv[s].pc = "deliver"
  /\ rtt' = rtt \cup {recv[s].nonce}
  /\ recv' = [recv EXCEPT ![s] = [pc |-> "recv", nonce |-> None]]
  /\ UNCHANGED <<streams, addrOf, wire, lock, call, drawn, pending, asked, server>>

-----------------------------------------------------------------------------
(* Streams come and go.                                                    *)

\* The stream of address a goes, and with it what the pool has of it.
Down(a) == {streams[a]} \ {None}

\* connectToSinglePeer: SetPeerStream, and its receive loop.
SetPeerStream(a, s) ==
  /\ addrOf[s] = None
  /\ streams' = [streams EXCEPT ![a] = s]
  /\ addrOf' = [addrOf EXCEPT ![s] = a]
  /\ up' = up \cup {s}
  /\ recv' = [recv EXCEPT ![s].pc = "recv"]
  /\ UNCHANGED <<out, back, lock, call, ping, server>>

\* CloseByAddr, of DisconnectPeer and the cleaner: CloseSend and Close.
CloseByAddr(a) ==
  /\ HasStream(a)
  /\ up' = up \ Down(a)
  /\ streams' = [streams EXCEPT ![a] = None]
  /\ UNCHANGED <<addrOf, recv, out, back, lock, call, ping, server>>

\* Recv fails on a stream that is down, once the loop is back at it.
RecvFails(s) ==
  /\ recv[s].pc = "recv" /\ s \notin up
  /\ recv' = [recv EXCEPT ![s].pc = "delConn"]
  /\ UNCHANGED <<streams, addrOf, wire, lock, call, ping, server>>

\* DeletePeerConn closes what the pool has for the address now.
RecvDeleteConn(s) ==
  /\ recv[s].pc = "delConn"
  /\ up' = up \ Down(addrOf[s])
  /\ recv' = [recv EXCEPT ![s].pc = "delStream"]
  /\ UNCHANGED <<streams, addrOf, out, back, lock, call, ping, server>>

RecvDeleteStream(s) ==
  /\ recv[s].pc = "delStream"
  /\ streams' = [streams EXCEPT ![addrOf[s]] = None]
  /\ recv' = [recv EXCEPT ![s].pc = "none"]
  /\ UNCHANGED <<addrOf, wire, lock, call, ping, server>>

-----------------------------------------------------------------------------
(* The service: Stream, verifyEnvelope, handleEnvelope.                    *)

\* What the current build and an older one send.
Signed == [key |-> TRUE, hash |-> TRUE, sig |-> "good"]
Unsigned == [key |-> FALSE, hash |-> FALSE, sig |-> "none"]

(***************************************************************************)
(* What becomes of an envelope.  With a content_hash, the payload is       *)
(* asserted to be a proto.Message (service.go:71); what GetPayload returns *)
(* is the wrapper of the oneof (Envelope_Text, Envelope_Ping), which is    *)
(* none, so the assertion panics, and nothing in a handler recovers.       *)
(***************************************************************************)
verifyEnvelope(env) ==
  CASE env.sig = "none" \/ ~env.key -> "pass"
    [] env.sig # "none" /\ env.key /\ env.hash -> "panic"
    [] env.sig = "bad"  /\ env.key /\ ~env.hash -> "drop"
    [] env.sig = "good" /\ env.key /\ ~env.hash -> "pass"

\* A peer sends to this node.
PeerSends(a) ==
  /\ Len(inbox[a]) < MaxIn
  /\ \A b \in Addr \ {a} : inbox[b] = << >>
  /\ inbox' = [inbox EXCEPT ![a] = Append(@, IF a \in Older THEN Unsigned ELSE Signed)]
  /\ UNCHANGED <<pool, wire, lock, call, ping, panicked>>

\* The handler takes an envelope: a text is notified, a ping is answered.
HandleEnvelope(a) ==
  /\ inbox[a] # << >>
  /\ panicked' = (verifyEnvelope(Head(inbox[a])) = "panic")
  /\ inbox' = [inbox EXCEPT ![a] = Tail(@)]
  /\ UNCHANGED <<pool, wire, lock, call, ping>>

\* The peer's handler takes an envelope of this node, which signs.  An older
\* build does not verify and answers a ping; the current one is gone, and with
\* it all its streams.
PeerReceives(s) ==
  /\ s \in up /\ out[s] # << >>
  /\ IF addrOf[s] \in Older
     THEN /\ out' = [out EXCEPT ![s] = Tail(@)]
          /\ IF Head(out[s]) \in Nonce
             THEN /\ back' = [back EXCEPT ![s] = Append(@, Head(out[s]))]
                  /\ asked' = asked \cup {Head(out[s])}
             ELSE UNCHANGED <<back, asked>>
          /\ UNCHANGED up
     ELSE /\ verifyEnvelope(Signed) = "panic"
          /\ up' = up \ {t \in Stream : addrOf[t] = addrOf[s]}
          /\ UNCHANGED <<out, back, asked>>
  /\ UNCHANGED <<pool, lock, call, drawn, pending, rtt, server>>

\* The environment: the network or the peer ends a stream.
StreamBreaks(s) ==
  /\ s \in up
  /\ up' = up \ {s}
  /\ UNCHANGED <<pool, out, back, lock, call, ping, server>>

-----------------------------------------------------------------------------
Command(c) ==
  \/ \E a \in Addr : SendTextMessage(c, a)
  \/ BroadcastTextMessage(c)
  \/ \E a \in Addr, n \in Nonce : SendPing(c, a, n)

Step(c) ==
  \/ BroadcastNext(c) \/ Lookup(c) \/ Send(c)
  \/ PingAnswered(c) \/ PingTimesOut(c) \/ CancelPendingPing(c)

RecvStep(s) ==
  \/ HandlePongReceived(s) \/ DeliverRtt(s)
  \/ RecvFails(s) \/ RecvDeleteConn(s) \/ RecvDeleteStream(s)

Next ==
  /\ ~panicked
  /\ \/ \E c \in Caller : Command(c) \/ Step(c) \/ LockStream(c)
     \/ \E s \in Stream : RecvStep(s) \/ PeerReceives(s) \/ StreamBreaks(s)
     \/ \E a \in Addr, s \in Stream : SetPeerStream(a, s)
     \/ \E a \in Addr : CloseByAddr(a) \/ HandleEnvelope(a) \/ PeerSends(a)

Spec == Init /\ [][Next]_vars

(***************************************************************************)
(* Goroutines that can run do run, and a mutex is handed to a waiter in    *)
(* the end (Go's starvation mode).  Nothing makes a peer read its stream,  *)
(* or the stream end: Send has no deadline.                                *)
(***************************************************************************)
FairSpec ==
  /\ Spec
  /\ \A c \in Caller : WF_vars(~panicked /\ Step(c)) /\ SF_vars(~panicked /\ LockStream(c))

-----------------------------------------------------------------------------
(* Properties.                                                             *)

\* However many console and web commands run, no two of them are inside Send on
\* one stream, which gRPC forbids (conn_pool.go:12).
OneSendAtATime ==
  \A c, d \in Caller : At(c, "send") /\ At(d, "send") /\ call[c].s = call[d].s => c = d

\* pendingPings holds only pings that somebody waits for: a ping that failed to
\* be sent, was answered, or timed out while its pong came leaves no entry.
PendingAwaited ==
  \A n \in pending : \E c \in Caller : call[c].op = "ping" /\ call[c].nonce = n

\* A round-trip time is reported only for a ping that the peer has received,
\* whichever pongs are late and whichever pings are pending.
PongAnswersItsPing == rtt \subseteq asked

\* A command that waits at a stream whose peer reads nothing: inside Send, or for
\* the lock that another command holds there (conn_pool.go:110-113).
HeldUp(c) ==
  /\ call[c].pc \in {"lock", "send"}
  /\ call[c].s \in up /\ Len(out[call[c].s]) = window

\* Every command returns, unless it is held up for ever at one stream that stays
\* open and whose peer reads nothing: no lock of a stream is left behind by a
\* stream that breaks or is replaced, a peer that does not read holds up only who
\* sends to it, and a ping ends by its pong or by its timeout.
CommandsReturn ==
  \A c \in Caller : []<>(At(c, "idle") \/ panicked) \/ <>[]HeldUp(c)

\* The service survives what the current build sends.
SignedEnvelopesHandled == ~panicked

\* The pool closes the sending side of no stream that a caller is sending on.  The code
\* does not have this property: README.
NoCloseDuringSend ==
  [][\A a \in Addr : CloseByAddr(a) =>
       \A c \in Caller : ~(At(c, "send") /\ call[c].s = streams[a])]_vars
=============================================================================
