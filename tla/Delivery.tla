------------------------------ MODULE Delivery ------------------------------
(***************************************************************************)
(* Notifications on their way to the user: the WebSocket clients of the    *)
(* web server (internal/web/websocket.go) and the console                  *)
(* (internal/console/console.go, StartInteractiveConsole), as subscribers  *)
(* of the notifier.                                                        *)
(*                                                                         *)
(* A subscriber's callback runs in the goroutine that emits and puts the   *)
(* notification on a channel: Deliver of module Notifier, together with    *)
(* what the callback does.  A WebSocket client has three goroutines: the   *)
(* handler, which ends when it has started the writer (writePump) and the  *)
(* reader (readPump).  A send on a closed channel panics, and nothing      *)
(* recovers: the process ends.                                             *)
(*                                                                         *)
(* Notifications are numbered in the order in which they enter the         *)
(* history, to tell them apart.                                            *)
(***************************************************************************)
EXTENDS Integers, Sequences, SequencesExt

CONSTANTS
  Client,      \* WebSocket connections that may be made
  Emitter,
  bufferSize,
  sendCap,     \* capacity of client.send, and of the console's channel
  MaxNote,     \* bound: notifications emitted during a run
  None,
  Console      \* the console, as a subscriber: a set of one, or none

Note == 1 .. MaxNote
MaxToken == 4  \* bound: subscriptions, enough for the clients of every run

Sub == Client \cup Console

ASSUME DeliveryAssumption ==
  /\ bufferSize \in Nat /\ sendCap \in Nat /\ MaxNote \in Nat \ {0}
  /\ bufferSize <= sendCap  \* 100 and 256: pushing the history never blocks
  /\ None \notin Note \cup 0 .. MaxToken - 1
  /\ Console \cap Client = {}

VARIABLES callbacks, nextToken, buffer, head, count, em  \* see Notifier

VARIABLES
  emitted,    \* how many notifications have entered the history
  by,         \* the emitter of each
  wsClients,  \* Server.wsClients
  hand,       \* what the handler of each client does next, and the history
              \* it still has to push
  chan,       \* for each subscriber its channel: contents, closed or not
  stop,       \* clients whose stopChan is closed
  token,      \* the subscription of each subscriber
  wr,         \* each client's writePump, and the console's forwarding goroutine
  rd,         \* each client's readPump, and the console's p.Run
  lost,       \* clients whose connection is broken or closed
  got,        \* what each subscriber has been given, in order
  since,      \* emitted when the subscription was made (ghost)
  full,       \* subscribers whose channel was full once (ghost)
  panicked    \* subscribers whose callback sent on a closed channel

ntf == <<callbacks, nextToken, buffer, head, count, em>>
vars == <<ntf, emitted, by, wsClients, hand, chan, stop, token, wr, rd, lost,
          got, since, full, panicked>>

Ntf == INSTANCE Notifier

\* Mutable state of one subscriber, for the UNCHANGED of steps of others.
queues == <<chan, full, panicked>>
pumps  == <<hand, wr, rd, stop, lost, token, wsClients>>
ghosts == <<emitted, by, since>>

TypeOK ==
  /\ Ntf!TypeOK
  /\ emitted \in 0 .. MaxNote
  /\ by \in [Note -> Emitter \cup {None}]
  /\ wsClients \subseteq Client
  /\ hand \in [Client -> [pc : {"none", "history", "push", "subscribe", "done"},
                          left : Seq(Note)]]
  /\ chan \in [Sub -> [q : Seq(Note), closed : BOOLEAN]]
  /\ \A s \in Sub : Len(chan[s].q) <= sendCap
  /\ stop \subseteq Client /\ lost \subseteq Client
  /\ token \in [Sub -> Ntf!Token \cup {None}]
  /\ wr \in [Sub -> [pc : {"none", "select", "write", "unsub", "closeConn",
                           "closeSend", "delete", "done"}, note : Note \cup {None}]]
  /\ rd \in [Sub -> {"none", "read", "close", "unsub", "done"}]
  /\ got \in [Sub -> Seq(Note)]
  /\ since \in [Sub -> 0 .. MaxNote]
  /\ full \subseteq Sub /\ panicked \subseteq Sub

Init ==
  /\ Ntf!Init
  /\ emitted = 0
  /\ by = [n \in Note |-> None]
  /\ wsClients = {}
  /\ hand = [c \in Client |-> [pc |-> "none", left |-> << >>]]
  /\ chan = [s \in Sub |-> [q |-> << >>, closed |-> FALSE]]
  /\ stop = {} /\ lost = {}
  /\ token = [s \in Sub |-> None]
  /\ wr = [s \in Sub |-> [pc |-> "none", note |-> None]]
  /\ rd = [s \in Sub |-> "none"]
  /\ got = [s \in Sub |-> << >>]
  /\ since = [s \in Sub |-> 0]
  /\ full = {} /\ panicked = {}

-----------------------------------------------------------------------------
(* Emitting, and the callbacks.                                            *)

Emit(e) ==
  /\ emitted < MaxNote
  /\ Ntf!Emit(e, emitted + 1)
  /\ emitted' = emitted + 1
  /\ by' = [by EXCEPT ![emitted + 1] = e]
  /\ UNCHANGED <<queues, pumps, got, since>>

\* Mutant: the callback gives up when the channel is not empty.
CallbackUnlessBusy(s, n) ==
  \/ /\ chan[s].closed
     /\ panicked' = panicked \cup {s}
     /\ UNCHANGED <<chan, full>>
  \/ /\ ~chan[s].closed /\ chan[s].q = << >>
     /\ chan' = [chan EXCEPT ![s].q = Append(@, n)]
     /\ UNCHANGED <<full, panicked>>
  \/ /\ s \in stop \/ chan[s].q # << >>
     /\ UNCHANGED <<chan, full, panicked>>

(***************************************************************************)
(* The select of the callback.  Ready are the send, if the channel has     *)
(* room or is closed, and for a client the receive from a closed stopChan; *)
(* Go takes any ready case, and default if there is none.                  *)
(***************************************************************************)
Callback(s, n) ==
  \/ /\ chan[s].closed
     /\ panicked' = panicked \cup {s}
     /\ UNCHANGED <<chan, full>>
  \/ /\ ~chan[s].closed /\ Len(chan[s].q) < sendCap
     /\ chan' = [chan EXCEPT ![s].q = Append(@, n)]
     /\ UNCHANGED <<full, panicked>>
  \/ /\ s \in stop
     /\ UNCHANGED <<chan, full, panicked>>
  \/ /\ ~chan[s].closed /\ Len(chan[s].q) = sendCap /\ s \notin stop
     /\ full' = full \cup {s}
     /\ UNCHANGED <<chan, panicked>>

Deliver(e, s) ==
  /\ token[s] # None
  /\ Ntf!Deliver(e, token[s])
  /\ Callback(s, em[e].note)
  /\ UNCHANGED <<pumps, got, ghosts>>

-----------------------------------------------------------------------------
(* The handler of a WebSocket connection.                                  *)

\* Mutant: the client is subscribed before it is sent the history.
SubscribeOnUpgrade(c) ==
  /\ hand[c].pc = "none"
  /\ Ntf!Subscribe
  /\ token' = [token EXCEPT ![c] = nextToken]
  /\ since' = [since EXCEPT ![c] = emitted]
  /\ wsClients' = wsClients \cup {c}
  /\ hand' = [hand EXCEPT ![c].pc = "history"]
  /\ UNCHANGED <<queues, wr, rd, stop, lost, got, emitted, by>>

\* Upgrade, and the entry in wsClients.
HandleWebSocket(c) ==
  /\ hand[c].pc = "none"
  /\ wsClients' = wsClients \cup {c}
  /\ hand' = [hand EXCEPT ![c].pc = "history"]
  /\ UNCHANGED <<ntf, queues, wr, rd, stop, lost, token, got, ghosts>>

TakeHistory(c) ==
  /\ hand[c].pc = "history"
  /\ hand' = [hand EXCEPT ![c] = [pc |-> "push", left |-> Ntf!History]]
  /\ UNCHANGED <<ntf, queues, wr, rd, stop, lost, token, wsClients, got, ghosts>>

\* Nobody else knows the channel yet and it has room for all.
PushHistory(c) ==
  /\ hand[c].pc = "push"
  /\ chan' = [chan EXCEPT ![c].q = @ \o hand[c].left]
  /\ hand' = [hand EXCEPT ![c] = [pc |-> "subscribe", left |-> << >>]]
  /\ UNCHANGED <<ntf, full, panicked, wr, rd, stop, lost, token, wsClients, got, ghosts>>

\* Subscribe, and the two goroutines are started.
SubscribeClient(c) ==
  /\ hand[c].pc = "subscribe"
  /\ Ntf!Subscribe
  /\ token' = [token EXCEPT ![c] = nextToken]
  /\ since' = [since EXCEPT ![c] = emitted]
  /\ hand' = [hand EXCEPT ![c].pc = "done"]
  /\ wr' = [wr EXCEPT ![c].pc = "select"]
  /\ rd' = [rd EXCEPT ![c] = "read"]
  /\ UNCHANGED <<queues, stop, lost, wsClients, got, emitted, by>>

-----------------------------------------------------------------------------
(* writePump and readPump.                                                 *)

\* The next notification, or the stopChan; either if both are ready.
WriterReceives(c) ==
  /\ wr[c].pc = "select"
  /\ chan[c].q # << >>
  /\ chan' = [chan EXCEPT ![c].q = Tail(@)]
  /\ wr' = [wr EXCEPT ![c] = [pc |-> "write", note |-> Head(chan[c].q)]]
  /\ UNCHANGED <<ntf, full, panicked, hand, rd, stop, lost, token, wsClients, got, ghosts>>

WriterStops(c) ==
  /\ wr[c].pc = "select"
  /\ c \in stop
  /\ wr' = [wr EXCEPT ![c].pc = "unsub"]
  /\ UNCHANGED <<ntf, queues, hand, rd, stop, lost, token, wsClients, got, ghosts>>

\* WriteJSON returns.  What is written to a broken connection may be buffered.
WriterWrites(c) ==
  /\ wr[c].pc = "write"
  /\ \/ /\ got' = [got EXCEPT ![c] = Append(@, wr[c].note)]
        /\ wr' = [wr EXCEPT ![c] = [pc |-> "select", note |-> None]]
     \/ /\ c \in lost
        /\ wr' = [wr EXCEPT ![c] = [pc |-> "unsub", note |-> None]]
        /\ UNCHANGED got
  /\ UNCHANGED <<ntf, queues, hand, rd, stop, lost, token, wsClients, ghosts>>

\* The deferred calls of writePump, in their order.
WriterUnsubscribes(c) ==
  /\ wr[c].pc = "unsub"
  /\ Ntf!Unsubscribe(token[c])
  /\ wr' = [wr EXCEPT ![c].pc = "closeConn"]
  /\ UNCHANGED <<queues, hand, rd, stop, lost, token, wsClients, got, ghosts>>

WriterClosesConn(c) ==
  /\ wr[c].pc = "closeConn"
  /\ lost' = lost \cup {c}
  /\ wr' = [wr EXCEPT ![c].pc = "closeSend"]
  /\ UNCHANGED <<ntf, queues, hand, rd, stop, token, wsClients, got, ghosts>>

WriterClosesSend(c) ==
  /\ wr[c].pc = "closeSend"
  /\ chan' = [chan EXCEPT ![c].closed = TRUE]
  /\ wr' = [wr EXCEPT ![c].pc = "delete"]
  /\ UNCHANGED <<ntf, full, panicked, hand, rd, stop, lost, token, wsClients, got, ghosts>>

WriterDeletes(c) ==
  /\ wr[c].pc = "delete"
  /\ wsClients' = wsClients \ {c}
  /\ wr' = [wr EXCEPT ![c].pc = "done"]
  /\ UNCHANGED <<ntf, queues, hand, rd, stop, lost, token, got, ghosts>>

\* Mutant: the reader ends and does not close stopChan.
ReaderEnds(c) ==
  /\ rd[c] = "read"
  /\ rd' = [rd EXCEPT ![c] = "done"]
  /\ UNCHANGED <<ntf, queues, hand, wr, stop, lost, token, wsClients, got, ghosts>>

\* ReadMessage fails, on a broken connection or at the read deadline of 60 s,
\* which only a pong would extend and the server sends no ping.
ReaderFails(c) ==
  /\ rd[c] = "read"
  /\ rd' = [rd EXCEPT ![c] = "done"]
  /\ stop' = stop \cup {c}
  /\ UNCHANGED <<ntf, queues, hand, wr, lost, token, wsClients, got, ghosts>>

\* The environment: the browser goes away.
ConnBreaks(c) ==
  /\ hand[c].pc # "none"
  /\ lost' = lost \cup {c}
  /\ UNCHANGED <<ntf, queues, hand, wr, rd, stop, token, wsClients, got, ghosts>>

-----------------------------------------------------------------------------
(* The console: StartInteractiveConsole and its forwarding goroutine.      *)

StartConsole(k) ==
  /\ rd[k] = "none"
  /\ Ntf!Subscribe
  /\ token' = [token EXCEPT ![k] = nextToken]
  /\ since' = [since EXCEPT ![k] = emitted]
  /\ wr' = [wr EXCEPT ![k].pc = "select"]
  /\ rd' = [rd EXCEPT ![k] = "read"]
  /\ UNCHANGED <<queues, hand, stop, lost, wsClients, got, emitted, by>>

\* for notif := range ch
ForwarderReceives(k) ==
  /\ wr[k].pc = "select"
  /\ LET ch == chan[k]
     IN  \/ /\ ch.q # << >>
            /\ chan' = [chan EXCEPT ![k].q = Tail(@)]
            /\ wr' = [wr EXCEPT ![k] = [pc |-> "write", note |-> Head(ch.q)]]
         \/ /\ ch.q = << >> /\ ch.closed
            /\ wr' = [wr EXCEPT ![k].pc = "done"]
            /\ UNCHANGED chan
  /\ UNCHANGED <<ntf, full, panicked, hand, rd, stop, lost, token, wsClients, got, ghosts>>

\* p.Send hands the message to Update; once the program has ended it drops it.
ForwarderSends(k) ==
  /\ wr[k].pc = "write"
  /\ got' = IF rd[k] = "read"
            THEN [got EXCEPT ![k] = Append(@, wr[k].note)] ELSE got
  /\ wr' = [wr EXCEPT ![k] = [pc |-> "select", note |-> None]]
  /\ UNCHANGED <<ntf, queues, hand, rd, stop, lost, token, wsClients, ghosts>>

\* exit or Ctrl-C: p.Run returns.
ConsoleQuits(k) ==
  /\ rd[k] = "read"
  /\ rd' = [rd EXCEPT ![k] = "close"]
  /\ UNCHANGED <<ntf, queues, hand, wr, stop, lost, token, wsClients, got, ghosts>>

ConsoleCloses(k) ==
  /\ rd[k] = "close"
  /\ chan' = [chan EXCEPT ![k].closed = TRUE]
  /\ rd' = [rd EXCEPT ![k] = "unsub"]
  /\ UNCHANGED <<ntf, full, panicked, hand, wr, stop, lost, token, wsClients, got, ghosts>>

ConsoleUnsubscribes(k) ==
  /\ rd[k] = "unsub"
  /\ Ntf!Unsubscribe(token[k])
  /\ rd' = [rd EXCEPT ![k] = "done"]
  /\ UNCHANGED <<queues, hand, wr, stop, lost, token, wsClients, got, ghosts>>

-----------------------------------------------------------------------------
Handler(c) == HandleWebSocket(c) \/ TakeHistory(c) \/ PushHistory(c) \/ SubscribeClient(c)

Writer(c) ==
  \/ WriterReceives(c) \/ WriterWrites(c) \/ WriterUnsubscribes(c)
  \/ WriterClosesConn(c) \/ WriterClosesSend(c) \/ WriterDeletes(c)

ConsoleStep(k) ==
  \/ StartConsole(k) \/ ForwarderReceives(k) \/ ForwarderSends(k)
  \/ ConsoleQuits(k) \/ ConsoleCloses(k) \/ ConsoleUnsubscribes(k)

Next ==
  /\ panicked = {}
  /\ \/ \E e \in Emitter : Emit(e)
     \/ \E e \in Emitter, s \in Sub : Deliver(e, s)
     \/ \E c \in Client : Handler(c) \/ Writer(c) \/ WriterStops(c) \/ ReaderFails(c)
     \/ \E c \in Client : ConnBreaks(c)
     \/ \E k \in Console : ConsoleStep(k)

Spec == Init /\ [][Next]_vars

(***************************************************************************)
(* Goroutines that can run do run, and Go's select does not pass over a    *)
(* ready stopChan for ever.  A write returns once its connection is broken *)
(* - on a healthy connection it may wait for the browser for ever - and    *)
(* every read fails at its deadline.                                       *)
(***************************************************************************)
Fairness ==
  \A c \in Client :
    /\ WF_vars(panicked = {} /\ hand[c].pc # "none" /\ Handler(c))
    /\ WF_vars(panicked = {} /\ wr[c].pc # "write" /\ Writer(c))
    /\ WF_vars(panicked = {} /\ wr[c].pc = "write" /\ c \in lost /\ Writer(c))
    /\ WF_vars(panicked = {} /\ WriterStops(c))
    /\ WF_vars(panicked = {} /\ ReaderFails(c))

FairSpec == Spec /\ Fairness

-----------------------------------------------------------------------------
(* Properties.                                                             *)

\* What has reached a subscriber or waits in its channel, in order.
Received(s) ==
  got[s] \o (IF wr[s].pc = "write" THEN <<wr[s].note>> ELSE << >>) \o chan[s].q

\* The history and the live notifications do not overlap, whatever is emitted
\* while the handler takes the history and subscribes (websocket.go:33-46): no
\* subscriber is given a notification twice.
AtMostOnce == \A s \in Sub : IsInjective(Received(s))

\* A client is given the history in order and then what came after it; two live
\* notifications change places only if different goroutines emitted them, which
\* call the callbacks without the notifier's lock.
InOrder ==
  \A s \in Sub : LET r == Received(s) IN
    \A i, j \in 1 .. Len(r) :
      i < j /\ r[i] > r[j] => by[r[i]] # by[r[j]] /\ r[j] > since[s]

\* Notifications whose emitter has yet to call the callback of s.
Pending(s) == {em[e].note : e \in {f \in Emitter : token[s] \in em[f].left}}

\* A subscriber whose channel never was full and who is not on the way out
\* misses nothing that was emitted since it subscribed.
NothingLostUnlessFull ==
  \A s \in Sub \ (full \cup panicked) :
    rd[s] = "read" /\ wr[s].pc \in {"select", "write"} =>
      since[s] + 1 .. emitted \subseteq ToSet(Received(s)) \cup Pending(s)

\* A client whose connection is broken is forgotten: its subscription, which
\* would hold its channel, and its entry in wsClients go, and its reader ends.
GoneClientsForgotten ==
  \A c \in Client :
    c \in lost ~> \/ panicked # {}
                  \/ c \notin wsClients /\ token[c] \notin callbacks /\ rd[c] = "done"

\* "A new Web client can trace back the last N notifications (History())", so that
\* the one that comes late has missed nothing (docs/DDD_TUTORIAL.md, 6): a client
\* that is served has everything from the oldest entry of the history it was sent,
\* or from its subscription if that was empty, and on.  The history is taken
\* before the subscription is made (websocket.go:33-39), and what is emitted in
\* between is in neither.  The code does not have this property.
NoGapAfterHistory ==
  \A c \in Client \ (full \cup panicked) :
    rd[c] = "read" /\ wr[c].pc \in {"select", "write"} =>
      LET seen == ToSet(Received(c)) \cup Pending(c)
      IN  \A n \in Note : n <= emitted /\ (\E m \in seen : m < n) => n \in seen

\* No emitter sends to a closed channel: neither that of a WebSocket client that
\* is gone nor that of a console that has ended.
EmitNeverPanics == panicked = {}
=============================================================================
