--------------------------- MODULE DeliveryProofs ---------------------------
(***************************************************************************)
(* Proofs about Delivery: type correctness, and that a subscriber gets     *)
(* each notification at most once, in order, and misses none while its     *)
(* channel has room.                                                       *)
(*                                                                         *)
(* The invariant has a part for each side.  Emitters: who emitted what,    *)
(* and that a call still to be made is of a notification emitted after     *)
(* the subscription and not yet received.  The history: the latest         *)
(* notifications in order.  Subscribers: what their goroutines have done   *)
(* before and after the subscription.                                      *)
(***************************************************************************)
EXTENDS Delivery, SequenceTheorems, TLAPS

Ring == INSTANCE NotifierProofs

Increasing(r) == \A i, j \in 1 .. Len(r) : i < j => r[i] < r[j]

\* The emitter of each notification, whose latest it may be, and the calls that
\* an emitter still has to make.
Emitting ==
  /\ \A n \in 1 .. emitted : by[n] \in Emitter /\ n <= em[by[n]].note
  /\ \A e \in Emitter : em[e].left # {} =>
       /\ em[e].note \in 1 .. emitted /\ by[em[e].note] = e
       /\ em[e].left \subseteq 0 .. nextToken - 1

\* The history is the latest notifications.
Recent ==
  /\ Ring!RingInv
  /\ count <= emitted
  /\ \A i \in 1 .. count : Ntf!History[i] = emitted - count + i

\* A subscription has a token of its own.
Tokens ==
  /\ \A s \in Sub : token[s] # None => token[s] \in 0 .. nextToken - 1
  /\ \A s, r \in Sub : token[s] = token[r] /\ token[s] # None => s = r

\* What is still to be delivered to s is new to it.
CallsNew ==
  \A s \in Sub, e \in Emitter : token[s] # None /\ token[s] \in em[e].left =>
    since[s] < em[e].note /\ em[e].note \notin ToSet(Received(s))

\* The goroutines of a subscriber start when it is subscribed; before, its channel
\* has at most the history.
Phases ==
  /\ \A s \in Sub : since[s] <= emitted
  /\ \A s \in Sub : token[s] = None =>
       /\ wr[s].pc = "none" /\ rd[s] = "none" /\ got[s] = << >>
       /\ Increasing(chan[s].q)
  /\ \A k \in Console : token[k] = None => chan[k].q = << >>
  /\ \A c \in Client : hand[c].pc # "done" => token[c] = None
  /\ \A k \in Console : rd[k] = "none" => token[k] = None
  /\ \A c \in Client : hand[c].pc \in {"none", "history", "push"} => chan[c].q = << >>
  /\ \A c \in Client : hand[c].pc = "push" =>
       /\ hand[c].left \in Seq(1 .. emitted) /\ Len(hand[c].left) <= bufferSize
       /\ Increasing(hand[c].left)
  /\ \A s \in Sub : wr[s].pc = "write" => wr[s].note \in Note

Serves(s) == rd[s] = "read" /\ wr[s].pc \in {"select", "write"}

\* A subscriber that is served is registered.
Registered ==
  /\ \A s \in Sub : Serves(s) => token[s] \in callbacks
  /\ \A s \in stop : rd[s] = "done"

Got(s) == Received(s) \in Seq(1 .. emitted)

IInv ==
  /\ Emitting /\ Recent /\ Tokens /\ CallsNew /\ Phases /\ Registered
  /\ \A s \in Sub : Got(s)

-----------------------------------------------------------------------------
(* The notifier, as Delivery uses it.                                      *)

LEMMA RingAssumption == Ring!NotifierAssumption
BY DeliveryAssumption DEF Note, MaxToken, Ring!NotifierAssumption

LEMMA RingTypes == Ntf!TypeOK <=> Ring!TypeOK
BY DEF Ntf!TypeOK, Ring!TypeOK, Ntf!Slot, Ring!Slot, Ntf!Token, Ring!Token

LEMMA NtfTyped ==
  ASSUME TypeOK,
         \/ \E e \in Emitter, n \in Note : Ntf!Emit(e, n)
         \/ \E e \in Emitter : \E x : Ntf!Deliver(e, x)
         \/ Ntf!Subscribe \/ (\E x : Ntf!Unsubscribe(x)) \/ UNCHANGED ntf
  PROVE  Ntf!TypeOK'
<1> USE DeliveryAssumption DEF MaxToken
<1>0. Ntf!TypeOK /\ Ring!TypeOK
  BY RingTypes DEF TypeOK
<1>1. ASSUME NEW e \in Emitter, NEW n \in Note, Ntf!Emit(e, n) PROVE Ntf!TypeOK'
  <2>1. Ring!Store(n)
    BY <1>1 DEF Ntf!Emit, Ntf!Store, Ring!Store
  <2>2. /\ buffer' \in [Ring!Slot -> Note \cup {None}] /\ head' \in Ring!Slot \cup {0}
        /\ count' \in 0 .. bufferSize
    BY <1>0, <2>1, RingAssumption, Ring!StoreTypes
  <2>3. em' \in [Emitter -> [note : Note, left : SUBSET Ntf!Token]]
    BY <1>0, <1>1 DEF Ntf!Emit, Ntf!TypeOK, Ntf!Token
  <2> QED
    BY <1>0, <1>1, <2>2, <2>3 DEF Ntf!TypeOK, Ntf!Emit, Ntf!Slot, Ring!Slot
<1>2. ASSUME NEW e \in Emitter, NEW x, Ntf!Deliver(e, x) PROVE Ntf!TypeOK'
  BY <1>0, <1>2 DEF Ntf!Deliver, Ntf!TypeOK
<1>3. CASE Ntf!Subscribe
  BY <1>0, <1>3 DEF Ntf!Subscribe, Ntf!TypeOK
<1>4. ASSUME NEW x, Ntf!Unsubscribe(x) PROVE Ntf!TypeOK'
  BY <1>0, <1>4 DEF Ntf!Unsubscribe, Ntf!TypeOK
<1>5. CASE UNCHANGED ntf
  BY <1>0, <1>5 DEF ntf, Ntf!TypeOK
<1> QED
  BY <1>1, <1>2, <1>3, <1>4, <1>5

-----------------------------------------------------------------------------
(* Type correctness.                                                       *)

\* The part of TypeOK that Delivery adds to that of the notifier.
QueueTypes ==
  /\ chan \in [Sub -> [q : Seq(Note), closed : BOOLEAN]]
  /\ \A s \in Sub : Len(chan[s].q) <= sendCap
  /\ full \subseteq Sub /\ panicked \subseteq Sub
GhostTypes ==
  /\ emitted \in 0 .. MaxNote /\ by \in [Note -> Emitter \cup {None}]
  /\ since \in [Sub -> 0 .. MaxNote]
PumpTypes ==
  /\ wsClients \subseteq Client
  /\ hand \in [Client -> [pc : {"none", "history", "push", "subscribe", "done"},
                          left : Seq(Note)]]
  /\ stop \subseteq Client /\ lost \subseteq Client
  /\ token \in [Sub -> Ntf!Token \cup {None}]
  /\ wr \in [Sub -> [pc : {"none", "select", "write", "unsub", "closeConn",
                           "closeSend", "delete", "done"}, note : Note \cup {None}]]
  /\ rd \in [Sub -> {"none", "read", "close", "unsub", "done"}]
GotTypes == got \in [Sub -> Seq(Note)]

LEMMA TypeParts ==
  /\ TypeOK <=> Ntf!TypeOK /\ QueueTypes /\ GhostTypes /\ PumpTypes /\ GotTypes
  /\ TypeOK' <=> Ntf!TypeOK' /\ QueueTypes' /\ GhostTypes' /\ PumpTypes' /\ GotTypes'
BY DEF TypeOK, QueueTypes, GhostTypes, PumpTypes, GotTypes

LEMMA Unchanged ==
  ASSUME TypeOK
  PROVE  /\ UNCHANGED queues => QueueTypes'
         /\ UNCHANGED ghosts => GhostTypes'
         /\ UNCHANGED pumps => PumpTypes'
         /\ UNCHANGED got => GotTypes'
BY DEF TypeOK, QueueTypes, GhostTypes, PumpTypes, GotTypes, queues, ghosts, pumps

LEMMA EmitTyped == ASSUME TypeOK, NEW e \in Emitter, Emit(e) PROVE TypeOK'
<1>1. emitted + 1 \in Note
  BY DeliveryAssumption DEF TypeOK, Emit, Note
<1>2. Ntf!TypeOK'
  BY <1>1, NtfTyped DEF Emit
<1>3. GhostTypes'
  BY <1>1, DeliveryAssumption DEF Emit, TypeOK, GhostTypes, Note
<1> QED
  BY <1>2, <1>3, TypeParts, Unchanged DEF Emit

LEMMA DeliverTyped ==
  ASSUME TypeOK, NEW e \in Emitter, NEW s \in Sub, Deliver(e, s) PROVE TypeOK'
<1>1. em[e].note \in Note
  BY DEF TypeOK, Ntf!TypeOK
<1>2. Ntf!TypeOK'
  BY NtfTyped DEF Deliver
<1>3. QueueTypes'
  <2>1. CASE Len(chan[s].q) < sendCap /\ chan' = [chan EXCEPT ![s].q = Append(@, em[e].note)]
             /\ UNCHANGED <<full, panicked>>
    <3> DEFINE q == Append(chan[s].q, em[e].note)
    <3>1. QueueTypes
      BY TypeParts
    <3>2. chan[s].q \in Seq(Note)
      BY <3>1 DEF QueueTypes
    <3>3. q \in Seq(Note) /\ Len(q) <= sendCap
      BY <1>1, <2>1, <3>2, DeliveryAssumption
    <3>4. chan' = [chan EXCEPT ![s].q = q]
      BY <2>1
    <3> HIDE DEF q
    <3> QED
      BY <2>1, <3>1, <3>3, <3>4 DEF QueueTypes
  <2>2. CASE chan' = chan /\ full' \in {full, full \cup {s}} /\ panicked' \in {panicked, panicked \cup {s}}
    BY <2>2 DEF TypeOK, QueueTypes
  <2> QED
    BY <2>1, <2>2 DEF Deliver, Callback
<1> QED
  BY <1>2, <1>3, TypeParts, Unchanged DEF Deliver

LEMMA HandlerTyped ==
  ASSUME TypeOK, Phases, Recent, NEW c \in Client, Handler(c) PROVE TypeOK'
<1>0. c \in Sub
  BY DEF Sub
<1> USE <1>0
<1>1. CASE HandleWebSocket(c)
  <2>1. PumpTypes'
    BY <1>1, TypeParts DEF HandleWebSocket, PumpTypes
  <2> QED
    BY <1>1, <2>1, NtfTyped, TypeParts, Unchanged DEF HandleWebSocket
<1>2. CASE TakeHistory(c)
  <2>1. Ntf!History \in Seq(Note)
    <3>1. count \in Nat
      BY DeliveryAssumption DEF TypeOK, Ntf!TypeOK
    <3>2. \A i \in 1 .. count : Ntf!History[i] \in Note
      BY <3>1, TypeParts, DeliveryAssumption DEF Recent, GhostTypes, Note
    <3> QED
      BY <3>1, <3>2 DEF Ntf!History
  <2>2. PumpTypes'
    BY <1>2, <2>1 DEF TakeHistory, TypeOK, PumpTypes
  <2> QED
    BY <1>2, <2>2, NtfTyped, TypeParts, Unchanged DEF TakeHistory, ghosts, queues
<1>3. CASE PushHistory(c)
  <2>1. hand[c].left \in Seq(Note) /\ Len(hand[c].left) <= bufferSize /\ chan[c].q = << >>
    BY <1>3 DEF PushHistory, Phases, TypeOK
  <2>2. << >> \o hand[c].left = hand[c].left
    BY <2>1, ConcatEmptySeq
  <2>3. chan' = [chan EXCEPT ![c].q = hand[c].left]
    BY <1>3, <2>1, <2>2 DEF PushHistory
  <2>4. QueueTypes'
    BY <1>3, <2>1, <2>3, TypeParts, DeliveryAssumption DEF PushHistory, QueueTypes
  <2>5. PumpTypes'
    BY <1>3 DEF PushHistory, TypeOK, PumpTypes
  <2> QED
    BY <1>3, <2>4, <2>5, NtfTyped, TypeParts, Unchanged DEF PushHistory, ghosts
<1>4. CASE SubscribeClient(c)
  <2>1. nextToken \in Ntf!Token
    BY <1>4, DeliveryAssumption DEF SubscribeClient, Ntf!Subscribe, TypeOK, Ntf!TypeOK, Ntf!Token, MaxToken
  <2>2. PumpTypes'
    <3>1. /\ token' \in [Sub -> Ntf!Token \cup {None}]
          /\ rd' \in [Sub -> {"none", "read", "close", "unsub", "done"}]
      BY <1>4, <2>1, TypeParts DEF SubscribeClient, PumpTypes
    <3>2. UNCHANGED <<stop, lost, wsClients>>
      BY <1>4 DEF SubscribeClient
    <3>3. hand' \in [Client -> [pc : {"none", "history", "push", "subscribe", "done"}, left : Seq(Note)]]
      <4>1. hand \in [Client -> [pc : {"none", "history", "push", "subscribe", "done"}, left : Seq(Note)]]
        BY TypeParts DEF PumpTypes
      <4>2. hand' = [hand EXCEPT ![c].pc = "done"]
        BY <1>4 DEF SubscribeClient
      <4> QED
        BY <4>1, <4>2
    <3>4. wr' \in [Sub -> [pc : {"none", "select", "write", "unsub", "closeConn",
                                "closeSend", "delete", "done"}, note : Note \cup {None}]]
      <4>1. wr \in [Sub -> [pc : {"none", "select", "write", "unsub", "closeConn",
                                "closeSend", "delete", "done"}, note : Note \cup {None}]]
        BY TypeParts DEF PumpTypes
      <4>2. wr' = [wr EXCEPT ![c].pc = "select"]
        BY <1>4 DEF SubscribeClient
      <4> QED
        BY <4>1, <4>2
    <3> QED
      BY <3>1, <3>2, <3>3, <3>4, TypeParts DEF PumpTypes
  <2>3. GhostTypes'
    BY <1>4 DEF SubscribeClient, TypeOK, GhostTypes
  <2> QED
    BY <1>4, <2>2, <2>3, NtfTyped, TypeParts, Unchanged DEF SubscribeClient
<1> QED
  BY <1>1, <1>2, <1>3, <1>4 DEF Handler

LEMMA WriterTyped ==
  ASSUME TypeOK, Phases, NEW c \in Client,
         Writer(c) \/ WriterStops(c) \/ ReaderFails(c) \/ ConnBreaks(c)
  PROVE  TypeOK'
<1>0. c \in Sub
  BY DEF Sub
<1> USE <1>0
<1>1. CASE WriterReceives(c)
  <2>1. Head(chan[c].q) \in Note /\ Tail(chan[c].q) \in Seq(Note) /\ Len(Tail(chan[c].q)) <= sendCap
    <3>1. chan[c].q \in Seq(Note) /\ Len(chan[c].q) <= sendCap /\ chan[c].q # << >>
      BY <1>1, TypeParts DEF WriterReceives, QueueTypes
    <3> QED
      BY <3>1, DeliveryAssumption
  <2>2. QueueTypes'
    BY <1>1, <2>1, TypeParts DEF WriterReceives, QueueTypes
  <2>3. PumpTypes'
    BY <1>1, <2>1, TypeParts DEF WriterReceives, PumpTypes
  <2> QED
    BY <1>1, <2>2, <2>3, NtfTyped, TypeParts, Unchanged DEF WriterReceives
<1>2. CASE WriterWrites(c)
  <2>1. wr[c].note \in Note
    BY <1>2 DEF WriterWrites, Phases
  <2>2. GotTypes'
    <3>1. got \in [Sub -> Seq(Note)]
      BY TypeParts DEF GotTypes
    <3>2. Append(got[c], wr[c].note) \in Seq(Note)
      BY <2>1, <3>1
    <3> QED
      BY <1>2, <3>1, <3>2 DEF WriterWrites, GotTypes
  <2>3. PumpTypes'
    BY <1>2, <2>1, TypeParts DEF WriterWrites, PumpTypes
  <2> QED
    BY <1>2, <2>2, <2>3, NtfTyped, TypeParts, Unchanged DEF WriterWrites
<1>3. CASE WriterUnsubscribes(c)
  <2>1. PumpTypes'
    BY <1>3, TypeParts DEF WriterUnsubscribes, PumpTypes
  <2> QED
    BY <1>3, <2>1, NtfTyped, TypeParts, Unchanged DEF WriterUnsubscribes
<1>4. CASE WriterClosesSend(c)
  <2>1. QueueTypes'
    BY <1>4, TypeParts DEF WriterClosesSend, QueueTypes
  <2>2. PumpTypes'
    BY <1>4, TypeParts DEF WriterClosesSend, PumpTypes
  <2> QED
    BY <1>4, <2>1, <2>2, NtfTyped, TypeParts, Unchanged DEF WriterClosesSend
<1>5. CASE WriterStops(c) \/ WriterClosesConn(c) \/ WriterDeletes(c) \/ ReaderFails(c) \/ ConnBreaks(c)
  <2>1. PumpTypes'
    <3>1. CASE WriterStops(c)
      BY <3>1, TypeParts DEF WriterStops, PumpTypes
    <3>2. CASE WriterClosesConn(c)
      BY <3>2, TypeParts DEF WriterClosesConn, PumpTypes
    <3>3. CASE WriterDeletes(c)
      BY <3>3, TypeParts DEF WriterDeletes, PumpTypes
    <3>4. CASE ReaderFails(c)
      BY <3>4, TypeParts DEF ReaderFails, PumpTypes
    <3>5. CASE ConnBreaks(c)
      BY <3>5, TypeParts DEF ConnBreaks, PumpTypes
    <3> QED
      BY <1>5, <3>1, <3>2, <3>3, <3>4, <3>5
  <2> QED
    BY <1>5, <2>1, NtfTyped, TypeParts, Unchanged
    DEF WriterStops, WriterClosesConn, WriterDeletes, ReaderFails, ConnBreaks
<1> QED
  BY <1>1, <1>2, <1>3, <1>4, <1>5 DEF Writer

LEMMA ConsoleTyped ==
  ASSUME TypeOK, Phases, NEW k \in Console, ConsoleStep(k) PROVE TypeOK'
<1>0. k \in Sub
  BY DEF Sub
<1> USE <1>0
<1>1. CASE StartConsole(k)
  <2>1. nextToken \in Ntf!Token
    BY <1>1, DeliveryAssumption DEF StartConsole, Ntf!Subscribe, TypeOK, Ntf!TypeOK, Ntf!Token, MaxToken
  <2>2. PumpTypes' /\ GhostTypes'
    BY <1>1, <2>1, TypeParts DEF StartConsole, PumpTypes, GhostTypes
  <2> QED
    BY <1>1, <2>2, NtfTyped, TypeParts, Unchanged DEF StartConsole
<1>2. CASE ForwarderReceives(k)
  <2>1. CASE chan[k].q # << >> /\ chan' = [chan EXCEPT ![k].q = Tail(@)]
             /\ wr' = [wr EXCEPT ![k] = [pc |-> "write", note |-> Head(chan[k].q)]]
    <3>1. Head(chan[k].q) \in Note /\ Tail(chan[k].q) \in Seq(Note) /\ Len(Tail(chan[k].q)) <= sendCap
      <4>1. chan[k].q \in Seq(Note) /\ Len(chan[k].q) <= sendCap
        BY TypeParts DEF QueueTypes
      <4> QED
        BY <2>1, <4>1, DeliveryAssumption
    <3>2. QueueTypes'
      BY <1>2, <2>1, <3>1, TypeParts DEF ForwarderReceives, QueueTypes
    <3>3. PumpTypes'
      BY <1>2, <2>1, <3>1, TypeParts DEF ForwarderReceives, PumpTypes
    <3> QED
      BY <1>2, <3>2, <3>3, NtfTyped, TypeParts, Unchanged DEF ForwarderReceives
  <2>2. CASE wr' = [wr EXCEPT ![k].pc = "done"] /\ UNCHANGED chan
    <3>1. PumpTypes'
      BY <1>2, <2>2, TypeParts DEF ForwarderReceives, PumpTypes
    <3> QED
      BY <1>2, <2>2, <3>1, NtfTyped, TypeParts, Unchanged DEF ForwarderReceives, queues
  <2> QED
    BY <1>2, <2>1, <2>2 DEF ForwarderReceives
<1>3. CASE ForwarderSends(k)
  <2>1. wr[k].note \in Note
    BY <1>3 DEF ForwarderSends, Phases
  <2>2. GotTypes' /\ PumpTypes'
    <3>1. GotTypes'
      BY <1>3, <2>1, TypeParts DEF ForwarderSends, GotTypes
    <3>2. PumpTypes'
      BY <1>3, TypeParts DEF ForwarderSends, PumpTypes
    <3> QED
      BY <3>1, <3>2
  <2> QED
    BY <1>3, <2>2, NtfTyped, TypeParts, Unchanged DEF ForwarderSends
<1>4. CASE ConsoleCloses(k)
  <2>1. QueueTypes'
    BY <1>4, TypeParts DEF ConsoleCloses, QueueTypes
  <2>2. PumpTypes'
    BY <1>4, TypeParts DEF ConsoleCloses, PumpTypes
  <2> QED
    BY <1>4, <2>1, <2>2, NtfTyped, TypeParts, Unchanged DEF ConsoleCloses
<1>5. CASE ConsoleQuits(k) \/ ConsoleUnsubscribes(k)
  <2>1. PumpTypes'
    BY <1>5, TypeParts DEF ConsoleQuits, ConsoleUnsubscribes, PumpTypes
  <2> QED
    BY <1>5, <2>1, NtfTyped, TypeParts, Unchanged DEF ConsoleQuits, ConsoleUnsubscribes
<1> QED
  BY <1>1, <1>2, <1>3, <1>4, <1>5 DEF ConsoleStep

LEMMA TypeNext == TypeOK /\ Phases /\ Recent /\ [Next]_vars => TypeOK'
<1> SUFFICES ASSUME TypeOK, Phases, Recent, [Next]_vars PROVE TypeOK'
  OBVIOUS
<1>1. CASE UNCHANGED vars
  BY <1>1, NtfTyped, TypeParts, Unchanged DEF vars, queues, pumps, ghosts
<1> QED
  BY <1>1, EmitTyped, DeliverTyped, HandlerTyped, WriterTyped, ConsoleTyped DEF Next

-----------------------------------------------------------------------------
(* Sequences: what a subscriber received, as its channel and its writer    *)
(* change.                                                                 *)

LEMMA AppendLast ==
  ASSUME NEW S, NEW a \in Seq(S), NEW m \in Seq(S), NEW q \in Seq(S), NEW n \in S
  PROVE  a \o m \o Append(q, n) = Append(a \o m \o q, n)
<1>1. Append(q, n) = q \o <<n>> /\ <<n>> \in Seq(S)
  OBVIOUS
<1>2. a \o m \in Seq(S) /\ a \o m \o q \in Seq(S)
  OBVIOUS
<1>3. Append(a \o m \o q, n) = (a \o m \o q) \o <<n>>
  BY <1>2
<1> QED
  BY <1>1, <1>2, <1>3, ConcatAssociative

\* Taking the head of the queue, and writing it, change nothing.
LEMMA TakeHead ==
  ASSUME NEW S, NEW a \in Seq(S), NEW q \in Seq(S), q # << >>
  PROVE  a \o << >> \o q = a \o <<Head(q)>> \o Tail(q)
<1>1. Len(q) \in Nat \ {0} /\ Tail(q) \in Seq(S) /\ Head(q) \in S /\ << >> \in Seq(S)
  BY EmptySeq
<1>2. q = <<Head(q)>> \o Tail(q) /\ <<Head(q)>> \in Seq(S)
  BY <1>1
<1>3. a \o << >> = a
  BY ConcatEmptySeq
<1> QED
  BY <1>1, <1>2, <1>3, ConcatAssociative

LEMMA WriteNext ==
  ASSUME NEW S, NEW a \in Seq(S), NEW q \in Seq(S), NEW n \in S
  PROVE  a \o <<n>> \o q = Append(a, n) \o << >> \o q
<1>1. Append(a, n) = a \o <<n>> /\ Append(a, n) \in Seq(S)
  OBVIOUS
<1> QED
  BY <1>1, ConcatEmptySeq

LEMMA AppendSet ==
  ASSUME NEW S, NEW r \in Seq(S), NEW n \in S
  PROVE  ToSet(Append(r, n)) = ToSet(r) \cup {n}
<1>1. /\ Len(Append(r, n)) = Len(r) + 1 /\ Append(r, n)[Len(r) + 1] = n
      /\ \A i \in 1 .. Len(r) : Append(r, n)[i] = r[i]
      /\ DOMAIN r = 1 .. Len(r) /\ DOMAIN Append(r, n) = 1 .. Len(r) + 1 /\ Len(r) \in Nat
  OBVIOUS
<1>2. \A i \in 1 .. Len(r) + 1 : i \in 1 .. Len(r) \/ i = Len(r) + 1
  BY <1>1
<1>3. \A i \in 1 .. Len(r) : i \in 1 .. Len(r) + 1
  BY <1>1
<1>4. Len(r) + 1 \in 1 .. Len(r) + 1
  BY <1>1
<1> QED
  BY <1>1, <1>2, <1>3, <1>4 DEF ToSet

LEMMA AppendNew ==
  ASSUME NEW S, NEW r \in Seq(S), NEW n \in S
  PROVE  IsInjective(r) /\ n \notin ToSet(r) => IsInjective(Append(r, n))
<1>1. /\ Len(Append(r, n)) = Len(r) + 1 /\ Append(r, n)[Len(r) + 1] = n
      /\ \A i \in 1 .. Len(r) : Append(r, n)[i] = r[i]
      /\ DOMAIN r = 1 .. Len(r) /\ DOMAIN Append(r, n) = 1 .. Len(r) + 1 /\ Len(r) \in Nat
  OBVIOUS
<1>2. \A i \in 1 .. Len(r) + 1 : i \in 1 .. Len(r) \/ i = Len(r) + 1
  BY <1>1
<1>3. n \notin ToSet(r) => \A i \in 1 .. Len(r) : r[i] # n
  BY <1>1 DEF ToSet
<1> QED
  BY <1>1, <1>2, <1>3 DEF IsInjective

\* The order that InOrder asks of what a subscriber received.
Ordered(r, b, x) ==
  \A i, j \in 1 .. Len(r) : i < j /\ r[i] > r[j] => b[r[i]] # b[r[j]] /\ r[j] > x

LEMMA AppendOrdered ==
  ASSUME NEW r \in Seq(Nat), NEW n \in Nat, NEW b, NEW x, Ordered(r, b, x),
         \A i \in 1 .. Len(r) : r[i] > n => b[r[i]] # b[n] /\ n > x
  PROVE  Ordered(Append(r, n), b, x)
<1>1. /\ Len(Append(r, n)) = Len(r) + 1 /\ Append(r, n)[Len(r) + 1] = n
      /\ \A i \in 1 .. Len(r) : Append(r, n)[i] = r[i]
      /\ Len(r) \in Nat
  OBVIOUS
<1>2. \A i \in 1 .. Len(r) + 1 : i \in 1 .. Len(r) \/ i = Len(r) + 1
  BY <1>1
<1> QED
  BY <1>1, <1>2 DEF Ordered

\* A notification is taken out of the middle.
LEMMA Thinned ==
  ASSUME NEW S, NEW a \in Seq(S), NEW q \in Seq(S), NEW n \in S, NEW b, NEW x
  PROVE  /\ ToSet(a \o << >> \o q) \subseteq ToSet(a \o <<n>> \o q)
         /\ IsInjective(a \o <<n>> \o q) => IsInjective(a \o << >> \o q)
         /\ Ordered(a \o <<n>> \o q, b, x) => Ordered(a \o << >> \o q, b, x)
         /\ a \o << >> \o q \in Seq(S)
<1> DEFINE r == a \o <<n>> \o q
           p == a \o << >> \o q
           f(i) == IF i <= Len(a) THEN i ELSE i + 1
<1>1. p = a \o q
  BY ConcatEmptySeq
<1>2. /\ p \in Seq(S) /\ r \in Seq(S)
      /\ Len(a) \in Nat /\ Len(q) \in Nat /\ Len(p) = Len(a) + Len(q) /\ Len(r) = Len(p) + 1
      /\ DOMAIN p = 1 .. Len(p) /\ DOMAIN r = 1 .. Len(r)
  BY <1>1
<1>3. ASSUME NEW i \in 1 .. Len(p) PROVE f(i) \in 1 .. Len(r) /\ p[i] = r[f(i)]
  <2>1. CASE i <= Len(a)
    BY <1>1, <1>2, <2>1
  <2>2. CASE i > Len(a)
    BY <1>1, <1>2, <2>2
  <2> QED
    BY <1>2, <2>1, <2>2
<1>4. \A i, j \in 1 .. Len(p) : i < j => f(i) < f(j)
  BY <1>2
<1>5. \A i, j \in 1 .. Len(p) : f(i) = f(j) => i = j
  BY <1>2
<1> HIDE DEF r, p, f
<1>6. ToSet(p) \subseteq ToSet(r)
  BY <1>2, <1>3 DEF ToSet
<1>7. IsInjective(r) => IsInjective(p)
  BY <1>2, <1>3, <1>5 DEF IsInjective
<1>8. Ordered(r, b, x) => Ordered(p, b, x)
  BY <1>2, <1>3, <1>4 DEF Ordered
<1> QED
  BY <1>2, <1>6, <1>7, <1>8 DEF r, p

-----------------------------------------------------------------------------
(* What a step does to what a subscriber received, and to the calls.       *)

Keeps(s) == Received(s)' = Received(s)

Gains(s, n) == Received(s)' = Append(Received(s), n)

\* The writer gives up on the notification it holds, or the console has ended.
Loses(s) ==
  /\ wr[s].pc = "write" /\ Received(s)' = got[s] \o << >> \o chan[s].q
  /\ rd'[s] # "read" \/ wr'[s].pc = "unsub"

Fills(s) ==
  /\ s \in Client /\ PushHistory(s)
  /\ Received(s) = << >> /\ Received(s)' = hand[s].left

LEMMA ReceivedTypes ==
  ASSUME TypeOK, Phases, NEW s \in Sub
  PROVE  /\ got[s] \in Seq(Note) /\ chan[s].q \in Seq(Note) /\ chan[s] \in [q : Seq(Note), closed : BOOLEAN]
         /\ wr[s].pc = "write" => wr[s].note \in Note
         /\ Received(s) \in Seq(Note)
<1>1. /\ got[s] \in Seq(Note) /\ chan[s].q \in Seq(Note) /\ chan[s] \in [q : Seq(Note), closed : BOOLEAN]
      /\ wr[s].pc = "write" => wr[s].note \in Note
  BY TypeParts DEF QueueTypes, GotTypes, Phases
<1>2. (IF wr[s].pc = "write" THEN <<wr[s].note>> ELSE << >>) \in Seq(Note)
  BY <1>1
<1> QED
  BY <1>1, <1>2 DEF Received

LEMMA SameKeeps ==
  ASSUME NEW s, got'[s] = got[s], chan'[s].q = chan[s].q,
         wr'[s] = wr[s] \/ (wr[s].pc # "write" /\ wr'[s].pc # "write")
  PROVE  Keeps(s)
BY DEF Keeps, Received

\* A channel whose contents are replaced.
LEMMA ChanSet ==
  ASSUME NEW f \in [Sub -> [q : Seq(Note), closed : BOOLEAN]], NEW s \in Sub, NEW t, NEW g,
         g = [f EXCEPT ![s].q = t]
  PROVE  g[s].q = t /\ \A r \in Sub \ {s} : g[r] = f[r]
OBVIOUS

\* The next notification goes from the channel to the writer.
LEMMA ReceiveKeeps ==
  ASSUME TypeOK, Phases, NEW s \in Sub, wr[s].pc = "select", chan[s].q # << >>,
         chan' = [chan EXCEPT ![s].q = Tail(@)], UNCHANGED got,
         wr' = [wr EXCEPT ![s] = [pc |-> "write", note |-> Head(chan[s].q)]]
  PROVE  Keeps(s)
<1>1. got[s] \in Seq(Note) /\ chan[s].q \in Seq(Note)
  BY ReceivedTypes
<1>2. chan'[s].q = Tail(chan[s].q) /\ wr'[s] = [pc |-> "write", note |-> Head(chan[s].q)]
  <2>1. s \in DOMAIN wr /\ chan \in [Sub -> [q : Seq(Note), closed : BOOLEAN]]
    BY TypeParts DEF QueueTypes, PumpTypes
  <2>2. chan'[s].q = Tail(chan[s].q)
    <3> DEFINE t == Tail(chan[s].q)
    <3>1. chan' = [chan EXCEPT ![s].q = t]
      BY Zenon
    <3> HIDE DEF t
    <3>2. chan'[s].q = t
      BY <2>1, <3>1, ChanSet
    <3> QED
      BY <3>2 DEF t
  <2>3. wr'[s] = [pc |-> "write", note |-> Head(chan[s].q)]
    BY <2>1
  <2> QED
    BY <2>2, <2>3
<1>3. Received(s)' = got[s] \o <<Head(chan[s].q)>> \o Tail(chan[s].q)
  <2> DEFINE h == Head(chan[s].q)
             t == Tail(chan[s].q)
  <2>1. got' = got /\ chan'[s].q = t /\ wr'[s].note = h /\ wr'[s].pc = "write"
    BY <1>2
  <2> HIDE DEF h, t
  <2>2. Received(s)' = got[s] \o <<h>> \o t
    BY <2>1 DEF Received
  <2> QED
    BY <2>2 DEF h, t
<1>4. Received(s) = got[s] \o << >> \o chan[s].q
  BY DEF Received
<1> QED
  BY <1>1, <1>3, <1>4, TakeHead DEF Keeps

\* The writer is done with a notification and gives it to its subscriber.
LEMMA WriteKeeps ==
  ASSUME TypeOK, Phases, NEW s \in Sub, wr[s].pc = "write",
         got' = [got EXCEPT ![s] = Append(@, wr[s].note)], UNCHANGED chan,
         wr' = [wr EXCEPT ![s] = [pc |-> "select", note |-> None]]
  PROVE  Keeps(s)
<1>1. got[s] \in Seq(Note) /\ chan[s].q \in Seq(Note) /\ wr[s].note \in Note
  BY ReceivedTypes
<1>2. got'[s] = Append(got[s], wr[s].note) /\ wr'[s].pc = "select"
  <2>1. got \in [Sub -> Seq(Note)] /\ wr \in [Sub -> [pc : {"none", "select", "write", "unsub", "closeConn",
                              "closeSend", "delete", "done"}, note : Note \cup {None}]]
    BY TypeParts DEF GotTypes, PumpTypes
  <2> QED
    BY <2>1
<1>3. Received(s)' = Append(got[s], wr[s].note) \o << >> \o chan[s].q
  BY <1>2 DEF Received
<1>4. Received(s) = got[s] \o <<wr[s].note>> \o chan[s].q
  BY DEF Received
<1> QED
  BY <1>1, <1>3, <1>4, WriteNext DEF Keeps

LEMMA DeliverQueues ==
  ASSUME TypeOK, Phases, NEW e \in Emitter, NEW r \in Sub, NEW s \in Sub, Deliver(e, r)
  PROVE  /\ Keeps(s) \/ (s = r /\ Gains(s, em[e].note))
         /\ s = r => Gains(s, em[e].note) \/ s \in full' \cup panicked' \cup stop
<1>0. got' = got /\ wr' = wr /\ chan \in [Sub -> [q : Seq(Note), closed : BOOLEAN]]
  BY TypeParts DEF Deliver, pumps, QueueTypes
<1>1. ASSUME chan' = chan \/ s # r PROVE Keeps(s)
  <2>1. chan'[s].q = chan[s].q
    BY <1>0, <1>1 DEF Deliver, Callback
  <2> QED
    BY <1>0, <2>1, SameKeeps
<1>2. ASSUME s = r, chan' = [chan EXCEPT ![r].q = Append(@, em[e].note)]
      PROVE  Gains(s, em[e].note)
  <2> DEFINE m == IF wr[s].pc = "write" THEN <<wr[s].note>> ELSE << >>
  <2>1. chan'[s].q = Append(chan[s].q, em[e].note)
    BY <1>0, <1>2
  <2>2. em[e].note \in Note
    BY TypeParts DEF Ntf!TypeOK
  <2>3. got[s] \in Seq(Note) /\ chan[s].q \in Seq(Note) /\ m \in Seq(Note)
    <3>1. wr[s].pc = "write" => wr[s].note \in Note
      BY ReceivedTypes
    <3> QED
      BY <3>1, ReceivedTypes
  <2>4. Received(s) = got[s] \o m \o chan[s].q /\ Received(s)' = got[s] \o m \o chan'[s].q
    BY <1>0 DEF Received
  <2>5. Received(s)' = Append(Received(s), em[e].note)
    <3> HIDE DEF m
    <3>0. ASSUME NEW a \in Seq(Note), NEW b \in Seq(Note), NEW n \in Note
          PROVE  a \o m \o Append(b, n) = Append(a \o m \o b, n)
      BY <2>3, <3>0, AppendLast
    <3>1. got[s] \o m \o Append(chan[s].q, em[e].note) = Append(got[s] \o m \o chan[s].q, em[e].note)
      BY <2>2, <2>3, <3>0
    <3> QED
      BY <2>1, <2>4, <3>1
  <2> QED
    BY <1>2, <2>5 DEF Gains
<1> QED
  <2>1. \/ chan' = [chan EXCEPT ![r].q = Append(@, em[e].note)]
        \/ chan' = chan /\ r \in full' \cup panicked' \cup stop
    BY DEF Deliver, Callback
  <2> QED
    BY <1>1, <1>2, <2>1

LEMMA ClientQueues ==
  ASSUME TypeOK, Phases, NEW c \in Client, NEW s \in Sub,
         Handler(c) \/ Writer(c) \/ WriterStops(c) \/ ReaderFails(c) \/ ConnBreaks(c)
  PROVE  Keeps(s) \/ Loses(s) \/ Fills(s)
<1>0. /\ chan \in [Sub -> [q : Seq(Note), closed : BOOLEAN]] /\ got \in [Sub -> Seq(Note)]
      /\ DOMAIN wr = Sub /\ c \in Sub
  BY TypeParts DEF QueueTypes, GotTypes, PumpTypes, Sub
<1>w. wr \in [Sub -> [pc : {"none", "select", "write", "unsub", "closeConn",
                           "closeSend", "delete", "done"}, note : Note \cup {None}]]
  BY TypeParts DEF PumpTypes
<1>1. CASE HandleWebSocket(c) \/ TakeHistory(c) \/ WriterClosesSend(c) \/ ReaderFails(c) \/ ConnBreaks(c)
           \/ SubscribeClient(c) \/ WriterStops(c) \/ WriterUnsubscribes(c) \/ WriterClosesConn(c)
           \/ WriterDeletes(c)
  <2>1. got' = got /\ chan'[s].q = chan[s].q
    <3>1. CASE WriterClosesSend(c)
      BY <1>0, <3>1 DEF WriterClosesSend
    <3>2. CASE ~WriterClosesSend(c)
      BY <1>1, <3>2 DEF HandleWebSocket, TakeHistory, ReaderFails, ConnBreaks, SubscribeClient,
         WriterStops, WriterUnsubscribes, WriterClosesConn, WriterDeletes, queues
    <3> QED
      BY <3>1, <3>2
  <2>2. wr'[s] = wr[s] \/ (wr[s].pc # "write" /\ wr'[s].pc # "write")
    <3>1. CASE HandleWebSocket(c) \/ TakeHistory(c) \/ ReaderFails(c) \/ ConnBreaks(c)
      BY <3>1 DEF HandleWebSocket, TakeHistory, ReaderFails, ConnBreaks
    <3>2. ASSUME NEW pc, pc # "write", wr[c].pc # "write", wr' = [wr EXCEPT ![c].pc = pc]
          PROVE  wr'[s] = wr[s] \/ (wr[s].pc # "write" /\ wr'[s].pc # "write")
      BY <1>w, <3>2
    <3>3. CASE SubscribeClient(c)
      <4>1. wr[c].pc = "none"
        BY <1>0, <3>3 DEF SubscribeClient, Phases
      <4> QED
        BY <3>2, <3>3, <4>1 DEF SubscribeClient
    <3> QED
      BY <1>1, <3>1, <3>2, <3>3 DEF WriterStops, WriterUnsubscribes, WriterClosesConn, WriterClosesSend,
         WriterDeletes
  <2> QED
    BY <2>1, <2>2, SameKeeps
<1>2. CASE s # c
  <2>1. CASE WriterReceives(c) \/ WriterWrites(c) \/ PushHistory(c)
    <3>1. got'[s] = got[s] /\ wr'[s] = wr[s] /\ chan'[s].q = chan[s].q
      BY <1>0, <1>2, <2>1 DEF WriterReceives, WriterWrites, PushHistory, queues
    <3> QED
      BY <3>1, SameKeeps
  <2> QED
    BY <1>1, <2>1 DEF Handler, Writer
<1>3. CASE PushHistory(c) /\ s = c
  <2>1. hand[c].left \in Seq(Note) /\ chan[c].q = << >> /\ got[c] = << >> /\ wr[c].pc = "none"
    BY <1>0, <1>3, TypeParts DEF PushHistory, Phases, PumpTypes
  <2>2. /\ << >> \o << >> = << >> /\ << >> \o hand[c].left = hand[c].left
        /\ (<< >> \o << >>) \o hand[c].left = hand[c].left
    BY <2>1, ConcatEmptySeq
  <2>3. got' = got /\ wr' = wr /\ chan'[c].q = << >> \o hand[c].left
    BY <1>0, <1>3, <2>1 DEF PushHistory
  <2>4. Received(c) = << >> /\ Received(c)' = hand[c].left
    BY <2>1, <2>2, <2>3 DEF Received
  <2> QED
    BY <1>3, <2>4 DEF Fills
<1>4. CASE WriterReceives(c) /\ s = c
  BY <1>4, ReceiveKeeps DEF WriterReceives
<1>5. CASE WriterWrites(c) /\ s = c
  <2>1. CASE got' = [got EXCEPT ![c] = Append(@, wr[c].note)]
             /\ wr' = [wr EXCEPT ![c] = [pc |-> "select", note |-> None]]
    <3>1. UNCHANGED chan /\ wr[c].pc = "write"
      BY <1>5 DEF WriterWrites, queues
    <3> QED
      BY <1>5, <2>1, <3>1, WriteKeeps
  <2>2. CASE UNCHANGED got /\ wr' = [wr EXCEPT ![c] = [pc |-> "unsub", note |-> None]]
    <3>1. UNCHANGED chan /\ wr[c].pc = "write" /\ wr'[c].pc = "unsub"
      BY <1>0, <1>5, <2>2 DEF WriterWrites, queues
    <3> QED
      BY <1>5, <2>2, <3>1 DEF Loses, Received
  <2> QED
    BY <1>5, <2>1, <2>2 DEF WriterWrites
<1> QED
  BY <1>1, <1>2, <1>3, <1>4, <1>5 DEF Handler, Writer

LEMMA ConsoleQueues ==
  ASSUME TypeOK, Phases, NEW k \in Console, NEW s \in Sub, ConsoleStep(k)
  PROVE  Keeps(s) \/ Loses(s)
<1>0. /\ chan \in [Sub -> [q : Seq(Note), closed : BOOLEAN]] /\ got \in [Sub -> Seq(Note)]
      /\ DOMAIN wr = Sub /\ k \in Sub
  BY TypeParts DEF QueueTypes, GotTypes, PumpTypes, Sub
<1>w. wr \in [Sub -> [pc : {"none", "select", "write", "unsub", "closeConn",
                           "closeSend", "delete", "done"}, note : Note \cup {None}]]
  BY TypeParts DEF PumpTypes
<1>1. CASE ConsoleQuits(k) \/ ConsoleCloses(k) \/ ConsoleUnsubscribes(k)
  <2>1. CASE ConsoleQuits(k)
    BY <2>1, SameKeeps DEF ConsoleQuits, queues
  <2>2. CASE ConsoleCloses(k)
    <3>1. got' = got /\ wr' = wr /\ chan'[s].q = chan[s].q
      BY <1>0, <2>2 DEF ConsoleCloses
    <3> QED
      BY <3>1, SameKeeps
  <2>3. CASE ConsoleUnsubscribes(k)
    BY <2>3, SameKeeps DEF ConsoleUnsubscribes, queues
  <2> QED
    BY <1>1, <2>1, <2>2, <2>3
<1>2. CASE s # k
  <2>1. CASE StartConsole(k)
    <3>1. got' = got /\ wr'[s] = wr[s] /\ chan' = chan
      BY <1>0, <1>w, <1>2, <2>1 DEF StartConsole, queues
    <3> QED
      BY <3>1, SameKeeps
  <2>2. CASE ForwarderReceives(k)
    <3>1. got' = got /\ wr'[s] = wr[s]
      BY <1>0, <1>w, <1>2, <2>2 DEF ForwarderReceives
    <3>2. chan'[s] = chan[s]
      BY <1>0, <1>2, <2>2 DEF ForwarderReceives
    <3> QED
      BY <3>1, <3>2, SameKeeps
  <2>3. CASE ForwarderSends(k)
    <3>1. got'[s] = got[s] /\ wr'[s] = wr[s] /\ chan' = chan
      BY <1>0, <1>w, <1>2, <2>3 DEF ForwarderSends, queues
    <3> QED
      BY <3>1, SameKeeps
  <2> QED
    BY <1>1, <2>1, <2>2, <2>3 DEF ConsoleStep
<1>3. CASE StartConsole(k) /\ s = k
  <2>1. wr[k].pc = "none"
    BY <1>0, <1>3 DEF StartConsole, Phases
  <2>2. got' = got /\ chan' = chan /\ wr'[k].pc = "select"
    BY <1>3, <1>w, <1>0 DEF StartConsole, queues
  <2> QED
    BY <1>3, <2>1, <2>2, SameKeeps
<1>4. CASE ForwarderReceives(k) /\ s = k
  <2>1. CASE chan[k].q # << >> /\ chan' = [chan EXCEPT ![k].q = Tail(@)]
             /\ wr' = [wr EXCEPT ![k] = [pc |-> "write", note |-> Head(chan[k].q)]]
    BY <1>4, <2>1, ReceiveKeeps DEF ForwarderReceives
  <2>2. CASE wr' = [wr EXCEPT ![k].pc = "done"] /\ UNCHANGED chan
    <3>1. got' = got /\ wr[k].pc = "select" /\ wr'[k].pc = "done"
      BY <1>0, <1>w, <1>4, <2>2 DEF ForwarderReceives
    <3> QED
      BY <1>4, <2>2, <3>1, SameKeeps
  <2> QED
    BY <1>4, <2>1, <2>2 DEF ForwarderReceives
<1>5. CASE ForwarderSends(k) /\ s = k
  <2>0. wr[k].pc = "write" /\ UNCHANGED <<chan, rd>> /\ wr' = [wr EXCEPT ![k] = [pc |-> "select", note |-> None]]
    BY <1>5 DEF ForwarderSends, queues
  <2>1. CASE rd[k] = "read"
    BY <1>5, <2>0, <2>1, WriteKeeps DEF ForwarderSends
  <2>2. CASE rd[k] # "read"
    <3>1. wr'[k].pc = "select" /\ got' = got
      BY <1>0, <1>5, <2>0, <2>2 DEF ForwarderSends
    <3> QED
      BY <1>5, <2>0, <2>2, <3>1 DEF Loses, Received
  <2> QED
    BY <2>1, <2>2
<1> QED
  BY <1>1, <1>2, <1>3, <1>4, <1>5 DEF ConsoleStep

-----------------------------------------------------------------------------
(* The four kinds of steps: the invariant is proved for each.              *)

SubscribeOf(s) ==
  /\ Ntf!Subscribe /\ token[s] = None
  /\ token' = [token EXCEPT ![s] = nextToken]
  /\ since' = [since EXCEPT ![s] = emitted]
  /\ UNCHANGED <<queues, got, emitted, by>>
  /\ \A r \in Sub : Keeps(r) /\ (r # s /\ Serves(r)' => Serves(r))

\* Nothing is emitted, called or subscribed, and nobody begins to be served.
Calm ==
  /\ UNCHANGED <<em, buffer, head, count, nextToken, emitted, by, token, since, full, panicked>>
  /\ \A s \in Sub : /\ Keeps(s) \/ Loses(s) \/ Fills(s)
                    /\ Serves(s)' => Serves(s)

LEMMA SubscribeClientKind ==
  ASSUME TypeOK, Phases, NEW c \in Client, SubscribeClient(c) PROVE SubscribeOf(c)
<1>1. c \in Sub /\ wr[c].pc = "none" /\ token[c] = None
  BY DEF SubscribeClient, Phases, Sub
<1>2. /\ wr \in [Sub -> [pc : {"none", "select", "write", "unsub", "closeConn",
                           "closeSend", "delete", "done"}, note : Note \cup {None}]]
      /\ rd \in [Sub -> {"none", "read", "close", "unsub", "done"}]
  BY TypeParts DEF PumpTypes
<1>3. \A r \in Sub : /\ r # c => wr'[r] = wr[r] /\ rd'[r] = rd[r]
                     /\ r = c => wr'[r].pc = "select"
  BY <1>2 DEF SubscribeClient
<1>4. \A r \in Sub : Keeps(r)
  BY <1>1, <1>3, SameKeeps DEF SubscribeClient, queues
<1>5. \A r \in Sub : r # c /\ Serves(r)' => Serves(r)
  BY <1>3 DEF Serves
<1> QED
  BY <1>1, <1>4, <1>5 DEF SubscribeClient, SubscribeOf

LEMMA StartConsoleKind ==
  ASSUME TypeOK, Phases, NEW k \in Console, StartConsole(k) PROVE SubscribeOf(k)
<1>1. k \in Sub /\ wr[k].pc = "none" /\ token[k] = None
  BY DEF StartConsole, Phases, Sub
<1>2. /\ wr \in [Sub -> [pc : {"none", "select", "write", "unsub", "closeConn",
                           "closeSend", "delete", "done"}, note : Note \cup {None}]]
      /\ rd \in [Sub -> {"none", "read", "close", "unsub", "done"}]
  BY TypeParts DEF PumpTypes
<1>3. \A r \in Sub : /\ r # k => wr'[r] = wr[r] /\ rd'[r] = rd[r]
                     /\ r = k => wr'[r].pc = "select"
  BY <1>2 DEF StartConsole
<1>4. \A r \in Sub : Keeps(r)
  BY <1>1, <1>3, SameKeeps DEF StartConsole, queues
<1>5. \A r \in Sub : r # k /\ Serves(r)' => Serves(r)
  BY <1>3 DEF Serves
<1> QED
  BY <1>1, <1>4, <1>5 DEF StartConsole, SubscribeOf

LEMMA ClientKind ==
  ASSUME TypeOK, Phases, NEW c \in Client,
         Handler(c) \/ Writer(c) \/ WriterStops(c) \/ ReaderFails(c) \/ ConnBreaks(c),
         ~SubscribeClient(c)
  PROVE  Calm
<1>0. /\ wr \in [Sub -> [pc : {"none", "select", "write", "unsub", "closeConn",
                           "closeSend", "delete", "done"}, note : Note \cup {None}]]
      /\ rd \in [Sub -> {"none", "read", "close", "unsub", "done"}] /\ c \in Sub
  BY TypeParts DEF PumpTypes, Sub
<1>1. UNCHANGED <<em, buffer, head, count, nextToken, emitted, by, token, since, full, panicked>>
  BY DEF Handler, Writer, HandleWebSocket, TakeHistory, PushHistory, WriterReceives, WriterStops,
     WriterWrites, WriterUnsubscribes, Ntf!Unsubscribe, WriterClosesConn, WriterClosesSend,
     WriterDeletes, ReaderFails, ConnBreaks, ntf, queues, ghosts
<1>2. ASSUME NEW s \in Sub PROVE Serves(s)' => Serves(s)
  <2>1. rd'[s] = "read" => rd[s] = "read"
    BY <1>0 DEF Handler, Writer, HandleWebSocket, TakeHistory, PushHistory, WriterReceives, WriterStops,
       WriterWrites, WriterUnsubscribes, WriterClosesConn, WriterClosesSend,
       WriterDeletes, ReaderFails, ConnBreaks
  <2>2. wr'[s].pc \in {"select", "write"} => wr[s].pc \in {"select", "write"}
    <3>1. CASE WriterReceives(c) \/ WriterWrites(c)
      BY <1>0, <3>1 DEF WriterReceives, WriterWrites
    <3>2. CASE wr' = wr
      BY <3>2
    <3>3. ASSUME NEW pc \in {"unsub", "closeConn", "closeSend", "delete", "done"},
                 wr' = [wr EXCEPT ![c].pc = pc]
          PROVE  wr'[s].pc \in {"select", "write"} => wr[s].pc \in {"select", "write"}
      BY <1>0, <3>3
    <3> QED
      BY <3>1, <3>2, <3>3 DEF Handler, Writer, HandleWebSocket, TakeHistory, PushHistory, WriterStops,
         WriterUnsubscribes, WriterClosesConn, WriterClosesSend, WriterDeletes, ReaderFails, ConnBreaks
  <2> QED
    BY <2>1, <2>2 DEF Serves
<1> QED
  BY <1>1, <1>2, ClientQueues DEF Calm

LEMMA ConsoleKind ==
  ASSUME TypeOK, Phases, NEW k \in Console, ConsoleStep(k), ~StartConsole(k)
  PROVE  Calm
<1>0. /\ wr \in [Sub -> [pc : {"none", "select", "write", "unsub", "closeConn",
                           "closeSend", "delete", "done"}, note : Note \cup {None}]]
      /\ rd \in [Sub -> {"none", "read", "close", "unsub", "done"}] /\ k \in Sub
  BY TypeParts DEF PumpTypes, Sub
<1>1. UNCHANGED <<em, buffer, head, count, nextToken, emitted, by, token, since, full, panicked>>
  BY DEF ConsoleStep, ForwarderReceives, ForwarderSends, ConsoleQuits, ConsoleCloses,
     ConsoleUnsubscribes, Ntf!Unsubscribe, ntf, queues, ghosts
<1>2. ASSUME NEW s \in Sub PROVE Serves(s)' => Serves(s)
  <2>1. rd'[s] = "read" => rd[s] = "read"
    BY <1>0 DEF ConsoleStep, ForwarderReceives, ForwarderSends, ConsoleQuits, ConsoleCloses,
       ConsoleUnsubscribes
  <2>2. wr'[s].pc \in {"select", "write"} => wr[s].pc \in {"select", "write"}
    <3>1. CASE ForwarderReceives(k)
      BY <1>0, <3>1 DEF ForwarderReceives
    <3>2. CASE ForwarderSends(k)
      BY <1>0, <3>2 DEF ForwarderSends
    <3>3. CASE wr' = wr
      BY <3>3
    <3> QED
      BY <3>1, <3>2, <3>3 DEF ConsoleStep, ConsoleQuits, ConsoleCloses, ConsoleUnsubscribes
  <2> QED
    BY <2>1, <2>2 DEF Serves
<1> QED
  BY <1>1, <1>2, ConsoleQueues DEF Calm

LEMMA Kinds ==
  ASSUME TypeOK, Phases, [Next]_vars
  PROVE  \/ \E e \in Emitter : Emit(e)
         \/ \E e \in Emitter, s \in Sub : Deliver(e, s)
         \/ \E s \in Sub : SubscribeOf(s)
         \/ Calm
<1>1. CASE UNCHANGED vars
  BY <1>1 DEF vars, ntf, Calm, Keeps, Received, Serves
<1> QED
  BY <1>1, SubscribeClientKind, StartConsoleKind, ClientKind, ConsoleKind DEF Next, ConsoleStep, Handler, Sub

-----------------------------------------------------------------------------
(* The invariant is inductive: emitters, history, tokens.                  *)

LEMMA EmitFacts ==
  ASSUME TypeOK, NEW e \in Emitter, Emit(e)
  PROVE  /\ emitted \in Nat /\ emitted' = emitted + 1 /\ emitted + 1 \in Note
         /\ by' = [by EXCEPT ![emitted + 1] = e] /\ by'[emitted + 1] = e
         /\ \A n \in 1 .. emitted : by'[n] = by[n]
         /\ em[e].left = {} /\ em'[e].note = emitted + 1 /\ em'[e].left = callbacks
         /\ \A f \in Emitter : f # e => em'[f] = em[f]
         /\ Ntf!Store(emitted + 1)
         /\ UNCHANGED <<callbacks, nextToken, token, since, full, panicked>>
         /\ \A s \in Sub : Keeps(s) /\ (Serves(s)' <=> Serves(s))
<1>1. emitted \in Nat /\ emitted + 1 \in Note /\ by \in [Note -> Emitter \cup {None}]
  BY TypeParts, DeliveryAssumption DEF GhostTypes, Emit, Note
<1>2. em \in [Emitter -> [note : Note, left : SUBSET Ntf!Token]]
  BY TypeParts DEF Ntf!TypeOK
<1>3. /\ em[e].left = {} /\ em'[e].note = emitted + 1 /\ em'[e].left = callbacks
      /\ \A f \in Emitter : f # e => em'[f] = em[f]
  BY <1>2 DEF Emit, Ntf!Emit
<1>4. by'[emitted + 1] = e /\ \A n \in 1 .. emitted : by'[n] = by[n]
  BY <1>1 DEF Emit
<1>5. \A s \in Sub : Keeps(s) /\ (Serves(s)' <=> Serves(s))
  BY SameKeeps DEF Emit, queues, pumps, Serves
<1> QED
  BY <1>1, <1>3, <1>4, <1>5 DEF Emit, Ntf!Emit, queues, pumps

LEMMA DeliverFacts ==
  ASSUME TypeOK, Tokens, NEW e \in Emitter, NEW s \in Sub, Deliver(e, s)
  PROVE  /\ token[s] # None /\ token[s] \in em[e].left
         /\ em'[e].note = em[e].note /\ em'[e].left = em[e].left \ {token[s]}
         /\ \A f \in Emitter : f # e => em'[f] = em[f]
         /\ \A r \in Sub : token[r] = token[s] => r = s
         /\ UNCHANGED <<callbacks, nextToken, buffer, head, count, token, since, emitted, by>>
         /\ \A r \in Sub : Serves(r)' <=> Serves(r)
<1>1. em \in [Emitter -> [note : Note, left : SUBSET Ntf!Token]]
  BY TypeParts DEF Ntf!TypeOK
<1>2. /\ em'[e].note = em[e].note /\ em'[e].left = em[e].left \ {token[s]}
      /\ \A f \in Emitter : f # e => em'[f] = em[f]
  BY <1>1 DEF Deliver, Ntf!Deliver
<1>3. \A r \in Sub : token[r] = token[s] => r = s
  BY DEF Tokens, Deliver
<1> QED
  BY <1>2, <1>3 DEF Deliver, Ntf!Deliver, pumps, ghosts, Serves

LEMMA EmittingNext ==
  ASSUME TypeOK, Phases, Tokens, Emitting, [Next]_vars PROVE Emitting'
<1>0. emitted \in Nat /\ nextToken \in Nat
  BY TypeParts, DeliveryAssumption DEF GhostTypes, Ntf!TypeOK
<1>1. ASSUME NEW e \in Emitter, Emit(e) PROVE Emitting'
  <2>1. ASSUME NEW n \in 1 .. emitted' PROVE by'[n] \in Emitter /\ n <= em'[by'[n]].note
    BY <1>0, <1>1, <2>1, EmitFacts DEF Emitting
  <2>2. ASSUME NEW f \in Emitter, em'[f].left # {}
        PROVE  /\ em'[f].note \in 1 .. emitted' /\ by'[em'[f].note] = f
               /\ em'[f].left \subseteq 0 .. nextToken' - 1
    <3>1. CASE f = e
      BY <1>0, <1>1, <3>1, EmitFacts, TypeParts DEF Ntf!TypeOK
    <3>2. CASE f # e
      BY <1>0, <1>1, <2>2, <3>2, EmitFacts DEF Emitting
    <3> QED
      BY <3>1, <3>2
  <2> QED
    BY <2>1, <2>2 DEF Emitting
<1>2. ASSUME NEW e \in Emitter, NEW s \in Sub, Deliver(e, s) PROVE Emitting'
  <2>1. ASSUME NEW f \in Emitter
        PROVE  em'[f].note = em[f].note /\ em'[f].left \subseteq em[f].left
    BY <1>2, DeliverFacts
  <2>2. emitted' = emitted /\ by' = by /\ nextToken' = nextToken
    BY <1>2, DeliverFacts
  <2> QED
    BY <2>1, <2>2 DEF Emitting
<1>3. ASSUME NEW s \in Sub, SubscribeOf(s) PROVE Emitting'
  <2>1. 0 .. nextToken - 1 \subseteq 0 .. nextToken' - 1
    BY <1>0, <1>3 DEF SubscribeOf, Ntf!Subscribe
  <2> QED
    BY <1>3, <2>1 DEF SubscribeOf, Ntf!Subscribe, Emitting
<1>4. CASE Calm
  BY <1>4 DEF Calm, Emitting
<1> QED
  BY <1>1, <1>2, <1>3, <1>4, Kinds

LEMMA RecentNext ==
  ASSUME TypeOK, Phases, Recent, [Next]_vars PROVE Recent'
<1>0. emitted \in Nat /\ count \in Nat /\ bufferSize \in Nat /\ count <= bufferSize
  BY TypeParts, DeliveryAssumption DEF GhostTypes, Ntf!TypeOK
<1>1. ASSUME NEW e \in Emitter, Emit(e) PROVE Recent'
  <2> DEFINE n == emitted + 1
             h == Append(Ring!History, n)
  <2>1. n \in Note /\ Ring!Store(n) /\ emitted' = n
    BY <1>1, EmitFacts DEF Ntf!Store, Ring!Store
  <2>2. Ring!TypeOK /\ Ring!RingInv
    BY RingTypes, TypeParts DEF Recent
  <2>3. Ring!History' = Ring!Log!KeepLatest(h) /\ Ring!RingInv'
    BY <2>1, <2>2, RingAssumption, Ring!StoreAppends
  <2>4. /\ Ring!History \in Seq(Nat) /\ Len(Ring!History) = count
        /\ \A i \in 1 .. count : Ring!History[i] = emitted - count + i
    <3>1. \A i \in 1 .. count : Ring!History[i] = emitted - count + i
      BY DEF Recent, Ring!History, Ntf!History
    <3>2. \A i \in 1 .. count : Ring!History[i] \in Nat
      BY <1>0, <3>1 DEF Recent
    <3> QED
      BY <1>0, <3>1, <3>2 DEF Ring!History
  <2>5. /\ h \in Seq(Nat) /\ Len(h) = count + 1
        /\ \A i \in 1 .. count + 1 : h[i] = emitted - count + i
    BY <1>0, <2>4
  <2>6. count' <= n /\ \A i \in 1 .. count' : Ring!History'[i] = n - count' + i
    <3> HIDE DEF h
    <3>1. CASE bufferSize = 0
      BY <1>0, <2>1, <3>1 DEF Ring!Store
    <3>2. CASE bufferSize > 0 /\ count < bufferSize
      <4>1. count' = count + 1 /\ Ring!Log!KeepLatest(h) = h
        BY <1>0, <2>1, <2>5, <3>2 DEF Ring!Store, Ring!Log!KeepLatest
      <4> QED
        BY <1>0, <2>3, <2>5, <4>1 DEF Recent
    <3>3. CASE bufferSize > 0 /\ count = bufferSize
      <4>1. count' = count /\ Ring!Log!KeepLatest(h) = SubSeq(h, 2, count + 1)
        BY <1>0, <2>1, <2>5, <3>3 DEF Ring!Store, Ring!Log!KeepLatest
      <4>2. \A i \in 1 .. count : SubSeq(h, 2, count + 1)[i] = h[i + 1]
        BY <1>0, <2>5
      <4> QED
        BY <1>0, <2>3, <2>5, <4>1, <4>2 DEF Recent
    <3> QED
      BY <1>0, <3>1, <3>2, <3>3
  <2> QED
    BY <2>1, <2>3, <2>6 DEF Recent, Ring!History, Ntf!History
<1>2. CASE UNCHANGED <<buffer, head, count, emitted>>
  BY <1>2 DEF Recent, Ring!RingInv, Ring!History, Ntf!History
<1> QED
  BY <1>1, <1>2, Kinds DEF Deliver, Ntf!Deliver, ghosts, SubscribeOf, Ntf!Subscribe, Calm

LEMMA TokensNext ==
  ASSUME TypeOK, Phases, Tokens, [Next]_vars PROVE Tokens'
<1>0. nextToken \in Nat /\ token \in [Sub -> Ntf!Token \cup {None}]
  BY TypeParts, DeliveryAssumption DEF PumpTypes, Ntf!TypeOK
<1>1. ASSUME NEW s \in Sub, SubscribeOf(s) PROVE Tokens'
  BY <1>0, <1>1 DEF SubscribeOf, Ntf!Subscribe, Tokens
<1>2. CASE UNCHANGED <<nextToken, token>>
  BY <1>2 DEF Tokens
<1> QED
  BY <1>1, <1>2, Kinds, EmitFacts, DeliverFacts DEF Calm

-----------------------------------------------------------------------------
(* What is received, and what still is to be called.                       *)

\* What the writer passes on or drops.
LEMMA Thins ==
  ASSUME TypeOK, Phases, NEW s \in Sub, Keeps(s) \/ Loses(s), NEW b, NEW x
  PROVE  /\ ToSet(Received(s)') \subseteq ToSet(Received(s))
         /\ IsInjective(Received(s)) => IsInjective(Received(s)')
         /\ Ordered(Received(s), b, x) => Ordered(Received(s)', b, x)
         /\ Received(s)' \in Seq(Note)
<1>1. /\ got[s] \in Seq(Note) /\ chan[s].q \in Seq(Note) /\ Received(s) \in Seq(Note)
      /\ wr[s].pc = "write" => wr[s].note \in Note
  BY ReceivedTypes
<1>2. CASE Keeps(s)
  BY <1>1, <1>2 DEF Keeps
<1>3. CASE Loses(s)
  <2>1. /\ wr[s].note \in Note
        /\ Received(s) = got[s] \o <<wr[s].note>> \o chan[s].q
        /\ Received(s)' = got[s] \o << >> \o chan[s].q
    BY <1>1, <1>3 DEF Loses, Received
  <2> DEFINE a == got[s]
             q == chan[s].q
             n == wr[s].note
             r == Received(s)
             p == Received(s)'
  <2>2. a \in Seq(Note) /\ q \in Seq(Note) /\ n \in Note /\ r = a \o <<n>> \o q /\ p = a \o << >> \o q
    BY <1>1, <2>1
  <2> HIDE DEF a, q, n, r, p
  <2>3. /\ ToSet(p) \subseteq ToSet(r) /\ (IsInjective(r) => IsInjective(p))
        /\ (Ordered(r, b, x) => Ordered(p, b, x)) /\ p \in Seq(Note)
    BY <2>2, Thinned
  <2> QED
    BY <2>3 DEF r, p
<1> QED
  BY <1>2, <1>3

\* Before its history is pushed a client is not subscribed.
LEMMA FillsEarly ==
  ASSUME TypeOK, Phases, NEW s \in Sub, Fills(s)
  PROVE  /\ token[s] = None /\ token' = token
         /\ Received(s)' = hand[s].left
         /\ hand[s].left \in Seq(1 .. emitted) /\ Increasing(hand[s].left)
BY DEF Fills, PushHistory, Phases

\* A sequence over a set with the values of a smaller one.
LEMMA SeqWithin ==
  ASSUME NEW S, NEW T, NEW r \in Seq(S), ToSet(r) \subseteq T PROVE r \in Seq(T)
<1>1. Len(r) \in Nat /\ DOMAIN r = 1 .. Len(r) /\ r = [i \in 1 .. Len(r) |-> r[i]]
  OBVIOUS
<1>2. \A i \in 1 .. Len(r) : r[i] \in T
  BY <1>1 DEF ToSet
<1> QED
  BY <1>1, <1>2

LEMMA ToSetWithin ==
  ASSUME NEW S, NEW r \in Seq(S) PROVE ToSet(r) \subseteq S
<1>1. \A i \in DOMAIN r : r[i] \in S
  OBVIOUS
<1> QED
  BY <1>1 DEF ToSet

\* What has been received was emitted.
LEMMA GotEmitted ==
  ASSUME NEW s \in Sub, TypeOK, Phases PROVE Got(s) <=> ToSet(Received(s)) \subseteq 1 .. emitted
<1> DEFINE E == 1 .. emitted
           g == Received(s)
<1>1. g \in Seq(Note)
  BY ReceivedTypes
<1> HIDE DEF E, g
<1>2. g \in Seq(E) <=> ToSet(g) \subseteq E
  BY <1>1, SeqWithin, ToSetWithin
<1> QED
  BY <1>2 DEF E, g, Got

LEMMA GotNext ==
  ASSUME TypeOK, Phases, Tokens, Emitting, [Next]_vars, NEW s \in Sub, Got(s)
  PROVE  Got(s)'
<1> DEFINE E == 1 .. emitted
           F == 1 .. emitted'
           g == Received(s)
           h == Received(s)'
<1>0. emitted \in Nat /\ g \in Seq(E) /\ g \in Seq(Note) /\ ToSet(g) \subseteq E
  BY TypeParts, DeliveryAssumption, ReceivedTypes, GotEmitted DEF GhostTypes, Got
<1> SUFFICES h \in Seq(F)
  BY DEF Got
<1>1. ASSUME NEW e \in Emitter, Emit(e) PROVE h \in Seq(F)
  <2>1. h = g /\ E \subseteq F
    BY <1>0, <1>1, EmitFacts DEF Keeps
  <2> HIDE DEF E, F, g, h
  <2> QED
    BY <1>0, <2>1, SeqWithin
<1>2. ASSUME NEW e \in Emitter, NEW r \in Sub, Deliver(e, r) PROVE h \in Seq(F)
  <2> DEFINE n == em[e].note
  <2>1. n \in E /\ F = E
    BY <1>2, DeliverFacts DEF Emitting
  <2>2. h = g \/ h = Append(g, n)
    BY <1>2, DeliverQueues DEF Keeps, Gains
  <2> HIDE DEF n, E, F, g, h
  <2> QED
    BY <1>0, <2>1, <2>2
<1>3. ASSUME emitted' = emitted, Keeps(s) \/ Loses(s) PROVE h \in Seq(F)
  <2>1. ToSet(h) \subseteq ToSet(g) /\ h \in Seq(Note) /\ F = E
    BY <1>3, Thins
  <2> HIDE DEF E, F, g, h
  <2> QED
    BY <1>0, <2>1, SeqWithin
<1>4. ASSUME emitted' = emitted, Fills(s) PROVE h \in Seq(F)
  BY <1>4, FillsEarly
<1> QED
  BY <1>1, <1>2, <1>3, <1>4, Kinds DEF SubscribeOf, Calm

LEMMA CallsNewNext ==
  ASSUME TypeOK, Phases, Tokens, Emitting, CallsNew, \A s \in Sub : Got(s), [Next]_vars
  PROVE  CallsNew'
<1>0. emitted \in Nat /\ nextToken \in Nat /\ token \in [Sub -> Ntf!Token \cup {None}]
  BY TypeParts, DeliveryAssumption DEF GhostTypes, PumpTypes, Ntf!TypeOK
<1> SUFFICES ASSUME NEW s \in Sub, NEW f \in Emitter, token'[s] # None, token'[s] \in em'[f].left
             PROVE  since'[s] < em'[f].note /\ em'[f].note \notin ToSet(Received(s)')
  BY DEF CallsNew
<1>1. ASSUME NEW e \in Emitter, Emit(e)
      PROVE  since'[s] < em'[f].note /\ em'[f].note \notin ToSet(Received(s)')
  <2>1. Received(s)' = Received(s) /\ token' = token /\ since' = since
    BY <1>1, EmitFacts DEF Keeps
  <2>2. CASE f = e
    <3>1. em'[f].note = emitted + 1 /\ since[s] <= emitted /\ since[s] \in Nat
      BY <1>1, <2>2, EmitFacts, TypeParts, DeliveryAssumption DEF Phases, GhostTypes
    <3>2. ToSet(Received(s)) \subseteq 1 .. emitted
      BY GotEmitted
    <3> QED
      BY <1>0, <2>1, <3>1, <3>2
  <2>3. CASE f # e
    BY <1>1, <2>1, <2>3, EmitFacts DEF CallsNew
  <2> QED
    BY <2>2, <2>3
<1>2. ASSUME NEW e \in Emitter, NEW r \in Sub, Deliver(e, r)
      PROVE  since'[s] < em'[f].note /\ em'[f].note \notin ToSet(Received(s)')
  <2>1. token' = token /\ since' = since /\ em'[f].note = em[f].note /\ token[s] \in em[f].left
        /\ (f = e => s # r)
    BY <1>2, DeliverFacts
  <2>2. since[s] < em[f].note /\ em[f].note \notin ToSet(Received(s))
    BY <2>1 DEF CallsNew
  <2>3. CASE Keeps(s)
    BY <2>1, <2>2, <2>3 DEF Keeps
  <2>4. CASE s = r /\ Gains(s, em[e].note)
    <3>1. em[f].note # em[e].note
      BY <1>2, <2>1, <2>4, DeliverFacts DEF Emitting
    <3>2. Received(s) \in Seq(Note) /\ em[e].note \in Note
      BY ReceivedTypes, TypeParts DEF Ntf!TypeOK
    <3>3. ToSet(Received(s)') = ToSet(Received(s)) \cup {em[e].note}
      BY <2>4, <3>2, AppendSet DEF Gains
    <3> QED
      BY <2>1, <2>2, <3>1, <3>3
  <2> QED
    BY <1>2, <2>3, <2>4, DeliverQueues
<1>3. ASSUME NEW r \in Sub, SubscribeOf(r)
      PROVE  since'[s] < em'[f].note /\ em'[f].note \notin ToSet(Received(s)')
  <2>1. em' = em /\ Received(s)' = Received(s)
    BY <1>3 DEF SubscribeOf, Ntf!Subscribe, Keeps
  <2>2. s # r
    <3>1. em[f].left \subseteq 0 .. nextToken - 1
      BY <1>3, <2>1 DEF Emitting
    <3> QED
      BY <1>0, <1>3, <2>1, <3>1 DEF SubscribeOf
  <2>3. token'[s] = token[s] /\ since'[s] = since[s]
    BY <1>0, <1>3, <2>2, TypeParts DEF SubscribeOf, GhostTypes
  <2> QED
    BY <2>1, <2>3 DEF CallsNew
<1>4. CASE Calm
  <2>1. em' = em /\ token' = token /\ since' = since
    BY <1>4 DEF Calm
  <2>2. since[s] < em[f].note /\ em[f].note \notin ToSet(Received(s))
    BY <2>1 DEF CallsNew
  <2>3. ~Fills(s)
    BY <2>1, FillsEarly
  <2>4. ToSet(Received(s)') \subseteq ToSet(Received(s))
    BY <1>4, <2>3, Thins DEF Calm
  <2> QED
    BY <2>1, <2>2, <2>4
<1> QED
  BY <1>1, <1>2, <1>3, <1>4, Kinds

-----------------------------------------------------------------------------
(* The phases of a subscriber.                                             *)

\* The parts of Phases: ghosts, before the subscription, and what is held.
SincePast == \A s \in Sub : since[s] <= emitted
Early ==
  /\ \A s \in Sub : token[s] = None =>
       /\ wr[s].pc = "none" /\ rd[s] = "none" /\ got[s] = << >>
       /\ Increasing(chan[s].q)
  /\ \A k \in Console : token[k] = None => chan[k].q = << >>
  /\ \A c \in Client : hand[c].pc # "done" => token[c] = None
  /\ \A k \in Console : rd[k] = "none" => token[k] = None
  /\ \A c \in Client : hand[c].pc \in {"none", "history", "push"} => chan[c].q = << >>
Pushes ==
  \A c \in Client : hand[c].pc = "push" =>
    /\ hand[c].left \in Seq(1 .. emitted) /\ Len(hand[c].left) <= bufferSize
    /\ Increasing(hand[c].left)
Holds == \A s \in Sub : wr[s].pc = "write" => wr[s].note \in Note

LEMMA PhaseParts ==
  /\ Phases <=> SincePast /\ Early /\ Pushes /\ Holds
  /\ Phases' <=> SincePast' /\ Early' /\ Pushes' /\ Holds'
BY DEF Phases, SincePast, Early, Pushes, Holds

LEMMA HistoryPushes ==
  ASSUME TypeOK, Recent
  PROVE  /\ Ntf!History \in Seq(1 .. emitted) /\ Len(Ntf!History) <= bufferSize
         /\ Increasing(Ntf!History)
<1>1. emitted \in Nat /\ count \in Nat /\ count <= bufferSize /\ count <= emitted
  BY TypeParts, DeliveryAssumption DEF GhostTypes, Ntf!TypeOK, Recent
<1>2. \A i \in 1 .. count : Ntf!History[i] = emitted - count + i /\ Ntf!History[i] \in 1 .. emitted
  BY <1>1 DEF Recent
<1>3. Ntf!History \in Seq(1 .. emitted) /\ Len(Ntf!History) = count
  BY <1>1, <1>2 DEF Ntf!History
<1> QED
  BY <1>1, <1>2, <1>3 DEF Increasing

LEMMA SincePastNext == ASSUME TypeOK, Phases, Tokens, [Next]_vars PROVE SincePast'
<1>0. emitted \in Nat /\ since \in [Sub -> 0 .. MaxNote] /\ SincePast
  BY TypeParts, PhaseParts, DeliveryAssumption DEF GhostTypes
<1>1. ASSUME NEW e \in Emitter, Emit(e) PROVE SincePast'
  BY <1>0, <1>1, EmitFacts, DeliveryAssumption DEF SincePast
<1>2. ASSUME NEW s \in Sub, SubscribeOf(s) PROVE SincePast'
  BY <1>0, <1>2 DEF SubscribeOf, SincePast
<1>3. CASE UNCHANGED <<emitted, since>>
  BY <1>0, <1>3 DEF SincePast
<1> QED
  BY <1>1, <1>2, <1>3, Kinds, DeliverFacts DEF Calm

LEMMA PushesNext == ASSUME TypeOK, Phases, Recent, [Next]_vars PROVE Pushes'
<1>0. emitted \in Nat /\ DOMAIN hand = Client /\ Pushes
  BY TypeParts, PhaseParts, DeliveryAssumption DEF GhostTypes, PumpTypes
<1>1. ASSUME NEW e \in Emitter, Emit(e) PROVE Pushes'
  <2>1. 1 .. emitted \subseteq 1 .. emitted' /\ hand' = hand
    BY <1>0, <1>1, EmitFacts DEF Emit, pumps
  <2>2. \A r \in Seq(1 .. emitted) : r \in Seq(1 .. emitted')
    <3> DEFINE E == 1 .. emitted
               F == 1 .. emitted'
    <3> SUFFICES ASSUME NEW r \in Seq(E) PROVE r \in Seq(F)
      OBVIOUS
    <3>1. E \subseteq F
      BY <2>1
    <3> HIDE DEF E, F
    <3>2. ToSet(r) \subseteq F
      BY <3>1, ToSetWithin
    <3> QED
      BY <3>2, SeqWithin
  <2> QED
    BY <1>0, <2>1, <2>2 DEF Pushes
<1>2. ASSUME NEW c \in Client, TakeHistory(c) PROVE Pushes'
  BY <1>0, <1>2, HistoryPushes DEF TakeHistory, Pushes, ghosts
<1>3. ASSUME emitted' = emitted, \A c \in Client : hand'[c] = hand[c] \/ hand'[c].pc # "push"
      PROVE  Pushes'
  BY <1>0, <1>3 DEF Pushes
<1>4. ASSUME NEW c \in Client, HandleWebSocket(c) \/ PushHistory(c) \/ SubscribeClient(c) PROVE Pushes'
  <2>1. hand \in [Client -> [pc : {"none", "history", "push", "subscribe", "done"}, left : Seq(Note)]]
    BY TypeParts DEF PumpTypes
  <2>2. \A d \in Client : hand'[d] = hand[d] \/ hand'[d].pc # "push"
    <3>1. ASSUME NEW pc, pc # "push", hand' = [hand EXCEPT ![c].pc = pc], NEW d \in Client
          PROVE  hand'[d] = hand[d] \/ hand'[d].pc # "push"
      BY <2>1, <3>1
    <3>2. ASSUME PushHistory(c), NEW d \in Client PROVE hand'[d] = hand[d] \/ hand'[d].pc # "push"
      BY <2>1, <3>2 DEF PushHistory
    <3> QED
      BY <1>4, <3>1, <3>2 DEF HandleWebSocket, SubscribeClient
  <2>3. emitted' = emitted
    BY <1>4 DEF HandleWebSocket, PushHistory, SubscribeClient, ghosts
  <2> QED
    BY <1>3, <2>2, <2>3
<1>5. CASE UNCHANGED <<hand, emitted>>
  BY <1>3, <1>5
<1>6. ASSUME NEW c \in Client, Writer(c) \/ WriterStops(c) \/ ReaderFails(c) \/ ConnBreaks(c)
      PROVE  UNCHANGED <<hand, emitted>>
  BY <1>6 DEF Writer, WriterReceives, WriterWrites, WriterUnsubscribes, WriterClosesConn,
     WriterClosesSend, WriterDeletes, WriterStops, ReaderFails, ConnBreaks, ghosts
<1>7. ASSUME NEW k \in Console, ConsoleStep(k) PROVE UNCHANGED <<hand, emitted>>
  BY <1>7 DEF ConsoleStep, StartConsole, ForwarderReceives, ForwarderSends, ConsoleQuits,
     ConsoleCloses, ConsoleUnsubscribes, ghosts
<1>8. ASSUME NEW e \in Emitter, NEW s \in Sub, Deliver(e, s) PROVE UNCHANGED <<hand, emitted>>
  BY <1>8 DEF Deliver, pumps, ghosts
<1>9. UNCHANGED vars => UNCHANGED <<hand, emitted>>
  BY DEF vars
<1> QED
  BY <1>1, <1>2, <1>4, <1>5, <1>6, <1>7, <1>8, <1>9 DEF Next, Handler

LEMMA EarlyNext == ASSUME TypeOK, Phases, [Next]_vars PROVE Early'
<1>0. /\ Early /\ Client \subseteq Sub /\ Console \subseteq Sub /\ Client \cap Console = {}
      /\ chan \in [Sub -> [q : Seq(Note), closed : BOOLEAN]] /\ got \in [Sub -> Seq(Note)]
      /\ PumpTypes
  BY TypeParts, PhaseParts, DeliveryAssumption DEF QueueTypes, GotTypes, Sub
<1>1. ASSUME NEW c \in Client, HandleWebSocket(c) PROVE Early'
  BY <1>0, <1>1 DEF Early, PumpTypes, HandleWebSocket, queues
<1>2. ASSUME NEW c \in Client, TakeHistory(c) PROVE Early'
  BY <1>0, <1>2 DEF Early, PumpTypes, TakeHistory, queues
<1>3. ASSUME NEW c \in Client, PushHistory(c) PROVE Early'
  <2> DEFINE l == hand[c].left
  <2>1. chan[c].q = << >> /\ Increasing(l) /\ l \in Seq(Note)
    BY <1>0, <1>3, PhaseParts DEF PushHistory, Early, Pushes, PumpTypes
  <2>2. << >> \o l = l
    BY <2>1, ConcatEmptySeq
  <2>3. chan' = [chan EXCEPT ![c].q = l]
    BY <1>3, <2>1, <2>2 DEF PushHistory
  <2> HIDE DEF l
  <2> QED
    BY <1>0, <1>3, <2>1, <2>3 DEF Early, PumpTypes, PushHistory
<1>4. ASSUME NEW c \in Client, SubscribeClient(c) PROVE Early'
  <2>1. nextToken # None
    BY <1>4, TypeParts, DeliveryAssumption DEF SubscribeClient, Ntf!Subscribe, Ntf!TypeOK, MaxToken
  <2> QED
    BY <1>0, <1>4, <2>1 DEF Early, PumpTypes, SubscribeClient, queues
<1>5. ASSUME NEW c \in Client, WriterReceives(c) PROVE Early'
  BY <1>0, <1>5 DEF Early, PumpTypes, WriterReceives, queues
<1>6. ASSUME NEW c \in Client, WriterWrites(c) PROVE Early'
  BY <1>0, <1>6 DEF Early, PumpTypes, WriterWrites, queues
<1>7. ASSUME NEW c \in Client, WriterUnsubscribes(c) PROVE Early'
  BY <1>0, <1>7 DEF Early, PumpTypes, WriterUnsubscribes, queues
<1>8. ASSUME NEW c \in Client, WriterClosesConn(c) PROVE Early'
  BY <1>0, <1>8 DEF Early, PumpTypes, WriterClosesConn, queues
<1>9. ASSUME NEW c \in Client, WriterClosesSend(c) PROVE Early'
  BY <1>0, <1>9 DEF Early, PumpTypes, WriterClosesSend, queues
<1>10. ASSUME NEW c \in Client, WriterDeletes(c) PROVE Early'
  BY <1>0, <1>10 DEF Early, PumpTypes, WriterDeletes, queues
<1>11. ASSUME NEW c \in Client, WriterStops(c) PROVE Early'
  BY <1>0, <1>11 DEF Early, PumpTypes, WriterStops, queues
<1>12. ASSUME NEW c \in Client, ReaderFails(c) PROVE Early'
  BY <1>0, <1>12 DEF Early, PumpTypes, ReaderFails, queues
<1>13. ASSUME NEW c \in Client, ConnBreaks(c) PROVE Early'
  BY <1>0, <1>13 DEF Early, PumpTypes, ConnBreaks, queues
<1>14. ASSUME NEW k \in Console, StartConsole(k) PROVE Early'
  <2>1. nextToken # None
    BY <1>14, TypeParts, DeliveryAssumption DEF StartConsole, Ntf!Subscribe, Ntf!TypeOK, MaxToken
  <2> QED
    <3>0. /\ k \in Sub /\ token \in [Sub -> Ntf!Token \cup {None}]
          /\ DOMAIN wr = Sub /\ DOMAIN rd = Sub
      BY <1>0, TypeParts DEF PumpTypes, Sub
    <3>1. /\ token' = [token EXCEPT ![k] = nextToken]
          /\ wr' = [wr EXCEPT ![k].pc = "select"] /\ rd' = [rd EXCEPT ![k] = "read"]
          /\ UNCHANGED <<chan, hand, got>>
      BY <1>14 DEF StartConsole, queues
    <3>2. /\ \A s \in Sub : token'[s] = None => token[s] = None /\ s # k
          /\ \A s \in Sub \ {k} : wr'[s] = wr[s] /\ rd'[s] = rd[s] /\ token'[s] = token[s]
          /\ rd'[k] = "read"
      BY <2>1, <3>0, <3>1
    <3> QED
      <4>1. k \notin Client
        BY DeliveryAssumption
      <4> QED
        <5>1. (\A s \in Sub : token[s] = None =>
                 /\ wr[s].pc = "none" /\ rd[s] = "none" /\ got[s] = << >>
                 /\ Increasing(chan[s].q))'
          BY <1>0, <3>1, <3>2 DEF Early
        <5>2. /\ (\A j \in Console : token[j] = None => chan[j].q = << >>)'
              /\ (\A j \in Console : rd[j] = "none" => token[j] = None)'
          BY <1>0, <3>1, <3>2 DEF Early
        <5>3. /\ (\A c \in Client : hand[c].pc # "done" => token[c] = None)'
              /\ (\A c \in Client : hand[c].pc \in {"none", "history", "push"} => chan[c].q = << >>)'
          <6>1. \A c \in Client : token'[c] = token[c] /\ hand'[c] = hand[c] /\ chan'[c] = chan[c]
            BY <1>0, <3>1, <3>2, <4>1
          <6>2. /\ \A c \in Client : hand[c].pc # "done" => token[c] = None
                /\ \A c \in Client : hand[c].pc \in {"none", "history", "push"} => chan[c].q = << >>
            BY <1>0 DEF Early
          <6> QED
            BY <6>1, <6>2
        <5> QED
          BY <5>1, <5>2, <5>3 DEF Early
<1>15. ASSUME NEW k \in Console, ForwarderReceives(k) PROVE Early'
  <2>1. token[k] # None /\ k \in Sub /\ DOMAIN chan = Sub /\ DOMAIN wr = Sub
    BY <1>0, <1>15 DEF Early, PumpTypes, ForwarderReceives
  <2>2. /\ \A s \in Sub \ {k} : chan'[s] = chan[s] /\ wr'[s] = wr[s]
        /\ UNCHANGED <<rd, token, got, hand>>
    BY <1>15, <2>1 DEF ForwarderReceives
  <2> QED
    BY <1>0, <2>1, <2>2 DEF Early
<1>16. ASSUME NEW k \in Console, ForwarderSends(k) PROVE Early'
  BY <1>0, <1>16 DEF Early, PumpTypes, ForwarderSends, queues
<1>17. ASSUME NEW k \in Console, ConsoleQuits(k) PROVE Early'
  BY <1>0, <1>17 DEF Early, PumpTypes, ConsoleQuits, queues
<1>18. ASSUME NEW k \in Console, ConsoleCloses(k) PROVE Early'
  BY <1>0, <1>18 DEF Early, PumpTypes, ConsoleCloses, queues
<1>19. ASSUME NEW k \in Console, ConsoleUnsubscribes(k) PROVE Early'
  BY <1>0, <1>19 DEF Early, PumpTypes, ConsoleUnsubscribes, queues
<1>20. ASSUME NEW e \in Emitter, Emit(e) PROVE Early'
  BY <1>0, <1>20 DEF Early, Emit, queues, pumps
<1>21. ASSUME NEW e \in Emitter, NEW s \in Sub, Deliver(e, s) PROVE Early'
  BY <1>0, <1>21 DEF Early, PumpTypes, Deliver, Callback, pumps
<1>22. CASE UNCHANGED vars
  BY <1>0, <1>22 DEF Early, vars
<1> QED
  BY <1>1, <1>2, <1>3, <1>4, <1>5, <1>6, <1>7, <1>8, <1>9, <1>10, <1>11, <1>12, <1>13, <1>14, <1>15, <1>16, <1>17, <1>18, <1>19, <1>20, <1>21, <1>22
  DEF Next, Handler, Writer, ConsoleStep

LEMMA HoldsNext == ASSUME TypeOK, Phases, [Next]_vars PROVE Holds'
<1>0. /\ Holds /\ Client \subseteq Sub /\ Console \subseteq Sub /\ Client \cap Console = {}
      /\ chan \in [Sub -> [q : Seq(Note), closed : BOOLEAN]] /\ got \in [Sub -> Seq(Note)]
      /\ PumpTypes
  BY TypeParts, PhaseParts, DeliveryAssumption DEF QueueTypes, GotTypes, Sub
<1>1. ASSUME NEW c \in Client, HandleWebSocket(c) PROVE Holds'
  BY <1>0, <1>1 DEF Holds, PumpTypes, HandleWebSocket, queues
<1>2. ASSUME NEW c \in Client, TakeHistory(c) PROVE Holds'
  BY <1>0, <1>2 DEF Holds, PumpTypes, TakeHistory, queues
<1>3. ASSUME NEW c \in Client, PushHistory(c) PROVE Holds'
  BY <1>0, <1>3 DEF Holds, PumpTypes, PushHistory, queues
<1>4. ASSUME NEW c \in Client, SubscribeClient(c) PROVE Holds'
  BY <1>0, <1>4 DEF Holds, PumpTypes, SubscribeClient, queues
<1>5. ASSUME NEW c \in Client, WriterReceives(c) PROVE Holds'
  BY <1>0, <1>5 DEF Holds, PumpTypes, WriterReceives, queues
<1>6. ASSUME NEW c \in Client, WriterWrites(c) PROVE Holds'
  <2>1. PICK pc \in {"select", "unsub"} : wr' = [wr EXCEPT ![c] = [pc |-> pc, note |-> None]]
    BY <1>6 DEF WriterWrites
  <2> QED
    BY <1>0, <2>1 DEF Holds, PumpTypes
<1>7. ASSUME NEW c \in Client, WriterUnsubscribes(c) PROVE Holds'
  BY <1>0, <1>7 DEF Holds, PumpTypes, WriterUnsubscribes, queues
<1>8. ASSUME NEW c \in Client, WriterClosesConn(c) PROVE Holds'
  BY <1>0, <1>8 DEF Holds, PumpTypes, WriterClosesConn, queues
<1>9. ASSUME NEW c \in Client, WriterClosesSend(c) PROVE Holds'
  BY <1>0, <1>9 DEF Holds, PumpTypes, WriterClosesSend, queues
<1>10. ASSUME NEW c \in Client, WriterDeletes(c) PROVE Holds'
  BY <1>0, <1>10 DEF Holds, PumpTypes, WriterDeletes, queues
<1>11. ASSUME NEW c \in Client, WriterStops(c) PROVE Holds'
  BY <1>0, <1>11 DEF Holds, PumpTypes, WriterStops, queues
<1>12. ASSUME NEW c \in Client, ReaderFails(c) PROVE Holds'
  BY <1>0, <1>12 DEF Holds, PumpTypes, ReaderFails, queues
<1>13. ASSUME NEW c \in Client, ConnBreaks(c) PROVE Holds'
  BY <1>0, <1>13 DEF Holds, PumpTypes, ConnBreaks, queues
<1>14. ASSUME NEW k \in Console, StartConsole(k) PROVE Holds'
  BY <1>0, <1>14 DEF Holds, PumpTypes, StartConsole, queues
<1>15. ASSUME NEW k \in Console, ForwarderReceives(k) PROVE Holds'
  <2>1. CASE chan[k].q # << >> /\ wr' = [wr EXCEPT ![k] = [pc |-> "write", note |-> Head(chan[k].q)]]
    <3>1. chan[k].q \in Seq(Note)
      BY <1>0
    <3> DEFINE h == Head(chan[k].q)
    <3>2. h \in Note /\ wr' = [wr EXCEPT ![k] = [pc |-> "write", note |-> h]]
      BY <2>1, <3>1
    <3> HIDE DEF h
    <3> QED
      BY <1>0, <3>2 DEF Holds, PumpTypes
  <2>2. CASE wr' = [wr EXCEPT ![k].pc = "done"]
    BY <1>0, <2>2 DEF Holds, PumpTypes
  <2> QED
    BY <1>15, <2>1, <2>2 DEF ForwarderReceives
<1>16. ASSUME NEW k \in Console, ForwarderSends(k) PROVE Holds'
  BY <1>0, <1>16 DEF Holds, PumpTypes, ForwarderSends, queues
<1>17. ASSUME NEW k \in Console, ConsoleQuits(k) PROVE Holds'
  BY <1>0, <1>17 DEF Holds, PumpTypes, ConsoleQuits, queues
<1>18. ASSUME NEW k \in Console, ConsoleCloses(k) PROVE Holds'
  BY <1>0, <1>18 DEF Holds, PumpTypes, ConsoleCloses, queues
<1>19. ASSUME NEW k \in Console, ConsoleUnsubscribes(k) PROVE Holds'
  BY <1>0, <1>19 DEF Holds, PumpTypes, ConsoleUnsubscribes, queues
<1>20. ASSUME NEW e \in Emitter, Emit(e) PROVE Holds'
  BY <1>0, <1>20 DEF Holds, Emit, queues, pumps
<1>21. ASSUME NEW e \in Emitter, NEW s \in Sub, Deliver(e, s) PROVE Holds'
  BY <1>0, <1>21 DEF Holds, PumpTypes, Deliver, Callback, pumps
<1>22. CASE UNCHANGED vars
  BY <1>0, <1>22 DEF Holds, vars
<1> QED
  BY <1>1, <1>2, <1>3, <1>4, <1>5, <1>6, <1>7, <1>8, <1>9, <1>10, <1>11, <1>12, <1>13, <1>14, <1>15, <1>16, <1>17, <1>18, <1>19, <1>20, <1>21, <1>22
  DEF Next, Handler, Writer, ConsoleStep

-----------------------------------------------------------------------------
(* Who is served is registered.                                            *)

LEMMA StoppedNext ==
  ASSUME TypeOK, Phases, [Next]_vars, \A s \in stop : rd[s] = "done"
  PROVE  \A s \in stop' : rd'[s] = "done"
<1>0. PumpTypes /\ Client \subseteq Sub /\ Console \subseteq Sub
  BY TypeParts DEF Sub
<1>1. CASE UNCHANGED <<rd, stop>>
  BY <1>1
<1>2. ASSUME NEW c \in Client, SubscribeClient(c) PROVE \A s \in stop' : rd'[s] = "done"
  <2>1. rd[c] = "none"
    BY <1>0, <1>2 DEF SubscribeClient, Phases
  <2> QED
    BY <1>0, <1>2, <2>1 DEF SubscribeClient, PumpTypes
<1>3. ASSUME NEW c \in Client, ReaderFails(c) PROVE \A s \in stop' : rd'[s] = "done"
  BY <1>0, <1>3 DEF ReaderFails, PumpTypes
<1>4. ASSUME NEW k \in Console, ConsoleStep(k) PROVE \A s \in stop' : rd'[s] = "done"
  BY <1>0, <1>4 DEF ConsoleStep, StartConsole, ForwarderReceives, ForwarderSends, ConsoleQuits,
     ConsoleCloses, ConsoleUnsubscribes, PumpTypes
<1>5. ASSUME NEW c \in Client, Handler(c) \/ Writer(c) \/ WriterStops(c) \/ ConnBreaks(c), ~SubscribeClient(c)
      PROVE  UNCHANGED <<rd, stop>>
  BY <1>5 DEF Handler, Writer, HandleWebSocket, TakeHistory, PushHistory, WriterReceives, WriterWrites, WriterUnsubscribes, WriterClosesConn, WriterClosesSend, WriterDeletes, WriterStops, ConnBreaks
<1>6. ASSUME NEW e \in Emitter, Emit(e) \/ \E s \in Sub : Deliver(e, s) PROVE UNCHANGED <<rd, stop>>
  BY <1>6 DEF Emit, Deliver, pumps
<1>7. UNCHANGED vars => UNCHANGED <<rd, stop>>
  BY DEF vars
<1> QED
  BY <1>1, <1>2, <1>3, <1>4, <1>5, <1>6, <1>7 DEF Next

LEMMA RegisteredNext ==
  ASSUME TypeOK, Phases, Tokens, Registered, [Next]_vars PROVE Registered'
<1>0. callbacks \subseteq 0 .. nextToken - 1 /\ nextToken \in 0 .. MaxToken /\ PumpTypes
  BY TypeParts DEF Ntf!TypeOK
<1>1. \A s \in stop' : rd'[s] = "done"
  BY StoppedNext DEF Registered
<1> SUFFICES ASSUME NEW s \in Sub, Serves(s)' PROVE token'[s] \in callbacks'
  BY <1>1 DEF Registered
<1>2. CASE UNCHANGED <<callbacks, token>> /\ Serves(s)
  BY <1>2 DEF Registered
<1>3. ASSUME NEW r \in Sub, SubscribeOf(r) PROVE token'[s] \in callbacks'
  BY <1>0, <1>3 DEF SubscribeOf, Ntf!Subscribe, Registered, PumpTypes
<1>4. ASSUME NEW r \in Sub, Ntf!Unsubscribe(token[r]), token' = token, ~Serves(r), Serves(s)
      PROVE  token'[s] \in callbacks'
  <2>1. token[s] \in callbacks /\ s # r
    BY <1>4 DEF Registered
  <2>2. token[s] # None
    <3>1. nextToken \in Nat /\ nextToken <= 4 /\ callbacks \subseteq 0 .. nextToken - 1
      BY <1>0 DEF MaxToken
    <3>2. 0 .. nextToken - 1 \subseteq 0 .. 3
      BY <3>1
    <3>3. None \notin 0 .. 3
      BY DeliveryAssumption DEF MaxToken
    <3> QED
      BY <2>1, <3>1, <3>2, <3>3
  <2>3. token[s] # token[r]
    BY <2>1, <2>2 DEF Tokens
  <2> QED
    BY <1>4, <2>1, <2>3 DEF Ntf!Unsubscribe
<1>5. ASSUME NEW c \in Client, WriterUnsubscribes(c) PROVE token'[s] \in callbacks'
  <2>1. c \in Sub /\ Ntf!Unsubscribe(token[c]) /\ token' = token /\ ~Serves(c)
    BY <1>5 DEF WriterUnsubscribes, Serves, Sub
  <2>2. Calm
    BY <1>5, ClientKind DEF Writer, WriterUnsubscribes, SubscribeClient, Phases, Sub
  <2> QED
    BY <1>4, <2>1, <2>2 DEF Calm
<1>6. ASSUME NEW k \in Console, ConsoleUnsubscribes(k) PROVE token'[s] \in callbacks'
  <2>1. k \in Sub /\ Ntf!Unsubscribe(token[k]) /\ token' = token /\ ~Serves(k)
    BY <1>6 DEF ConsoleUnsubscribes, Serves, Sub
  <2>2. Calm
    BY <1>6, ConsoleKind DEF ConsoleStep, ConsoleUnsubscribes, StartConsole
  <2> QED
    BY <1>4, <2>1, <2>2 DEF Calm
<1>7. ASSUME Calm, UNCHANGED callbacks PROVE token'[s] \in callbacks'
  BY <1>2, <1>7 DEF Calm
<1>8. ASSUME NEW e \in Emitter, Emit(e) PROVE token'[s] \in callbacks'
  BY <1>2, <1>8, EmitFacts
<1>9. ASSUME NEW e \in Emitter, NEW r \in Sub, Deliver(e, r) PROVE token'[s] \in callbacks'
  BY <1>2, <1>9, DeliverFacts
<1>10. \/ UNCHANGED callbacks \/ (\E r \in Sub : SubscribeOf(r)) \/ (\E e \in Emitter : Emit(e))
       \/ (\E c \in Client : WriterUnsubscribes(c)) \/ (\E k \in Console : ConsoleUnsubscribes(k))
  <2>1. ASSUME NEW c \in Client, Handler(c) \/ Writer(c) \/ WriterStops(c) \/ ReaderFails(c) \/ ConnBreaks(c),
               ~SubscribeClient(c), ~WriterUnsubscribes(c)
        PROVE  UNCHANGED callbacks
    BY <2>1 DEF Handler, Writer, HandleWebSocket, TakeHistory, PushHistory, WriterReceives, WriterWrites, WriterClosesConn, WriterClosesSend, WriterDeletes, WriterStops, ConnBreaks, ReaderFails, ntf
  <2>2. ASSUME NEW k \in Console, ConsoleStep(k), ~StartConsole(k), ~ConsoleUnsubscribes(k)
        PROVE  UNCHANGED callbacks
    BY <2>2 DEF ConsoleStep, ForwarderReceives, ForwarderSends, ConsoleQuits, ConsoleCloses, ntf
  <2>3. UNCHANGED vars => UNCHANGED callbacks
    BY DEF vars, ntf
  <2> QED
    BY <2>1, <2>2, <2>3, SubscribeClientKind, StartConsoleKind DEF Next, Deliver, Ntf!Deliver, Sub
<1> QED
  BY <1>3, <1>5, <1>6, <1>7, <1>8, <1>9, <1>10, Kinds

-----------------------------------------------------------------------------
(* The theorems.                                                           *)

LEMMA IncreasingOnce ==
  ASSUME NEW r \in Seq(Nat), Increasing(r), NEW b, NEW x
  PROVE  IsInjective(r) /\ Ordered(r, b, x)
<1>1. Len(r) \in Nat /\ DOMAIN r = 1 .. Len(r) /\ \A i \in 1 .. Len(r) : r[i] \in Nat
  OBVIOUS
<1>2. \A i, j \in 1 .. Len(r) : i < j => r[i] < r[j] /\ r[i] # r[j] /\ ~(r[i] > r[j])
  BY <1>1 DEF Increasing
<1>3. IsInjective(r)
  <2> SUFFICES ASSUME NEW i \in 1 .. Len(r), NEW j \in 1 .. Len(r), r[i] = r[j] PROVE i = j
    BY <1>1 DEF IsInjective
  <2>1. ~(i < j) /\ ~(j < i)
    BY <1>2
  <2> QED
    BY <2>1
<1>4. Ordered(r, b, x)
  BY <1>2 DEF Ordered
<1> QED
  BY <1>3, <1>4

LEMMA FillsIncreasing ==
  ASSUME TypeOK, Phases, NEW s \in Sub, Fills(s), NEW b, NEW x
  PROVE  IsInjective(Received(s)') /\ Ordered(Received(s)', b, x)
<1> DEFINE r == Received(s)'
<1>1. r \in Seq(1 .. emitted) /\ Increasing(r)
  BY FillsEarly
<1> DEFINE E == 1 .. emitted
<1>2. r \in Seq(E) /\ E \subseteq Nat
  BY <1>1
<1> HIDE DEF r, E
<1>3. r \in Seq(Nat)
  BY <1>2, ToSetWithin, SeqWithin
<1>4. IsInjective(r) /\ Ordered(r, b, x)
  BY <1>1, <1>3, IncreasingOnce
<1> QED
  BY <1>4 DEF r

LEMMA AtMostOnceNext ==
  ASSUME TypeOK, Phases, Tokens, CallsNew, AtMostOnce, [Next]_vars PROVE AtMostOnce'
<1> SUFFICES ASSUME NEW s \in Sub PROVE IsInjective(Received(s)')
  BY DEF AtMostOnce
<1>1. CASE Keeps(s)
  BY <1>1 DEF Keeps, AtMostOnce
<1>2. ASSUME NEW e \in Emitter, Deliver(e, s), Gains(s, em[e].note) PROVE IsInjective(Received(s)')
  <2> DEFINE g == Received(s)
             n == em[e].note
  <2>1. g \in Seq(Note) /\ n \in Note /\ n \notin ToSet(g) /\ IsInjective(g)
    BY <1>2, ReceivedTypes, TypeParts, DeliverFacts DEF Ntf!TypeOK, CallsNew, AtMostOnce
  <2>2. Received(s)' = Append(g, n)
    BY <1>2 DEF Gains
  <2> HIDE DEF g, n
  <2> QED
    BY <2>1, <2>2, AppendNew
<1>3. CASE Loses(s)
  BY <1>3, Thins DEF AtMostOnce
<1>4. CASE Fills(s)
  BY <1>4, FillsIncreasing
<1> QED
  BY <1>1, <1>2, <1>3, <1>4, Kinds, EmitFacts, DeliverQueues DEF SubscribeOf, Calm

LEMMA OrderIs == InOrder <=> \A s \in Sub : Ordered(Received(s), by, since[s])
BY DEF InOrder, Ordered

LEMMA OrderWillBe == InOrder' <=> \A s \in Sub : Ordered(Received(s)', by', since'[s])
BY DEF InOrder, Ordered

LEMMA InOrderNext ==
  ASSUME TypeOK, Phases, Tokens, Emitting, CallsNew, InOrder, [Next]_vars, \A s \in Sub : Got(s)
  PROVE  InOrder'
<1> SUFFICES ASSUME NEW s \in Sub PROVE Ordered(Received(s)', by', since'[s])
  BY OrderWillBe
<1> DEFINE g == Received(s)
           x == since[s]
<1>0. /\ emitted \in Nat /\ x \in Nat /\ g \in Seq(1 .. emitted) /\ g \in Seq(Note) /\ g \in Seq(Nat)
      /\ Ordered(g, by, x)
  <2>1. emitted \in Nat /\ x \in Nat /\ g \in Seq(1 .. emitted) /\ g \in Seq(Note) /\ Ordered(g, by, x)
    BY OrderIs, ReceivedTypes, TypeParts, DeliveryAssumption DEF Got, GhostTypes
  <2>2. \A i \in DOMAIN g : g[i] \in Nat
    BY <2>1
  <2> HIDE DEF g
  <2>3. g \in Seq(Nat)
    BY <2>1, <2>2
  <2> QED
    BY <2>1, <2>3
<1>1. ASSUME Keeps(s), by' = by, since'[s] = x PROVE Ordered(Received(s)', by', since'[s])
  BY <1>0, <1>1 DEF Keeps
<1>2. ASSUME NEW e \in Emitter, Emit(e) PROVE Ordered(Received(s)', by', since'[s])
  <2>1. /\ Received(s)' = g /\ since' = since
        /\ \A n \in 1 .. emitted : by'[n] = by[n]
    BY <1>2, EmitFacts DEF Keeps
  <2>2. Ordered(g, by, x) /\ \A i \in 1 .. Len(g) : by'[g[i]] = by[g[i]]
    BY <1>0, <2>1
  <2> HIDE DEF g, x
  <2>3. Ordered(g, by', x)
    BY <2>2 DEF Ordered
  <2> QED
    BY <2>1, <2>3 DEF x
<1>3. ASSUME NEW e \in Emitter, Deliver(e, s), Gains(s, em[e].note)
      PROVE  Ordered(Received(s)', by', since'[s])
  <2> DEFINE n == em[e].note
  <2>1. /\ Received(s)' = Append(g, n) /\ by' = by /\ since' = since
        /\ n \in 1 .. emitted /\ by[n] = e /\ x < n
    BY <1>3, DeliverFacts DEF Gains, Emitting, CallsNew
  <2>2. \A m \in 1 .. emitted : by[m] = e => m <= n
    BY DEF Emitting
  <2>3. \A i \in 1 .. Len(g) : g[i] \in 1 .. emitted
    BY <1>0
  <2> HIDE DEF n, g, x
  <2>4. \A i \in 1 .. Len(g) : g[i] > n => by[g[i]] # by[n] /\ n > x
    BY <1>0, <2>1, <2>2, <2>3
  <2>5. n \in Nat
    BY <1>0, <2>1
  <2>6. Ordered(Append(g, n), by, x)
    BY <1>0, <2>4, <2>5, AppendOrdered
  <2> QED
    BY <2>1, <2>6 DEF x
<1>4. ASSUME SubscribeOf(s) PROVE Ordered(Received(s)', by', since'[s])
  <2>1. Received(s)' = g /\ token[s] = None
    BY <1>4 DEF SubscribeOf, Keeps
  <2>2. Increasing(g)
    <3>1. wr[s].pc = "none" /\ got[s] = << >> /\ Increasing(chan[s].q)
      BY <2>1 DEF Phases
    <3>2. << >> \o << >> = << >> /\ << >> \o chan[s].q = chan[s].q
      BY ReceivedTypes, ConcatEmptySeq
    <3>3. g = (<< >> \o << >>) \o chan[s].q
      BY <3>1 DEF Received
    <3>4. g = chan[s].q
      BY <3>2, <3>3
    <3> QED
      BY <3>1, <3>4
  <2> HIDE DEF g
  <2>3. Ordered(g, by', since'[s])
    BY <1>0, <2>2, IncreasingOnce
  <2> QED
    BY <2>1, <2>3
<1>5. ASSUME NEW r \in Sub, SubscribeOf(r), r # s PROVE Keeps(s) /\ by' = by /\ since'[s] = x
  BY <1>5, TypeParts DEF SubscribeOf, GhostTypes
<1>6. CASE Calm
  <2>1. by' = by /\ since'[s] = x
    BY <1>6 DEF Calm
  <2>2. CASE Fills(s)
    BY <2>2, FillsIncreasing
  <2>3. CASE Keeps(s) \/ Loses(s)
    BY <1>0, <2>1, <2>3, Thins
  <2> QED
    BY <1>6, <2>2, <2>3 DEF Calm
<1>7. ASSUME NEW e \in Emitter, NEW r \in Sub, Deliver(e, r), Keeps(s)
      PROVE  by' = by /\ since'[s] = x
  BY <1>7, DeliverFacts
<1> QED
  BY <1>1, <1>2, <1>3, <1>4, <1>5, <1>6, <1>7, Kinds, DeliverQueues

LEMMA NothingLostNext ==
  ASSUME TypeOK, Phases, Tokens, Emitting, Registered, NothingLostUnlessFull, [Next]_vars
  PROVE  NothingLostUnlessFull'
<1> SUFFICES ASSUME NEW s \in Sub, s \notin full' \cup panicked', Serves(s)',
                    NEW n \in since'[s] + 1 .. emitted'
             PROVE  n \in ToSet(Received(s)') \cup Pending(s)'
  BY DEF NothingLostUnlessFull, Serves
<1>0. emitted \in Nat /\ since[s] \in Nat
  BY TypeParts, DeliveryAssumption DEF GhostTypes
<1>1. ASSUME Serves(s), s \notin full \cup panicked, n \in since[s] + 1 .. emitted,
             n \notin ToSet(Received(s))
      PROVE  \E f \in Emitter : n = em[f].note /\ token[s] \in em[f].left
  BY <1>1 DEF NothingLostUnlessFull, Serves, Pending
<1>2. ASSUME NEW f \in Emitter, n = em'[f].note, token'[s] \in em'[f].left
      PROVE  n \in ToSet(Received(s)') \cup Pending(s)'
  BY <1>2 DEF Pending
<1>3. ASSUME NEW e \in Emitter, Emit(e) PROVE n \in ToSet(Received(s)') \cup Pending(s)'
  <2>1. /\ Received(s)' = Received(s) /\ Serves(s) /\ s \notin full \cup panicked
        /\ token' = token /\ since' = since
    BY <1>3, EmitFacts DEF Keeps
  <2>2. CASE n = emitted + 1
    <3>1. em'[e].note = n /\ token'[s] \in em'[e].left
      BY <1>3, <2>1, <2>2, EmitFacts DEF Registered
    <3> QED
      BY <1>2, <3>1
  <2>3. CASE n # emitted + 1 /\ n \notin ToSet(Received(s))
    <3>1. n \in since[s] + 1 .. emitted
      BY <1>0, <1>3, <2>1, <2>3, EmitFacts
    <3>2. PICK f \in Emitter : n = em[f].note /\ token[s] \in em[f].left
      BY <1>1, <2>1, <2>3, <3>1
    <3>3. em'[f] = em[f]
      BY <1>3, <3>2, EmitFacts
    <3> QED
      BY <1>2, <2>1, <3>2, <3>3
  <2> QED
    BY <2>1, <2>2, <2>3
<1>4. ASSUME NEW e \in Emitter, NEW r \in Sub, Deliver(e, r)
      PROVE  n \in ToSet(Received(s)') \cup Pending(s)'
  <2>1. /\ Serves(s) /\ s \notin full \cup panicked /\ n \in since[s] + 1 .. emitted
        /\ token' = token
    BY <1>4, DeliverFacts DEF Deliver, Callback
  <2>2. CASE n \in ToSet(Received(s))
    <3>1. CASE Keeps(s)
      BY <2>2, <3>1 DEF Keeps
    <3>2. CASE Gains(s, em[e].note)
      <4>1. Received(s) \in Seq(Note) /\ em[e].note \in Note
        BY ReceivedTypes, TypeParts DEF Ntf!TypeOK
      <4> QED
        BY <2>2, <3>2, <4>1, AppendSet DEF Gains
    <3> QED
      BY <1>4, <3>1, <3>2, DeliverQueues
  <2>3. CASE n \notin ToSet(Received(s))
    <3>1. PICK f \in Emitter : n = em[f].note /\ token[s] \in em[f].left
      BY <1>1, <2>1, <2>3
    <3>2. CASE f # e \/ s # r
      <4>1. em'[f].note = em[f].note /\ token[s] \in em'[f].left
        BY <1>4, <3>1, <3>2, DeliverFacts
      <4> QED
        BY <1>2, <2>1, <3>1, <4>1
    <3>3. CASE f = e /\ s = r
      <4>1. s \notin stop
        BY <2>1 DEF Registered, Serves
      <4>2. Gains(s, n)
        BY <1>4, <3>1, <3>3, <4>1, DeliverQueues
      <4>3. Received(s) \in Seq(Note) /\ n \in Note
        BY <3>1, ReceivedTypes, TypeParts DEF Ntf!TypeOK
      <4> QED
        BY <4>2, <4>3, AppendSet DEF Gains
    <3> QED
      BY <3>2, <3>3
  <2> QED
    BY <2>2, <2>3
<1>5. ASSUME em' = em, token'[s] = token[s], since'[s] = since[s], emitted' = emitted,
             Serves(s), s \notin full \cup panicked, Keeps(s)
      PROVE  n \in ToSet(Received(s)') \cup Pending(s)'
  BY <1>1, <1>2, <1>5 DEF Keeps
<1>6. ASSUME NEW r \in Sub, SubscribeOf(r) PROVE n \in ToSet(Received(s)') \cup Pending(s)'
  <2>1. CASE s = r
    <3>1. since'[s] = emitted /\ emitted' = emitted
      BY <1>6, <2>1, TypeParts DEF SubscribeOf, GhostTypes
    <3> QED
      BY <1>0, <3>1
  <2>2. CASE s # r
    <3>1. /\ em' = em /\ token'[s] = token[s] /\ since'[s] = since[s] /\ emitted' = emitted
          /\ Serves(s) /\ s \notin full \cup panicked /\ Keeps(s)
      BY <1>6, <2>2, TypeParts DEF SubscribeOf, Ntf!Subscribe, GhostTypes, PumpTypes, queues
    <3> QED
      BY <1>5, <3>1
  <2> QED
    BY <2>1, <2>2
<1>7. CASE Calm
  <2>1. ~Loses(s)
    BY DEF Loses, Serves
  <2>2. Serves(s)
    BY <1>7 DEF Calm
  <2>3. ~Fills(s)
    BY <2>2, FillsEarly DEF Phases, Serves
  <2> QED
    BY <1>5, <1>7, <2>1, <2>2, <2>3 DEF Calm
<1> QED
  BY <1>3, <1>4, <1>6, <1>7, Kinds

LEMMA IInvNext == TypeOK /\ IInv /\ [Next]_vars => IInv'
<1> SUFFICES ASSUME TypeOK, IInv, [Next]_vars PROVE IInv'
  OBVIOUS
<1>1. /\ Emitting /\ Recent /\ Tokens /\ CallsNew /\ Phases /\ Registered
      /\ \A s \in Sub : Got(s)
  BY DEF IInv
<1>2. Emitting' /\ Recent' /\ Tokens' /\ CallsNew' /\ Registered' /\ \A s \in Sub : Got(s)'
  BY <1>1, EmittingNext, RecentNext, TokensNext, CallsNewNext, RegisteredNext, GotNext
<1>3. Phases'
  BY <1>1, SincePastNext, EarlyNext, PushesNext, HoldsNext, PhaseParts
<1> QED
  BY <1>2, <1>3 DEF IInv

LEMMA AtStart ==
  ASSUME Init
  PROVE  TypeOK /\ IInv /\ AtMostOnce /\ InOrder /\ NothingLostUnlessFull
<1>1. /\ em = [e \in Emitter |-> [note |-> CHOOSE n \in Note : TRUE, left |-> {}]]
      /\ (CHOOSE n \in Note : TRUE) \in Note
  <2>1. 1 \in Note
    BY DeliveryAssumption DEF Note
  <2> QED
    BY <2>1 DEF Init, Ntf!Init
<1>2. Ntf!TypeOK
  BY <1>1, DeliveryAssumption DEF Init, Ntf!Init, Ntf!TypeOK, Ntf!Slot, Ntf!Token, MaxToken
<1>3. TypeOK
  <2>1. QueueTypes /\ GotTypes
    BY DeliveryAssumption DEF Init, QueueTypes, GotTypes
  <2>2. GhostTypes /\ PumpTypes
    BY DeliveryAssumption DEF Init, GhostTypes, PumpTypes
  <2> QED
    BY <1>2, <2>1, <2>2, TypeParts
<1>4. \A s \in Sub : Received(s) = << >>
  <2>1. << >> \o << >> \o << >> = << >>
    BY ConcatEmptySeq
  <2> QED
    BY <2>1 DEF Init, Received
<1>5. Emitting /\ Tokens /\ CallsNew /\ Registered
  BY <1>1 DEF Init, Ntf!Init, Emitting, Tokens, CallsNew, Registered, Serves
<1>6. Recent
  BY DeliveryAssumption DEF Init, Ntf!Init, Recent, Ring!RingInv
<1>7. Phases
  <2>1. Increasing(<< >>)
    BY DEF Increasing
  <2> QED
    BY <2>1 DEF Init, Phases, Sub
<1>8. \A s \in Sub : Got(s)
  <2>1. << >> \in Seq(1 .. emitted)
    BY EmptySeq
  <2> QED
    BY <1>4, <2>1 DEF Got
<1>9. AtMostOnce /\ InOrder
  BY <1>4 DEF AtMostOnce, IsInjective, InOrder
<1>10. NothingLostUnlessFull
  BY DEF Init, NothingLostUnlessFull
<1> QED
  BY <1>3, <1>5, <1>6, <1>7, <1>8, <1>9, <1>10 DEF IInv

LEMMA Inductive ==
  Spec => []TypeOK /\ []IInv /\ []AtMostOnce /\ []InOrder /\ []NothingLostUnlessFull
<1>1. TypeOK /\ IInv /\ [Next]_vars => TypeOK' /\ IInv'
  BY TypeNext, IInvNext DEF IInv
<1>2. TypeOK /\ IInv /\ AtMostOnce /\ [Next]_vars => AtMostOnce'
  BY AtMostOnceNext DEF IInv
<1>3. TypeOK /\ IInv /\ InOrder /\ [Next]_vars => InOrder'
  BY InOrderNext DEF IInv
<1>4. TypeOK /\ IInv /\ NothingLostUnlessFull /\ [Next]_vars => NothingLostUnlessFull'
  BY NothingLostNext DEF IInv
<1> QED
  BY AtStart, <1>1, <1>2, <1>3, <1>4, PTL DEF Spec

\* The channels, the goroutines and the tokens of the subscribers stay in range,
\* and no channel holds more than it has room for: pushing the history, which
\* does not look, never blocks (websocket.go:33-36).
THEOREM SubscribersTyped == Spec => []TypeOK
BY Inductive, PTL

\* Whatever is emitted while a client is sent the history and subscribed, and
\* whoever comes and goes, no subscriber is given a notification twice.
THEOREM NoneTwice == Spec => []AtMostOnce
BY Inductive, PTL

\* A subscriber gets the notifications of one emitter in the order in which it
\* emitted them, and the history in order and before everything newer.
THEOREM NoneOutOfOrder == Spec => []InOrder
BY Inductive, PTL

\* A subscriber that is served gets everything that is emitted, unless its
\* channel once was full: Emit does not wait for it (websocket.go:39-46;
\* StartInteractiveConsole has the same select).
THEOREM NoneMissed == Spec => []NothingLostUnlessFull
BY Inductive, PTL
=============================================================================
