-------------------------- MODULE MessagingProofs ---------------------------
(***************************************************************************)
(* Proofs about Messaging, for any peers, callers, streams and pings: type *)
(* correctness, one Send at a time on a stream, no ping left pending, and  *)
(* no round-trip time without an answer.                                   *)
(***************************************************************************)
EXTENDS Messaging, TLAPS

(***************************************************************************)
(* The inductive invariant.  What a caller holds follows from where it is; *)
(* a stream's lock is held exactly by who is inside Send; a nonce in use   *)
(* is drawn; a ping whose answer is under way is not pending any more,     *)
(* so that the caller it wakes leaves nothing behind.                      *)
(***************************************************************************)
CallShape(r) ==
  /\ r.pc = "idle" => r.op = "none"
  /\ r.pc = "next" => r.op = "broadcast"
  /\ r.pc \in {"wait", "cancel"} => r.op = "ping"
  /\ r.pc \in {"lookup", "lock", "send"} => r.op # "none" /\ r.a \in Addr
  /\ r.pc \in {"lock", "send"} => r.s \in Stream
  /\ r.op = "ping" => r.nonce \in Nonce

RecvShape ==
  \A s \in Stream :
    /\ recv[s].pc # "none" => addrOf[s] \in Addr
    /\ recv[s].pc = "deliver" => recv[s].nonce \in Nonce

Shape == TypeOK /\ (\A c \in Caller : CallShape(call[c])) /\ RecvShape

LockHeld ==
  \A c \in Caller, s \in Stream : lock[s] = c <=> (At(c, "send") /\ call[c].s = s)

\* Nonces whose round-trip time is known or about to be.
Answered == rtt \cup {recv[s].nonce : s \in {t \in Stream : recv[t].pc = "deliver"}}

NoncesDrawn == pending \cup Answered \subseteq drawn
NotAnswered == pending \cap Answered = {}
PongsAsked ==
  /\ Answered \subseteq asked
  /\ \A s \in Stream : \A i \in 1 .. Len(back[s]) : back[s][i] \in asked

-----------------------------------------------------------------------------
(* Sequences.                                                              *)

LEMMA TailOfSeq ==
  ASSUME NEW S, NEW q \in Seq(S), q # << >>
  PROVE  /\ Tail(q) \in Seq(S) /\ Head(q) \in S
         /\ Len(q) \in Nat /\ 1 \in 1 .. Len(q) /\ Head(q) = q[1]
         /\ \A i \in 1 .. Len(Tail(q)) : i + 1 \in 1 .. Len(q) /\ Tail(q)[i] = q[i + 1]
OBVIOUS

LEMMA AppendToSeq ==
  ASSUME NEW S, NEW q \in Seq(S), NEW x \in S
  PROVE  /\ Append(q, x) \in Seq(S)
         /\ \A i \in 1 .. Len(Append(q, x)) :
              \/ i \in 1 .. Len(q) /\ Append(q, x)[i] = q[i]
              \/ Append(q, x)[i] = x
OBVIOUS

-----------------------------------------------------------------------------
(* What a caller and the loop of a stream may be.                          *)

CallsOK == call \in [Caller -> Call] /\ \A c \in Caller : CallShape(call[c])

\* A step of a caller keeps CallsOK if the caller's own record is kept right.
LEMMA CallKept ==
  ASSUME CallsOK, NEW c \in Caller, NEW r \in Call, CallShape(r),
         call' = [call EXCEPT ![c] = r]
  PROVE  CallsOK'
BY DEF CallsOK

LEMMA IdleShape ==
  /\ Idle \in Call /\ CallShape(Idle)
  /\ Idle.op = "none" /\ Idle.pc = "idle"
BY DEF Idle, Call, CallShape

LEMMA ReturnedShape ==
  ASSUME CallsOK, NEW c \in Caller, NEW ok \in BOOLEAN, call[c].op # "none"
  PROVE  /\ Returned(c, ok) \in Call /\ CallShape(Returned(c, ok))
         /\ Returned(c, ok).pc \notin {"lookup", "lock", "send"}
<1>0. call[c] \in Call /\ CallShape(call[c])
  BY DEF CallsOK
<1>1. CASE call[c].op = "text"
  BY <1>1, IdleShape DEF Returned
<1>2. CASE call[c].op = "broadcast"
  BY <1>0, <1>2 DEF Returned, Call, CallShape
<1>3. CASE call[c].op = "ping"
  BY <1>0, <1>3 DEF Returned, Call, CallShape
<1> QED
  BY <1>0, <1>1, <1>2, <1>3 DEF Call

LEMMA CallsNext == ASSUME Shape, Next PROVE CallsOK'
<1>0. CallsOK
  BY DEF CallsOK, Shape, TypeOK
<1> USE IdleShape
<1>1. ASSUME NEW c \in Caller, NEW a \in Addr, SendTextMessage(c, a) PROVE CallsOK'
  <2> DEFINE r == [Idle EXCEPT !.op = "text", !.pc = "lookup", !.a = a]
  <2>1. r \in Call /\ CallShape(r)
    BY DEF Call, CallShape
  <2> QED
    BY <1>0, <1>1, <2>1, CallKept DEF SendTextMessage
<1>2. ASSUME NEW c \in Caller, BroadcastTextMessage(c) PROVE CallsOK'
  <2> DEFINE r == [Idle EXCEPT !.op = "broadcast", !.pc = "next", !.todo = StreamAddrs]
  <2>1. r \in Call /\ CallShape(r)
    BY DEF Call, CallShape, StreamAddrs
  <2> QED
    BY <1>0, <1>2, <2>1, CallKept DEF BroadcastTextMessage
<1>3. ASSUME NEW c \in Caller, NEW a \in Addr, NEW n \in Nonce, SendPing(c, a, n) PROVE CallsOK'
  <2> DEFINE r == [Idle EXCEPT !.op = "ping", !.pc = "lookup", !.a = a, !.nonce = n]
  <2>1. r \in Call /\ CallShape(r)
    BY DEF Call, CallShape
  <2> QED
    BY <1>0, <1>3, <2>1, CallKept DEF SendPing
<1>4. ASSUME NEW c \in Caller, BroadcastNext(c) PROVE CallsOK'
  <2>0. call[c] \in Call /\ CallShape(call[c]) /\ call[c].pc = "next"
    BY <1>0, <1>4 DEF CallsOK, BroadcastNext, At
  <2>1. CASE call' = [call EXCEPT ![c] = Idle]
    BY <1>0, <2>1, CallKept
  <2>2. ASSUME NEW a \in call[c].todo,
               call' = [call EXCEPT ![c].pc = "lookup", ![c].a = a, ![c].todo = @ \ {a}]
        PROVE  CallsOK'
    <3> DEFINE r == [call[c] EXCEPT !.pc = "lookup", !.a = a, !.todo = @ \ {a}]
    <3>1. r \in Call /\ CallShape(r)
      BY <2>0 DEF Call, CallShape
    <3>2. call' = [call EXCEPT ![c] = r]
      BY <2>2, <1>0 DEF CallsOK
    <3> QED
      BY <1>0, <3>1, <3>2, CallKept
  <2> QED
    BY <1>4, <2>1, <2>2 DEF BroadcastNext
<1>5. ASSUME NEW c \in Caller, Lookup(c) PROVE CallsOK'
  <2> DEFINE s == streams[call[c].a]
  <2>0. call[c] \in Call /\ CallShape(call[c]) /\ call[c].pc = "lookup" /\ call[c].op # "none"
    BY <1>0, <1>5 DEF CallsOK, Lookup, At, CallShape
  <2>1. s \in Stream \cup {None}
    BY <2>0 DEF Shape, TypeOK, CallShape
  <2>2. CASE s = None
    BY <1>0, <1>5, <2>0, <2>2, ReturnedShape, CallKept DEF Lookup
  <2>3. CASE s # None
    <3> DEFINE r == [call[c] EXCEPT !.pc = "lock", !.s = s]
    <3>1. r \in Call /\ CallShape(r)
      BY <2>0, <2>1, <2>3 DEF Call, CallShape
    <3>2. call' = [call EXCEPT ![c] = r]
      BY <1>5, <2>3, <1>0 DEF CallsOK, Lookup
    <3> QED
      BY <1>0, <3>1, <3>2, CallKept
  <2> QED
    BY <2>2, <2>3
<1>6. ASSUME NEW c \in Caller, LockStream(c) PROVE CallsOK'
  <2> DEFINE r == [call[c] EXCEPT !.pc = "send"]
  <2>0. call[c] \in Call /\ CallShape(call[c]) /\ call[c].pc = "lock"
    BY <1>0, <1>6 DEF CallsOK, LockStream, At
  <2>1. r \in Call /\ CallShape(r)
    BY <2>0 DEF Call, CallShape
  <2>2. call' = [call EXCEPT ![c] = r]
    BY <1>6, <1>0 DEF CallsOK, LockStream
  <2> QED
    BY <1>0, <2>1, <2>2, CallKept
<1>7. ASSUME NEW c \in Caller, Send(c) PROVE CallsOK'
  <2>0. call[c].op # "none"
    BY <1>0, <1>7 DEF CallsOK, Send, At, CallShape
  <2>1. PICK ok \in BOOLEAN : call' = [call EXCEPT ![c] = Returned(c, ok)]
    BY <1>7 DEF Send
  <2> QED
    BY <1>0, <2>0, <2>1, ReturnedShape, CallKept
<1>8. ASSUME NEW c \in Caller, PingAnswered(c) PROVE CallsOK'
  BY <1>0, <1>8, CallKept DEF PingAnswered
<1>9. ASSUME NEW c \in Caller, PingTimesOut(c) PROVE CallsOK'
  <2> DEFINE r == [call[c] EXCEPT !.pc = "cancel"]
  <2>0. call[c] \in Call /\ CallShape(call[c]) /\ call[c].pc = "wait"
    BY <1>0, <1>9 DEF CallsOK, PingTimesOut, At
  <2>1. r \in Call /\ CallShape(r)
    BY <2>0 DEF Call, CallShape
  <2>2. call' = [call EXCEPT ![c] = r]
    BY <1>9, <1>0 DEF CallsOK, PingTimesOut
  <2> QED
    BY <1>0, <2>1, <2>2, CallKept
<1>10. ASSUME NEW c \in Caller, CancelPendingPing(c) PROVE CallsOK'
  BY <1>0, <1>10, CallKept DEF CancelPendingPing
<1>11. CASE UNCHANGED call
  BY <1>0, <1>11 DEF CallsOK
<1>12. ASSUME NEW s \in Stream, RecvStep(s) \/ PeerReceives(s) \/ StreamBreaks(s)
       PROVE  UNCHANGED call
  BY <1>12 DEF RecvStep, HandlePongReceived, DeliverRtt, RecvFails, RecvDeleteConn,
               RecvDeleteStream, PeerReceives, StreamBreaks
<1>13. ASSUME NEW a \in Addr,
              \/ CloseByAddr(a) \/ HandleEnvelope(a)
              \/ \E s \in Stream : SetPeerStream(a, s)
              \/ PeerSends(a)
       PROVE  UNCHANGED call
  BY <1>13 DEF SetPeerStream, CloseByAddr, HandleEnvelope, PeerSends
<1> QED
  BY <1>1, <1>2, <1>3, <1>4, <1>5, <1>6, <1>7, <1>8, <1>9, <1>10, <1>11, <1>12, <1>13
  DEF Next, Command, Step

-----------------------------------------------------------------------------
(* The other variables.                                                    *)

WireOK ==
  /\ up \subseteq Stream
  /\ out \in [Stream -> Seq({"text"} \cup Nonce)]
  /\ back \in [Stream -> Seq(Nonce)]
  /\ lock \in [Stream -> Caller \cup {None}]

PoolOK ==
  /\ streams \in [Addr -> Stream \cup {None}]
  /\ addrOf \in [Stream -> Addr \cup {None}]
  /\ recv \in [Stream -> [pc : {"none", "recv", "deliver", "delConn", "delStream"},
                          nonce : Nonce \cup {None}]]
  /\ RecvShape

PingOK ==
  /\ drawn \subseteq Nonce /\ pending \subseteq Nonce
  /\ rtt \subseteq Nonce /\ asked \subseteq Nonce

ServerOK == inbox \in [Addr -> Seq(Envelope)] /\ panicked \in BOOLEAN

\* The loop of one stream moves on.
LEMMA RecvMoves ==
  ASSUME PoolOK, NEW s \in Stream,
         NEW pc \in {"none", "recv", "deliver", "delConn", "delStream"},
         recv' = [recv EXCEPT ![s].pc = pc]
  PROVE  /\ recv' \in [Stream -> [pc : {"none", "recv", "deliver", "delConn", "delStream"},
                                  nonce : Nonce \cup {None}]]
         /\ recv'[s].pc = pc
         /\ \A t \in Stream : t # s => recv'[t] = recv[t]
BY DEF PoolOK

LEMMA ShapeParts == Shape <=> CallsOK /\ WireOK /\ PoolOK /\ PingOK /\ ServerOK
BY DEF Shape, TypeOK, CallsOK, CallShape, WireOK, PoolOK, PingOK, ServerOK

LEMMA RestNext ==
  ASSUME Shape, Next
  PROVE  WireOK' /\ PoolOK' /\ PingOK' /\ ServerOK'
<1> DEFINE OK == WireOK /\ PoolOK /\ PingOK /\ ServerOK
<1>0. CallsOK /\ OK
  BY ShapeParts
<1> USE DEF pool, wire, ping, server
<1>1. ASSUME NEW c \in Caller, UNCHANGED <<pool, wire, lock, ping, server>> PROVE OK'
  BY <1>0, <1>1 DEF WireOK, PoolOK, RecvShape, PingOK, ServerOK
<1>2. ASSUME NEW c \in Caller, NEW a \in Addr, NEW n \in Nonce, SendPing(c, a, n) PROVE OK'
  BY <1>0, <1>2 DEF SendPing, WireOK, PoolOK, RecvShape, PingOK, ServerOK
<1>3. ASSUME NEW c \in Caller, LockStream(c) PROVE OK'
  BY <1>0, <1>3 DEF LockStream, WireOK, PoolOK, RecvShape, PingOK, ServerOK
<1>4. ASSUME NEW c \in Caller, Send(c) PROVE OK'
  <2>1. call[c].s \in Stream /\ (call[c].op = "ping" => call[c].nonce \in Nonce)
    BY <1>0, <1>4 DEF CallsOK, CallShape, Send, At
  <2> DEFINE m == IF call[c].op = "ping" THEN call[c].nonce ELSE "text"
  <2>2. m \in {"text"} \cup Nonce
    BY <2>1
  <2>3. Append(out[call[c].s], m) \in Seq({"text"} \cup Nonce)
    BY <1>0, <2>1, <2>2, AppendToSeq DEF WireOK
  <2>4. out' \in [Stream -> Seq({"text"} \cup Nonce)]
    BY <1>0, <1>4, <2>3 DEF Send, WireOK
  <2>5. lock' \in [Stream -> Caller \cup {None}]
    BY <1>0, <1>4 DEF Send, WireOK
  <2> QED
    BY <1>0, <1>4, <2>4, <2>5 DEF Send, WireOK, PoolOK, RecvShape, PingOK, ServerOK
<1>5. ASSUME NEW c \in Caller, CancelPendingPing(c) PROVE OK'
  BY <1>0, <1>5 DEF CancelPendingPing, WireOK, PoolOK, RecvShape, PingOK, ServerOK
<1>6. ASSUME NEW s \in Stream, HandlePongReceived(s) PROVE OK'
  <2>1. Tail(back[s]) \in Seq(Nonce) /\ Head(back[s]) \in Nonce
    BY <1>0, <1>6, TailOfSeq DEF WireOK, HandlePongReceived
  <2>2. back' \in [Stream -> Seq(Nonce)]
    BY <1>0, <1>6, <2>1 DEF WireOK, HandlePongReceived
  <2>3. addrOf[s] \in Addr
    BY <1>0, <1>6 DEF PoolOK, RecvShape, HandlePongReceived
  <2>4. PoolOK'
    BY <1>0, <1>6, <2>1, <2>3 DEF HandlePongReceived, PoolOK, RecvShape
  <2> QED
    BY <1>0, <1>6, <2>2, <2>4 DEF HandlePongReceived, WireOK, PingOK, ServerOK
<1>7. ASSUME NEW s \in Stream, DeliverRtt(s) PROVE OK'
  BY <1>0, <1>7 DEF DeliverRtt, WireOK, PoolOK, RecvShape, PingOK, ServerOK
<1>8. ASSUME NEW s \in Stream, RecvFails(s) PROVE OK'
  BY <1>0, <1>8 DEF RecvFails, WireOK, PoolOK, RecvShape, PingOK, ServerOK
<1>9. ASSUME NEW s \in Stream, RecvDeleteConn(s) PROVE OK'
  BY <1>0, <1>9 DEF RecvDeleteConn, WireOK, PoolOK, RecvShape, PingOK, ServerOK
<1>10. ASSUME NEW s \in Stream, RecvDeleteStream(s) PROVE OK'
  <2>1. streams' \in [Addr -> Stream \cup {None}]
    BY <1>0, <1>10 DEF RecvDeleteStream, PoolOK
  <2>2. recv' = [recv EXCEPT ![s].pc = "none"]
    BY <1>10 DEF RecvDeleteStream
  <2>3. PoolOK'
    BY <1>0, <1>10, <2>1, <2>2, RecvMoves DEF RecvDeleteStream, PoolOK, RecvShape
  <2> QED
    BY <1>0, <1>10, <2>3 DEF RecvDeleteStream, WireOK, PingOK, ServerOK
<1>11. ASSUME NEW s \in Stream, PeerReceives(s) PROVE OK'
  <2>1. Tail(out[s]) \in Seq({"text"} \cup Nonce)
    BY <1>0, <1>11, TailOfSeq DEF WireOK, PeerReceives
  <2>2. Head(out[s]) \in Nonce => Append(back[s], Head(out[s])) \in Seq(Nonce)
    BY <1>0, AppendToSeq DEF WireOK
  <2>3. out' \in [Stream -> Seq({"text"} \cup Nonce)]
    BY <1>0, <1>11, <2>1 DEF WireOK, PeerReceives
  <2>4. back' \in [Stream -> Seq(Nonce)]
    BY <1>0, <1>11, <2>2 DEF WireOK, PeerReceives
  <2>5. up' \subseteq Stream
    BY <1>0, <1>11 DEF WireOK, PeerReceives
  <2>6. asked' \subseteq Nonce
    BY <1>0, <1>11 DEF PingOK, PeerReceives
  <2> QED
    BY <1>0, <1>11, <2>3, <2>4, <2>5, <2>6
    DEF PeerReceives, WireOK, PoolOK, RecvShape, PingOK, ServerOK
<1>12. ASSUME NEW s \in Stream, StreamBreaks(s) PROVE OK'
  BY <1>0, <1>12 DEF StreamBreaks, WireOK, PoolOK, RecvShape, PingOK, ServerOK
<1>13. ASSUME NEW a \in Addr, NEW s \in Stream, SetPeerStream(a, s) PROVE OK'
  <2>1. /\ streams' \in [Addr -> Stream \cup {None}]
        /\ addrOf' = [addrOf EXCEPT ![s] = a]
    BY <1>0, <1>13 DEF SetPeerStream, PoolOK
  <2>2. recv' = [recv EXCEPT ![s].pc = "recv"]
    BY <1>13 DEF SetPeerStream
  <2>3. PoolOK'
    BY <1>0, <2>1, <2>2, RecvMoves DEF PoolOK, RecvShape
  <2> QED
    BY <1>0, <1>13, <2>3 DEF SetPeerStream, WireOK, PingOK, ServerOK
<1>14. ASSUME NEW a \in Addr, CloseByAddr(a) PROVE OK'
  BY <1>0, <1>14 DEF CloseByAddr, WireOK, PoolOK, RecvShape, PingOK, ServerOK
<1>15. ASSUME NEW a \in Addr, HandleEnvelope(a) PROVE OK'
  <2>1. Tail(inbox[a]) \in Seq(Envelope)
    BY <1>0, <1>15, TailOfSeq DEF ServerOK, HandleEnvelope
  <2>2. ServerOK'
    BY <1>0, <1>15, <2>1 DEF ServerOK, HandleEnvelope
  <2> QED
    BY <1>0, <1>15, <2>2 DEF HandleEnvelope, WireOK, PoolOK, RecvShape, PingOK
<1>16. ASSUME NEW a \in Addr, PeerSends(a) PROVE OK'
  <2>1. Signed \in Envelope /\ Unsigned \in Envelope
    BY DEF Signed, Unsigned, Envelope
  <2>2. PICK e \in Envelope : inbox' = [inbox EXCEPT ![a] = Append(@, e)]
    BY <1>16, <2>1 DEF PeerSends
  <2>3. Append(inbox[a], e) \in Seq(Envelope)
    BY <1>0, <2>2, AppendToSeq DEF ServerOK
  <2>4. ServerOK'
    BY <1>0, <1>16, <2>2, <2>3 DEF ServerOK, PeerSends
  <2> QED
    BY <1>0, <1>16, <2>4 DEF PeerSends, WireOK, PoolOK, RecvShape, PingOK
<1>17. ASSUME NEW c \in Caller,
              \/ \E a \in Addr : SendTextMessage(c, a)
              \/ BroadcastTextMessage(c) \/ BroadcastNext(c) \/ Lookup(c)
              \/ PingAnswered(c) \/ PingTimesOut(c)
       PROVE  OK'
  BY <1>1, <1>17 DEF SendTextMessage, BroadcastTextMessage, BroadcastNext, Lookup,
                     PingAnswered, PingTimesOut
<1> HIDE DEF OK
<1>18. OK'
  BY <1>2, <1>3, <1>4, <1>5, <1>6, <1>7, <1>8, <1>9, <1>10, <1>11, <1>12, <1>13, <1>14,
     <1>15, <1>16, <1>17
  DEF Next, Command, Step, RecvStep
<1> QED
  BY <1>18 DEF OK

LEMMA ShapeNext == Shape /\ [Next]_vars => Shape'
<1> SUFFICES ASSUME Shape, [Next]_vars PROVE Shape'
  OBVIOUS
<1>1. CASE Next
  <2>1. CallsOK' /\ WireOK' /\ PoolOK' /\ PingOK' /\ ServerOK'
    BY <1>1, CallsNext, RestNext
  <2> QED
    BY <2>1, ShapeParts, PTL
<1>2. CASE UNCHANGED vars
  <2>1. CallsOK'
    BY <1>2, ShapeParts DEF vars, CallsOK
  <2>2. WireOK' /\ PoolOK' /\ PingOK' /\ ServerOK'
    BY <1>2, ShapeParts
    DEF vars, pool, wire, ping, server, WireOK, PoolOK, RecvShape, PingOK, ServerOK
  <2> QED
    BY <2>1, <2>2, ShapeParts, PTL
<1> QED
  BY <1>1, <1>2

LEMMA ShapeInit == Init => Shape
<1> SUFFICES ASSUME Init PROVE Shape
  OBVIOUS
<1>1. CallsOK
  BY IdleShape DEF Init, CallsOK
<1>2. WireOK
  <2>1. << >> \in Seq({"text"} \cup Nonce) /\ << >> \in Seq(Nonce)
    OBVIOUS
  <2> QED
    BY <2>1 DEF Init, WireOK
<1>3. PoolOK /\ PingOK
  BY DEF Init, PoolOK, RecvShape, PingOK
<1>4. ServerOK
  <2>1. << >> \in Seq(Envelope)
    OBVIOUS
  <2> QED
    BY <2>1 DEF Init, ServerOK
<1> QED
  BY <1>1, <1>2, <1>3, <1>4, ShapeParts

\* Every variable keeps its type, and what callers and receive loops refer to
\* exists: no step uses a stream, an address or a nonce that is None.
THEOREM TypeCorrect == Spec => []TypeOK
<1>1. Shape => TypeOK
  BY DEF Shape
<1> QED
  BY <1>1, ShapeInit, ShapeNext, PTL DEF Spec

-----------------------------------------------------------------------------
(* What a caller's step does to the other callers, the locks and the pings. *)

Acts(c) == Command(c) \/ Step(c) \/ LockStream(c)

LEMMA OthersStay ==
  ASSUME Shape, NEW c \in Caller, Acts(c), NEW d \in Caller, d # c
  PROVE  call'[d] = call[d]
BY DEF Shape, TypeOK, Acts, Command, Step, SendTextMessage, BroadcastTextMessage, SendPing,
       BroadcastNext, Lookup, LockStream, Send, PingAnswered, PingTimesOut, CancelPendingPing

\* Only LockStream goes into Send, and only Send comes out.
LEMMA OutsideSend ==
  ASSUME Shape, NEW c \in Caller, Acts(c), ~LockStream(c), ~Send(c)
  PROVE  call[c].pc # "send" /\ call'[c].pc # "send" /\ lock' = lock
<1>0. call \in [Caller -> Call] /\ CallsOK
  BY ShapeParts DEF CallsOK
<1> USE <1>0, IdleShape
<1>1. ASSUME NEW a \in Addr, SendTextMessage(c, a)
      PROVE  call[c].pc # "send" /\ call'[c].pc # "send" /\ lock' = lock
  BY <1>1 DEF SendTextMessage, At, Call
<1>2. CASE BroadcastTextMessage(c)
  BY <1>2 DEF BroadcastTextMessage, At, Call
<1>3. ASSUME NEW a \in Addr, NEW n \in Nonce, SendPing(c, a, n)
      PROVE  call[c].pc # "send" /\ call'[c].pc # "send" /\ lock' = lock
  BY <1>3 DEF SendPing, At, Call
<1>4. CASE BroadcastNext(c)
  <2>1. call[c].pc = "next" /\ lock' = lock /\ call[c] \in Call
    BY <1>0, <1>4 DEF BroadcastNext, At, CallsOK
  <2>2. CASE call' = [call EXCEPT ![c] = Idle]
    BY <1>0, <2>1, <2>2 DEF CallsOK
  <2>3. ASSUME NEW a \in call[c].todo,
               call' = [call EXCEPT ![c].pc = "lookup", ![c].a = a, ![c].todo = @ \ {a}]
        PROVE  call[c].pc # "send" /\ call'[c].pc # "send"
    BY <1>0, <2>1, <2>3 DEF CallsOK, Call
  <2> QED
    BY <1>4, <2>1, <2>2, <2>3 DEF BroadcastNext
<1>5. CASE Lookup(c)
  <2>1. call[c].op # "none" /\ call[c] \in Call
    BY <1>5 DEF CallsOK, Lookup, At, CallShape
  <2>2. CASE streams[call[c].a] = None
    BY <1>5, <2>1, <2>2, ReturnedShape DEF Lookup, At
  <2>3. CASE streams[call[c].a] # None
    BY <1>5, <2>1, <2>3 DEF Lookup, At, Call
  <2> QED
    BY <2>2, <2>3
<1>6. CASE PingAnswered(c)
  BY <1>6 DEF PingAnswered, At
<1>7. CASE PingTimesOut(c)
  BY <1>7 DEF PingTimesOut, At, Call
<1>8. CASE CancelPendingPing(c)
  BY <1>8 DEF CancelPendingPing, At
<1> QED
  BY <1>1, <1>2, <1>3, <1>4, <1>5, <1>6, <1>7, <1>8 DEF Acts, Command, Step

\* A ping stays the caller's until it is answered or cancelled.
LEMMA PingStays ==
  ASSUME Shape, NEW c \in Caller, Acts(c), ~PingAnswered(c), ~CancelPendingPing(c),
         call[c].op = "ping"
  PROVE  call'[c].op = "ping" /\ call'[c].nonce = call[c].nonce
<1>0. call \in [Caller -> Call] /\ CallsOK
  BY ShapeParts DEF CallsOK
<1>1. call[c].pc \notin {"idle", "next"} /\ call[c] \in Call
  BY <1>0 DEF CallsOK, CallShape
<1>2. CASE Lookup(c)
  BY <1>0, <1>1, <1>2 DEF Lookup, Returned, Call
<1>3. CASE LockStream(c)
  BY <1>0, <1>1, <1>3 DEF LockStream, Call
<1>4. CASE Send(c)
  <2>1. PICK ok \in BOOLEAN : call' = [call EXCEPT ![c] = Returned(c, ok)]
    BY <1>4 DEF Send
  <2>2. Returned(c, ok) = [call[c] EXCEPT !.pc = IF ok THEN "wait" ELSE "cancel", !.s = None]
    BY DEF Returned
  <2> QED
    BY <1>0, <1>1, <2>1, <2>2 DEF Call
<1>5. CASE PingTimesOut(c)
  BY <1>0, <1>1, <1>5 DEF PingTimesOut, Call
<1> QED
  BY <1>1, <1>2, <1>3, <1>4, <1>5
  DEF Acts, Command, Step, SendTextMessage, BroadcastTextMessage, SendPing, BroadcastNext, At

\* A step is one caller's, or leaves the callers and the locks alone.
LEMMA WhoSteps ==
  ASSUME [Next]_vars
  PROVE  (\E c \in Caller : Acts(c)) \/ UNCHANGED <<call, lock>>
<1>1. ASSUME NEW s \in Stream, RecvStep(s) \/ PeerReceives(s) \/ StreamBreaks(s)
      PROVE  UNCHANGED <<call, lock>>
  BY <1>1 DEF RecvStep, HandlePongReceived, DeliverRtt, RecvFails, RecvDeleteConn,
              RecvDeleteStream, PeerReceives, StreamBreaks
<1>2. ASSUME NEW a \in Addr,
             \/ CloseByAddr(a) \/ HandleEnvelope(a)
             \/ \E s \in Stream : SetPeerStream(a, s)
             \/ PeerSends(a)
      PROVE  UNCHANGED <<call, lock>>
  BY <1>2 DEF SetPeerStream, CloseByAddr, HandleEnvelope, PeerSends
<1>3. CASE UNCHANGED vars
  BY <1>3 DEF vars
<1> QED
  BY <1>1, <1>2, <1>3 DEF Next, Acts

-----------------------------------------------------------------------------
(* The lock of a stream.                                                   *)

LEMMA LockNext == Shape /\ LockHeld /\ [Next]_vars => LockHeld'
<1> SUFFICES ASSUME Shape, LockHeld, [Next]_vars PROVE LockHeld'
  OBVIOUS
<1>0. /\ call \in [Caller -> Call] /\ CallsOK
      /\ lock \in [Stream -> Caller \cup {None}] /\ None \notin Caller
  BY ShapeParts, MessagingAssumption DEF CallsOK, WireOK
<1>1. CASE UNCHANGED <<call, lock>>
  BY <1>1 DEF LockHeld, At
<1>2. ASSUME NEW c \in Caller, Acts(c), ~LockStream(c), ~Send(c) PROVE LockHeld'
  BY <1>2, OthersStay, OutsideSend DEF LockHeld, At
<1>3. ASSUME NEW c \in Caller, LockStream(c) PROVE LockHeld'
  <2>1. \A d \in Caller : d # c => call'[d] = call[d]
    BY <1>3, OthersStay DEF Acts
  <2>2. call'[c].pc = "send" /\ call'[c].s = call[c].s /\ call[c].pc = "lock"
    BY <1>0, <1>3 DEF LockStream, At, Call
  <2>3. lock[call[c].s] = None /\ lock' = [lock EXCEPT ![call[c].s] = c]
    BY <1>3 DEF LockStream
  <2> QED
    BY <1>0, <2>1, <2>2, <2>3 DEF LockHeld, At
<1>4. ASSUME NEW c \in Caller, Send(c) PROVE LockHeld'
  <2>1. \A d \in Caller : d # c => call'[d] = call[d]
    BY <1>4, OthersStay DEF Acts, Step
  <2>2. call[c].pc = "send" /\ call[c].op # "none" /\ call[c].s \in Stream
    BY <1>0, <1>4 DEF Send, At, CallsOK, CallShape
  <2>3. PICK ok \in BOOLEAN : call' = [call EXCEPT ![c] = Returned(c, ok)]
    BY <1>4 DEF Send
  <2>4. call'[c].pc # "send"
    BY <1>0, <2>2, <2>3, ReturnedShape
  <2>5. lock' = [lock EXCEPT ![call[c].s] = None]
    BY <1>4 DEF Send
  <2> QED
    BY <1>0, <2>1, <2>2, <2>4, <2>5 DEF LockHeld, At
<1> QED
  BY <1>1, <1>2, <1>3, <1>4, WhoSteps

\* However many commands of the console and the web server run at a time, and
\* whatever becomes of the streams, no two are inside Send on one stream, which
\* gRPC forbids (conn_pool.go:12).
THEOREM NoConcurrentSend == Spec => []OneSendAtATime
<1>1. Init => LockHeld
  BY MessagingAssumption, IdleShape DEF Init, LockHeld, At
<1>2. LockHeld /\ Shape => OneSendAtATime
  BY ShapeParts DEF CallsOK, CallShape, LockHeld, OneSendAtATime, At
<1> QED
  BY <1>1, <1>2, ShapeInit, ShapeNext, LockNext, PTL DEF Spec

-----------------------------------------------------------------------------
(* Pending pings.                                                          *)

PingInv == NoncesDrawn /\ NotAnswered /\ PendingAwaited /\ PongsAsked

Pings == <<drawn, pending, rtt, asked, back, recv>>

\* Only the caller of a ping may end it, and not while it is pending.
LEMMA AwaitedKept ==
  ASSUME Shape, PendingAwaited, NotAnswered, NEW c \in Caller, Acts(c),
         ~CancelPendingPing(c), NEW n \in pending
  PROVE  \E d \in Caller : call'[d].op = "ping" /\ call'[d].nonce = n
<1>1. PICK d \in Caller : call[d].op = "ping" /\ call[d].nonce = n
  BY DEF PendingAwaited
<1>2. CASE d # c
  BY <1>1, <1>2, OthersStay
<1>3. CASE d = c
  <2>1. ~PingAnswered(c)
    BY <1>1, <1>3 DEF PingAnswered, NotAnswered, Answered
  <2> QED
    BY <1>1, <1>3, <2>1, PingStays
<1> QED
  BY <1>2, <1>3

LEMMA PingNext == Shape /\ PingInv /\ [Next]_vars => PingInv'
<1> SUFFICES ASSUME Shape, PingInv, [Next]_vars PROVE PingInv'
  OBVIOUS
<1> USE DEF PingInv
<1>1. ASSUME UNCHANGED Pings
      PROVE  NoncesDrawn' /\ NotAnswered' /\ PongsAsked'
  BY <1>1 DEF Pings, NoncesDrawn, NotAnswered, Answered, PongsAsked
<1>2. ASSUME NEW c \in Caller, Acts(c), ~CancelPendingPing(c),
             \A a \in Addr, n \in Nonce : ~SendPing(c, a, n)
      PROVE  PingInv'
  <2>1. UNCHANGED Pings
    BY <1>2 DEF Acts, Command, Step, SendTextMessage, BroadcastTextMessage, BroadcastNext,
       Lookup, LockStream, Send, PingAnswered, PingTimesOut, pool, wire, ping, server, Pings
  <2> QED
    BY <1>1, <1>2, <2>1, AwaitedKept DEF PendingAwaited, Pings
<1>3. ASSUME NEW c \in Caller, NEW a \in Addr, NEW n \in Nonce, SendPing(c, a, n) PROVE PingInv'
  <2>1. /\ n \notin drawn /\ drawn' = drawn \cup {n} /\ pending' = pending \cup {n}
        /\ UNCHANGED <<rtt, asked, back, recv>>
    BY <1>3 DEF SendPing, pool, wire, server
  <2>2. call'[c].op = "ping" /\ call'[c].nonce = n
    BY <1>3, IdleShape DEF SendPing, Shape, TypeOK, Call
  <2>3. Acts(c) /\ ~CancelPendingPing(c)
    BY <1>3 DEF Acts, Command, SendPing, CancelPendingPing, At
  <2>4. PendingAwaited'
    BY <2>1, <2>2, <2>3, AwaitedKept DEF PendingAwaited
  <2>5. Answered' = Answered
    BY <2>1 DEF Answered
  <2> QED
    BY <2>1, <2>4, <2>5 DEF NoncesDrawn, NotAnswered, PongsAsked
<1>4. ASSUME NEW c \in Caller, CancelPendingPing(c) PROVE PingInv'
  <2>1. pending' = pending \ {call[c].nonce} /\ UNCHANGED <<drawn, rtt, asked, back, recv>>
    BY <1>4 DEF CancelPendingPing, pool, wire, server
  <2>2. Answered' = Answered
    BY <2>1 DEF Answered
  <2>3. PendingAwaited'
    <3>1. SUFFICES ASSUME NEW n \in pending'
                   PROVE  \E d \in Caller : call'[d].op = "ping" /\ call'[d].nonce = n
      BY DEF PendingAwaited
    <3>2. PICK d \in Caller : call[d].op = "ping" /\ call[d].nonce = n
      BY <2>1 DEF PendingAwaited
    <3>3. d # c
      BY <2>1, <3>2
    <3> QED
      BY <1>4, <3>2, <3>3, OthersStay DEF Acts, Step
  <2> QED
    BY <2>1, <2>2, <2>3 DEF NoncesDrawn, NotAnswered, PongsAsked
<1>5. ASSUME NEW s \in Stream, HandlePongReceived(s)
      PROVE  NoncesDrawn' /\ NotAnswered' /\ PongsAsked' /\ pending' \subseteq pending
  <2> DEFINE n == Head(back[s])
  <2>1. /\ pending' = pending \ {n} /\ UNCHANGED <<drawn, rtt, asked>>
        /\ back' = [back EXCEPT ![s] = Tail(@)]
        /\ back[s] # << >> /\ recv[s].pc = "recv"
    BY <1>5 DEF HandlePongReceived
  <2>2. back \in [Stream -> Seq(Nonce)] /\ PoolOK
    BY ShapeParts DEF WireOK
  <2>3. n \in asked
    BY <2>1, <2>2, TailOfSeq DEF PongsAsked
  <2>4. \A t \in Stream : \A i \in 1 .. Len(back'[t]) : back'[t][i] \in asked
    BY <2>1, <2>2, TailOfSeq DEF PongsAsked
  <2>5. CASE n \in pending
    <3>1. recv' = [recv EXCEPT ![s] = [pc |-> "deliver", nonce |-> n]]
      BY <1>5, <2>5 DEF HandlePongReceived
    <3>2. Answered' = Answered \cup {n}
      BY <2>1, <2>2, <3>1 DEF Answered, PoolOK
    <3> QED
      BY <2>1, <2>3, <2>4, <2>5, <3>2 DEF NoncesDrawn, NotAnswered, PongsAsked
  <2>6. CASE n \notin pending
    <3>1. Answered' = Answered
      BY <1>5, <2>1, <2>6 DEF Answered, HandlePongReceived
    <3> QED
      BY <2>1, <2>4, <3>1 DEF NoncesDrawn, NotAnswered, PongsAsked
  <2> QED
    BY <2>1, <2>5, <2>6
<1>6. ASSUME NEW s \in Stream, DeliverRtt(s)
      PROVE  NoncesDrawn' /\ NotAnswered' /\ PongsAsked' /\ pending' \subseteq pending
  <2>1. /\ rtt' = rtt \cup {recv[s].nonce} /\ recv[s].pc = "deliver"
        /\ recv' = [recv EXCEPT ![s] = [pc |-> "recv", nonce |-> None]]
        /\ UNCHANGED <<drawn, pending, asked, back>>
    BY <1>6 DEF DeliverRtt, wire
  <2>2. PoolOK
    BY ShapeParts
  <2>3. Answered' = Answered
    BY <2>1, <2>2 DEF Answered, PoolOK
  <2> QED
    BY <2>1, <2>3 DEF NoncesDrawn, NotAnswered, PongsAsked
<1>7. ASSUME NEW s \in Stream,
             \/ RecvFails(s) \/ RecvDeleteConn(s) \/ RecvDeleteStream(s)
             \/ \E a \in Addr : SetPeerStream(a, s)
      PROVE  NoncesDrawn' /\ NotAnswered' /\ PongsAsked' /\ pending' \subseteq pending
  <2>1. UNCHANGED <<drawn, pending, rtt, asked, back>>
    BY <1>7 DEF RecvFails, RecvDeleteConn, RecvDeleteStream, SetPeerStream, wire, ping
  <2>2. PoolOK
    BY ShapeParts
  <2>3. PICK pc \in {"none", "recv", "delConn", "delStream"} : recv' = [recv EXCEPT ![s].pc = pc]
    BY <1>7 DEF RecvFails, RecvDeleteConn, RecvDeleteStream, SetPeerStream
  <2>4. recv[s].pc # "deliver"
    BY <1>7, <2>2, MessagingAssumption
    DEF RecvFails, RecvDeleteConn, RecvDeleteStream, SetPeerStream, PoolOK, RecvShape
  <2>5. {t \in Stream : recv'[t].pc = "deliver"} = {t \in Stream : recv[t].pc = "deliver"}
    BY <2>2, <2>3, <2>4, RecvMoves
  <2>6. Answered' = Answered
    BY <2>1, <2>2, <2>3, <2>4, <2>5, RecvMoves DEF Answered
  <2> QED
    BY <2>1, <2>6 DEF NoncesDrawn, NotAnswered, PongsAsked
<1>8. ASSUME NEW s \in Stream, PeerReceives(s)
      PROVE  NoncesDrawn' /\ NotAnswered' /\ PongsAsked' /\ pending' \subseteq pending
  <2>1. UNCHANGED <<drawn, pending, rtt, recv>> /\ asked \subseteq asked'
    BY <1>8 DEF PeerReceives, pool
  <2>2. Answered' = Answered
    BY <2>1 DEF Answered
  <2>3. CASE UNCHANGED back
    BY <2>1, <2>2, <2>3 DEF NoncesDrawn, NotAnswered, PongsAsked
  <2>4. CASE /\ Head(out[s]) \in Nonce /\ back' = [back EXCEPT ![s] = Append(@, Head(out[s]))]
             /\ asked' = asked \cup {Head(out[s])}
    <3>1. back \in [Stream -> Seq(Nonce)]
      BY ShapeParts DEF WireOK
    <3>2. \A t \in Stream : \A i \in 1 .. Len(back'[t]) : back'[t][i] \in asked'
      BY <2>4, <3>1, AppendToSeq DEF PongsAsked
    <3> QED
      BY <2>1, <2>2, <3>2 DEF NoncesDrawn, NotAnswered, PongsAsked
  <2> QED
    BY <1>8, <2>3, <2>4 DEF PeerReceives
<1>9. ASSUME \/ \E s \in Stream : StreamBreaks(s)
             \/ \E a \in Addr : CloseByAddr(a) \/ HandleEnvelope(a)
             \/ \E a \in Addr : PeerSends(a)
             \/ UNCHANGED vars
      PROVE  UNCHANGED Pings /\ pending' \subseteq pending
  BY <1>9 DEF StreamBreaks, CloseByAddr, HandleEnvelope, PeerSends, vars, pool, wire, ping,
              Pings
<1>10. ASSUME UNCHANGED call, pending' \subseteq pending PROVE PendingAwaited'
  BY <1>10 DEF PendingAwaited
<1>11. ASSUME NEW s \in Stream,
              \/ RecvStep(s) \/ PeerReceives(s) \/ \E a \in Addr : SetPeerStream(a, s)
       PROVE  PingInv'
  <2>1. UNCHANGED call
    BY <1>11 DEF RecvStep, HandlePongReceived, DeliverRtt, RecvFails, RecvDeleteConn,
                 RecvDeleteStream, PeerReceives, SetPeerStream
  <2>2. NoncesDrawn' /\ NotAnswered' /\ PongsAsked' /\ pending' \subseteq pending
    BY <1>5, <1>6, <1>7, <1>8, <1>11 DEF RecvStep
  <2> QED
    BY <1>10, <2>1, <2>2
<1>12. ASSUME \/ \E s \in Stream : StreamBreaks(s)
              \/ \E a \in Addr : CloseByAddr(a) \/ HandleEnvelope(a)
              \/ \E a \in Addr : PeerSends(a)
              \/ UNCHANGED vars
       PROVE  PingInv'
  <2>1. UNCHANGED call
    BY <1>12 DEF StreamBreaks, CloseByAddr, HandleEnvelope, PeerSends, vars
  <2> QED
    BY <1>1, <1>9, <1>10, <1>12, <2>1
<1> QED
  <2>1. ASSUME NEW c \in Caller, Acts(c) PROVE PingInv'
    BY <1>2, <1>3, <1>4, <2>1
  <2> QED
    BY <1>11, <1>12, <2>1 DEF Next, Acts

LEMMA PingInit == Init => PingInv
<1> SUFFICES ASSUME Init PROVE PingInv
  OBVIOUS
<1>1. Answered = {}
  BY DEF Init, Answered
<1>2. \A s \in Stream : 1 .. Len(back[s]) = {}
  BY DEF Init
<1> QED
  BY <1>1, <1>2 DEF Init, PingInv, NoncesDrawn, NotAnswered, PendingAwaited, PongsAsked

\* pendingPings never holds a ping that nobody waits for: one that cannot be sent,
\* is answered, or times out while its pong comes in leaves no entry behind.
THEOREM NoPingLeftPending == Spec => []PendingAwaited
<1>1. PingInv => PendingAwaited
  BY DEF PingInv
<1> QED
  BY <1>1, ShapeInit, ShapeNext, PingInit, PingNext, PTL DEF Spec

\* A round-trip time is known only for a ping that the peer has received.
THEOREM OnlyAnsweredPings == Spec => []PongAnswersItsPing
<1>1. PingInv => PongAnswersItsPing
  BY DEF PingInv, PongsAsked, Answered, PongAnswersItsPing
<1> QED
  BY <1>1, ShapeInit, ShapeNext, PingInit, PingNext, PTL DEF Spec
=============================================================================
