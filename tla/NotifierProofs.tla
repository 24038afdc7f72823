--------------------------- MODULE NotifierProofs ---------------------------
(***************************************************************************)
(* Proofs about Notifier: type correctness, and that the ring buffer and   *)
(* the copied callbacks implement EventLog, for every bufferSize, also 0.  *)
(***************************************************************************)
EXTENDS Notifier, TLAPS

-----------------------------------------------------------------------------
(* Arithmetic of the ring.                                                 *)

\* Positions are at most once around the ring.
LEMMA Around ==
  ASSUME NEW N \in Nat, N > 0, NEW x \in Nat, x < 2 * N
  PROVE  x % N = IF x < N THEN x ELSE x - N
<1>1. CASE x < N
  BY <1>1
<1>2. CASE x >= N
  <2>1. x = 1 * N + (x - N) /\ x - N \in 0 .. N - 1
    BY <1>2
  <2> QED
    BY <2>1, <1>2
<1> QED
  BY <1>1, <1>2

-----------------------------------------------------------------------------
(* Type correctness.                                                       *)

LEMMA StoreTypes ==
  ASSUME TypeOK, NEW n \in Note, Store(n)
  PROVE  /\ buffer' \in [Slot -> Note \cup {None}]
         /\ head' \in Slot \cup {0}
         /\ count' \in 0 .. bufferSize
<1> USE NotifierAssumption DEF TypeOK, Slot
<1>1. CASE bufferSize = 0
  BY <1>1 DEF Store
<1>2. CASE bufferSize > 0
  <2>1. head \in Nat /\ head < bufferSize /\ head + 1 \in Nat /\ head + 1 < 2 * bufferSize
    BY <1>2
  <2>2. (head + 1) % bufferSize \in Slot
    BY <1>2, <2>1, Around
  <2>3. buffer' \in [Slot -> Note \cup {None}]
    BY <1>2 DEF Store
  <2>4. CASE count < bufferSize
    BY <1>2, <2>3, <2>4 DEF Store
  <2>5. CASE ~(count < bufferSize)
    BY <1>2, <2>2, <2>3, <2>5 DEF Store
  <2> QED
    BY <2>4, <2>5
<1> QED
  BY <1>1, <1>2

LEMMA TypeNext == TypeOK /\ [Next]_vars => TypeOK'
<1> SUFFICES ASSUME TypeOK, [Next]_vars PROVE TypeOK'
  OBVIOUS
<1> USE NotifierAssumption
<1>1. CASE Subscribe
  BY <1>1 DEF Subscribe, TypeOK, Token
<1>2. ASSUME NEW token \in Token, Unsubscribe(token) PROVE TypeOK'
  BY <1>2 DEF Unsubscribe, TypeOK
<1>3. ASSUME NEW e \in Emitter, NEW note \in Note, Emit(e, note) PROVE TypeOK'
  <2>1. Store(note)
    BY <1>3 DEF Emit
  <2>2. em' \in [Emitter -> [note : Note, left : SUBSET Token]]
    BY <1>3 DEF Emit, TypeOK, Token
  <2> QED
    BY <1>3, <2>1, <2>2, StoreTypes DEF Emit, TypeOK
<1>4. ASSUME NEW e \in Emitter, NEW token \in Token, Deliver(e, token) PROVE TypeOK'
  BY <1>4 DEF Deliver, TypeOK
<1>5. CASE UNCHANGED vars
  BY <1>5 DEF vars, TypeOK
<1> QED
  BY <1>1, <1>2, <1>3, <1>4, <1>5 DEF Next

\* Heads, counts, tokens and the calls still to make stay in range.
THEOREM TypeCorrect == Spec => []TypeOK
<1>1. Init => TypeOK
  <2>1. (CHOOSE n \in Note : TRUE) \in Note
    BY NotifierAssumption
  <2> QED
    BY <2>1, NotifierAssumption DEF Init, TypeOK, Slot, Token
<1> QED
  BY <1>1, TypeNext, PTL DEF Spec

-----------------------------------------------------------------------------
(* The refinement.  Only the ring needs an invariant.                      *)

\* The ring starts at slot 0 until it is full, and its entries are written.
RingInv ==
  /\ count < bufferSize => head = 0
  /\ \A i \in 1 .. count : History[i] \in Note

\* Storing a notification appends it to the history and drops the oldest entry
\* of a full one.
LEMMA StoreAppends ==
  ASSUME TypeOK, RingInv, NEW n \in Note, Store(n)
  PROVE  History' = Log!KeepLatest(Append(History, n)) /\ RingInv'
<1> USE NotifierAssumption
<1>h. History \in Seq(Note) /\ Len(History) = count /\ count \in Nat
  BY DEF History, TypeOK, RingInv
<1>1. CASE bufferSize = 0
  <2>1. count = 0 /\ count' = 0
    BY <1>1 DEF Store, TypeOK
  <2>2. History = <<>> /\ History' = <<>>
    BY <2>1 DEF History
  <2>3. Log!KeepLatest(Append(History, n)) = <<>>
    BY <1>1, <2>2 DEF Log!KeepLatest
  <2> QED
    BY <1>1, <2>1, <2>2, <2>3 DEF RingInv
<1>2. CASE bufferSize > 0 /\ count < bufferSize
  <2>1. head = 0 /\ head' = 0 /\ count' = count + 1
    BY <1>2 DEF RingInv, Store
  <2>2. \A i \in 0 .. bufferSize - 1 : i % bufferSize = i
    BY <1>2, Around
  <2>3. buffer' = [buffer EXCEPT ![count] = n]
    BY <1>2, <2>1, <2>2 DEF Store, TypeOK
  <2>4. History = [i \in 1 .. count |-> buffer[i - 1]]
    BY <1>2, <2>1, <2>2 DEF History, TypeOK
  <2>5. History' = [i \in 1 .. count + 1 |-> buffer'[i - 1]]
    BY <1>2, <2>1, <2>2 DEF History, TypeOK
  <2>6. \A i \in 1 .. count + 1 : buffer'[i - 1] = IF i = count + 1 THEN n ELSE buffer[i - 1]
    BY <1>2, <2>3 DEF TypeOK, Slot
  <2>7. History' = Append(History, n)
    BY <1>h, <2>4, <2>5, <2>6
  <2>8. Len(Append(History, n)) <= bufferSize
    BY <1>2, <1>h DEF TypeOK
  <2>9. Log!KeepLatest(Append(History, n)) = Append(History, n)
    BY <2>8 DEF Log!KeepLatest
  <2>10. \A i \in 1 .. count + 1 : History'[i] \in Note
    BY <1>h, <2>7
  <2> QED
    BY <2>1, <2>7, <2>9, <2>10 DEF RingInv
<1>3. CASE bufferSize > 0 /\ count = bufferSize
  <2> DEFINE next == (head + 1) % bufferSize
  <2>1. head \in Nat /\ head < bufferSize
    BY <1>3 DEF TypeOK, Slot
  <2>2. /\ next = IF head + 1 = bufferSize THEN 0 ELSE head + 1
        /\ next \in Nat /\ next < bufferSize
    BY <1>3, <2>1, Around
  <2>3. (head + count) % bufferSize = head
    BY <1>3, <2>1, Around
  <2>4. buffer' = [buffer EXCEPT ![head] = n] /\ head' = next /\ count' = count
    BY <1>3, <2>3 DEF Store
  <2>5. ASSUME NEW i \in 1 .. count, i < count
        PROVE  /\ (next + i - 1) % bufferSize = (head + (i + 1) - 1) % bufferSize
               /\ (next + i - 1) % bufferSize \in Slot \ {head}
    <3>1. (head + i) % bufferSize = IF head + i < bufferSize THEN head + i ELSE head + i - bufferSize
      BY <1>3, <2>1, <2>5, Around
    <3>2. (next + i - 1) % bufferSize
            = IF next + i - 1 < bufferSize THEN next + i - 1 ELSE next + i - 1 - bufferSize
      BY <1>3, <2>2, <2>5, Around
    <3> QED
      BY <1>3, <2>1, <2>2, <2>5, <3>1, <3>2 DEF Slot
  <2>6. (next + count - 1) % bufferSize = head
    <3>1. (next + count - 1) % bufferSize
            = IF next + count - 1 < bufferSize THEN next + count - 1
                                               ELSE next + count - 1 - bufferSize
      BY <1>3, <2>2, Around
    <3> QED
      BY <1>3, <2>1, <2>2, <3>1
  <2>7. History' = [i \in 1 .. count |-> buffer'[(next + i - 1) % bufferSize]]
    BY <2>4 DEF History
  <2>8. ASSUME NEW i \in 1 .. count
        PROVE  History'[i] = IF i = count THEN n ELSE History[i + 1]
    <3>1. CASE i = count
      BY <2>4, <2>6, <2>7, <3>1, <2>1 DEF TypeOK, Slot
    <3>2. CASE i < count
      <4>1. i + 1 \in 1 .. count
        BY <3>2, <1>h
      <4>2. History[i + 1] = buffer[(head + (i + 1) - 1) % bufferSize]
        BY <4>1 DEF History
      <4>3. History'[i] = buffer'[(next + i - 1) % bufferSize]
        BY <2>7
      <4>4. buffer'[(next + i - 1) % bufferSize] = buffer[(head + (i + 1) - 1) % bufferSize]
        <5> HIDE DEF next
        <5> QED
          BY <3>2, <2>4, <2>5 DEF TypeOK
      <4> QED
        BY <3>2, <1>h, <4>2, <4>3, <4>4
    <3> QED
      BY <3>1, <3>2, <1>h
  <2>9. Log!KeepLatest(Append(History, n)) = SubSeq(Append(History, n), 2, count + 1)
    BY <1>3, <1>h DEF Log!KeepLatest
  <2>10. SubSeq(Append(History, n), 2, count + 1)
           = [i \in 1 .. count |-> IF i = count THEN n ELSE History[i + 1]]
    BY <1>h, <1>3
  <2>11. History' = [i \in 1 .. count |-> IF i = count THEN n ELSE History[i + 1]]
    BY <2>7, <2>8
  <2>12. \A i \in 1 .. count : History'[i] \in Note
    BY <2>8, <1>h, <1>3
  <2>13. History' = Log!KeepLatest(Append(History, n))
    BY <2>9, <2>10, <2>11
  <2>14. RingInv'
    BY <1>3, <1>h, <2>4, <2>12 DEF RingInv
  <2> QED
    BY <2>13, <2>14
<1> QED
  BY <1>1, <1>2, <1>3 DEF TypeOK

LEMMA RingInvariant == Spec => []RingInv
<1>1. Init => RingInv
  BY NotifierAssumption DEF Init, RingInv
<1>2. TypeOK /\ RingInv /\ [Next]_vars => RingInv'
  <2> SUFFICES ASSUME TypeOK, RingInv, [Next]_vars PROVE RingInv'
    OBVIOUS
  <2>1. ASSUME NEW e \in Emitter, NEW note \in Note, Emit(e, note) PROVE RingInv'
    BY <2>1, StoreAppends DEF Emit
  <2>2. CASE UNCHANGED <<buffer, head, count>>
    BY <2>2 DEF RingInv, History
  <2> QED
    BY <2>1, <2>2 DEF Next, Subscribe, Unsubscribe, Deliver, vars
<1> QED
  BY <1>1, <1>2, TypeCorrect, PTL DEF Spec

\* The notifier implements the event log, whatever the size of its buffer and
\* the number of emitters.
THEOREM Refinement == Spec => ImplementsEventLog
<1>1. Init => Log!Init
  <2> SUFFICES ASSUME Init PROVE Log!Init
    OBVIOUS
  <2>1. History = <<>>
    BY DEF Init, History
  <2>2. 0 .. nextToken - 1 = {}
    BY DEF Init
  <2>3. [e \in Emitter |-> {[to |-> s, what |-> em[e].note] : s \in em[e].left}]
          = [e \in Emitter |-> {}]
    BY DEF Init
  <2> QED
    BY <2>1, <2>2, <2>3 DEF Init, Log!Init
<1>2. TypeOK /\ TypeOK' /\ RingInv /\ [Next]_vars => [Log!Next]_(Log!vars)
  <2> SUFFICES ASSUME TypeOK, TypeOK', RingInv, [Next]_vars PROVE [Log!Next]_(Log!vars)
    OBVIOUS
  <2> DEFINE calls(x) == {[to |-> s, what |-> x.note] : s \in x.left}
             pending == [e \in Emitter |-> calls(em[e])]
  <2>u. UNCHANGED <<buffer, head, count>> => History' = History
    BY DEF History
  <2>1. CASE Subscribe
    <3>1. nextToken \in Token \ (0 .. nextToken - 1)
      BY <2>1, NotifierAssumption DEF Subscribe, TypeOK, Token
    <3>2. 0 .. nextToken' - 1 = (0 .. nextToken - 1) \cup {nextToken}
      BY <2>1, NotifierAssumption DEF Subscribe, TypeOK
    <3>3. Log!Subscribe
      BY <2>1, <2>u, <3>1, <3>2 DEF Subscribe, Log!Subscribe
    <3> QED
      BY <3>3 DEF Log!Next
  <2>2. ASSUME NEW token \in Token, Unsubscribe(token) PROVE Log!Next
    <3>1. Log!Unsubscribe(token)
      BY <2>2, <2>u DEF Unsubscribe, Log!Unsubscribe
    <3> QED
      BY <3>1 DEF Log!Next
  <2>3. ASSUME NEW e \in Emitter, NEW note \in Note, Emit(e, note) PROVE Log!Next
    <3>1. History' = Log!KeepLatest(Append(History, note))
      BY <2>3, StoreAppends DEF Emit
    <3>2. calls(em[e]) = {}
      BY <2>3 DEF Emit
    <3>3. \A d \in Emitter : calls(em'[d]) =
            IF d = e THEN {[to |-> s, what |-> note] : s \in callbacks} ELSE calls(em[d])
      BY <2>3 DEF Emit, TypeOK
    <3>4. pending' = [pending EXCEPT ![e] = {[to |-> s, what |-> note] : s \in callbacks}]
      BY <3>3
    <3>5. Log!Publish(e, note)
      BY <2>3, <3>1, <3>2, <3>4 DEF Emit, Log!Publish
    <3> QED
      BY <3>5 DEF Log!Next
  <2>4. ASSUME NEW e \in Emitter, NEW token \in Token, Deliver(e, token) PROVE Log!Next
    <3>1. PICK note \in Note : note = em[e].note
      BY <2>4 DEF Deliver, TypeOK
    <3> DEFINE call == [to |-> token, what |-> note]
    <3>2. call \in calls(em[e])
      BY <2>4, <3>1 DEF Deliver
    <3>3. em'[e].note = note /\ em'[e].left = em[e].left \ {token}
      BY <2>4, <3>1 DEF Deliver, TypeOK
    <3>4. calls(em'[e]) = calls(em[e]) \ {call}
      BY <3>1, <3>3
    <3>5. \A d \in Emitter : d # e => em'[d] = em[d]
      BY <2>4 DEF Deliver, TypeOK
    <3>6. pending' = [pending EXCEPT ![e] = @ \ {call}]
      <4>1. \A d \in Emitter : calls(em'[d]) = IF d = e THEN calls(em[d]) \ {call} ELSE calls(em[d])
        BY <3>4, <3>5
      <4> HIDE DEF call
      <4> QED
        BY <4>1
    <3>7. Log!Call(e, call)
      BY <2>4, <2>u, <3>2, <3>6 DEF Deliver, Log!Call
    <3> QED
      BY <3>7 DEF Log!Next
  <2>5. CASE UNCHANGED vars
    BY <2>5, <2>u DEF vars, Log!vars
  <2> QED
    BY <2>1, <2>2, <2>3, <2>4, <2>5 DEF Next
<1> QED
  BY <1>1, <1>2, TypeCorrect, RingInvariant, PTL DEF Spec, ImplementsEventLog, Log!Spec
=============================================================================
