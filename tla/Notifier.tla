------------------------------ MODULE Notifier ------------------------------
(***************************************************************************)
(* The notifier of a node (internal/notifier/notifier.go): the subscribers *)
(* and the ring buffer with the latest notifications.                      *)
(*                                                                         *)
(* Subscribe, Unsubscribe and History run under n.mu.  Emit copies the     *)
(* callbacks and stores the notification under n.mu, then calls the copied *)
(* callbacks in turn, without the lock and in the order in which Go        *)
(* happens to iterate over the map: a step each.                           *)
(*                                                                         *)
(* A callback is the token it was given.                                   *)
(***************************************************************************)
EXTENDS Integers, Sequences, FiniteSets

CONSTANTS
  Note,        \* notifications
  Emitter,     \* goroutines that call Emit
  bufferSize,
  MaxToken,    \* bound: subscriptions made during a run
  None         \* a buffer slot not yet written

ASSUME NotifierAssumption ==
  /\ bufferSize \in Nat
  /\ MaxToken \in Nat
  /\ Note # {} /\ None \notin Note

Token == 0 .. MaxToken - 1
Slot == 0 .. bufferSize - 1

VARIABLES
  callbacks,  \* tokens of the registered callbacks
  nextToken,
  buffer,
  head,
  count,
  em          \* for each emitter: its notification, and the copied callbacks
              \* it has not called yet

vars == <<callbacks, nextToken, buffer, head, count, em>>

TypeOK ==
  /\ callbacks \subseteq 0 .. nextToken - 1
  /\ nextToken \in 0 .. MaxToken
  /\ buffer \in [Slot -> Note \cup {None}]
  /\ head \in Slot \cup {0}
  /\ count \in 0 .. bufferSize
  /\ em \in [Emitter -> [note : Note, left : SUBSET Token]]

\* NewNotifier; an emitter that has not emitted has an arbitrary notification.
Init ==
  /\ callbacks = {}
  /\ nextToken = 0
  /\ buffer = [i \in Slot |-> None]
  /\ head = 0
  /\ count = 0
  /\ em = [e \in Emitter |-> [note |-> CHOOSE n \in Note : TRUE, left |-> {}]]

Subscribe ==
  /\ nextToken < MaxToken
  /\ callbacks' = callbacks \cup {nextToken}
  /\ nextToken' = nextToken + 1
  /\ UNCHANGED <<buffer, head, count, em>>

Unsubscribe(token) ==
  /\ token < nextToken
  /\ callbacks' = callbacks \ {token}
  /\ UNCHANGED <<nextToken, buffer, head, count, em>>

\* Mutant: a full ring does not move its head.
StoreKeepsHead(note) ==
  IF bufferSize > 0
  THEN /\ buffer' = [buffer EXCEPT ![(head + count) % bufferSize] = note]
       /\ count' = IF count < bufferSize THEN count + 1 ELSE count
       /\ UNCHANGED head
  ELSE UNCHANGED <<buffer, head, count>>

\* Mutant: the head does not wrap around.
StoreNoWrap(note) ==
  IF bufferSize > 0
  THEN /\ buffer' = [buffer EXCEPT ![(head + count) % bufferSize] = note]
       /\ IF count < bufferSize
          THEN count' = count + 1 /\ UNCHANGED head
          ELSE head' = head + 1 /\ UNCHANGED count
  ELSE UNCHANGED <<buffer, head, count>>

\* Mutant: the count is compared with <=.
StoreOnceMore(note) ==
  IF bufferSize > 0
  THEN /\ buffer' = [buffer EXCEPT ![(head + count) % bufferSize] = note]
       /\ IF count <= bufferSize
          THEN count' = count + 1 /\ UNCHANGED head
          ELSE head' = (head + 1) % bufferSize /\ UNCHANGED count
  ELSE UNCHANGED <<buffer, head, count>>

\* The part of Emit that stores the notification.
Store(note) ==
  IF bufferSize > 0
  THEN /\ buffer' = [buffer EXCEPT ![(head + count) % bufferSize] = note]
       /\ IF count < bufferSize
          THEN count' = count + 1 /\ UNCHANGED head
          ELSE head' = (head + 1) % bufferSize /\ UNCHANGED count
  ELSE UNCHANGED <<buffer, head, count>>

Emit(e, note) ==
  /\ em[e].left = {}
  /\ em' = [em EXCEPT ![e] = [note |-> note, left |-> callbacks]]
  /\ Store(note)
  /\ UNCHANGED <<callbacks, nextToken>>

\* The next copied callback is called, whether or not it still is registered.
Deliver(e, token) ==
  /\ token \in em[e].left
  /\ em' = [em EXCEPT ![e].left = @ \ {token}]
  /\ UNCHANGED <<callbacks, nextToken, buffer, head, count>>

History ==
  [i \in 1 .. count |-> buffer[(head + i - 1) % bufferSize]]

Next ==
  \/ Subscribe
  \/ \E token \in Token : Unsubscribe(token)
  \/ \E e \in Emitter, note \in Note : Emit(e, note)
  \/ \E e \in Emitter, token \in Token : Deliver(e, token)

Spec == Init /\ [][Next]_vars

-----------------------------------------------------------------------------
(* Properties.                                                             *)

Log == INSTANCE EventLog
  WITH log     <- History,
       subs    <- callbacks,
       given   <- 0 .. nextToken - 1,
       pending <- [e \in Emitter |-> {[to |-> s, what |-> em[e].note] : s \in em[e].left}]

\* The ring buffer, with its head and count modulo bufferSize, and the copied
\* callbacks implement the event log: concurrent emitters neither lose nor
\* reorder an entry of the history, and whoever was subscribed when a
\* notification entered it is called with it exactly once.
ImplementsEventLog == Log!Spec
=============================================================================
