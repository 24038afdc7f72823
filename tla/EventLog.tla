------------------------------ MODULE EventLog ------------------------------
(***************************************************************************)
(* What a node's notifier promises to the parts of the node that use it.   *)
(*                                                                         *)
(*   - the history is the latest bufferSize notifications, oldest first;   *)
(*   - a notification is published and its audience fixed in one step: it  *)
(*     enters the history, and everybody subscribed at that moment is      *)
(*     called with it exactly once, later and in any order;                *)
(*   - a subscription never gets the token of an earlier one.              *)
(***************************************************************************)
EXTENDS Naturals, Sequences

CONSTANTS Note, Emitter, Token, bufferSize

VARIABLES
  log,      \* the history
  subs,     \* tokens of the current subscriptions
  given,    \* tokens ever handed out
  pending   \* for each emitter, the calls its Emit has still to make

vars == <<log, subs, given, pending>>

KeepLatest(s) ==
  IF Len(s) <= bufferSize THEN s ELSE SubSeq(s, Len(s) - bufferSize + 1, Len(s))

Init ==
  /\ log = <<>>
  /\ subs = {}
  /\ given = {}
  /\ pending = [e \in Emitter |-> {}]

Subscribe ==
  /\ \E s \in Token \ given : /\ subs' = subs \cup {s}
                              /\ given' = given \cup {s}
  /\ UNCHANGED <<log, pending>>

Unsubscribe(s) ==
  /\ subs' = subs \ {s}
  /\ UNCHANGED <<log, given, pending>>

Publish(e, n) ==
  /\ pending[e] = {}
  /\ log' = KeepLatest(Append(log, n))
  /\ pending' = [pending EXCEPT ![e] = {[to |-> s, what |-> n] : s \in subs}]
  /\ UNCHANGED <<subs, given>>

Call(e, c) ==
  /\ c \in pending[e]
  /\ pending' = [pending EXCEPT ![e] = @ \ {c}]
  /\ UNCHANGED <<log, subs, given>>

Next ==
  \/ Subscribe
  \/ \E s \in Token : Unsubscribe(s)
  \/ \E e \in Emitter, n \in Note : Publish(e, n)
  \/ \E e \in Emitter, s \in Token, n \in Note : Call(e, [to |-> s, what |-> n])

Spec == Init /\ [][Next]_vars
=============================================================================
