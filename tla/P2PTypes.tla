------------------------------ MODULE P2PTypes ------------------------------
(***************************************************************************)
(* What the components of a node share: internal/types and the messages of *)
(* proto/p2p.proto, as far as the models tell their values apart.          *)
(***************************************************************************)
EXTENDS Integers

CONSTANTS
  Addr,     \* "ip:port" addresses
  Timeout,  \* types.HeartbeatTimeout in ticks of the cleaner's clock
  None      \* an absent map entry

ASSUME TypesAssumption == Timeout \in Nat

\* OFFLINE is told apart by who set it: this node, which does so before it
\* unregisters a peer, or the registry of another node whose entry it copied.
NodeStatus == {"UNKNOWN", "ONLINE", "BUSY", "OFFLINE", "reported OFFLINE"}

(***************************************************************************)
(* Ticks elapsed since a stored time.  The program only asks whether an    *)
(* age exceeds Timeout, so ages saturate one above it.                     *)
(***************************************************************************)
Age == 0 .. Timeout + 1
=============================================================================
