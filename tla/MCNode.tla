------------------------------- MODULE MCNode -------------------------------
(***************************************************************************)
(* Instances of Node for TLC: this node and one or two others.             *)
(***************************************************************************)
EXTENDS Node

CONSTANTS p1, p2, self, t1, t2, n1, n2, a1, a2, a0, c1, c2

\* The other nodes have the same name, this one has a name of its own.
SameName == [u \in UUID |-> IF u = Self THEN n2 ELSE n1]

\* Every node listens on an address of its own.
OwnAddr == [u \in UUID |-> CASE u = Self -> a0 [] u = p1 -> a1 [] u = p2 -> a2]

\* p2 is p1 restarted: a new uuid at the old name and address.
SharedAddr == [u \in UUID |-> IF u = Self THEN a0 ELSE a1]

GoroutineSymmetry == Permutations(Threads) \cup Permutations(Conn)

\* Two peers of one name are interchangeable together with their addresses.
PeerSwap == [x \in {p1, p2, a1, a2} |->
               CASE x = p1 -> p2 [] x = p2 -> p1 [] x = a1 -> a2 [] x = a2 -> a1]

RegistrySymmetry == GoroutineSymmetry \cup {PeerSwap}
=============================================================================
