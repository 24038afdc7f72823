----------------------------- MODULE MCCluster ------------------------------
(***************************************************************************)
(* Instances of Cluster for TLC.                                           *)
(***************************************************************************)
EXTENDS Cluster, TLC

CONSTANTS a, b, c

\* b is started with the address of a, c with that of b.
Chain == (a :> None) @@ (b :> a) @@ (c :> b)
Pair == (a :> None) @@ (b :> a)
=============================================================================
