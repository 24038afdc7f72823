----------------------------- MODULE MCCommands -----------------------------
(***************************************************************************)
(* Instances of Commands for TLC.                                          *)
(***************************************************************************)
EXTENDS Commands

CONSTANTS p1, p2, self, n1, n2, a0, a1, a2, k1, k2

SameName == [u \in UUID |-> IF u = Self THEN n2 ELSE n1]
OwnAddr == [u \in UUID |-> CASE u = Self -> a0 [] u = p1 -> a1 [] u = p2 -> a2]
Leads == [k \in Conn |-> IF k = k2 THEN p2 ELSE p1]
=============================================================================
