----------------------------- MODULE MCSession ------------------------------
(***************************************************************************)
(* Small instances of SessionManager for TLC.                              *)
(***************************************************************************)
EXTENDS SessionManager, TLC

CONSTANTS c1, c2, c3, i1, p1, p2, a1, a2

MCTier == [a \in Addr |-> IF a = a1 THEN 1 ELSE 2]     \* a LAN and a public address

Symmetric == Permutations(Call)

=============================================================================
