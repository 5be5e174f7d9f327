---------------------------- MODULE MCKeepalive ----------------------------
(***************************************************************************)
(* Small instances of Keepalive for TLC: the tasks of A and those of B.    *)
(***************************************************************************)
EXTENDS Keepalive

CONSTANTS A, B, ta, tb, da

MCEnd == [x \in Sender |-> IF x \in {ta, da} THEN A ELSE B]
=============================================================================
