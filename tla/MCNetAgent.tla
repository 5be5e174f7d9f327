----------------------------- MODULE MCNetAgent -----------------------------
(***************************************************************************)
(* Small instances of NetAgent for TLC.                                    *)
(***************************************************************************)
EXTENDS NetAgent

CONSTANTS s1, s2, l1, x1, x2, c1, c2
=============================================================================
