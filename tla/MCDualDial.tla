----------------------------- MODULE MCDualDial -----------------------------
(***************************************************************************)
(* Small instances of DualDial for TLC.                                    *)
(***************************************************************************)
EXTENDS DualDial

CONSTANTS k1, k2, k3

\* The first and the last connection are dialled by Low, the second by High.
MCDialer == [k \in Conn |-> IF k = k2 THEN High ELSE Low]
=============================================================================
