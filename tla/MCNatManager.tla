---------------------------- MODULE MCNatManager ----------------------------
(***************************************************************************)
(* Small instances of NatManager for TLC.                                  *)
(***************************************************************************)
EXTENDS NatManager

CONSTANTS n1, c1

MCHost == [c \in Call |-> n1]

Udp(port, mark) == [proto |-> "udp", port |-> port, mark |-> mark]

\* init() maps the last port, whose next is 0, and map_port() that and the next.
MCJob == [w \in Worker |-> <<Udp(2, w \in Node)>>]
=============================================================================
