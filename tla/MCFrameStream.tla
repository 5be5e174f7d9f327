--------------------------- MODULE MCFrameStream ---------------------------
(***************************************************************************)
(* A small instance of FrameStream for TLC: two empty frames (the kind     *)
(* byte alone), and one with a payload between them.                       *)
(***************************************************************************)
EXTENDS FrameStream

CONSTANTS s1, s2, p1

MCPayload == [s \in Sender |->
  CASE s = s1 -> <<1>> [] s = s2 -> <<2, 1>> [] s = p1 -> <<2>>]

MCCaller == [s \in Sender |->
  CASE s = s1 -> "reply" [] s = s2 -> "send" [] s = p1 -> "probe"]
=============================================================================
