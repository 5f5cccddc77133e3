---------------------------- MODULE MC_FlowLink ----------------------------
(***************************************************************************)
(* A link of three bytes through a buffer of two, beside one more stream   *)
(* fed anything.  The counters hold 0 .. 3, so that ack_point + window     *)
(* overflows on both streams.                                              *)
(***************************************************************************)
EXTENDS FlowLink

CONSTANTS s1, s2

MCStreams == {s1, s2}
MCAmounts == 0 .. 3
=============================================================================
