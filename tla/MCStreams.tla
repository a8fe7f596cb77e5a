------------------------------- MODULE MCStreams -------------------------------
(* Instances of Streams for TLC: one session of each kind, because sessions  *)
(* share no state.                                                           *)
EXTENDS Streams
===============================================================================
