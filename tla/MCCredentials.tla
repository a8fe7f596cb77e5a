---------------------------- MODULE MCCredentials ----------------------------
(* Instance of Credentials for TLC: a client asks for nothing, for too much  *)
(* or for the least; enrollment lifetimes wrap into the past.                *)
EXTENDS Credentials, TLC

Symmetry == Permutations(Calls) \cup Permutations(Short)
==============================================================================
