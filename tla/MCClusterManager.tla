--------------------------- MODULE MCClusterManager ---------------------------
(* Instances of ClusterManager for TLC. *)
EXTENDS ClusterManager, TLC

Symmetry == Permutations(Runtimes) \cup Permutations(Removals)

(* A subscriber reads no column and writes none: lost writes are explored  *)
(* without one.                                                            *)
LostUnwatched == unsaved => \A w \in Subscribers : feed[w] = "none"
===============================================================================
