----------------------------- MODULE MCClusterReg -----------------------------
(* Instance of ClusterReg for TLC: one kubeconfig of each sort, a key and    *)
(* its replacement, two calls at a time.                                     *)
EXTENDS ClusterReg, TLC

Symmetry == Permutations(Calls) \cup Permutations(Keys)
===============================================================================
