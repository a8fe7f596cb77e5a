------------------------------- MODULE MCPodLogs -------------------------------
(* Instances of PodLogs for TLC. *)
EXTENDS PodLogs, TLC

Symmetry == Permutations(WatchConns) \cup Permutations(Followers) \cup Permutations(Pods)
===============================================================================
