------------------------------ MODULE MCWatchHub ------------------------------
(* Instances of WatchHub for TLC: every watch id has the informer PodEntry. *)
EXTENDS WatchHub

CONSTANTS PodEntry, r1, r2, r3

MCEntryOf == [k \in Keys |-> PodEntry]

(* Runtimes are interchangeable until they are built: they are built in     *)
(* this order.                                                              *)
Ordered ==
  /\ pool[r1] = "none" => pool[r2] = "none"
  /\ pool[r2] = "none" => pool[r3] = "none"

(* Bound: beside a third runtime the hub runs and one connection acts.      *)
Idle(c) == at[c] \in {"idle", "gone"} /\ conns[c] = {}
ThirdWithOne ==
  pool[r3] # "none" =>
    ~stopped /\ \A c, d \in WatchConns : c = d \/ Idle(c) \/ Idle(d)
===============================================================================
