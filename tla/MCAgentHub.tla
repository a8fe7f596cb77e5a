------------------------------ MODULE MCAgentHub ------------------------------
(* Instances of AgentHub for TLC: all signaling connections belong to one   *)
(* cluster, because the maps of the hub are keyed by cluster and sessions   *)
(* of different clusters share nothing else.                                *)
EXTENDS AgentHub, TLC

CONSTANT Home   \* a cluster: the one every connection belongs to

SameCluster == [c \in Conns |-> Home]

Dialing == \E d \in Dials : dpc[d] # "idle"

(* Bound: a token is not revoked beside a dial or a shutdown. Only register *)
(* reads it, and a dial meets the session of a failed registration also     *)
(* when the write of the reply fails, as in ConfirmToken's refusal. None of *)
(* these actions is fair, so the bound takes nothing that must happen.      *)
RevokedAlone == tokens # Clusters => ~shut /\ ~Dialing

(* Bound: beside a dial no write is lost and the cluster has no runtime. A  *)
(* dial reads the sessions and their sockets, which neither runtimes nor    *)
(* writes change, and nothing of the status reads a dial.                   *)
DialedAlone == Dialing => unsaved = {} /\ runtime[Home] = None

(* Bound: no write is lost beside a shutdown or a revoked token, which only *)
(* end the handlers whose writes are at stake.                              *)
LostAlone == unsaved # {} => ~shut /\ tokens = Clusters
===============================================================================
