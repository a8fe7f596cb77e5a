-------------------------------- MODULE MCProxy --------------------------------
(* Instances of Proxy, with the audit trail, for TLC: requests, users and  *)
(* connections are model values given in the configuration.                *)
EXTENDS Proxy

(* Bound: an agent attaches while the audit feed has no listener and the   *)
(* API no request; the trail does not depend on what the runtimes do.      *)
GatewayAlone ==
  attached # {} =>
    /\ \A r \in Requests : call[r] = Nothing
    /\ auditSubs = {} /\ ~hubStopped
================================================================================
