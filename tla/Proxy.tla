--------------------------------- MODULE Proxy ---------------------------------
(***************************************************************************)
(* The reverse proxy /k8s/{cluster}: k8sProxy and its cache of clients in  *)
(* backend/internal/api/handler/proxy.go, with the side of the runtime     *)
(* manager it depends on (Manager.Register, Unregister, and the            *)
(* re-registration of attachDialer in the agent hub) and the audit trail   *)
(* of module Audit.                                                        *)
(*                                                                         *)
(* One cluster.  A rest.Config stands for its pointer, and with it for the *)
(* credentials of the kubeconfig it was built from; its Dial is a field of *)
(* its own, which a later registration of the same config overwrites.      *)
(* Requests of the proxy are the Others of Audit.                          *)
(***************************************************************************)
EXTENDS Audit

CONSTANTS Configs,     \* rest.Configs that registrations and rotations build
          Attachments  \* agent sessions that attach the tunnel dialer

VARIABLES
  runtime,   \* RestConfig of the registered runtime
  dialer,    \* SetDialer has given the cluster the tunnel dialer
  dial,      \* Dial of each config that has been built
  direct,    \* configs that were built before the tunnel dialer was set
  pending,   \* calls of Manager.Register under way, of an attachment or not, with their config
  attached,  \* attachments that have begun
  finding,   \* attachments that are about to look the runtime up
  clients,   \* proxyClients: the client cached for each config
  pat,       \* where a request stands
  config,    \* RestConfig it found
  served,    \* the client it goes through
  since      \* configs registered at some time since the request arrived

managerVars == <<runtime, dialer, dial, direct, pending, attached, finding>>
callVars == <<pat, config, served, since>>
proxyVars == <<managerVars, clients, callVars>>

vars == <<auditVars, proxyVars>>

Dials == {"network", "tunnel"}

(* A client carries the credentials of the config it was built from, and   *)
(* the Dial this had at the time.                                          *)
Client == [config : Configs, dial : Dials]

Callers == Attachments \cup {Nothing}

ASSUME ProxyAssumption ==
  Nothing \notin Configs \cup Attachments \cup Dials \cup Client

ProxyTypeOK ==
  /\ runtime \in Configs \cup {Nothing}
  /\ dialer \in BOOLEAN
  /\ dial \in [Configs -> Dials \cup {Nothing}]
  /\ direct \subseteq Configs
  /\ pending \subseteq Callers \X Configs
  /\ finding \subseteq attached /\ attached \subseteq Attachments
  /\ clients \in [Configs -> Client \cup {Nothing}]
  /\ pat \in [Others -> {"idle", "lookup", "client", "allowed", "denied", "failed", "served"}]
  /\ config \in [Others -> Configs \cup {Nothing}]
  /\ served \in [Others -> Client \cup {Nothing}]
  /\ since \in [Others -> SUBSET (Configs \cup {Nothing})]

Init ==
  /\ AuditInit
  /\ runtime = Nothing /\ pending = {}
  /\ dialer = FALSE /\ dial = [g \in Configs |-> Nothing] /\ direct = {}
  /\ attached = {} /\ finding = {}
  /\ clients = [g \in Configs |-> Nothing]
  /\ pat = [x \in Others |-> "idle"]
  /\ config = [x \in Others |-> Nothing]
  /\ served = [x \in Others |-> Nothing]
  /\ since = [x \in Others |-> {}]

-----------------------------------------------------------------------------
(* The runtime manager                                                     *)

(* Registration, rotation and restart build a new rest.Config, to which    *)
(* Manager.Register applies the dialer; ...                                *)
Register(g) ==
  /\ dial[g] = Nothing
  /\ dial' = [dial EXCEPT ![g] = IF dialer THEN "tunnel" ELSE "network"]
  /\ direct' = IF dialer THEN direct ELSE direct \cup {g}
  /\ pending' = pending \cup {<<Nothing, g>>}
  /\ UNCHANGED <<auditVars, runtime, dialer, attached, finding, clients, callVars>>

Underway(x) == pat[x] \in {"lookup", "client", "allowed"}

(* ... and the new runtime replaces the old one.  A call that fails to     *)
(* build its clients never gets here.                                      *)
Install(n, g) ==
  /\ <<n, g>> \in pending
  /\ pending' = pending \ {<<n, g>>}
  /\ runtime' = g
  /\ since' = [x \in Others |-> IF Underway(x) THEN since[x] \cup {g} ELSE {}]
  /\ UNCHANGED <<auditVars, dialer, dial, direct, attached, finding, clients,
                 pat, config, served>>

Unregister ==
  /\ runtime # Nothing
  /\ runtime' = Nothing
  /\ UNCHANGED <<auditVars, dialer, dial, direct, pending, attached, finding, clients, callVars>>

(* attachDialer sets the dialer of the cluster, ...                        *)
Attach(n) ==
  /\ n \notin attached
  /\ attached' = attached \cup {n}
  /\ finding' = finding \cup {n}
  /\ dialer' = TRUE
  /\ UNCHANGED <<auditVars, runtime, dial, direct, pending, clients, callVars>>

(* ... and registers the config of the runtime that Manager.Get finds once *)
(* more, whatever becomes of that runtime in between; its Dial changes in  *)
(* place, before the new runtime is there.                                 *)
Reregister(n) ==
  /\ n \in finding
  /\ finding' = finding \ {n}
  /\ \/ runtime = Nothing /\ UNCHANGED <<dial, pending>>
     \/ /\ runtime # Nothing
        /\ dial' = [dial EXCEPT ![runtime] = "tunnel"]
        /\ pending' = pending \cup {<<n, runtime>>}
  /\ UNCHANGED <<auditVars, runtime, dialer, direct, attached, clients, callVars>>

-----------------------------------------------------------------------------
(* k8sProxy                                                                *)

Goto(x, l) == pat' = [pat EXCEPT ![x] = l]

(* The request is over, and what it held is forgotten.                     *)
End(x, l) ==
  /\ Goto(x, l)
  /\ config' = [config EXCEPT ![x] = Nothing]
  /\ served' = [served EXCEPT ![x] = Nothing]
  /\ since' = [since EXCEPT ![x] = {}]

DenyQuietly(x) == End(x, "denied") /\ UNCHANGED recordVars

(* proxyAudit.  The user of a row (the owner of a short-lived token, none  *)
(* for a JWT) is left out.                                                 *)
Deny(x) == End(x, "denied") /\ StartRecord(x, Nothing, "deny")

(* No token, an invalid one, one of another cluster or a role without      *)
(* access is denied.                                                       *)
Authenticate(x) ==
  /\ pat[x] = "idle"
  /\ \/ Deny(x)
     \/ /\ Goto(x, "lookup")
        /\ since' = [since EXCEPT ![x] = {runtime}]
        /\ UNCHANGED <<config, served, recordVars>>
  /\ UNCHANGED <<call, tapped, feed, feedVars, managerVars, clients>>

(* Manager.Get: an unregistered cluster is denied.                         *)
Lookup(x) ==
  /\ pat[x] = "lookup"
  /\ \/ runtime = Nothing /\ Deny(x)
     \/ /\ runtime # Nothing
        /\ Goto(x, "client")
        /\ config' = [config EXCEPT ![x] = runtime]
        /\ UNCHANGED <<served, since, recordVars>>
  /\ UNCHANGED <<call, tapped, feed, feedVars, managerVars, clients>>

CachedAnywhere(g) == IF \A h \in Configs : clients[h] = Nothing THEN g
                     ELSE CHOOSE h \in Configs : clients[h] # Nothing

(* The key of clientFor: the pointer of the config, not its contents.      *)
CacheKey(g) == g

(* clientFor: the client cached for the config, whatever has changed in    *)
(* the config since, or a new one.                                         *)
ClientOf(g) ==
  LET k == CacheKey(g)
  IN IF clients[k] # Nothing THEN clients[k] ELSE [config |-> g, dial |-> dial[g]]

Cache(g) == clients' = [clients EXCEPT ![CacheKey(g)] = ClientOf(g)]

ClientFor(x) ==
  /\ pat[x] = "client"
  /\ Cache(config[x])
  /\ served' = [served EXCEPT ![x] = ClientOf(config[x])]
  /\ Goto(x, "allowed")
  /\ StartRecord(x, Nothing, "allow")
  /\ UNCHANGED <<call, tapped, feed, feedVars, managerVars, config, since>>

(* Requests of the proxy that the model does not follow cache clients too. *)
Unfollowed ==
  /\ runtime # Nothing
  /\ Cache(runtime)
  /\ UNCHANGED <<auditVars, managerVars, callVars>>

(* A host or a client that cannot be built ends in 502, without a row.     *)
ClientFails(x) ==
  /\ pat[x] = "client"
  /\ End(x, "failed")
  /\ UNCHANGED <<auditVars, managerVars, clients>>

(* proxy.ServeHTTP, after the record of the access.                        *)
Forward(x) ==
  /\ pat[x] = "allowed" /\ Recorded(x)
  /\ End(x, "served")
  /\ UNCHANGED <<auditVars, managerVars, clients>>

-----------------------------------------------------------------------------
Next ==
  \/ AuditNext /\ UNCHANGED proxyVars
  \/ \E g \in Configs : Register(g) \/ \E n \in Callers : Install(n, g)
  \/ \E n \in Attachments : Attach(n) \/ Reregister(n)
  \/ Unregister \/ Unfollowed
  \/ \E x \in Others :
       Authenticate(x) \/ Lookup(x) \/ ClientFor(x) \/ ClientFails(x) \/ Forward(x)

Spec == Init /\ [][Next]_vars

(* The pump runs whenever it has something to do; requests come and go.    *)
FairSpec == Spec /\ WF_vars(Pump /\ UNCHANGED proxyVars)

-----------------------------------------------------------------------------
(* Properties                                                              *)

(* A request is served with the credentials of a runtime that was          *)
(* registered while the request ran, never with those of a kubeconfig that *)
(* was rotated away before; and past the tunnel only if they were built    *)
(* before the tunnel was there.  An attachment keeps the config and with   *)
(* it the cached client: that client goes on dialling the network.         *)
ServedWithCurrentCredentials ==
  \A x \in Others : pat[x] = "allowed" =>
    /\ served[x].config \in since[x]
    /\ served[x].dial = "network" => served[x].config \in direct

(* Whatever the proxy let through or denied has one row that says so, or   *)
(* an entry still on its way, unless the store refused it.                 *)
AccessRecorded(x) ==
  /\ pat[x] \in {"allowed", "served", "denied"} => rec[x] # "none"
  /\ rec[x] \in {"broadcast", "done"} =>
       \E i \in 1..Len(rows) :
         /\ rows[i].req = x
         /\ rows[i].result = IF pat[x] = "denied" THEN "deny" ELSE "allow"
         /\ \A j \in 1..Len(rows) : rows[j].req = x => i = j

OutcomeRecorded ==
  /\ \A r \in Requests : RequestRecorded(r)
  /\ \A x \in Others : AccessRecorded(x)
================================================================================
