----------------------------- MODULE RouteService -----------------------------
(***************************************************************************)
(* What route() promises, with no cache, no locks and no threads: every    *)
(* answer is a route through the graph and the health of the instant it is *)
(* given, and the request is escalated exactly when there is none.         *)
(***************************************************************************)
EXTENDS ToolGraph

CONSTANT Tenant

VARIABLES
    tenants,    \* the tenants that exist
    edges,      \* the edges of each tenant's graph
    open,       \* the nodes each tenant's breaker has fenced out
    reply       \* the decision the last step returned, if it returned one

vars == <<tenants, edges, open, reply>>

NoReply == [type |-> "None"]

Routed(t, k, p) == [type |-> "Reroute", tenant |-> t, key |-> k, path |-> p]

Escalated(t, k, reason, blocked) ==
    [type |-> "ExplicitEscalation", tenant |-> t, key |-> k, reason |-> reason,
     blocked |-> blocked]

Init ==
    /\ tenants = {}
    /\ edges = [t \in Tenant |-> {}]
    /\ open = [t \in Tenant |-> {}]
    /\ reply = NoReply

\* A decision that is right for the request (t, k) at this instant
Decide(t, k) ==
    /\ reply'.type # "None"
    /\ reply'.tenant = t /\ reply'.key = k
    /\ UNCHANGED <<tenants, edges, open>>
    /\ \/ /\ t \notin tenants
          /\ reply' = Escalated(t, k, "TenantNotFound", {})
       \/ /\ t \in tenants
          /\ reply' = Escalated(t, k, "NoFeasiblePath", open[t])
          /\ Routes(edges[t], open[t], k) = {}
       \/ /\ t \in tenants
          /\ \E p \in Paths : reply' = Routed(t, k, p) /\ IsRoute(edges[t], open[t], k, p)

\* A health report: the tenant exists from then on, the nodes it fences may change.
ChangeHealth(t) ==
    /\ reply' = NoReply
    /\ tenants' = tenants \cup {t}
    /\ open' \in [Tenant -> SUBSET Node]
    /\ \A u \in Tenant \ {t} : open'[u] = open[u]
    /\ UNCHANGED edges

\* One scan of the recovery loop, over all tenants, only ever lets nodes back in.
Recover ==
    /\ reply' = NoReply
    /\ open' \in [Tenant -> SUBSET Node]
    /\ \A t \in Tenant : open'[t] \subseteq open[t]
    /\ UNCHANGED <<tenants, edges>>

\* A tenant is named for the first time, and its graph may grow.
Configure(t) ==
    /\ tenants' = tenants \cup {t}
    /\ edges' \in [Tenant -> SUBSET Edge]
    /\ edges[t] \subseteq edges'[t]
    /\ \A u \in Tenant \ {t} : edges'[u] = edges[u]
    /\ UNCHANGED <<open, reply>>

Next ==
    \/ \E t \in Tenant, k \in RouteKey : Decide(t, k)
    \/ \E t \in Tenant : ChangeHealth(t)
    \/ Recover
    \/ \E t \in Tenant : Configure(t)

Spec == Init /\ [][Next]_vars
==============================================================================
