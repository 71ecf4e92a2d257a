-------------------------------- MODULE Router --------------------------------
(***************************************************************************)
(* The routing core of src/lib.rs: tenants with their graph, health, route *)
(* cache and policy behind one RwLock, and the audit ring behind its own   *)
(* mutex.  Every operation holds the state lock while it works and pushes  *)
(* its audit event before letting go, so it is one step; route() is two,   *)
(* a look into the cache under the read lock and, on a miss, the slow path *)
(* under the write lock, and anything may happen in between.               *)
(*                                                                         *)
(* Costs are abstracted: the EWMA success rate, the latency window, edge   *)
(* weights and the tenant's cost model decide which of the feasible paths  *)
(* is the cheapest, so here the search may return any of them.             *)
(***************************************************************************)
EXTENDS HealthTracker, ToolGraph, SequencesExt

CONSTANTS
    Tenant,
    Client,         \* threads calling route()
    Policies,       \* policies given to try_set_health_policy, valid or not
    DefaultPolicy,  \* HealthPolicy::default()
    Cooldown,       \* the cooldown the recovery loop was spawned with
    CacheLimit,     \* ROUTE_CACHE_LIMIT
    AuditLimit,     \* AUDIT_EVENT_MEMORY_LIMIT
    EdgeInputs,     \* bound: the edges operators add
    Reported,       \* bound: the nodes outcomes are reported for
    Requests        \* bound: the keys clients ask for

ASSUME RouterAssumption ==
    /\ IsFiniteSet(Tenant) /\ IsFiniteSet(Node)
    /\ Policies \cup {DefaultPolicy} \subseteq HealthPolicy
    /\ \A p \in Policies \cup {DefaultPolicy} : BelowCaps(p)
    /\ ValidPolicy(DefaultPolicy)
    /\ Cooldown \in 1..AgeCap
    /\ CacheLimit \in Nat \ {0}
    /\ AuditLimit \in Nat \ {0}
    /\ EdgeInputs \subseteq Edge
    /\ Reported \subseteq Node
    /\ Requests \subseteq RouteKey

VARIABLES
    tenants,        \* the keys of RouterState.tenants
    edges,          \* TenantState.graph
    health,         \* TenantState.health; an absent entry is NewTracker
    policy,         \* TenantState.health_policy
    cache,          \* TenantState.cache: RouteKey -> path
    cacheOrder,     \* TenantState.cache_order, oldest first
    audit,          \* AuditPipeline.events, oldest first
    pending         \* per client: the request whose fast path missed

vars == <<tenants, edges, health, policy, cache, cacheOrder, audit, pending>>

Idle == [tenant |-> "none"]
Request == [tenant : Tenant, key : RouteKey]

--------------------------------------------------------------------------------
(* Audit events and the ring *)

Reroute(t, k, p, hit) ==
    [type |-> "Reroute", tenant |-> t, key |-> k, path |-> p, cacheHit |-> hit]

ExplicitEscalation(t, k, reason, blocked) ==
    [type |-> "ExplicitEscalation", tenant |-> t, key |-> k, reason |-> reason,
     blocked |-> blocked]

HealthChanged(t, n) == [type |-> "HealthChanged", tenant |-> t, node |-> n]

RecoveryProbeOpened(t, n) ==
    [type |-> "RecoveryProbeOpened", tenant |-> t, node |-> n]

\* Mutant: the ring grows without bound.
PushWithoutEviction(ring, event) == Append(ring, event)

\* AuditPipeline::push: a full ring loses its oldest event
Push(ring, event) ==
    Append(IF Len(ring) = AuditLimit THEN Tail(ring) ELSE ring, event)

\* Several pushes in a row: the newest AuditLimit events remain
PushAll(ring, events) ==
    LET all  == ring \o events
        from == IF Len(all) > AuditLimit THEN Len(all) - AuditLimit + 1 ELSE 1
    IN  SubSeq(all, from, Len(all))

--------------------------------------------------------------------------------
(* TenantState: the cache and its order *)

NoCache == [k \in {} |-> << >>]

\* blocked_nodes, and what shortest_path sees as infinitely expensive
OpenNodes(trackers) == {n \in Node : trackers[n].state = "Open"}

\* Mutant: entries touching the node stay.
CacheWithoutForgets(f, n) == f

\* Mutant: only the goal is compared with the node, not the path.
CacheWithoutGoal(f, n) == Restrict(f, {k \in DOMAIN f : k.goal # n})

\* invalidate_for_node, on the map
CacheWithout(f, n) == Restrict(f, {k \in DOMAIN f : n \notin Range(f[k])})

\* VecDeque::retain on cache_order: the keys in K, front to back
Retained(order, K) ==
    LET f[i \in 0..Len(order)] ==
          IF i = 0 THEN << >>
          ELSE IF order[i] \in K THEN Append(f[i - 1], order[i])
          ELSE f[i - 1]
    IN  f[Len(order)]

\* Mutant: invalidate_for_node forgets to prune cache_order.
OrderForNoPruning(order, f) == order

\* cache_order.retain(contains_key)
OrderFor(order, f) == Retained(order, DOMAIN f)

\* retain(existing != key) and push_back, as get_cached and insert_cache do
MovedToBack(order, k) == Append(Retained(order, ToSet(order) \ {k}), k)

Put(f, k, p) == [x \in DOMAIN f \cup {k} |-> IF x = k THEN p ELSE f[x]]

\* insert_cache evicts the front of cache_order when a new key meets a full cache
MustEvict(f, order, k) ==
    /\ k \notin DOMAIN f
    /\ Cardinality(DOMAIN f) = CacheLimit
    /\ order # << >>

CacheAfterInsert(f, order, k, p) ==
    Put(IF MustEvict(f, order, k) THEN Restrict(f, DOMAIN f \ {Head(order)}) ELSE f,
        k, p)

OrderAfterInsert(f, order, k) ==
    MovedToBack(IF MustEvict(f, order, k) THEN Tail(order) ELSE order, k)

ClearCache(t) ==
    /\ cache' = [cache EXCEPT ![t] = NoCache]
    /\ cacheOrder' = [cacheOrder EXCEPT ![t] = << >>]

InvalidateForNode(t, n) ==
    LET kept == CacheWithout(cache[t], n)
    IN  /\ cache' = [cache EXCEPT ![t] = kept]
        /\ cacheOrder' = [cacheOrder EXCEPT ![t] = OrderFor(@, kept)]

--------------------------------------------------------------------------------
Init ==
    /\ tenants = {}
    /\ edges = [t \in Tenant |-> {}]
    /\ health = [t \in Tenant |-> [n \in Node |-> NewTracker]]
    /\ policy = [t \in Tenant |-> DefaultPolicy]
    /\ cache = [t \in Tenant |-> NoCache]
    /\ cacheOrder = [t \in Tenant |-> << >>]
    /\ audit = << >>
    /\ pending = [c \in Client |-> Idle]

AddTenant(t) ==
    /\ tenants' = tenants \cup {t}
    /\ UNCHANGED <<edges, health, policy, cache, cacheOrder, audit, pending>>

\* try_set_cost_model with a valid model (an invalid one returns before the lock)
SetCostModel(t) ==
    /\ tenants' = tenants \cup {t}
    /\ ClearCache(t)
    /\ UNCHANGED <<edges, health, policy, audit, pending>>

\* try_set_health_policy
SetHealthPolicy(t, p) ==
    /\ ValidPolicy(p)
    /\ tenants' = tenants \cup {t}
    /\ policy' = [policy EXCEPT ![t] = p]
    /\ ClearCache(t)
    /\ UNCHANGED <<edges, health, audit, pending>>

AddEdge(t, e) ==
    /\ tenants' = tenants \cup {t}
    /\ edges' = [edges EXCEPT ![t] = @ \cup {e}]
    /\ ClearCache(t)
    /\ UNCHANGED <<health, policy, audit, pending>>

RecordResult(t, n, success) ==
    LET tr      == AfterResult(health[t][n], success, policy[t])
        changed == tr.state # health[t][n].state
    IN  /\ tenants' = tenants \cup {t}
        /\ health' = [health EXCEPT ![t][n] = tr]
        /\ IF changed THEN InvalidateForNode(t, n) ELSE UNCHANGED <<cache, cacheOrder>>
        /\ audit' = Push(audit, HealthChanged(t, n))
        /\ UNCHANGED <<edges, policy, pending>>

ForceHalfOpen(t, n) ==
    /\ t \in tenants
    /\ health[t][n].state = "Open"
    /\ health' = [health EXCEPT ![t][n] = HalfOpened(@)]
    /\ InvalidateForNode(t, n)
    /\ audit' = Push(audit, RecoveryProbeOpened(t, n))
    /\ UNCHANGED <<tenants, edges, policy, pending>>

\* run_recovery_probe_once: all nodes that are ready, of all tenants, under one lock.
\* HashMap iteration order decides the order of the events.
Ready == {x \in tenants \X Node : ReadyToProbe(health[x[1]][x[2]], Cooldown)}

RecoveryProbe ==
    /\ Ready # {}
    /\ health' = [t \in Tenant |-> [n \in Node |->
                    IF <<t, n>> \in Ready THEN HalfOpened(health[t][n])
                                          ELSE health[t][n]]]
    /\ cache' = [t \in Tenant |-> Restrict(cache[t],
                    {k \in DOMAIN cache[t] :
                        \A n \in Range(cache[t][k]) : <<t, n>> \notin Ready})]
    /\ cacheOrder' = [t \in Tenant |-> OrderFor(cacheOrder[t], cache'[t])]
    /\ \E opened \in SetToSeqs(Ready) :
         audit' = PushAll(audit, [i \in DOMAIN opened |->
                              RecoveryProbeOpened(opened[i][1], opened[i][2])])
    /\ UNCHANGED <<tenants, edges, policy, pending>>

\* The monotonic clock (external)
Tick ==
    /\ health' = [t \in Tenant |-> [n \in Node |-> Aged(health[t][n])]]
    /\ UNCHANGED <<tenants, edges, policy, cache, cacheOrder, audit, pending>>

--------------------------------------------------------------------------------
(* route() *)

\* Fast path, hit: answered under the read lock, cache_order is not touched.
RouteHit(c, t, k) ==
    /\ pending[c] = Idle
    /\ t \in tenants /\ k \in DOMAIN cache[t]
    /\ audit' = Push(audit, Reroute(t, k, cache[t][k], TRUE))
    /\ UNCHANGED <<tenants, edges, health, policy, cache, cacheOrder, pending>>

\* Fast path, miss: the read lock is dropped before the write lock is asked for.
RouteMiss(c, t, k) ==
    /\ pending[c] = Idle
    /\ t \notin tenants \/ k \notin DOMAIN cache[t]
    /\ pending' = [pending EXCEPT ![c] = [tenant |-> t, key |-> k]]
    /\ UNCHANGED <<tenants, edges, health, policy, cache, cacheOrder, audit>>

SlowPath(c) == pending[c] # Idle /\ pending' = [pending EXCEPT ![c] = Idle]

\* Mutant: what the fast path saw is believed, the tenant is not looked up again.
RouteTenantNotFoundStale(c) ==
    LET t == pending[c].tenant  k == pending[c].key
    IN  /\ SlowPath(c)
        /\ k \notin DOMAIN cache[t]
        /\ audit' = Push(audit, ExplicitEscalation(t, k, "TenantNotFound", {}))
        /\ UNCHANGED <<tenants, edges, health, policy, cache, cacheOrder>>

RouteTenantNotFound(c) ==
    LET t == pending[c].tenant  k == pending[c].key
    IN  /\ SlowPath(c)
        /\ t \notin tenants
        /\ audit' = Push(audit, ExplicitEscalation(t, k, "TenantNotFound", {}))
        /\ UNCHANGED <<tenants, edges, health, policy, cache, cacheOrder>>

\* The re-check under the write lock: another client has filled the entry.
RouteRecheckHit(c) ==
    LET t == pending[c].tenant  k == pending[c].key
    IN  /\ SlowPath(c)
        /\ t \in tenants
        /\ k \in DOMAIN cache[t]
        /\ cacheOrder' = [cacheOrder EXCEPT ![t] = MovedToBack(@, k)]
        /\ audit' = Push(audit, Reroute(t, k, cache[t][k], TRUE))
        /\ UNCHANGED <<tenants, edges, health, policy, cache>>

RouteSearched(c) ==
    LET t == pending[c].tenant  k == pending[c].key
    IN  /\ SlowPath(c)
        /\ t \in tenants
        /\ k \notin DOMAIN cache[t]
        /\ \E p \in Routes(edges[t], OpenNodes(health[t]), k) :
             /\ cache' = [cache EXCEPT ![t] =
                            CacheAfterInsert(cache[t], cacheOrder[t], k, p)]
             /\ cacheOrder' = [cacheOrder EXCEPT ![t] =
                            OrderAfterInsert(cache[t], cacheOrder[t], k)]
             /\ audit' = Push(audit, Reroute(t, k, p, FALSE))
        /\ UNCHANGED <<tenants, edges, health, policy>>

RouteEscalated(c) ==
    LET t == pending[c].tenant  k == pending[c].key
    IN  /\ SlowPath(c)
        /\ t \in tenants
        /\ k \notin DOMAIN cache[t]
        /\ Routes(edges[t], OpenNodes(health[t]), k) = {}
        /\ audit' = Push(audit, ExplicitEscalation(t, k, "NoFeasiblePath",
                                                   OpenNodes(health[t])))
        /\ UNCHANGED <<tenants, edges, health, policy, cache, cacheOrder>>

Reconfigure(t) ==
    \/ AddTenant(t)
    \/ SetCostModel(t)
    \/ \E p \in Policies : SetHealthPolicy(t, p)
    \/ \E e \in EdgeInputs : AddEdge(t, e)

Next ==
    \/ \E t \in Tenant : Reconfigure(t)
    \/ \E t \in Tenant, n \in Reported, success \in BOOLEAN : RecordResult(t, n, success)
    \/ \E t \in Tenant, n \in Reported : ForceHalfOpen(t, n)
    \/ RecoveryProbe
    \/ Tick
    \/ \E c \in Client, t \in Tenant, k \in Requests : RouteHit(c, t, k)
    \/ \E c \in Client, t \in Tenant, k \in Requests : RouteMiss(c, t, k)
    \/ \E c \in Client : RouteTenantNotFound(c)
    \/ \E c \in Client : RouteRecheckHit(c)
    \/ \E c \in Client : RouteSearched(c)
    \/ \E c \in Client : RouteEscalated(c)

Spec == Init /\ [][Next]_vars

--------------------------------------------------------------------------------
Event ==
    [type : {"Reroute"}, tenant : Tenant, key : RouteKey, path : Paths,
     cacheHit : BOOLEAN]
    \cup [type : {"ExplicitEscalation"}, tenant : Tenant, key : RouteKey,
          reason : {"TenantNotFound", "NoFeasiblePath"}, blocked : SUBSET Node]
    \cup [type : {"HealthChanged", "RecoveryProbeOpened"}, tenant : Tenant, node : Node]

IsCache(f) == DOMAIN f \subseteq RouteKey /\ \A k \in DOMAIN f : f[k] \in Paths

\* The state has its shape: in particular the audit ring never exceeds its capacity
\* (AuditPipeline::push).
TypeOK ==
    /\ tenants \subseteq Tenant
    /\ edges \in [Tenant -> SUBSET Edge]
    /\ health \in [Tenant -> [Node -> Tracker]]
    /\ policy \in [Tenant -> HealthPolicy]
    /\ DOMAIN cache = Tenant /\ \A t \in Tenant : IsCache(cache[t])
    /\ DOMAIN cacheOrder = Tenant     \* its contents: CacheOrderIsExact
    /\ audit \in Seq(Event) /\ Len(audit) <= AuditLimit
    /\ pending \in [Client -> Request \cup {Idle}]

\* Whatever is in the cache would still be a right answer now: no cached path enters
\* an Open node or uses an edge that does not exist.  Hits are answered without
\* looking at the health map, so this rests on every health change invalidating
\* the entries that touch its node, and on no health of a tenant that does not
\* exist yet.
CacheIsFeasible ==
    \A t \in Tenant : \A k \in DOMAIN cache[t] :
        IsRoute(edges[t], OpenNodes(health[t]), k, cache[t][k])

\* cache_order lists exactly the cached keys, each once, and the cache never exceeds
\* ROUTE_CACHE_LIMIT: two structures kept in step by hand in get_cached,
\* insert_cache and both invalidations.
CacheOrderIsExact ==
    \A t \in Tenant :
        /\ ToSet(cacheOrder[t]) = DOMAIN cache[t]
        /\ IsInjective(cacheOrder[t])
        /\ Cardinality(DOMAIN cache[t]) <= CacheLimit

\* An entry computed before a node changed its state does not survive the change (its
\* cost would be stale), and an entry that touches no changed node does survive
\* it: only reconfiguring the tenant or a full cache takes it away.
InvalidationIsExact ==
    [][ \A t \in Tenant : \A k \in DOMAIN cache[t] :
          LET moved == {n \in Node : health'[t][n].state # health[t][n].state}
              touched == Range(cache[t][k]) \cap moved # {}
          IN  \/ touched /\ k \notin DOMAIN cache'[t]
              \/ ~touched /\ k \in DOMAIN cache'[t] /\ cache'[t][k] = cache[t][k]
              \/ ~touched /\ Reconfigure(t)
              \/ /\ ~touched
                 /\ \E new \in DOMAIN cache'[t] \ DOMAIN cache[t] :
                        Cardinality(DOMAIN cache[t]) = CacheLimit
      ]_vars

--------------------------------------------------------------------------------
(* The cache, the locks and the threads are invisible: the router implements  *)
(* RouteService.                                                              *)

LastReply ==
    IF audit = << >> THEN [type |-> "None"]
    ELSE LET e == Last(audit)
         IN  CASE e.type = "Reroute" ->
                    [type |-> e.type, tenant |-> e.tenant, key |-> e.key,
                     path |-> e.path]
               [] e.type = "ExplicitEscalation" -> e
               [] OTHER -> [type |-> "None"]

Service == INSTANCE RouteService
    WITH open <- [t \in Tenant |-> OpenNodes(health[t])], reply <- LastReply

\* Every decision of route(), whether from the read-locked cache, the re-check or the
\* search, is one a cache-less router could have given at that instant.
ImplementsRouteService == Service!Spec
==============================================================================
