----------------------------- MODULE RouterProofs -----------------------------
(***************************************************************************)
(* For any number of tenants, nodes, clients and keys, any graph, any      *)
(* policies and any cache and ring sizes: the cache only ever holds routes *)
(* that are feasible now, and therefore the router, with its cache and its *)
(* two-step route(), implements the cache-less RouteService.               *)
(***************************************************************************)
EXTENDS Router, HealthTrackerProofs, FiniteSetTheorems, TLAPS

--------------------------------------------------------------------------------
(* Lemmas about the operators *)

\* A path is a non-empty sequence of nodes.
LEMMA PathFacts ==
    ASSUME NEW p \in Paths
    PROVE  /\ p \in Seq(Node) /\ Len(p) \in Nat \ {0}
           /\ DOMAIN p = 1..Len(p) /\ Range(p) \subseteq Node
  <1>1. Cardinality(Node) \in Nat
    BY RouterAssumption, FS_CardinalityType
  <1>2. PICK n \in 1..Cardinality(Node) : p \in [1..n -> Node]
    BY DEF Paths
  <1> QED
    BY <1>1, <1>2 DEF Range

\* A route stays a route when the graph grows and none of its nodes opens.
LEMMA RouteSurvives ==
    ASSUME NEW p \in Paths, NEW k, NEW E, NEW F, NEW B, NEW C,
           IsRoute(E, B, k, p), E \subseteq F,
           \A n \in Range(p) : n \in C => n \in B
    PROVE  IsRoute(F, C, k, p)
  <1>1. ASSUME NEW i \in 1..(Len(p) - 1) PROVE CanHop(F, C, p[i], p[i + 1])
    <2>1. p[i + 1] \in Range(p)
      BY PathFacts DEF Range
    <2>2. CanHop(E, B, p[i], p[i + 1])
      BY DEF IsRoute
    <2> QED
      BY <2>1, <2>2 DEF CanHop
  <1> QED
    BY <1>1 DEF IsRoute

\* The ring keeps its type and its bound (AuditPipeline::push).
LEMMA PushType ==
    ASSUME NEW ring \in Seq(Event), Len(ring) <= AuditLimit, NEW e \in Event
    PROVE  /\ Push(ring, e) \in Seq(Event) /\ Len(Push(ring, e)) <= AuditLimit
           /\ Push(ring, e) # << >> /\ Last(Push(ring, e)) = e
  <1>1. AuditLimit \in Nat \ {0}
    BY RouterAssumption
  <1>2. CASE Len(ring) = AuditLimit
    <2>1. Tail(ring) \in Seq(Event) /\ Len(Tail(ring)) = AuditLimit - 1
      BY <1>1, <1>2
    <2> QED
      BY <1>1, <1>2, <2>1 DEF Push, Last
  <1>3. CASE Len(ring) # AuditLimit
    BY <1>1, <1>3 DEF Push, Last
  <1> QED
    BY <1>2, <1>3

\* Several events in a row keep the type and the bound too, and the last stays last.
LEMMA PushAllType ==
    ASSUME NEW ring \in Seq(Event), NEW es \in Seq(Event), es # << >>
    PROVE  /\ PushAll(ring, es) \in Seq(Event) /\ Len(PushAll(ring, es)) <= AuditLimit
           /\ PushAll(ring, es) # << >> /\ Last(PushAll(ring, es)) = es[Len(es)]
  <1> DEFINE all == ring \o es
             from == IF Len(all) > AuditLimit THEN Len(all) - AuditLimit + 1 ELSE 1
  <1>1. AuditLimit \in Nat \ {0}
    BY RouterAssumption
  <1>2. /\ all \in Seq(Event) /\ Len(all) = Len(ring) + Len(es)
        /\ Len(es) \in Nat \ {0} /\ all[Len(all)] = es[Len(es)]
    OBVIOUS
  <1>3. from \in 1..Len(all) /\ Len(all) - from + 1 <= AuditLimit
    BY <1>1, <1>2
  <1> HIDE DEF all, from
  <1> DEFINE r == SubSeq(all, from, Len(all))
             n == Len(all) - from + 1
  <1>4. n \in Nat \ {0} /\ n <= AuditLimit /\ from + n - 1 = Len(all)
    BY <1>1, <1>2, <1>3
  <1>5. r \in Seq(Event) /\ Len(r) = n /\ \A i \in 1..n : r[i] = all[from + i - 1]
    BY <1>2, <1>3
  <1>6. PushAll(ring, es) = r
    BY DEF PushAll, all, from
  <1> HIDE DEF r, n
  <1>7. n \in 1..n
    BY <1>4
  <1>8. r[n] = es[Len(es)]
    BY <1>2, <1>4, <1>5, <1>7
  <1>9. r # << >>
    BY <1>4, <1>5
  <1>10. Last(r) = es[Len(es)]
    BY <1>5, <1>8 DEF Last
  <1> QED
    BY <1>4, <1>5, <1>6, <1>9, <1>10

\* A restricted cache is a cache.
LEMMA RestrictCache ==
    ASSUME NEW f, IsCache(f), NEW S, S \subseteq DOMAIN f
    PROVE  /\ IsCache(Restrict(f, S)) /\ DOMAIN Restrict(f, S) = S
           /\ \A k \in S : Restrict(f, S)[k] = f[k]
  BY DEF IsCache, Restrict

\* insert_cache: the new entry, and no entry that was not there before.
LEMMA InsertCache ==
    ASSUME NEW f, IsCache(f), NEW order, NEW k \in RouteKey, NEW p \in Paths
    PROVE  LET g == CacheAfterInsert(f, order, k, p)
           IN  /\ IsCache(g)
               /\ g[k] = p
               /\ \A x \in DOMAIN g : x = k \/ (x \in DOMAIN f /\ g[x] = f[x])
  <1> DEFINE kept == IF MustEvict(f, order, k)
                     THEN Restrict(f, DOMAIN f \ {Head(order)}) ELSE f
  <1>1. IsCache(kept) /\ DOMAIN kept \subseteq DOMAIN f
                      /\ \A x \in DOMAIN kept : kept[x] = f[x]
    BY RestrictCache
  <1>2. CacheAfterInsert(f, order, k, p) = Put(kept, k, p)
    BY DEF CacheAfterInsert
  <1> HIDE DEF kept
  <1>3. /\ DOMAIN Put(kept, k, p) = DOMAIN kept \cup {k}
        /\ \A x \in DOMAIN Put(kept, k, p) :
              Put(kept, k, p)[x] = IF x = k THEN p ELSE kept[x]
    BY DEF Put
  <1> QED
    BY <1>1, <1>2, <1>3 DEF IsCache

--------------------------------------------------------------------------------
(* The order of the cache: what retain and push_back leave of it *)

\* f is the function by which Retained goes over the first n keys.
Retains(f, order, K, n) ==
    f = [i \in 0..n |-> IF i = 0 THEN << >>
                        ELSE IF order[i] \in K THEN Append(f[i - 1], order[i])
                        ELSE f[i - 1]]

\* There is one: it goes on from every prefix.
LEMMA RetainedUnfolds ==
    ASSUME NEW n \in Nat, NEW order, NEW K
    PROVE  \E f : Retains(f, order, K, n)
  <1> DEFINE T == {m \in Nat : \E f : Retains(f, order, K, m)}
  <1>1. 0 \in T
    <2>1. Retains([i \in 0..0 |-> << >>], order, K, 0)
      BY DEF Retains
    <2> QED
      BY <2>1
  <1>2. ASSUME NEW m \in Nat, m \in T PROVE m + 1 \in T
    <2>1. PICK f : Retains(f, order, K, m)
      BY <1>2
    <2> DEFINE last == IF order[m + 1] \in K THEN Append(f[m], order[m + 1]) ELSE f[m]
               g == [i \in 0..(m + 1) |-> IF i = m + 1 THEN last ELSE f[i]]
    <2>2. \A i \in 0..(m + 1) :
            g[i] = IF i = 0 THEN << >>
                   ELSE IF order[i] \in K THEN Append(g[i - 1], order[i])
                   ELSE g[i - 1]
      <3> TAKE i \in 0..(m + 1)
      <3>1. CASE i = m + 1
        <4>1. g[i] = last /\ g[i - 1] = f[m] /\ i # 0
          BY <3>1
        <4> QED
          BY <3>1, <4>1
      <3>2. CASE i # m + 1 /\ i # 0
        <4>1. i \in 0..m /\ i - 1 \in 0..(m + 1) /\ i - 1 # m + 1
          BY <3>2
        <4>2. g[i] = f[i] /\ g[i - 1] = f[i - 1]
          BY <3>2, <4>1
        <4>3. f[i] = IF order[i] \in K THEN Append(f[i - 1], order[i]) ELSE f[i - 1]
          BY <2>1, <3>2, <4>1 DEF Retains
        <4> QED
          BY <3>2, <4>2, <4>3
      <3>3. CASE i # m + 1 /\ i = 0
        BY <2>1, <3>3 DEF Retains
      <3> QED
        BY <3>1, <3>2, <3>3
    <2>3. Retains(g, order, K, m + 1)
      <3> DEFINE h == [i \in 0..(m + 1) |->
                         IF i = 0 THEN << >>
                         ELSE IF order[i] \in K THEN Append(g[i - 1], order[i])
                         ELSE g[i - 1]]
      <3>1. g = [i \in 0..(m + 1) |-> g[i]]
        OBVIOUS
      <3> HIDE DEF g
      <3>2. g = h
        BY <2>2, <3>1
      <3> QED
        BY <3>2 DEF Retains
    <2> HIDE DEF g
    <2> QED
      BY <2>3
  <1> HIDE DEF T
  <1>3. 0..n \subseteq T
    BY <1>1, <1>2, CountingUp
  <1>4. n \in T
    BY <1>3
  <1> QED
    BY <1>4 DEF T

\* A new key at the back keeps the keys distinct.
LEMMA PushedBack ==
    ASSUME NEW S, NEW order \in Seq(S), IsInjective(order), NEW k \in S, k \notin ToSet(order)
    PROVE  /\ Append(order, k) \in Seq(S)
           /\ ToSet(Append(order, k)) = ToSet(order) \cup {k}
           /\ IsInjective(Append(order, k))
  <1> DEFINE new == Append(order, k)
  <1>1. /\ new \in Seq(S) /\ Len(order) \in Nat /\ DOMAIN order = 1..Len(order)
        /\ DOMAIN new = 1..(Len(order) + 1) /\ new[Len(order) + 1] = k
        /\ \A i \in 1..Len(order) : new[i] = order[i]
    OBVIOUS
  <1> HIDE DEF new
  <1>2. \A i \in 1..(Len(order) + 1) : i \in 1..Len(order) \/ i = Len(order) + 1
    BY <1>1
  <1>3. ToSet(new) = ToSet(order) \cup {k}
    BY <1>1, <1>2 DEF ToSet
  <1>4. \A i \in 1..Len(order) : order[i] \in ToSet(order)
    BY <1>1 DEF ToSet
  <1>5. IsInjective(new)
    BY <1>1, <1>2, <1>4 DEF IsInjective
  <1> QED
    BY <1>1, <1>3, <1>5 DEF new

\* retain keeps exactly the keys it is asked to keep, each once.
LEMMA RetainedFacts ==
    ASSUME NEW S, NEW order \in Seq(S), IsInjective(order), NEW K
    PROVE  /\ Retained(order, K) \in Seq(S)
           /\ ToSet(Retained(order, K)) = ToSet(order) \cap K
           /\ IsInjective(Retained(order, K))
  <1> DEFINE n == Len(order)
             F == CHOOSE f : Retains(f, order, K, n)
  <1>1. n \in Nat /\ \A i \in 1..n : order[i] \in S
    OBVIOUS
  <1>2. Retains(F, order, K, n)
    BY <1>1, RetainedUnfolds, Zenon
  <1>3. Retained(order, K) = F[n]
    BY DEF Retained, Retains
  <1> HIDE DEF F
  <1>4. /\ F[0] = << >>
        /\ \A i \in Nat : i < n => F[i + 1] = IF order[i + 1] \in K
                                              THEN Append(F[i], order[i + 1]) ELSE F[i]
    <2>1. F[0] = << >>
      BY <1>1, <1>2 DEF Retains
    <2>2. ASSUME NEW i \in Nat, i < n
          PROVE  F[i + 1] = IF order[i + 1] \in K THEN Append(F[i], order[i + 1]) ELSE F[i]
      <3>1. i + 1 \in 0..n /\ i + 1 # 0 /\ (i + 1) - 1 = i
        BY <1>1, <2>2
      <3> QED
        BY <1>2, <3>1 DEF Retains
    <2> QED
      BY <2>1, <2>2
  <1> DEFINE T == {m \in Nat : /\ F[m] \in Seq(S)
                               /\ ToSet(F[m]) = {order[i] : i \in 1..m} \cap K
                               /\ IsInjective(F[m])}
  <1>5. 0 \in T
    <2>1. << >> \in Seq(S) /\ DOMAIN << >> = {} /\ {order[i] : i \in 1..0} = {}
      OBVIOUS
    <2>2. ToSet(<< >>) = {} /\ IsInjective(<< >>)
      BY <2>1 DEF ToSet, IsInjective
    <2> QED
      BY <1>4, <2>1, <2>2
  <1>6. ASSUME NEW m \in Nat, m < n, m \in T PROVE m + 1 \in T
    <2>1. /\ F[m] \in Seq(S) /\ ToSet(F[m]) = {order[i] : i \in 1..m} \cap K
          /\ IsInjective(F[m])
      BY <1>6
    <2>2. m + 1 \in 1..n /\ order[m + 1] \in S
      BY <1>1, <1>6
    <2>3. {order[i] : i \in 1..(m + 1)} = {order[i] : i \in 1..m} \cup {order[m + 1]}
      BY <1>6
    <2>4. order[m + 1] \notin {order[i] : i \in 1..m}
      BY <2>2 DEF IsInjective
    <2>5. CASE order[m + 1] \in K
      <3> DEFINE s == F[m]
                 new == Append(s, order[m + 1])
      <3>1. F[m + 1] = new
        BY <1>4, <1>6, <2>5
      <3>2. s \in Seq(S) /\ IsInjective(s) /\ order[m + 1] \in S /\ order[m + 1] \notin ToSet(s)
        BY <2>1, <2>2, <2>4
      <3> HIDE DEF s
      <3>3. /\ new \in Seq(S) /\ IsInjective(new)
            /\ ToSet(new) = ToSet(s) \cup {order[m + 1]}
        BY <3>2, PushedBack
      <3> HIDE DEF new
      <3>4. ToSet(new) = {order[i] : i \in 1..(m + 1)} \cap K
        BY <2>1, <2>3, <2>5, <3>3 DEF s
      <3> QED
        BY <3>1, <3>3, <3>4
    <2>6. CASE order[m + 1] \notin K
      <3>1. F[m + 1] = F[m]
        BY <1>4, <1>6, <2>6
      <3>2. {order[i] : i \in 1..(m + 1)} \cap K = {order[i] : i \in 1..m} \cap K
        BY <2>3, <2>6
      <3> QED
        BY <2>1, <3>1, <3>2
    <2> QED
      BY <2>5, <2>6
  <1> HIDE DEF T
  <1>7. n \in T
    <2>1. 0..n \subseteq T
      BY <1>1, <1>5, <1>6, CountingUp
    <2> QED
      BY <1>1, <2>1
  <1> QED
    BY <1>3, <1>7 DEF T, ToSet

\* pop_front takes the oldest key, and only it.
LEMMA PoppedFront ==
    ASSUME NEW S, NEW order \in Seq(S), IsInjective(order), order # << >>
    PROVE  /\ Tail(order) \in Seq(S) /\ IsInjective(Tail(order))
           /\ ToSet(Tail(order)) = ToSet(order) \ {Head(order)}
           /\ Head(order) \in ToSet(order)
  <1> DEFINE rest == Tail(order)
  <1>1. /\ Len(order) \in Nat /\ Len(order) > 0 /\ DOMAIN order = 1..Len(order)
        /\ rest \in Seq(S) /\ DOMAIN rest = 1..(Len(order) - 1)
        /\ \A i \in 1..(Len(order) - 1) : rest[i] = order[i + 1]
        /\ Head(order) = order[1]
    OBVIOUS
  <1> HIDE DEF rest
  <1>2. 1 \in 1..Len(order) /\ \A i \in 1..(Len(order) - 1) : i + 1 \in 1..Len(order)
    BY <1>1
  <1>3. \A i \in 1..Len(order) : i = 1 \/ (i - 1 \in 1..(Len(order) - 1) /\ (i - 1) + 1 = i)
    BY <1>1
  <1>4. \A i \in 1..(Len(order) - 1) : i + 1 # 1
    BY <1>1
  <1>5. IsInjective(rest)
    <2> SUFFICES ASSUME NEW i \in 1..(Len(order) - 1), NEW j \in 1..(Len(order) - 1),
                        rest[i] = rest[j]
                 PROVE  i = j
      BY <1>1 DEF IsInjective
    <2>1. order[i + 1] = order[j + 1] /\ i + 1 \in 1..Len(order) /\ j + 1 \in 1..Len(order)
      BY <1>1, <1>2
    <2>2. i + 1 = j + 1
      BY <1>1, <2>1 DEF IsInjective
    <2> QED
      BY <2>2
  <1>6. ToSet(rest) = ToSet(order) \ {Head(order)}
    <2>1. ASSUME NEW x \in ToSet(rest) PROVE x \in ToSet(order) /\ x # Head(order)
      BY <1>1, <1>2, <1>4, <2>1 DEF ToSet, IsInjective
    <2>2. ASSUME NEW x \in ToSet(order), x # Head(order) PROVE x \in ToSet(rest)
      <3>1. PICK i \in 1..Len(order) : x = order[i]
        BY <1>1, <2>2 DEF ToSet
      <3>2. i - 1 \in 1..(Len(order) - 1) /\ rest[i - 1] = order[i]
        BY <1>1, <1>3, <2>2, <3>1
      <3> QED
        BY <1>1, <3>1, <3>2 DEF ToSet
    <2> QED
      BY <2>1, <2>2
  <1> QED
    BY <1>1, <1>2, <1>5, <1>6 DEF ToSet, rest

\* There are as many keys as the list is long.
LEMMA ListedKeys ==
    ASSUME NEW S, NEW order \in Seq(S), IsInjective(order)
    PROVE  IsFiniteSet(ToSet(order)) /\ Cardinality(ToSet(order)) \in Nat
  <1>1. order \in [1..Len(order) -> ToSet(order)] /\ Len(order) \in Nat
    BY DEF ToSet
  <1>2. \A x \in ToSet(order) : \E i \in 1..Len(order) : order[i] = x
    BY DEF ToSet
  <1>3. order \in Surjection(1..Len(order), ToSet(order))
    BY <1>1, <1>2 DEF Surjection
  <1>4. IsFiniteSet(1..Len(order))
    BY <1>1, FS_Interval
  <1> QED
    BY <1>3, <1>4, FS_Surjection, FS_CardinalityType

--------------------------------------------------------------------------------
(* Type correctness *)

\* The events the steps push are events.
LEMMA EventTypes ==
    ASSUME NEW t \in Tenant
    PROVE  /\ \A n \in Node : HealthChanged(t, n) \in Event
                            /\ RecoveryProbeOpened(t, n) \in Event
           /\ \A k \in RouteKey, p \in Paths, hit \in BOOLEAN :
                    Reroute(t, k, p, hit) \in Event
           /\ \A k \in RouteKey, r \in {"TenantNotFound", "NoFeasiblePath"},
                 B \in SUBSET Node : ExplicitEscalation(t, k, r, B) \in Event
  BY DEF Event, HealthChanged, RecoveryProbeOpened, Reroute, ExplicitEscalation

\* The empty router is well typed.
LEMMA InitType == Init => TypeOK
  <1>1. NewTracker \in Tracker
    BY CapsAssumption DEF NewTracker, Tracker, NodeState, NotOpened
  <1>2. IsCache(NoCache)
    BY DEF IsCache, NoCache
  <1> QED
    BY <1>1, <1>2, RouterAssumption DEF Init, TypeOK

\* Clearing a tenant's cache leaves every cache a cache.
LEMMA ClearType ==
    ASSUME TypeOK, NEW t \in Tenant, ClearCache(t)
    PROVE  /\ DOMAIN cache' = Tenant /\ \A u \in Tenant : IsCache(cache'[u])
           /\ DOMAIN cacheOrder' = Tenant
  <1>1. IsCache(NoCache)
    BY DEF IsCache, NoCache
  <1> QED
    BY <1>1 DEF TypeOK, ClearCache

\* So does invalidating a node.
LEMMA InvalidateType ==
    ASSUME TypeOK, NEW t \in Tenant, NEW n, InvalidateForNode(t, n)
    PROVE  /\ DOMAIN cache' = Tenant /\ \A u \in Tenant : IsCache(cache'[u])
           /\ DOMAIN cacheOrder' = Tenant
           /\ \A u \in Tenant : \A k \in DOMAIN cache'[u] :
                /\ k \in DOMAIN cache[u] /\ cache'[u][k] = cache[u][k]
                /\ u = t => n \notin Range(cache[u][k])
  <1> DEFINE S == {k \in DOMAIN cache[t] : n \notin Range(cache[t][k])}
  <1>1. CacheWithout(cache[t], n) = Restrict(cache[t], S)
    BY DEF CacheWithout
  <1>2. IsCache(cache[t])
    BY DEF TypeOK
  <1>3. /\ IsCache(Restrict(cache[t], S)) /\ DOMAIN Restrict(cache[t], S) = S
        /\ \A k \in S : Restrict(cache[t], S)[k] = cache[t][k]
    BY <1>2, RestrictCache
  <1>4. cache' = [cache EXCEPT ![t] = Restrict(cache[t], S)]
    BY <1>1 DEF InvalidateForNode
  <1>5. DOMAIN cacheOrder' = Tenant
    BY DEF InvalidateForNode, TypeOK
  <1> QED
    BY <1>3, <1>4, <1>5 DEF TypeOK

\* Reconfiguring a tenant keeps the types.
LEMMA ReconfigureType == ASSUME TypeOK, NEW t \in Tenant, Reconfigure(t) PROVE TypeOK'
  <1>1. CASE AddTenant(t)
    BY <1>1 DEF AddTenant, TypeOK
  <1>2. CASE SetCostModel(t)
    <2>1. ClearCache(t)
      BY <1>2 DEF SetCostModel
    <2> QED
      BY <1>2, <2>1, ClearType DEF SetCostModel, TypeOK
  <1>3. ASSUME NEW p \in Policies, SetHealthPolicy(t, p) PROVE TypeOK'
    <2>1. ClearCache(t) /\ p \in HealthPolicy
      BY <1>3, RouterAssumption DEF SetHealthPolicy
    <2> QED
      BY <1>3, <2>1, ClearType DEF SetHealthPolicy, TypeOK
  <1>4. ASSUME NEW e \in EdgeInputs, AddEdge(t, e) PROVE TypeOK'
    <2>1. ClearCache(t) /\ e \in Edge
      BY <1>4, RouterAssumption DEF AddEdge
    <2> QED
      BY <1>4, <2>1, ClearType DEF AddEdge, TypeOK
  <1> QED
    BY <1>1, <1>2, <1>3, <1>4 DEF Reconfigure

\* So does an outcome (Router::record_result).
LEMMA RecordResultType ==
    ASSUME TypeOK, NEW t \in Tenant, NEW n \in Reported, NEW success \in BOOLEAN,
           RecordResult(t, n, success)
    PROVE  TypeOK'
  <1>1. n \in Node /\ health[t][n] \in Tracker /\ policy[t] \in HealthPolicy
    BY RouterAssumption DEF TypeOK
  <1> DEFINE tr == AfterResult(health[t][n], success, policy[t])
  <1>2. tr \in Tracker
    BY <1>1, TrackerType
  <1>3. /\ tenants' = tenants \cup {t}
        /\ health' = [health EXCEPT ![t][n] = tr]
        /\ InvalidateForNode(t, n) \/ UNCHANGED <<cache, cacheOrder>>
        /\ audit' = Push(audit, HealthChanged(t, n))
        /\ UNCHANGED <<edges, policy, pending>>
    BY DEF RecordResult
  <1> HIDE DEF tr
  <1>4. health' \in [Tenant -> [Node -> Tracker]]
    BY <1>1, <1>2, <1>3 DEF TypeOK
  <1>5. audit' \in Seq(Event) /\ Len(audit') <= AuditLimit
    BY <1>1, <1>3, PushType, EventTypes DEF TypeOK
  <1>6. /\ DOMAIN cache' = Tenant /\ \A u \in Tenant : IsCache(cache'[u])
        /\ DOMAIN cacheOrder' = Tenant
    BY <1>3, InvalidateType DEF TypeOK
  <1> QED
    BY <1>3, <1>4, <1>5, <1>6 DEF TypeOK

\* So does a forced probe (Router::force_half_open).
LEMMA ForceType ==
    ASSUME TypeOK, NEW t \in Tenant, NEW n \in Reported, ForceHalfOpen(t, n)
    PROVE  TypeOK'
  <1>1. n \in Node /\ health[t][n] \in Tracker
    BY RouterAssumption DEF TypeOK
  <1>2. HalfOpened(health[t][n]) \in Tracker
    BY <1>1, TrackerType, RouterAssumption
  <1>3. health' \in [Tenant -> [Node -> Tracker]]
    BY <1>1, <1>2 DEF TypeOK, ForceHalfOpen
  <1>4. audit' \in Seq(Event) /\ Len(audit') <= AuditLimit
    BY <1>1, PushType, EventTypes DEF TypeOK, ForceHalfOpen
  <1>5. /\ DOMAIN cache' = Tenant /\ \A u \in Tenant : IsCache(cache'[u])
        /\ DOMAIN cacheOrder' = Tenant
    BY InvalidateType DEF ForceHalfOpen
  <1> QED
    BY <1>3, <1>4, <1>5 DEF TypeOK, ForceHalfOpen

\* What a scan of the recovery loop leaves in the caches and pushes to the ring.
LEMMA ProbeFacts ==
    ASSUME TypeOK, RecoveryProbe
    PROVE  /\ DOMAIN cache' = Tenant /\ \A u \in Tenant : IsCache(cache'[u])
           /\ \A u \in Tenant : \A k \in DOMAIN cache'[u] :
                /\ k \in DOMAIN cache[u] /\ cache'[u][k] = cache[u][k]
                /\ \A n \in Range(cache[u][k]) : <<u, n>> \notin Ready
           /\ audit' \in Seq(Event) /\ Len(audit') <= AuditLimit
           /\ audit' # << >> /\ Last(audit').type = "RecoveryProbeOpened"
  <1> DEFINE S(u) == {k \in DOMAIN cache[u] :
                        \A n \in Range(cache[u][k]) : <<u, n>> \notin Ready}
  <1>1. cache' = [u \in Tenant |-> Restrict(cache[u], S(u))]
    BY DEF RecoveryProbe
  <1>2. \A u \in Tenant : /\ IsCache(Restrict(cache[u], S(u)))
                          /\ DOMAIN Restrict(cache[u], S(u)) = S(u)
                          /\ \A k \in S(u) : Restrict(cache[u], S(u))[k] = cache[u][k]
    BY RestrictCache DEF TypeOK
  <1>3. DOMAIN cache' = Tenant /\ \A u \in Tenant : cache'[u] = Restrict(cache[u], S(u))
    BY <1>1
  <1>4. IsFiniteSet(Ready) /\ Ready # {} /\ Ready \subseteq tenants \X Node
    <2>1. IsFiniteSet(tenants) /\ IsFiniteSet(Node)
      BY RouterAssumption, FS_Subset DEF TypeOK
    <2>2. IsFiniteSet(tenants \X Node)
      BY <2>1, FS_Product
    <2> QED
      BY <2>2, FS_Subset DEF Ready, RecoveryProbe
  <1>5. PICK opened \in SetToSeqs(Ready) :
          audit' = PushAll(audit, [i \in DOMAIN opened |->
                              RecoveryProbeOpened(opened[i][1], opened[i][2])])
    BY DEF RecoveryProbe
  <1>6. Cardinality(Ready) \in Nat \ {0}
    BY <1>4, FS_CardinalityType, FS_EmptySet
  <1>7. opened \in [1..Cardinality(Ready) -> Ready]
    BY DEF SetToSeqs
  <1> DEFINE es == [i \in DOMAIN opened |->
                      RecoveryProbeOpened(opened[i][1], opened[i][2])]
  <1>8. \A i \in 1..Cardinality(Ready) :
          /\ RecoveryProbeOpened(opened[i][1], opened[i][2]) \in Event
          /\ RecoveryProbeOpened(opened[i][1], opened[i][2]).type = "RecoveryProbeOpened"
    <2> TAKE i \in 1..Cardinality(Ready)
    <2>1. opened[i][1] \in Tenant /\ opened[i][2] \in Node
      BY <1>4, <1>7 DEF TypeOK
    <2> QED
      BY <2>1, EventTypes DEF RecoveryProbeOpened
  <1>9. /\ es \in [1..Cardinality(Ready) -> Event]
        /\ es[Cardinality(Ready)].type = "RecoveryProbeOpened"
    BY <1>6, <1>7, <1>8
  <1>10. es \in Seq(Event) /\ es # << >> /\ Len(es) = Cardinality(Ready)
    BY <1>6, <1>9
  <1> HIDE DEF es
  <1>11. /\ audit' \in Seq(Event) /\ Len(audit') <= AuditLimit
         /\ audit' # << >> /\ Last(audit') = es[Len(es)]
    <2>1. audit \in Seq(Event) /\ audit' = PushAll(audit, es)
      BY <1>5 DEF TypeOK, es
    <2> QED
      BY <1>10, <2>1, PushAllType
  <1>12. ASSUME NEW u \in Tenant
         PROVE  /\ IsCache(cache'[u])
                /\ \A k \in DOMAIN cache'[u] :
                     /\ k \in DOMAIN cache[u] /\ cache'[u][k] = cache[u][k]
                     /\ \A n \in Range(cache[u][k]) : <<u, n>> \notin Ready
    <2> DEFINE R == Restrict(cache[u], S(u))
    <2>1. cache'[u] = R /\ IsCache(R) /\ DOMAIN R = S(u) /\ \A k \in S(u) : R[k] = cache[u][k]
      BY <1>2, <1>3
    <2> HIDE DEF R
    <2> QED
      BY <2>1
  <1> HIDE DEF S
  <1>13. Last(audit').type = "RecoveryProbeOpened"
    BY <1>9, <1>10, <1>11
  <1> QED
    BY <1>3, <1>11, <1>12, <1>13

\* A scan keeps the types.
LEMMA ProbeType == ASSUME TypeOK, RecoveryProbe PROVE TypeOK'
  <1>1. ASSUME NEW t \in Tenant, NEW n \in Node
        PROVE  (IF <<t, n>> \in Ready THEN HalfOpened(health[t][n])
                                      ELSE health[t][n]) \in Tracker
    BY TrackerType, RouterAssumption DEF TypeOK
  <1>2. health' \in [Tenant -> [Node -> Tracker]]
    BY <1>1 DEF RecoveryProbe
  <1>3. DOMAIN cacheOrder' = Tenant
    BY DEF RecoveryProbe
  <1> QED
    BY <1>2, <1>3, ProbeFacts DEF TypeOK, RecoveryProbe

\* The clock keeps the types and everybody's state.
LEMMA TickType ==
    ASSUME TypeOK, Tick
    PROVE  TypeOK' /\ \A t \in Tenant, n \in Node : health'[t][n].state = health[t][n].state
  <1>1. \A t \in Tenant, n \in Node : /\ Aged(health[t][n]) \in Tracker
                                     /\ Aged(health[t][n]).state = health[t][n].state
    BY TrackerType, RouterAssumption DEF TypeOK
  <1>2. health' = [t \in Tenant |-> [n \in Node |-> Aged(health[t][n])]]
    BY DEF Tick
  <1>3. health' \in [Tenant -> [Node -> Tracker]]
    BY <1>1, <1>2
  <1>4. \A t \in Tenant, n \in Node : health'[t][n].state = health[t][n].state
    BY <1>1, <1>2
  <1> QED
    BY <1>3, <1>4 DEF TypeOK, Tick

\* A client on the slow path has a well-formed request.
LEMMA PendingRequest ==
    ASSUME TypeOK, NEW c \in Client, SlowPath(c)
    PROVE  /\ pending[c].tenant \in Tenant /\ pending[c].key \in RouteKey
           /\ pending' \in [Client -> Request \cup {Idle}]
  BY DEF TypeOK, SlowPath, Request

\* Both steps of route() keep the types.
LEMMA FastPathType ==
    ASSUME TypeOK, NEW c \in Client, NEW t \in Tenant, NEW k \in Requests,
           RouteHit(c, t, k) \/ RouteMiss(c, t, k)
    PROVE  TypeOK'
  <1>1. k \in RouteKey
    BY RouterAssumption
  <1>2. CASE RouteHit(c, t, k)
    <2>1. cache[t][k] \in Paths
      BY <1>2 DEF RouteHit, TypeOK, IsCache
    <2>2. audit' \in Seq(Event) /\ Len(audit') <= AuditLimit
      BY <1>1, <1>2, <2>1, PushType, EventTypes DEF RouteHit, TypeOK
    <2> QED
      BY <1>2, <2>2 DEF RouteHit, TypeOK
  <1>3. CASE RouteMiss(c, t, k)
    <2>1. pending' \in [Client -> Request \cup {Idle}]
      BY <1>1, <1>3 DEF RouteMiss, TypeOK, Request
    <2> QED
      BY <1>3, <2>1 DEF RouteMiss, TypeOK
  <1> QED
    BY <1>2, <1>3

LEMMA SlowPathType ==
    ASSUME TypeOK, NEW c \in Client,
           \/ RouteTenantNotFound(c) \/ RouteRecheckHit(c)
           \/ RouteSearched(c) \/ RouteEscalated(c)
    PROVE  TypeOK'
  <1> DEFINE t == pending[c].tenant
             k == pending[c].key
  <1>1. /\ t \in Tenant /\ k \in RouteKey
        /\ pending' \in [Client -> Request \cup {Idle}]
    BY PendingRequest DEF RouteTenantNotFound, RouteRecheckHit, RouteSearched,
       RouteEscalated
  <1>2. OpenNodes(health[t]) \in SUBSET Node /\ {} \in SUBSET Node
    BY DEF OpenNodes
  <1> HIDE DEF t, k
  <1>3. CASE RouteTenantNotFound(c)
    <2>1. audit' = Push(audit, ExplicitEscalation(t, k, "TenantNotFound", {}))
      BY <1>3 DEF RouteTenantNotFound, t, k
    <2>2. audit' \in Seq(Event) /\ Len(audit') <= AuditLimit
      BY <1>1, <1>2, <2>1, PushType, EventTypes DEF TypeOK
    <2> QED
      BY <1>1, <1>3, <2>2 DEF RouteTenantNotFound, TypeOK
  <1>4. CASE RouteRecheckHit(c)
    <2>1. /\ audit' = Push(audit, Reroute(t, k, cache[t][k], TRUE))
          /\ k \in DOMAIN cache[t] /\ DOMAIN cacheOrder' = DOMAIN cacheOrder
      BY <1>4 DEF RouteRecheckHit, t, k
    <2>2. cache[t][k] \in Paths
      BY <1>1, <2>1 DEF TypeOK, IsCache
    <2>3. audit' \in Seq(Event) /\ Len(audit') <= AuditLimit
      BY <1>1, <2>1, <2>2, PushType, EventTypes DEF TypeOK
    <2> QED
      BY <1>1, <1>4, <2>1, <2>3 DEF RouteRecheckHit, TypeOK
  <1>5. CASE RouteSearched(c)
    <2>1. PICK p \in Paths :
            /\ cache' = [cache EXCEPT ![t] =
                            CacheAfterInsert(cache[t], cacheOrder[t], k, p)]
            /\ DOMAIN cacheOrder' = DOMAIN cacheOrder
            /\ audit' = Push(audit, Reroute(t, k, p, FALSE))
      BY <1>5 DEF RouteSearched, Routes, t, k
    <2>2. audit' \in Seq(Event) /\ Len(audit') <= AuditLimit
      BY <1>1, <2>1, PushType, EventTypes DEF TypeOK
    <2>3. DOMAIN cache' = Tenant /\ \A u \in Tenant : IsCache(cache'[u])
      <3>1. IsCache(cache[t])
        BY <1>1 DEF TypeOK
      <3>2. IsCache(CacheAfterInsert(cache[t], cacheOrder[t], k, p))
        BY <1>1, <3>1, InsertCache
      <3> QED
        BY <2>1, <3>2 DEF TypeOK
    <2> QED
      BY <1>1, <1>5, <2>1, <2>2, <2>3 DEF RouteSearched, TypeOK
  <1>6. CASE RouteEscalated(c)
    <2>1. audit' = Push(audit, ExplicitEscalation(t, k, "NoFeasiblePath",
                                                  OpenNodes(health[t])))
      BY <1>6 DEF RouteEscalated, t, k
    <2>2. audit' \in Seq(Event) /\ Len(audit') <= AuditLimit
      BY <1>1, <1>2, <2>1, PushType, EventTypes DEF TypeOK
    <2> QED
      BY <1>1, <1>6, <2>2 DEF RouteEscalated, TypeOK
  <1> QED
    BY <1>3, <1>4, <1>5, <1>6

\* One step keeps the types.
LEMMA NextType == TypeOK /\ [Next]_vars => TypeOK'
  <1> SUFFICES ASSUME TypeOK, [Next]_vars PROVE TypeOK'
    OBVIOUS
  <1>1. CASE UNCHANGED vars
    BY <1>1 DEF vars, TypeOK
  <1>2. CASE Next
    BY <1>2, ReconfigureType, RecordResultType, ForceType, ProbeType, TickType,
       FastPathType, SlowPathType DEF Next
  <1> QED
    BY <1>1, <1>2

\* Every part of the router's state keeps its type, for any tenants, graph and limits.
THEOREM TypeCorrect == Spec => []TypeOK
  BY InitType, NextType, PTL DEF Spec

--------------------------------------------------------------------------------
(* The cache holds only routes that are feasible now.  With TypeOK this is    *)
(* inductive as it stands.                                                    *)

IInv == TypeOK /\ CacheIsFeasible

\* A tenant's cache stays feasible in a step that only drops entries, only adds edges,
\* and opens no node that an entry it keeps goes through.
LEMMA StaysFeasible ==
    ASSUME IInv, NEW t \in Tenant, edges[t] \subseteq edges'[t],
           \A k \in DOMAIN cache'[t] :
              /\ k \in DOMAIN cache[t] /\ cache'[t][k] = cache[t][k]
              /\ \A n \in Range(cache[t][k]) :
                    health'[t][n].state = "Open" => health[t][n].state = "Open"
    PROVE  \A k \in DOMAIN cache'[t] :
              IsRoute(edges'[t], OpenNodes(health'[t]), k, cache'[t][k])
  <1> TAKE k \in DOMAIN cache'[t]
  <1> DEFINE p == cache[t][k]
             B == OpenNodes(health[t])
             C == OpenNodes(health'[t])
  <1>1. k \in DOMAIN cache[t] /\ cache'[t][k] = p
    OBVIOUS
  <1>2. p \in Paths /\ IsRoute(edges[t], B, k, p)
    BY <1>1 DEF IInv, TypeOK, IsCache, CacheIsFeasible
  <1>3. \A n \in Range(p) : n \in C => n \in B
    BY DEF OpenNodes
  <1> HIDE DEF p, B, C
  <1>4. IsRoute(edges'[t], C, k, p)
    BY <1>2, <1>3, RouteSurvives
  <1> QED
    BY <1>1, <1>4 DEF C

\* The same for the steps that leave graph, health and cache alone.
LEMMA UntouchedFeasible ==
    ASSUME CacheIsFeasible, UNCHANGED <<edges, health, cache>>
    PROVE  CacheIsFeasible'
  BY DEF CacheIsFeasible, OpenNodes

\* Reconfiguring clears the tenant's cache, or changes nothing the cache depends on.
LEMMA ReconfigureFeasible ==
    ASSUME IInv, NEW t \in Tenant, Reconfigure(t) PROVE CacheIsFeasible'
  <1>1. CASE AddTenant(t)
    BY <1>1, UntouchedFeasible DEF AddTenant, IInv
  <1>2. CASE ~AddTenant(t)
    <2>1. /\ cache' = [cache EXCEPT ![t] = NoCache] /\ health' = health
          /\ \A u \in Tenant : edges[u] \subseteq edges'[u]
      BY <1>2 DEF Reconfigure, SetCostModel, SetHealthPolicy, AddEdge, ClearCache,
         IInv, TypeOK
    <2>2. DOMAIN NoCache = {}
      BY DEF NoCache
    <2> SUFFICES ASSUME NEW u \in Tenant
                 PROVE  \A k \in DOMAIN cache'[u] :
                          IsRoute(edges'[u], OpenNodes(health'[u]), k, cache'[u][k])
      BY DEF CacheIsFeasible
    <2>3. cache'[u] = cache[u] \/ DOMAIN cache'[u] = {}
      BY <2>1, <2>2 DEF IInv, TypeOK
    <2> QED
      BY <2>1, <2>3, StaysFeasible
  <1> QED
    BY <1>1, <1>2

\* Invalidating the one node whose state may have changed is enough, whatever its state
\* is now: record_result and force_half_open.
LEMMA NodeChangeFeasible ==
    ASSUME IInv, NEW t \in Tenant, NEW n \in Node, NEW tr,
           health' = [health EXCEPT ![t][n] = tr], UNCHANGED edges,
           \/ InvalidateForNode(t, n)
           \/ UNCHANGED cache /\ tr.state = health[t][n].state
    PROVE  CacheIsFeasible'
  <1> SUFFICES ASSUME NEW u \in Tenant
               PROVE  \A k \in DOMAIN cache'[u] :
                        IsRoute(edges'[u], OpenNodes(health'[u]), k, cache'[u][k])
    BY DEF CacheIsFeasible
  <1>1. ASSUME NEW m, m \in Node,
               ~(u = t /\ m = n) \/ tr.state = health[t][n].state
        PROVE  health'[u][m].state = health[u][m].state
    BY <1>1 DEF IInv, TypeOK
  <1>2. \A k \in DOMAIN cache'[u] :
          /\ k \in DOMAIN cache[u] /\ cache'[u][k] = cache[u][k]
          /\ Range(cache[u][k]) \subseteq Node
          /\ \/ u # t \/ n \notin Range(cache[u][k])
             \/ tr.state = health[t][n].state
    <2>1. \A k \in DOMAIN cache[u] : Range(cache[u][k]) \subseteq Node
      BY PathFacts DEF IInv, TypeOK, IsCache
    <2>2. CASE InvalidateForNode(t, n)
      BY <2>1, <2>2, InvalidateType DEF IInv
    <2>3. CASE UNCHANGED cache /\ tr.state = health[t][n].state
      BY <2>1, <2>3
    <2> QED
      BY <2>2, <2>3
  <1>3. \A k \in DOMAIN cache'[u] :
          /\ k \in DOMAIN cache[u] /\ cache'[u][k] = cache[u][k]
          /\ \A m \in Range(cache[u][k]) :
                health'[u][m].state = "Open" => health[u][m].state = "Open"
    BY <1>1, <1>2
  <1>4. edges[u] \subseteq edges'[u]
    OBVIOUS
  <1> QED
    BY <1>3, <1>4, StaysFeasible

\* Outcomes and forced probes keep the cache feasible.
LEMMA HealthStepsFeasible ==
    ASSUME IInv, NEW t \in Tenant, NEW n \in Reported,
           ForceHalfOpen(t, n) \/ \E success \in BOOLEAN : RecordResult(t, n, success)
    PROVE  CacheIsFeasible'
  <1>1. n \in Node
    BY RouterAssumption
  <1>2. CASE ForceHalfOpen(t, n)
    BY <1>1, <1>2, NodeChangeFeasible DEF ForceHalfOpen
  <1>3. ASSUME NEW success \in BOOLEAN, RecordResult(t, n, success)
        PROVE  CacheIsFeasible'
    <2> DEFINE tr == AfterResult(health[t][n], success, policy[t])
    <2>1. /\ health' = [health EXCEPT ![t][n] = tr] /\ UNCHANGED edges
          /\ \/ InvalidateForNode(t, n)
             \/ UNCHANGED cache /\ tr.state = health[t][n].state
      BY <1>3 DEF RecordResult
    <2> HIDE DEF tr
    <2> QED
      BY <1>1, <2>1, NodeChangeFeasible
  <1> QED
    BY <1>2, <1>3

\* A scan of the recovery loop opens nothing.
LEMMA ProbeFeasible == ASSUME IInv, RecoveryProbe PROVE CacheIsFeasible'
  <1>1. ASSUME NEW t \in Tenant, NEW n \in Node
        PROVE  health'[t][n].state = "Open" => health[t][n].state = "Open"
    <2>1. health'[t][n] = IF <<t, n>> \in Ready THEN HalfOpened(health[t][n])
                                                ELSE health[t][n]
      BY DEF RecoveryProbe
    <2>2. HalfOpened(health[t][n]).state = "HalfOpen"
      BY TrackerType, RouterAssumption DEF IInv, TypeOK
    <2> QED
      BY <2>1, <2>2
  <1> SUFFICES ASSUME NEW u \in Tenant
               PROVE  \A k \in DOMAIN cache'[u] :
                        IsRoute(edges'[u], OpenNodes(health'[u]), k, cache'[u][k])
    BY DEF CacheIsFeasible
  <1>2. \A k \in DOMAIN cache[u] : Range(cache[u][k]) \subseteq Node
    BY PathFacts DEF IInv, TypeOK, IsCache
  <1>3. /\ edges[u] \subseteq edges'[u]
        /\ \A k \in DOMAIN cache'[u] : k \in DOMAIN cache[u] /\ cache'[u][k] = cache[u][k]
    BY ProbeFacts DEF IInv, RecoveryProbe
  <1> QED
    BY <1>1, <1>2, <1>3, StaysFeasible

\* The clock opens nothing either.
LEMMA TickFeasible == ASSUME IInv, Tick PROVE CacheIsFeasible'
  <1> SUFFICES ASSUME NEW u \in Tenant
               PROVE  \A k \in DOMAIN cache'[u] :
                        IsRoute(edges'[u], OpenNodes(health'[u]), k, cache'[u][k])
    BY DEF CacheIsFeasible
  <1>1. \A k \in DOMAIN cache[u] : Range(cache[u][k]) \subseteq Node
    BY PathFacts DEF IInv, TypeOK, IsCache
  <1>2. \A n \in Node : health'[u][n].state = health[u][n].state
    BY TickType DEF IInv
  <1>3. edges' = edges /\ cache' = cache
    BY DEF Tick
  <1> QED
    BY <1>1, <1>2, <1>3, StaysFeasible

\* What the search stores is feasible at that instant, and it is stored under the same
\* lock; the entries beside it are untouched.
LEMMA SearchFeasible ==
    ASSUME IInv, NEW c \in Client, RouteSearched(c) PROVE CacheIsFeasible'
  <1> DEFINE t == pending[c].tenant
             k == pending[c].key
  <1>1. t \in Tenant /\ k \in RouteKey
    BY PendingRequest DEF RouteSearched, IInv
  <1>2. PICK p \in Routes(edges[t], OpenNodes(health[t]), k) :
          cache' = [cache EXCEPT ![t] = CacheAfterInsert(cache[t], cacheOrder[t], k, p)]
    BY DEF RouteSearched
  <1>3. edges' = edges /\ health' = health
    BY DEF RouteSearched
  <1> HIDE DEF t, k
  <1>4. p \in Paths /\ IsRoute(edges[t], OpenNodes(health[t]), k, p)
    BY <1>2 DEF Routes
  <1> DEFINE g == CacheAfterInsert(cache[t], cacheOrder[t], k, p)
  <1>5. /\ IsCache(g) /\ g[k] = p
        /\ \A x \in DOMAIN g : x = k \/ (x \in DOMAIN cache[t] /\ g[x] = cache[t][x])
    BY <1>1, <1>4, InsertCache DEF IInv, TypeOK
  <1>6. cache' = [cache EXCEPT ![t] = g] /\ DOMAIN cache = Tenant
    BY <1>2 DEF IInv, TypeOK
  <1> HIDE DEF g
  <1> SUFFICES ASSUME NEW u \in Tenant, NEW x \in DOMAIN cache'[u]
               PROVE  IsRoute(edges[u], OpenNodes(health[u]), x, cache'[u][x])
    BY <1>3 DEF CacheIsFeasible, OpenNodes
  <1>7. \/ u = t /\ x = k /\ cache'[u][x] = p
        \/ x \in DOMAIN cache[u] /\ cache'[u][x] = cache[u][x]
    BY <1>5, <1>6
  <1> QED
    BY <1>4, <1>7 DEF IInv, CacheIsFeasible

\* One step keeps the cache feasible.
LEMMA NextFeasible == IInv /\ [Next]_vars => CacheIsFeasible'
  <1> SUFFICES ASSUME IInv, [Next]_vars PROVE CacheIsFeasible'
    OBVIOUS
  <1>1. CacheIsFeasible
    BY DEF IInv
  <1>2. CASE UNCHANGED vars
    BY <1>1, <1>2, UntouchedFeasible DEF vars
  <1>3. ASSUME NEW c \in Client, NEW t \in Tenant, NEW k \in Requests,
               RouteHit(c, t, k) \/ RouteMiss(c, t, k)
        PROVE  CacheIsFeasible'
    BY <1>1, <1>3, UntouchedFeasible DEF RouteHit, RouteMiss
  <1>4. ASSUME NEW c \in Client,
               RouteTenantNotFound(c) \/ RouteRecheckHit(c) \/ RouteEscalated(c)
        PROVE  CacheIsFeasible'
    BY <1>1, <1>4, UntouchedFeasible DEF RouteTenantNotFound, RouteRecheckHit,
       RouteEscalated
  <1> QED
    BY <1>2, <1>3, <1>4, ReconfigureFeasible, HealthStepsFeasible, ProbeFeasible,
       TickFeasible, SearchFeasible DEF Next

\* The inductive invariant holds in every reachable state.
THEOREM RouterInvariant == Spec => []IInv
  <1>1. Init => CacheIsFeasible
    BY DEF Init, CacheIsFeasible, NoCache
  <1>2. Init => IInv
    BY <1>1, InitType DEF IInv
  <1>3. IInv /\ [Next]_vars => IInv'
    BY NextType, NextFeasible DEF IInv
  <1> QED
    BY <1>2, <1>3, PTL DEF Spec

\* No cached path ever enters an Open node or uses an edge the graph does not have.
THEOREM CacheAlwaysFeasible == Spec => []CacheIsFeasible
  <1>1. IInv => CacheIsFeasible
    BY DEF IInv
  <1> QED
    BY RouterInvariant, <1>1, PTL

--------------------------------------------------------------------------------
(* The cache and its order, kept in step *)

\* One tenant's map and list agree, and are within ROUTE_CACHE_LIMIT.
InStep(f, order) ==
    /\ order \in Seq(RouteKey)
    /\ ToSet(order) = DOMAIN f
    /\ IsInjective(order)
    /\ Cardinality(DOMAIN f) <= CacheLimit

\* With TypeOK, the inductive invariant
OrderInv == \A t \in Tenant : InStep(cache[t], cacheOrder[t])

\* A cleared cache (invalidate_all_cache) is in step.
LEMMA ClearedInStep == InStep(NoCache, << >>)
  <1>1. << >> \in Seq(RouteKey) /\ DOMAIN NoCache = {} /\ ToSet(<< >>) = {}
    BY DEF NoCache, ToSet
  <1>2. IsInjective(<< >>)
    BY DEF IsInjective
  <1>3. Cardinality({}) <= CacheLimit
    BY FS_EmptySet, RouterAssumption
  <1> QED
    BY <1>1, <1>2, <1>3 DEF InStep

\* Pruning the list by what is left of the map (invalidate_for_node) keeps them in step.
LEMMA PrunedInStep ==
    ASSUME NEW f, NEW order, InStep(f, order), NEW g, DOMAIN g \subseteq DOMAIN f
    PROVE  InStep(g, OrderFor(order, g))
  <1>1. /\ OrderFor(order, g) \in Seq(RouteKey) /\ IsInjective(OrderFor(order, g))
        /\ ToSet(OrderFor(order, g)) = ToSet(order) \cap DOMAIN g
    BY RetainedFacts DEF OrderFor, InStep
  <1>2. Cardinality(DOMAIN g) <= CacheLimit
    <2>1. IsFiniteSet(DOMAIN f) /\ Cardinality(DOMAIN f) \in Nat
      BY ListedKeys DEF InStep
    <2>2. IsFiniteSet(DOMAIN g) /\ Cardinality(DOMAIN g) <= Cardinality(DOMAIN f)
      BY <2>1, FS_Subset
    <2>3. Cardinality(DOMAIN g) \in Nat
      BY <2>2, FS_CardinalityType
    <2> QED
      BY <2>1, <2>2, <2>3, RouterAssumption DEF InStep
  <1> QED
    BY <1>1, <1>2 DEF InStep

\* Taking a key out of the list and pushing it to the back lists it once.
LEMMA MovedFacts ==
    ASSUME NEW order \in Seq(RouteKey), IsInjective(order), NEW k \in RouteKey
    PROVE  /\ MovedToBack(order, k) \in Seq(RouteKey)
           /\ ToSet(MovedToBack(order, k)) = ToSet(order) \cup {k}
           /\ IsInjective(MovedToBack(order, k))
  <1> DEFINE K == ToSet(order) \ {k}
             kept == Retained(order, K)
  <1>1. kept \in Seq(RouteKey) /\ ToSet(kept) = ToSet(order) \cap K /\ IsInjective(kept)
    BY RetainedFacts
  <1>2. ToSet(kept) = ToSet(order) \ {k}
    BY <1>1
  <1> HIDE DEF kept
  <1>3. /\ Append(kept, k) \in Seq(RouteKey) /\ IsInjective(Append(kept, k))
        /\ ToSet(Append(kept, k)) = ToSet(kept) \cup {k}
    BY <1>1, <1>2, PushedBack
  <1>4. MovedToBack(order, k) = Append(kept, k)
    BY DEF MovedToBack, kept
  <1> QED
    BY <1>2, <1>3, <1>4

\* insert_cache: the key is new or known, the cache has room or loses its oldest key, and
\* in each case the two are in step again.
LEMMA InsertedInStep ==
    ASSUME NEW f, NEW order, InStep(f, order), NEW k \in RouteKey, NEW p
    PROVE  InStep(CacheAfterInsert(f, order, k, p), OrderAfterInsert(f, order, k))
  <1> DEFINE evict == MustEvict(f, order, k)
             keys == IF evict THEN DOMAIN f \ {Head(order)} ELSE DOMAIN f
             list == IF evict THEN Tail(order) ELSE order
             g == CacheAfterInsert(f, order, k, p)
  <1>0. CacheLimit \in Nat \ {0}
    BY RouterAssumption
  <1>1. /\ order \in Seq(RouteKey) /\ IsInjective(order) /\ ToSet(order) = DOMAIN f
        /\ Cardinality(DOMAIN f) <= CacheLimit
    BY DEF InStep
  <1>2. IsFiniteSet(DOMAIN f) /\ Cardinality(DOMAIN f) \in Nat
    BY <1>1, ListedKeys
  <1>3. list \in Seq(RouteKey) /\ IsInjective(list) /\ ToSet(list) = keys
    <2>1. CASE evict
      BY <1>1, <2>1, PoppedFront DEF MustEvict
    <2>2. CASE ~evict
      BY <1>1, <2>2
    <2> QED
      BY <2>1, <2>2
  <1>4. OrderAfterInsert(f, order, k) = MovedToBack(list, k)
    BY DEF OrderAfterInsert
  <1>5. DOMAIN g = keys \cup {k}
    BY DEF CacheAfterInsert, Put, Restrict
  <1>6. Cardinality(keys \cup {k}) <= CacheLimit
    <2>1. CASE evict
      <3>1. Head(order) \in DOMAIN f
        BY <1>1, <2>1, PoppedFront DEF MustEvict
      <3>2. /\ IsFiniteSet(keys) /\ Cardinality(keys) = CacheLimit - 1
        BY <1>2, <2>1, <3>1, FS_RemoveElement DEF MustEvict
      <3> QED
        BY <1>0, <3>2, FS_AddElement
    <2>2. CASE ~evict /\ k \in DOMAIN f
      <3>1. keys \cup {k} = DOMAIN f
        BY <2>2
      <3> QED
        BY <1>1, <3>1
    <2>3. CASE ~evict /\ k \notin DOMAIN f
      <3>1. Cardinality(DOMAIN f) < CacheLimit
        <4>1. CASE order = << >>
          <5>1. DOMAIN f = {}
            BY <1>1, <4>1 DEF ToSet
          <5> QED
            BY <1>0, <5>1, FS_EmptySet
        <4>2. CASE order # << >>
          <5>1. Cardinality(DOMAIN f) # CacheLimit
            BY <2>3, <4>2 DEF MustEvict
          <5> QED
            BY <1>0, <1>1, <1>2, <5>1
        <4> QED
          BY <4>1, <4>2
      <3>2. Cardinality(DOMAIN f \cup {k}) = Cardinality(DOMAIN f) + 1
        BY <1>2, <2>3, FS_AddElement
      <3>3. keys = DOMAIN f
        BY <2>3
      <3> QED
        BY <1>0, <1>2, <3>1, <3>2, <3>3
    <2> QED
      BY <2>1, <2>2, <2>3
  <1> HIDE DEF keys, list, g
  <1>7. /\ MovedToBack(list, k) \in Seq(RouteKey) /\ IsInjective(MovedToBack(list, k))
        /\ ToSet(MovedToBack(list, k)) = keys \cup {k}
    BY <1>3, MovedFacts
  <1> QED
    BY <1>4, <1>5, <1>6, <1>7 DEF InStep, g

\* A step that changes one tenant's cache, or none, keeps every tenant's in step.
LEMMA OneInStep ==
    ASSUME TypeOK, OrderInv, NEW t \in Tenant, NEW f, NEW order, InStep(f, order),
           cache' = [cache EXCEPT ![t] = f], cacheOrder' = [cacheOrder EXCEPT ![t] = order]
    PROVE  OrderInv'
  <1>1. DOMAIN cache = Tenant /\ DOMAIN cacheOrder = Tenant
    BY DEF TypeOK
  <1>2. \A u \in Tenant : /\ cache'[u] = IF u = t THEN f ELSE cache[u]
                          /\ cacheOrder'[u] = IF u = t THEN order ELSE cacheOrder[u]
    BY <1>1
  <1>3. \A u \in Tenant : InStep(cache'[u], cacheOrder'[u])
    BY <1>2 DEF OrderInv
  <1> QED
    BY <1>3 DEF OrderInv, InStep

\* Invalidating a node keeps the tenant's cache in step.
LEMMA InvalidateInStep ==
    ASSUME TypeOK, OrderInv, NEW t \in Tenant, NEW n, InvalidateForNode(t, n)
    PROVE  OrderInv'
  <1> DEFINE kept == CacheWithout(cache[t], n)
  <1>1. DOMAIN kept \subseteq DOMAIN cache[t]
    BY DEF CacheWithout, Restrict
  <1>2. /\ cache' = [cache EXCEPT ![t] = kept]
        /\ cacheOrder' = [cacheOrder EXCEPT ![t] = OrderFor(cacheOrder[t], kept)]
    BY DEF InvalidateForNode
  <1> HIDE DEF kept
  <1>3. InStep(kept, OrderFor(cacheOrder[t], kept))
    BY <1>1, PrunedInStep DEF OrderInv
  <1> QED
    BY <1>2, <1>3, OneInStep

\* One step keeps them in step.
LEMMA NextInStep == TypeOK /\ OrderInv /\ [Next]_vars => OrderInv'
  <1> SUFFICES ASSUME TypeOK, OrderInv, [Next]_vars PROVE OrderInv'
    OBVIOUS
  <1>1. CASE UNCHANGED <<cache, cacheOrder>>
    BY <1>1 DEF OrderInv, InStep
  <1>2. ASSUME NEW t \in Tenant, ClearCache(t) PROVE OrderInv'
    BY <1>2, ClearedInStep, OneInStep DEF ClearCache
  <1>3. ASSUME NEW t \in Tenant, Reconfigure(t) PROVE OrderInv'
    BY <1>1, <1>2, <1>3 DEF Reconfigure, AddTenant, SetCostModel, SetHealthPolicy, AddEdge
  <1>4. ASSUME NEW t \in Tenant, NEW n \in Reported, NEW success \in BOOLEAN,
               RecordResult(t, n, success)
        PROVE  OrderInv'
    <2>1. InvalidateForNode(t, n) \/ UNCHANGED <<cache, cacheOrder>>
      BY <1>4 DEF RecordResult
    <2> QED
      BY <1>1, <2>1, InvalidateInStep
  <1>5. ASSUME NEW t \in Tenant, NEW n \in Reported, ForceHalfOpen(t, n) PROVE OrderInv'
    BY <1>5, InvalidateInStep DEF ForceHalfOpen
  <1>6. CASE RecoveryProbe
    <2>1. \A u \in Tenant : DOMAIN cache'[u] \subseteq DOMAIN cache[u]
      BY <1>6, ProbeFacts
    <2>2. \A u \in Tenant : cacheOrder'[u] = OrderFor(cacheOrder[u], cache'[u])
      BY <1>6 DEF RecoveryProbe
    <2>3. \A u \in Tenant : InStep(cache'[u], cacheOrder'[u])
      BY <2>1, <2>2, PrunedInStep DEF OrderInv
    <2> QED
      BY <2>3 DEF OrderInv, InStep
  <1>7. ASSUME NEW c \in Client, RouteRecheckHit(c) PROVE OrderInv'
    <2> DEFINE t == pending[c].tenant
               k == pending[c].key
    <2>1. t \in Tenant /\ k \in RouteKey
      BY <1>7, PendingRequest DEF RouteRecheckHit
    <2>2. /\ k \in DOMAIN cache[t] /\ cache' = cache
          /\ cacheOrder' = [cacheOrder EXCEPT ![t] = MovedToBack(cacheOrder[t], k)]
      BY <1>7 DEF RouteRecheckHit
    <2> HIDE DEF t, k
    <2>3. InStep(cache[t], cacheOrder[t])
      BY <2>1 DEF OrderInv
    <2>4. ToSet(cacheOrder[t]) \cup {k} = DOMAIN cache[t]
      BY <2>2, <2>3 DEF InStep
    <2>5. InStep(cache[t], MovedToBack(cacheOrder[t], k))
      BY <2>1, <2>3, <2>4, MovedFacts DEF InStep
    <2>6. \A u \in Tenant : InStep(cache'[u], cacheOrder'[u])
      <3>1. DOMAIN cacheOrder = Tenant
        BY DEF TypeOK
      <3> QED
        BY <2>1, <2>2, <2>5, <3>1 DEF OrderInv
    <2> QED
      BY <2>6 DEF OrderInv, InStep
  <1>8. ASSUME NEW c \in Client, RouteSearched(c) PROVE OrderInv'
    <2> DEFINE t == pending[c].tenant
               k == pending[c].key
    <2>1. t \in Tenant /\ k \in RouteKey
      BY <1>8, PendingRequest DEF RouteSearched
    <2>2. PICK p \in Routes(edges[t], OpenNodes(health[t]), k) :
            /\ cache' = [cache EXCEPT ![t] =
                           CacheAfterInsert(cache[t], cacheOrder[t], k, p)]
            /\ cacheOrder' = [cacheOrder EXCEPT ![t] =
                           OrderAfterInsert(cache[t], cacheOrder[t], k)]
      BY <1>8 DEF RouteSearched
    <2> HIDE DEF t, k
    <2>3. InStep(CacheAfterInsert(cache[t], cacheOrder[t], k, p),
                 OrderAfterInsert(cache[t], cacheOrder[t], k))
      BY <2>1, InsertedInStep DEF OrderInv
    <2> QED
      BY <2>1, <2>2, <2>3, OneInStep
  <1>9. \/ UNCHANGED <<cache, cacheOrder>>
        \/ \E t \in Tenant : Reconfigure(t)
        \/ \E t \in Tenant, n \in Reported, success \in BOOLEAN : RecordResult(t, n, success)
        \/ \E t \in Tenant, n \in Reported : ForceHalfOpen(t, n)
        \/ RecoveryProbe
        \/ \E c \in Client : RouteRecheckHit(c) \/ RouteSearched(c)
    BY DEF Next, vars, Tick, RouteHit, RouteMiss, RouteTenantNotFound, RouteEscalated
  <1> QED
    BY <1>1, <1>3, <1>4, <1>5, <1>6, <1>7, <1>8, <1>9

\* cache and cache_order, kept in step by hand, agree for any number of tenants, clients
\* and keys and any limit, and the limit is never overrun.
THEOREM CacheOrderStaysExact == Spec => []CacheOrderIsExact
  <1>1. Init => OrderInv
    BY ClearedInStep DEF Init, OrderInv
  <1>2. OrderInv => CacheOrderIsExact
    BY DEF OrderInv, InStep, CacheOrderIsExact
  <1> QED
    BY <1>1, <1>2, NextInStep, TypeCorrect, PTL DEF Spec

--------------------------------------------------------------------------------
(* What a step may take out of the cache *)

\* The nodes of tenant t whose state the step changes
Moved(t) == {n \in Node : health'[t][n].state # health[t][n].state}

\* The step does to tenant t's entries what InvalidationIsExact allows.
ExactFor(t) ==
    \A k \in DOMAIN cache[t] :
        LET touched == Range(cache[t][k]) \cap Moved(t) # {}
        IN  \/ touched /\ k \notin DOMAIN cache'[t]
            \/ ~touched /\ k \in DOMAIN cache'[t] /\ cache'[t][k] = cache[t][k]
            \/ ~touched /\ Reconfigure(t)
            \/ /\ ~touched
               /\ \E new \in DOMAIN cache'[t] \ DOMAIN cache[t] :
                      Cardinality(DOMAIN cache[t]) = CacheLimit

\* A tenant whose cache and node states a step leaves alone
LEMMA LeftAlone ==
    ASSUME NEW t, \A n \in Node : health'[t][n].state = health[t][n].state,
           Reconfigure(t) \/ cache'[t] = cache[t]
    PROVE  ExactFor(t)
  <1>1. Moved(t) = {}
    BY DEF Moved
  <1> QED
    BY <1>1 DEF ExactFor

\* A tenant that loses exactly the entries that touch the nodes that move
LEMMA Invalidated ==
    ASSUME NEW t, NEW K, K = {k \in DOMAIN cache[t] : Range(cache[t][k]) \cap Moved(t) = {}},
           cache'[t] = Restrict(cache[t], K)
    PROVE  ExactFor(t)
  <1>1. DOMAIN cache'[t] = K /\ \A k \in K : cache'[t][k] = cache[t][k]
    BY DEF Restrict
  <1> QED
    BY <1>1 DEF ExactFor

\* record_result and force_half_open: one node of one tenant moves.
LEMMA NodeMoves ==
    ASSUME TypeOK, NEW t \in Tenant, NEW n \in Node, NEW tr, tr.state # health[t][n].state,
           health' = [health EXCEPT ![t][n] = tr], InvalidateForNode(t, n)
    PROVE  \A u \in Tenant : ExactFor(u)
  <1>1. /\ health \in [Tenant -> [Node -> Tracker]] /\ DOMAIN cache = Tenant
    BY DEF TypeOK
  <1>2. \A u \in Tenant, m \in Node :
          health'[u][m] = IF u = t /\ m = n THEN tr ELSE health[u][m]
    BY <1>1
  <1> DEFINE K == {k \in DOMAIN cache[t] : n \notin Range(cache[t][k])}
  <1>3. cache' = [cache EXCEPT ![t] = Restrict(cache[t], K)]
    BY DEF InvalidateForNode, CacheWithout
  <1>4. Moved(t) = {n}
    BY <1>2 DEF Moved
  <1>5. K = {k \in DOMAIN cache[t] : Range(cache[t][k]) \cap Moved(t) = {}}
    BY <1>4
  <1> HIDE DEF K
  <1>6. cache'[t] = Restrict(cache[t], K)
    BY <1>1, <1>3
  <1>7. ExactFor(t)
    BY <1>5, <1>6, Invalidated
  <1>8. ASSUME NEW u \in Tenant, u # t PROVE ExactFor(u)
    <2>1. cache'[u] = cache[u]
      BY <1>1, <1>3, <1>8
    <2>2. \A m \in Node : health'[u][m].state = health[u][m].state
      BY <1>2, <1>8
    <2> QED
      BY <2>1, <2>2, LeftAlone
  <1> QED
    BY <1>7, <1>8

\* A scan of the recovery loop: the nodes that move are those that were ready.
LEMMA ProbeExact ==
    ASSUME TypeOK, RecoveryProbe, NEW t \in Tenant
    PROVE  ExactFor(t)
  <1>1. /\ health \in [Tenant -> [Node -> Tracker]] /\ DOMAIN cache = Tenant
        /\ \A k \in DOMAIN cache[t] : Range(cache[t][k]) \subseteq Node
    BY PathFacts DEF TypeOK, IsCache
  <1>2. ASSUME NEW n \in Node PROVE n \in Moved(t) <=> <<t, n>> \in Ready
    <2>1. health'[t][n] = IF <<t, n>> \in Ready THEN HalfOpened(health[t][n])
                                               ELSE health[t][n]
      BY DEF RecoveryProbe
    <2>2. <<t, n>> \in Ready => health[t][n].state = "Open"
      BY DEF Ready, ReadyToProbe
    <2>3. HalfOpened(health[t][n]).state = "HalfOpen"
      BY <1>1, TrackerType, RouterAssumption
    <2> QED
      BY <2>1, <2>2, <2>3 DEF Moved
  <1> DEFINE K == {k \in DOMAIN cache[t] :
                     \A n \in Range(cache[t][k]) : <<t, n>> \notin Ready}
  <1>3. cache'[t] = Restrict(cache[t], K)
    BY DEF RecoveryProbe
  <1>4. Moved(t) \subseteq Node
    BY DEF Moved
  <1>5. K = {k \in DOMAIN cache[t] : Range(cache[t][k]) \cap Moved(t) = {}}
    BY <1>1, <1>2, <1>4
  <1> HIDE DEF K
  <1> QED
    BY <1>3, <1>5, Invalidated

\* insert_cache stores a key that was not there, and evicts only from a full cache.
LEMMA SearchExact ==
    ASSUME TypeOK, NEW c \in Client, RouteSearched(c), NEW u \in Tenant
    PROVE  ExactFor(u)
  <1> DEFINE t == pending[c].tenant
             k == pending[c].key
  <1>1. health' = health /\ DOMAIN cache = Tenant /\ k \notin DOMAIN cache[t]
    BY DEF RouteSearched, TypeOK
  <1>2. PICK p \in Routes(edges[t], OpenNodes(health[t]), k) :
          cache' = [cache EXCEPT ![t] = CacheAfterInsert(cache[t], cacheOrder[t], k, p)]
    BY DEF RouteSearched
  <1> HIDE DEF t, k
  <1>3. CASE u # t
    <2>1. cache'[u] = cache[u]
      BY <1>1, <1>2, <1>3
    <2> QED
      BY <1>1, <2>1, LeftAlone
  <1>4. CASE u = t
    <2> DEFINE evict == MustEvict(cache[u], cacheOrder[u], k)
               keys == IF evict THEN DOMAIN cache[u] \ {Head(cacheOrder[u])}
                                ELSE DOMAIN cache[u]
    <2>1. cache'[u] = CacheAfterInsert(cache[u], cacheOrder[u], k, p)
      BY <1>1, <1>2, <1>4
    <2>2. /\ DOMAIN cache'[u] = keys \cup {k}
          /\ \A x \in keys : x # k => cache'[u][x] = cache[u][x]
      BY <2>1 DEF CacheAfterInsert, Put, Restrict
    <2>3. Moved(u) = {}
      BY <1>1 DEF Moved
    <2>4. ~evict => keys = DOMAIN cache[u]
      OBVIOUS
    <2>5. evict => Cardinality(DOMAIN cache[u]) = CacheLimit
      BY DEF MustEvict
    <2>6. keys \subseteq DOMAIN cache[u]
      OBVIOUS
    <2> HIDE DEF evict, keys
    <2>7. k \in DOMAIN cache'[u] \ DOMAIN cache[u]
      BY <1>1, <1>4, <2>2
    <2>8. ASSUME NEW x \in DOMAIN cache[u]
          PROVE  \/ x \in DOMAIN cache'[u] /\ cache'[u][x] = cache[u][x]
                 \/ Cardinality(DOMAIN cache[u]) = CacheLimit
      BY <1>1, <1>4, <2>2, <2>4, <2>5
    <2> QED
      BY <2>3, <2>7, <2>8 DEF ExactFor
  <1> QED
    BY <1>3, <1>4

\* Every step invalidates exactly.
LEMMA NextExact == TypeOK /\ [Next]_vars => \A t \in Tenant : ExactFor(t)
  <1> SUFFICES ASSUME TypeOK, [Next]_vars PROVE \A t \in Tenant : ExactFor(t)
    OBVIOUS
  <1>1. ASSUME NEW u \in Tenant, UNCHANGED <<health, cache>> PROVE ExactFor(u)
    BY <1>1, LeftAlone
  <1>2. ASSUME NEW t \in Tenant, Reconfigure(t), NEW u \in Tenant PROVE ExactFor(u)
    <2>1. health' = health
      BY <1>2 DEF Reconfigure, AddTenant, SetCostModel, SetHealthPolicy, AddEdge
    <2>2. u # t => cache'[u] = cache[u]
      BY <1>2 DEF Reconfigure, AddTenant, SetCostModel, SetHealthPolicy, AddEdge,
         ClearCache, TypeOK
    <2> QED
      BY <1>2, <2>1, <2>2, LeftAlone
  <1>3. ASSUME NEW t \in Tenant, NEW n \in Reported, NEW success \in BOOLEAN,
               RecordResult(t, n, success), NEW u \in Tenant
        PROVE  ExactFor(u)
    <2> DEFINE tr == AfterResult(health[t][n], success, policy[t])
    <2>1. n \in Node
      BY RouterAssumption
    <2>2. health' = [health EXCEPT ![t][n] = tr]
      BY <1>3 DEF RecordResult
    <2>3. CASE tr.state # health[t][n].state
      <3>1. InvalidateForNode(t, n)
        BY <1>3, <2>3 DEF RecordResult
      <3> HIDE DEF tr
      <3> QED
        BY <2>1, <2>2, <2>3, <3>1, NodeMoves
    <2>4. CASE tr.state = health[t][n].state
      <3>1. cache' = cache
        BY <1>3, <2>4 DEF RecordResult
      <3> HIDE DEF tr
      <3>2. \A m \in Node : health'[u][m].state = health[u][m].state
        BY <2>1, <2>2, <2>4 DEF TypeOK
      <3> QED
        BY <3>1, <3>2, LeftAlone
    <2> QED
      BY <2>3, <2>4
  <1>4. ASSUME NEW t \in Tenant, NEW n \in Reported, ForceHalfOpen(t, n), NEW u \in Tenant
        PROVE  ExactFor(u)
    <2> DEFINE tr == HalfOpened(health[t][n])
    <2>1. n \in Node
      BY RouterAssumption
    <2>2. health[t][n] \in Tracker
      BY <2>1 DEF TypeOK
    <2>3. tr.state # health[t][n].state
      <3>1. tr.state = "HalfOpen"
        BY <2>2, TrackerType, RouterAssumption
      <3> QED
        BY <1>4, <3>1 DEF ForceHalfOpen
    <2>4. health' = [health EXCEPT ![t][n] = tr] /\ InvalidateForNode(t, n)
      BY <1>4 DEF ForceHalfOpen
    <2> HIDE DEF tr
    <2> QED
      BY <2>1, <2>3, <2>4, NodeMoves
  <1>5. ASSUME Tick, NEW u \in Tenant PROVE ExactFor(u)
    <2>1. \A n \in Node : health'[u][n].state = health[u][n].state
      BY <1>5, TickType
    <2> QED
      BY <1>5, <2>1, LeftAlone DEF Tick
  <1>6. \/ UNCHANGED <<health, cache>>
        \/ \E t \in Tenant : Reconfigure(t)
        \/ \E t \in Tenant, n \in Reported, success \in BOOLEAN : RecordResult(t, n, success)
        \/ \E t \in Tenant, n \in Reported : ForceHalfOpen(t, n)
        \/ RecoveryProbe
        \/ Tick
        \/ \E c \in Client : RouteSearched(c)
    BY DEF Next, vars, RouteHit, RouteMiss, RouteTenantNotFound, RouteRecheckHit,
       RouteEscalated
  <1> QED
    BY <1>1, <1>2, <1>3, <1>4, <1>5, <1>6, ProbeExact, SearchExact

\* Every health change takes exactly the entries that go through the node out of the
\* cache: none that is stale survives it, and none is lost to anything but a
\* reconfiguration of its tenant or a full cache.
THEOREM InvalidationStaysExact == Spec => InvalidationIsExact
  <1>1. TypeOK /\ [Next]_vars =>
          [ \A t \in Tenant : \A k \in DOMAIN cache[t] :
              LET moved == {n \in Node : health'[t][n].state # health[t][n].state}
                  touched == Range(cache[t][k]) \cap moved # {}
              IN  \/ touched /\ k \notin DOMAIN cache'[t]
                  \/ ~touched /\ k \in DOMAIN cache'[t] /\ cache'[t][k] = cache[t][k]
                  \/ ~touched /\ Reconfigure(t)
                  \/ /\ ~touched
                     /\ \E new \in DOMAIN cache'[t] \ DOMAIN cache[t] :
                            Cardinality(DOMAIN cache[t]) = CacheLimit ]_vars
    BY NextExact DEF ExactFor, Moved
  <1> QED
    BY <1>1, TypeCorrect, PTL DEF Spec, InvalidationIsExact

--------------------------------------------------------------------------------
(* The router implements RouteService *)

\* What the abstract service sees of the ring after a push.
LEMMA ReplyAfterPush ==
    ASSUME TypeOK, NEW e \in Event, audit' = Push(audit, e)
    PROVE  /\ e.type = "Reroute" =>
                LastReply' = [type |-> "Reroute", tenant |-> e.tenant, key |-> e.key,
                              path |-> e.path]
           /\ e.type = "ExplicitEscalation" => LastReply' = e
           /\ e.type \in {"HealthChanged", "RecoveryProbeOpened"} =>
                LastReply' = [type |-> "None"]
  <1>1. audit' # << >> /\ Last(audit') = e
    BY PushType DEF TypeOK
  <1> QED
    BY <1>1 DEF LastReply

\* A routed answer is a decision of the service when the path is a route now.
LEMMA RoutedIsDecided ==
    ASSUME TypeOK, NEW t \in tenants, NEW k \in RouteKey, NEW p \in Paths, NEW hit \in BOOLEAN,
           IsRoute(edges[t], OpenNodes(health[t]), k, p),
           audit' = Push(audit, Reroute(t, k, p, hit)),
           UNCHANGED <<tenants, edges, health>>
    PROVE  Service!Next
  <1>1. t \in Tenant
    BY DEF TypeOK
  <1>2. LastReply' = [type |-> "Reroute", tenant |-> t, key |-> k, path |-> p]
    <2>1. Reroute(t, k, p, hit) \in Event
      BY <1>1, EventTypes
    <2> QED
      BY <2>1, ReplyAfterPush DEF Reroute
  <1>3. Service!IsRoute(edges[t], OpenNodes(health[t]), k, p)
    BY DEF IsRoute, CanHop, Service!IsRoute, Service!CanHop
  <1>4. k \in Service!RouteKey
    BY DEF RouteKey, Service!RouteKey
  <1>5. p \in Service!Paths
    BY DEF Paths, Service!Paths, IsInjective, Service!IsInjective,
         Cardinality, Service!Cardinality
  <1>6. Service!Decide(t, k)
    BY <1>1, <1>2, <1>3, <1>5 DEF Service!Decide, Service!Routed
  <1> QED
    BY <1>1, <1>4, <1>6 DEF Service!Next

\* An escalation is a decision of the service when there is no route now, or no tenant.
LEMMA EscalatedIsDecided ==
    ASSUME TypeOK, NEW t \in Tenant, NEW k \in RouteKey, NEW r, NEW B,
           \/ r = "TenantNotFound" /\ B = {} /\ t \notin tenants
           \/ /\ r = "NoFeasiblePath" /\ B = OpenNodes(health[t]) /\ t \in tenants
              /\ Routes(edges[t], OpenNodes(health[t]), k) = {},
           audit' = Push(audit, ExplicitEscalation(t, k, r, B)),
           UNCHANGED <<tenants, edges, health>>
    PROVE  Service!Next
  <1>1. LastReply' = ExplicitEscalation(t, k, r, B)
    <2>1. ExplicitEscalation(t, k, r, B) \in Event
      BY EventTypes DEF OpenNodes
    <2> QED
      BY <2>1, ReplyAfterPush DEF ExplicitEscalation
  <1>2. Routes(edges[t], OpenNodes(health[t]), k) = {} =>
          Service!Routes(edges[t], OpenNodes(health[t]), k) = {}
    <2>1. Service!Paths = Paths
      BY DEF Paths, Service!Paths, IsInjective, Service!IsInjective,
         Cardinality, Service!Cardinality
    <2>2. \A p : Service!IsRoute(edges[t], OpenNodes(health[t]), k, p)
                  <=> IsRoute(edges[t], OpenNodes(health[t]), k, p)
      BY DEF IsRoute, CanHop, Service!IsRoute, Service!CanHop
    <2> QED
      BY <2>1, <2>2 DEF Routes, Service!Routes
  <1>3. k \in Service!RouteKey
    BY DEF RouteKey, Service!RouteKey
  <1>4. Service!Decide(t, k)
    BY <1>1, <1>2 DEF Service!Decide, Service!Escalated, ExplicitEscalation
  <1> QED
    BY <1>3, <1>4 DEF Service!Next

\* Every step of the router is a step of the service or invisible to it.
LEMMA StepRefines == IInv /\ [Next]_vars => [Service!Next]_(Service!vars)
  <1> SUFFICES ASSUME IInv, [Next]_vars PROVE [Service!Next]_(Service!vars)
    OBVIOUS
  <1> USE DEF IInv
  <1>1. CASE UNCHANGED vars
    BY <1>1 DEF vars, Service!vars, LastReply, OpenNodes
  <1>2. ASSUME NEW t \in Tenant, Reconfigure(t) PROVE Service!Next
    <2>1. /\ tenants' = tenants \cup {t} /\ health' = health /\ audit' = audit
          /\ edges[t] \subseteq edges'[t]
          /\ \A u \in Tenant \ {t} : edges'[u] = edges[u]
      BY <1>2 DEF Reconfigure, AddTenant, SetCostModel, SetHealthPolicy, AddEdge, TypeOK
    <2>2. edges' \in [Tenant -> SUBSET Service!Edge]
      BY <1>2, ReconfigureType DEF TypeOK, Edge, Service!Edge
    <2>3. Service!Configure(t)
      BY <2>1, <2>2 DEF Service!Configure, LastReply
    <2> QED
      BY <2>3 DEF Service!Next
  <1>3. ASSUME NEW t \in Tenant, NEW n \in Reported, NEW success \in BOOLEAN,
               RecordResult(t, n, success)
        PROVE  Service!Next
    <2>1. n \in Node /\ HealthChanged(t, n) \in Event
      BY RouterAssumption, EventTypes
    <2>2. LastReply' = Service!NoReply
      BY <1>3, <2>1, ReplyAfterPush DEF RecordResult, HealthChanged, Service!NoReply
    <2>3. \A u \in Tenant \ {t} : health'[u] = health[u]
      BY <1>3, <2>1 DEF RecordResult, TypeOK
    <2>4. Service!ChangeHealth(t)
      BY <1>3, <2>2, <2>3 DEF Service!ChangeHealth, RecordResult, OpenNodes
    <2> QED
      BY <2>4 DEF Service!Next
  <1>4. ASSUME NEW t \in Tenant, NEW n \in Reported, ForceHalfOpen(t, n)
        PROVE  Service!Next
    <2>1. n \in Node /\ RecoveryProbeOpened(t, n) \in Event
      BY RouterAssumption, EventTypes
    <2>2. LastReply' = Service!NoReply
      BY <1>4, <2>1, ReplyAfterPush DEF ForceHalfOpen, RecoveryProbeOpened,
         Service!NoReply
    <2>3. /\ \A u \in Tenant \ {t} : health'[u] = health[u]
          /\ tenants' = tenants \cup {t} /\ edges' = edges
      BY <1>4, <2>1 DEF ForceHalfOpen, TypeOK
    <2>4. Service!ChangeHealth(t)
      BY <2>2, <2>3 DEF Service!ChangeHealth, OpenNodes
    <2> QED
      BY <2>4 DEF Service!Next
  <1>5. CASE RecoveryProbe
    <2>1. LastReply' = Service!NoReply
      BY <1>5, ProbeFacts DEF LastReply, Service!NoReply
    <2>2. ASSUME NEW t \in Tenant PROVE OpenNodes(health'[t]) \subseteq OpenNodes(health[t])
      <3> SUFFICES ASSUME NEW n \in Node, health'[t][n].state = "Open"
                   PROVE  health[t][n].state = "Open"
        BY DEF OpenNodes
      <3>1. health'[t][n] = IF <<t, n>> \in Ready THEN HalfOpened(health[t][n])
                                                  ELSE health[t][n]
        BY <1>5 DEF RecoveryProbe
      <3>2. HalfOpened(health[t][n]).state = "HalfOpen"
        BY TrackerType, RouterAssumption DEF TypeOK
      <3> QED
        BY <3>1, <3>2
    <2>3. [t \in Tenant |-> OpenNodes(health'[t])] \in [Tenant -> SUBSET Node]
      BY DEF OpenNodes
    <2>4. Service!Recover
      BY <1>5, <2>1, <2>2, <2>3 DEF Service!Recover, RecoveryProbe
    <2> QED
      BY <2>4 DEF Service!Next
  <1>6. CASE Tick
    <2>1. \A t \in Tenant : OpenNodes(health'[t]) = OpenNodes(health[t])
      BY <1>6, TickType DEF OpenNodes
    <2> QED
      BY <1>6, <2>1 DEF Tick, Service!vars, LastReply
  <1>7. ASSUME NEW c \in Client, NEW t \in Tenant, NEW k \in Requests, RouteHit(c, t, k)
        PROVE  Service!Next
    <2>1. /\ t \in tenants /\ k \in RouteKey /\ cache[t][k] \in Paths
          /\ IsRoute(edges[t], OpenNodes(health[t]), k, cache[t][k])
      BY <1>7, RouterAssumption DEF RouteHit, TypeOK, IsCache, CacheIsFeasible
    <2> QED
      BY <1>7, <2>1, RoutedIsDecided DEF RouteHit
  <1>8. ASSUME NEW c \in Client, NEW t \in Tenant, NEW k \in Requests, RouteMiss(c, t, k)
        PROVE  UNCHANGED Service!vars
    BY <1>8 DEF RouteMiss, Service!vars, LastReply, OpenNodes
  <1>9. ASSUME NEW c \in Client,
               \/ RouteTenantNotFound(c) \/ RouteRecheckHit(c)
               \/ RouteSearched(c) \/ RouteEscalated(c)
        PROVE  Service!Next
    <2> DEFINE t == pending[c].tenant
               k == pending[c].key
    <2>1. t \in Tenant /\ k \in RouteKey
      BY <1>9, PendingRequest DEF RouteTenantNotFound, RouteRecheckHit, RouteSearched,
         RouteEscalated
    <2>2. CASE RouteTenantNotFound(c)
      BY <2>1, <2>2, EscalatedIsDecided DEF RouteTenantNotFound
    <2>3. CASE RouteRecheckHit(c)
      <3>1. /\ t \in tenants /\ cache[t][k] \in Paths
            /\ IsRoute(edges[t], OpenNodes(health[t]), k, cache[t][k])
        BY <2>1, <2>3 DEF RouteRecheckHit, TypeOK, IsCache, CacheIsFeasible
      <3> QED
        BY <2>1, <2>3, <3>1, RoutedIsDecided DEF RouteRecheckHit
    <2>4. CASE RouteSearched(c)
      <3>1. PICK p \in Paths : /\ IsRoute(edges[t], OpenNodes(health[t]), k, p)
                               /\ audit' = Push(audit, Reroute(t, k, p, FALSE))
        BY <2>4 DEF RouteSearched, Routes
      <3> QED
        BY <2>1, <2>4, <3>1, RoutedIsDecided DEF RouteSearched
    <2>5. CASE RouteEscalated(c)
      BY <2>1, <2>5, EscalatedIsDecided DEF RouteEscalated
    <2> QED
      BY <1>9, <2>2, <2>3, <2>4, <2>5
  <1> QED
    BY <1>1, <1>2, <1>3, <1>4, <1>5, <1>6, <1>7, <1>8, <1>9 DEF Next

\* The router, with its cache, locks and racing clients, implements the cache-less
\* service: no client can tell that there is a cache.
THEOREM RouterImplementsService == Spec => ImplementsRouteService
  <1>1. Init => Service!Init
    BY DEF Init, Service!Init, LastReply, OpenNodes, NewTracker, Service!NoReply
  <1> QED
    BY <1>1, StepRefines, RouterInvariant, PTL
       DEF Spec, ImplementsRouteService, Service!Spec
==============================================================================
