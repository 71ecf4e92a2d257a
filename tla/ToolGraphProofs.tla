---------------------------- MODULE ToolGraphProofs ----------------------------
(***************************************************************************)
(* Proofs about the tool graph of a tenant (src/lib.rs).                   *)
(*                                                                         *)
(* The breaker of one node (CircuitBreaker): its safety, for every policy, *)
(* every cap and every order of outcomes, probes, forced probes and clock  *)
(* ticks.                                                                  *)
(*                                                                         *)
(* The search for a route (ShortestPath): for every graph, cost model and  *)
(* health it answers with a cheapest feasible route, and with none only    *)
(* where there is none; an expanded node is final and expanded once.  What *)
(* a function defined over a range of numbers computes is shown by         *)
(* counting up (CountingUp of HealthTrackerProofs).                        *)
(***************************************************************************)
EXTENDS CircuitBreaker, ShortestPath, HealthTrackerProofs

--------------------------------------------------------------------------------
(* The breaker of one node *)

\* While a node is on probation or degraded, the tracker's counter is the number of
\* successes an observer has seen since it got there.
CounterIsEarned ==
    tracker.state \in {"HalfOpen", "Degraded"} => tracker.successes = earned

\* The inductive invariant
IInv == TypeOK /\ StateMatchesCounters /\ OpenKnowsWhen /\ CounterIsEarned

--------------------------------------------------------------------------------
\* A policy in use is valid, and its thresholds are within the caps, so saturation is
\* never mistaken for a smaller count.
LEMMA PolicyFacts ==
    ASSUME NEW p \in Accepted
    PROVE  /\ p.open \in 1..FailureCap /\ p.degraded \in 1..p.open
           /\ p.halfOpenNeeded \in 1..SuccessCap /\ p.degradedNeeded \in 1..SuccessCap
           /\ p.cooldown \in 1..AgeCap
           /\ {FailureCap, SuccessCap, AgeCap} \subseteq Nat \ {0}
  BY CapsAssumption, PoliciesAssumption DEF Accepted, HealthPolicy, ValidPolicy, BelowCaps

\* What a saturating counter does (CountUp).
LEMMA CountUpFacts ==
    ASSUME NEW cap \in Nat \ {0}, NEW n \in 0..cap
    PROVE  /\ CountUp(n, cap) \in 1..cap
           /\ CountUp(n, cap) <= n + 1
           /\ \A m \in 1..cap : n >= m => CountUp(n, cap) >= m
  BY DEF CountUp

\* The initial state: a default tracker satisfies the invariant under any valid policy.
LEMMA InitInv == BreakerInit => IInv
  BY PolicyFacts DEF BreakerInit, IInv, TypeOK, Accepted, StateMatchesCounters, OpenKnowsWhen,
     CounterIsEarned, NewTracker, Tracker, NodeState, NotOpened

\* A reported success (record_result_with_policy, success branch) keeps the invariant.
LEMMA SuccessInv == IInv /\ RecordSuccess => IInv'
  <1> SUFFICES ASSUME IInv, RecordSuccess PROVE IInv'
    OBVIOUS
  <1>1. /\ policy' = policy /\ policy \in Accepted
        /\ tracker' = AfterSuccess(tracker, policy)
        /\ earned' = IF tracker'.state # tracker.state THEN 0
                     ELSE CountUp(earned, SuccessCap)
        /\ openFor' = IF tracker'.state = "Open" /\ tracker.state # "Open"
                      THEN 0 ELSE openFor
    BY DEF IInv, TypeOK, Accepted, RecordSuccess, AfterResult, Observe
  <1>2. /\ tracker \in Tracker /\ earned \in 0..SuccessCap /\ openFor \in 0..AgeCap
        /\ policy.open \in 1..FailureCap /\ policy.degraded \in 1..policy.open
        /\ policy.halfOpenNeeded \in 1..SuccessCap
        /\ policy.degradedNeeded \in 1..SuccessCap
        /\ FailureCap \in Nat \ {0} /\ SuccessCap \in Nat \ {0} /\ AgeCap \in Nat \ {0}
    BY <1>1, PolicyFacts DEF IInv, TypeOK, Accepted
  <1> DEFINE n == CountUp(tracker.successes, SuccessCap)
             heals == \/ tracker.state = "HalfOpen" /\ n >= policy.halfOpenNeeded
                      \/ tracker.state = "Degraded" /\ n >= policy.degradedNeeded
  <1>3. n \in 1..SuccessCap
    BY <1>2, CountUpFacts DEF Tracker
  <1>4. CASE heals
    <2>1. tracker' = [state |-> "Healthy", failures |-> 0, successes |-> n,
                      openedFor |-> NotOpened]
      BY <1>1, <1>2, <1>4 DEF AfterSuccess, Tracker
    <2>2. earned' = 0 /\ openFor' = openFor
      BY <1>1, <1>2, <1>4, <2>1 DEF Tracker
    <2>3. tracker'.state = "Healthy" /\ tracker'.failures = 0
      BY <1>2, <2>1 DEF Tracker
    <2>4. tracker' \in Tracker
      BY <1>2, <1>3, <2>1 DEF Tracker, NodeState, NotOpened
    <2>5. TypeOK'
      BY <1>1, <1>2, <2>2, <2>4 DEF TypeOK, Accepted
    <2> QED
      BY <1>1, <1>2, <2>3, <2>5 DEF IInv, StateMatchesCounters, OpenKnowsWhen,
         CounterIsEarned
  <1>5. CASE ~heals
    <2>1. tracker' = [state |-> tracker.state, failures |-> 0, successes |-> n,
                      openedFor |-> tracker.openedFor]
      BY <1>1, <1>2, <1>5 DEF AfterSuccess, Tracker
    <2>2. earned' = CountUp(earned, SuccessCap) /\ openFor' = openFor
      BY <1>1, <1>2, <2>1 DEF Tracker
    <2>3. earned' \in 0..SuccessCap
      BY <1>2, <2>2, CountUpFacts
    <2>4. /\ tracker'.state = tracker.state /\ tracker'.failures = 0
          /\ tracker'.successes = n /\ tracker'.openedFor = tracker.openedFor
      BY <1>2, <2>1 DEF Tracker
    <2>5. tracker' \in Tracker
      BY <1>2, <1>3, <2>1 DEF Tracker, NodeState
    <2>6. TypeOK'
      BY <1>1, <1>2, <2>2, <2>3, <2>5 DEF TypeOK, Accepted
    <2>7. StateMatchesCounters'
      BY <1>1, <1>2, <1>3, <1>5, <2>4 DEF StateMatchesCounters
    <2>8. OpenKnowsWhen' /\ CounterIsEarned'
      BY <2>2, <2>4 DEF IInv, OpenKnowsWhen, CounterIsEarned
    <2> QED
      BY <2>6, <2>7, <2>8 DEF IInv
  <1> QED
    BY <1>4, <1>5

\* A reported failure (record_result_with_policy, failure branch) keeps the invariant:
\* every trip restarts the clock, every failure restarts the recovery.
LEMMA FailureInv == IInv /\ RecordFailure => IInv'
  <1> SUFFICES ASSUME IInv, RecordFailure PROVE IInv'
    OBVIOUS
  <1>1. /\ policy' = policy /\ policy \in Accepted
        /\ tracker' = AfterFailure(tracker, policy)
        /\ earned' = 0
        /\ openFor' = IF tracker'.state = "Open" /\ tracker.state # "Open"
                      THEN 0 ELSE openFor
    BY DEF IInv, TypeOK, Accepted, RecordFailure, AfterResult, Observe
  <1>2. /\ tracker \in Tracker /\ openFor \in 0..AgeCap
        /\ policy.open \in 1..FailureCap /\ policy.degraded \in 1..policy.open
        /\ policy.halfOpenNeeded \in 1..SuccessCap
        /\ policy.degradedNeeded \in 1..SuccessCap
        /\ FailureCap \in Nat \ {0} /\ SuccessCap \in Nat \ {0} /\ AgeCap \in Nat \ {0}
    BY <1>1, PolicyFacts DEF IInv, TypeOK, Accepted
  <1> DEFINE n == CountUp(tracker.failures, FailureCap)
             next == StateAfterFailures(n, tracker.state, policy)
             age == IF next = "Open" /\ tracker.state # "Open"
                    THEN 0 ELSE tracker.openedFor
  <1>3. n \in 1..FailureCap
    BY <1>2, CountUpFacts DEF Tracker
  <1>4. tracker' = [state |-> next, failures |-> n, successes |-> 0, openedFor |-> age]
    BY <1>1, <1>2 DEF AfterFailure, Tracker
  <1>5. /\ n >= policy.open => next = "Open"
        /\ n < policy.open /\ n >= policy.degraded => next = "Degraded"
        /\ n < policy.degraded => next = tracker.state
    BY <1>2, <1>3 DEF StateAfterFailures
  <1>6. next \in NodeState
    BY <1>2, <1>3, <1>5 DEF Tracker, NodeState
  <1> HIDE DEF n, next
  <1>7. TypeOK'
    BY <1>1, <1>2, <1>3, <1>4, <1>6 DEF TypeOK, Accepted, Tracker
  <1>8. StateMatchesCounters'
    BY <1>1, <1>2, <1>3, <1>4, <1>5, <1>6 DEF IInv, StateMatchesCounters, Tracker, NodeState
  <1>9. OpenKnowsWhen'
    BY <1>1, <1>2, <1>4 DEF IInv, OpenKnowsWhen, Tracker
  <1>10. CounterIsEarned'
    BY <1>1, <1>2, <1>4 DEF CounterIsEarned, Tracker
  <1> QED
    BY <1>7, <1>8, <1>9, <1>10 DEF IInv

\* Both ways into HalfOpen keep the invariant: successes seen while Open are forgotten.
LEMMA HalfOpenInv == IInv /\ (RecoveryProbe \/ ForceHalfOpen) => IInv'
  <1> SUFFICES ASSUME IInv, RecoveryProbe \/ ForceHalfOpen PROVE IInv'
    OBVIOUS
  <1>1. /\ policy' = policy /\ policy \in Accepted
        /\ tracker.state = "Open"
        /\ tracker' = [state |-> "HalfOpen", failures |-> tracker.failures,
                       successes |-> 0, openedFor |-> tracker.openedFor]
        /\ tracker \in Tracker /\ openFor \in 0..AgeCap
    BY DEF IInv, TypeOK, Accepted, RecoveryProbe, ForceHalfOpen, ReadyToProbe, HalfOpened, Tracker
  <1>2. earned' = 0 /\ openFor' = openFor
    BY <1>1 DEF RecoveryProbe, ForceHalfOpen, Observe, Tracker
  <1>3. /\ policy.open \in 1..FailureCap /\ policy.degraded \in 1..policy.open
        /\ policy.halfOpenNeeded \in 1..SuccessCap
        /\ SuccessCap \in Nat \ {0} /\ AgeCap \in Nat \ {0}
    BY <1>1, PolicyFacts
  <1> QED
    BY <1>1, <1>2, <1>3 DEF IInv, TypeOK, Accepted, StateMatchesCounters, OpenKnowsWhen,
       CounterIsEarned, Tracker, NodeState

\* The passing of time keeps the invariant: both clocks saturate together.
LEMMA TickInv == IInv /\ Tick => IInv'
  <1> SUFFICES ASSUME IInv, Tick PROVE IInv'
    OBVIOUS
  <1>1. AgeCap \in Nat \ {0}
    BY CapsAssumption
  <1> QED
    BY <1>1 DEF IInv, TypeOK, Accepted, StateMatchesCounters, OpenKnowsWhen, CounterIsEarned,
       Tick, Aged, Tracker, NotOpened

\* One step of the breaker keeps the invariant.
LEMMA NextInv == IInv /\ [BreakerNext]_breakerVars => IInv'
  <1>1. IInv /\ UNCHANGED breakerVars => IInv'
    BY DEF IInv, TypeOK, Accepted, StateMatchesCounters, OpenKnowsWhen, CounterIsEarned, breakerVars
  <1> QED
    BY <1>1, SuccessInv, FailureInv, HalfOpenInv, TickInv DEF BreakerNext

--------------------------------------------------------------------------------
\* The inductive invariant holds in every reachable state.
THEOREM BreakerInvariant == BreakerSpec => []IInv
  BY InitInv, NextInv, PTL DEF BreakerSpec

\* The tracker, its counters and its clock stay within their types.
THEOREM TypeCorrect == BreakerSpec => []TypeOK
  <1>1. IInv => TypeOK
    BY DEF IInv
  <1> QED
    BY BreakerInvariant, <1>1, PTL

\* Under every valid policy the state never lags behind the counters.
THEOREM StateMatches == BreakerSpec => []StateMatchesCounters
  <1>1. IInv => StateMatchesCounters
    BY DEF IInv
  <1> QED
    BY BreakerInvariant, <1>1, PTL

\* Under every valid policy an Open node knows when it last tripped.
THEOREM OpenIsDated == BreakerSpec => []OpenKnowsWhen
  <1>1. IInv => OpenKnowsWhen
    BY DEF IInv
  <1> QED
    BY BreakerInvariant, <1>1, PTL

\* The recovery loop never probes a node before its cooldown is over, for every policy
\* and however often the node tripped before.
THEOREM ProbesHonourCooldown == BreakerSpec => CooldownHonoured
  <1>1. IInv /\ [BreakerNext]_breakerVars => [RecoveryProbe => openFor >= policy.cooldown]_breakerVars
    BY DEF IInv, OpenKnowsWhen, RecoveryProbe, ReadyToProbe
  <1> QED
    BY BreakerInvariant, <1>1, PTL DEF BreakerSpec, CooldownHonoured

\* A node turns Healthy only with the successes its policy asks for.
THEOREM HealthIsEarned == BreakerSpec => RecoveryIsEarned
  <1> DEFINE Earned ==
        (tracker.state # "Healthy" /\ tracker'.state = "Healthy") =>
            \/ tracker.state = "HalfOpen" /\ earned + 1 >= policy.halfOpenNeeded
            \/ tracker.state = "Degraded" /\ earned + 1 >= policy.degradedNeeded
  <1>1. ASSUME IInv, RecordSuccess PROVE Earned
    <2>1. /\ policy \in Accepted
          /\ tracker' = AfterSuccess(tracker, policy)
          /\ tracker \in Tracker /\ earned \in 0..SuccessCap
      BY <1>1 DEF IInv, TypeOK, Accepted, RecordSuccess, AfterResult
    <2>2. /\ SuccessCap \in Nat \ {0}
          /\ policy.halfOpenNeeded \in 1..SuccessCap
          /\ policy.degradedNeeded \in 1..SuccessCap
      BY <2>1, PolicyFacts
    <2> DEFINE n == CountUp(tracker.successes, SuccessCap)
    <2>3. n \in Int /\ n <= tracker.successes + 1
      BY <2>1, <2>2, CountUpFacts DEF Tracker
    <2>4. tracker.state # "Healthy" /\ tracker'.state = "Healthy" =>
            \/ tracker.state = "HalfOpen" /\ n >= policy.halfOpenNeeded
            \/ tracker.state = "Degraded" /\ n >= policy.degradedNeeded
      BY <2>1 DEF AfterSuccess, Tracker
    <2> QED
      BY <1>1, <2>1, <2>2, <2>3, <2>4 DEF IInv, CounterIsEarned
  <1>2. ASSUME IInv, RecordFailure PROVE Earned
    <2>1. tracker \in Tracker /\ tracker' = AfterFailure(tracker, policy)
      BY <1>2 DEF IInv, TypeOK, Accepted, RecordFailure, AfterResult
    <2>2. tracker'.state \in {"Open", "Degraded", tracker.state}
      BY <2>1 DEF AfterFailure, StateAfterFailures, Tracker
    <2> QED
      BY <2>2
  <1>3. ASSUME IInv, RecoveryProbe \/ ForceHalfOpen \/ Tick PROVE Earned
    BY <1>3 DEF IInv, TypeOK, Accepted, RecoveryProbe, ForceHalfOpen, Tick, HalfOpened, Aged,
       Tracker
  <1>4. IInv /\ [BreakerNext]_breakerVars => [Earned]_breakerVars
    BY <1>1, <1>2, <1>3 DEF BreakerNext
  <1> QED
    BY BreakerInvariant, <1>4, PTL DEF BreakerSpec, RecoveryIsEarned

--------------------------------------------------------------------------------
(* The search for a route *)

IndexedEdge ==
    [from : Ids, to : Ids, base : Int, dollar : Int, latency : Nat, risk : Int,
     enabled : BOOLEAN]

\* The graph is indexed as get_or_insert_node keeps it, every edge in the list of the node it
\* leaves; the cost model has been validated, the health is one a tracker may show.
GraphOK ==
    /\ idToNode \in Seq(Node) /\ IsInjective(idToNode)
    /\ Len(adjacency) = Len(idToNode) /\ adjacency \in Seq(Seq(IndexedEdge))
    /\ \A i \in Ids : \A e \in ToSet(adjacency[i]) : e.from = i
    /\ model \in Models \cup {DefaultModel} /\ ValidModel(model)
    /\ health \in [Node -> HealthInputs \cup {NewHealth}]

\* The node's distance waits in the heap to be expanded; it has been.
Pending(i, h, d) == [node |-> i, cost |-> d[i]] \in h
Closed(i, h, d) == d[i] < Infinity /\ ~Pending(i, h, d)

SearchType(h, d, q) ==
    /\ h \subseteq [node : Ids, cost : Nat]
    /\ d \in [Ids -> Nat]
    /\ q \in [Ids -> 0..Len(idToNode)]

\* The frontier is monotone: what waits costs at least what any closed node did.
Frontier(h, d) ==
    /\ \A i \in Ids : d[i] <= Infinity
    /\ \A x \in h : d[x.node] <= x.cost /\ x.cost < Infinity
    /\ \A i \in Ids : Closed(i, h, d) => \A x \in h : d[i] <= x.cost

\* No edge out of a closed node improves what it leads to.
Settled(h, d) ==
    \A i \in Ids : Closed(i, h, d) =>
        \A e \in ToSet(adjacency[i]) : Passable(e) => d[e.to] <= d[i] + EdgeCost(e)

\* The start costs nothing, the goal waits until it ends the search.
EndsOK(s, g, h, d) ==
    /\ s \in Ids /\ g \in Ids /\ s # g
    /\ d[s] = 0 /\ ~Closed(g, h, d)

\* A reached node owes its distance to an edge out of a closed one.
Tree(s, h, d, q) ==
    \A n \in Ids :
        /\ q[n] # NoPrevious => Closed(q[n], h, d)
        /\ n # s /\ d[n] < Infinity =>
              /\ q[n] # NoPrevious
              /\ \E e \in ToSet(adjacency[q[n]]) :
                    Passable(e) /\ e.to = n /\ d[n] = d[q[n]] + EdgeCost(e)

\* f walks back over previous, as PathTo does.
WalksBack(f, s, q) ==
    f = [n \in Ids |-> IF n = s \/ q[n] = NoPrevious THEN <<idToNode[n]>>
                       ELSE Append(f[q[n]], idToNode[n])]

\* w is a way from s to n that costs the distance of n, all of it but n closed.
IsWayTo(w, s, n, h, d) ==
    /\ w \in Feasible([start |-> idToNode[s], goal |-> idToNode[n]])
    /\ PathCost(w, HopCosts) = d[n]
    /\ \A k \in 1..(Len(w) - 1) : \E i \in Ids : Closed(i, h, d) /\ w[k] = idToNode[i]

Ways(s, h, d, q) ==
    /\ \E f : WalksBack(f, s, q)
    /\ \A f : WalksBack(f, s, q) =>
          \A n \in Ids : d[n] < Infinity => IsWayTo(f[n], s, n, h, d)

SearchOK(s, g, h, d, q) ==
    /\ SearchType(h, d, q) /\ Frontier(h, d) /\ Settled(h, d)
    /\ EndsOK(s, g, h, d) /\ Tree(s, h, d, q) /\ Ways(s, h, d, q)

\* The inductive invariant
PathInv ==
    /\ GraphOK
    /\ phase \in {"Idle", "Searching", "Done"}
    /\ phase = "Searching" =>
          /\ request \in RouteKey /\ Known(request.start) /\ Known(request.goal)
          /\ SearchOK(IdOf(request.start), IdOf(request.goal), heap, distances, previous)
    /\ AnswerIsCheapest

--------------------------------------------------------------------------------
(* Costs *)

\* A part of a weight: not negative, and at most the part's weight times Scale.
LEMMA PartOfWeight ==
    ASSUME NEW w \in Nat, NEW x \in 0..Scale
    PROVE  w * x \in Nat /\ w * x <= w * Scale
<1>1. Scale \in Nat /\ x \in Nat /\ Scale - x \in Nat
  BY ShortestPathAssumption
<1>2. w * (Scale - x) >= 0 /\ w * x >= 0 /\ w * x \in Int /\ w * (Scale - x) \in Int
  BY <1>1
<1>3. w * Scale = w * x + w * (Scale - x)
  BY <1>1
<1> QED BY <1>1, <1>2, <1>3

\* normalize ends between 0 and 1.
LEMMA NormalizedRange ==
    ASSUME NEW v \in Int, NEW ceiling \in Int
    PROVE  Normalized(v, ceiling) \in 0..Scale /\ Clamped(v) \in 0..Scale
<1>1. Scale \in Nat
  BY ShortestPathAssumption
<1>2. \A y \in Int : Clamped(y) \in 0..Scale
  BY <1>1 DEF Clamped
<1>3. CASE ceiling <= 0
  BY <1>1, <1>2, <1>3 DEF Normalized
<1>4. CASE ~(ceiling <= 0)
  <2>1. (v * Scale) \div ceiling \in Int
    BY <1>1, <1>4
  <2> HIDE DEF Clamped
  <2> QED BY <1>2, <1>4, <2>1 DEF Normalized
<1> QED BY <1>3, <1>4

\* The weight of a valid edge under a valid model: the four parts of a whole of weights.
LEMMA WeightRange ==
    ASSUME NEW m \in CostModel, ValidModel(m),
           NEW e, e.base \in Int, e.dollar \in Int, e.latency \in Nat, e.risk \in Int
    PROVE  /\ Weight(e, m) \in Nat
           /\ IsValid(e) =>
                 Weight(e, m) <= (m.wDollar + m.wLatency + m.wRisk + m.wBase) * Scale
<1>1. /\ m.wDollar \in Nat /\ m.wLatency \in Nat /\ m.wRisk \in Nat /\ m.wBase \in Nat
      /\ m.maxDollar \in Int /\ m.maxLatency \in Int /\ m.maxBase \in Int
  BY DEF CostModel, ValidModel
<1> DEFINE a == Normalized(e.dollar, m.maxDollar)
           b == Normalized(e.latency, m.maxLatency)
           c == Clamped(e.risk)
           f == Normalized(e.base, m.maxBase)
<1>2. a \in 0..Scale /\ b \in 0..Scale /\ c \in 0..Scale /\ f \in 0..Scale
  <2>1. e.latency \in Int
    OBVIOUS
  <2>2. \A v, ceiling \in Int : Normalized(v, ceiling) \in 0..Scale /\ Clamped(v) \in 0..Scale
    BY NormalizedRange
  <2> QED BY <1>1, <2>1, <2>2
<1> HIDE DEF a, b, c, f
<1> DEFINE wa == m.wDollar * a  wb == m.wLatency * b  wc == m.wRisk * c  wf == m.wBase * f
           sa == m.wDollar * Scale  sb == m.wLatency * Scale  sc == m.wRisk * Scale
           sf == m.wBase * Scale
<1>3. /\ wa \in Nat /\ wa <= sa /\ wb \in Nat /\ wb <= sb
      /\ wc \in Nat /\ wc <= sc /\ wf \in Nat /\ wf <= sf
  BY <1>1, <1>2, PartOfWeight
<1>4. (m.wDollar + m.wLatency + m.wRisk + m.wBase) * Scale = sa + sb + sc + sf
  BY <1>1, ShortestPathAssumption
<1>5. IsValid(e) => Weight(e, m) = wa + wb + wc + wf
  BY DEF Weight, a, b, c, f
<1>6. ~IsValid(e) => Weight(e, m) = Infinity
  BY DEF Weight
<1>7. /\ sa \in Int /\ sb \in Int /\ sc \in Int /\ sf \in Int
  BY <1>1, ShortestPathAssumption
<1> HIDE DEF wa, wb, wc, wf, sa, sb, sc, sf
<1> QED BY <1>3, <1>4, <1>5, <1>6, <1>7, ShortestPathAssumption

\* A penalty: Infinity exactly for a node that is Open, or not below it otherwise.
LEMMA PenaltyRange ==
    ASSUME NEW h \in NodeHealth
    PROVE  Penalty(h) \in Nat /\ (h.state = "Open" => Penalty(h) = Infinity)
<1>1. Scale \in Nat /\ Infinity \in Nat /\ h.drag \in Nat /\ 5 * Scale \in Nat /\ 3 * Scale \in Nat
  BY ShortestPathAssumption DEF NodeHealth
<1>2. h.state \in {"Healthy", "Degraded", "Open", "HalfOpen"}
  BY DEF NodeHealth
<1>3. CASE h.state = "Healthy"
  BY <1>1, <1>3 DEF Penalty
<1>4. CASE h.state = "Degraded"
  BY <1>1, <1>4 DEF Penalty
<1>5. CASE h.state = "HalfOpen"
  BY <1>1, <1>5 DEF Penalty
<1>6. CASE h.state = "Open"
  BY <1>1, <1>6 DEF Penalty
<1> QED BY <1>2, <1>3, <1>4, <1>5, <1>6

--------------------------------------------------------------------------------
(* The graph *)

\* What a list of edges holds
LEMMA Listed ==
    ASSUME GraphOK, NEW i \in Ids
    PROVE  /\ adjacency[i] \in Seq(IndexedEdge)
           /\ \A e \in ToSet(adjacency[i]) :
                 /\ e \in IndexedEdge /\ e.from = i /\ e.to \in Ids
                 /\ e \in AllEdges
<1>1. DOMAIN adjacency = Ids
  BY DEF GraphOK, Ids
<1>2. adjacency[i] \in Seq(IndexedEdge)
  BY <1>1 DEF GraphOK
<1>3. ASSUME NEW e \in ToSet(adjacency[i]) PROVE e \in IndexedEdge
  BY <1>2 DEF ToSet
<1>4. \A e \in IndexedEdge : e.to \in Ids
  BY DEF IndexedEdge
<1> QED BY <1>2, <1>3, <1>4 DEF GraphOK, AllEdges

\* An edge of the graph is in the list of the node it leaves.
LEMMA EdgesAreListed ==
    ASSUME GraphOK, NEW e \in AllEdges
    PROVE  e \in IndexedEdge /\ e.from \in Ids /\ e.to \in Ids /\ e \in ToSet(adjacency[e.from])
<1>1. PICK i \in Ids : e \in ToSet(adjacency[i])
  BY DEF AllEdges
<1>2. e \in IndexedEdge /\ e.from = i /\ e.to \in Ids
  BY <1>1, Listed
<1> QED BY <1>1, <1>2

\* An id stands for one node.
LEMMA IdsAreUnique ==
    ASSUME GraphOK
    PROVE  /\ Ids = 1..Len(idToNode) /\ Len(idToNode) \in Nat /\ Len(idToNode) = Len(adjacency)
           /\ \A i \in Ids : idToNode[i] \in Node /\ Known(idToNode[i])
           /\ \A i, j \in Ids : idToNode[i] = idToNode[j] => i = j
           /\ \A n : Known(n) => IdOf(n) \in Ids /\ idToNode[IdOf(n)] = n
           /\ \A i \in Ids : IdOf(idToNode[i]) = i
<1>1. Ids = 1..Len(idToNode) /\ Len(idToNode) \in Nat /\ Len(idToNode) = Len(adjacency)
  BY DEF GraphOK, Ids
<1>2. \A i \in Ids : idToNode[i] \in Node /\ Known(idToNode[i])
  BY <1>1 DEF GraphOK, Known, ToSet, Ids
<1>3. \A i, j \in Ids : idToNode[i] = idToNode[j] => i = j
  BY DEF GraphOK, IsInjective, Ids
<1>4. ASSUME NEW n, Known(n) PROVE IdOf(n) \in Ids /\ idToNode[IdOf(n)] = n
  <2>1. \E i \in DOMAIN idToNode : idToNode[i] = n
    BY <1>4 DEF Known, ToSet
  <2> QED BY <2>1 DEF IdOf, Ids
<1>5. \A i \in Ids : IdOf(idToNode[i]) = i
  BY <1>2, <1>3, <1>4
<1> QED BY <1>1, <1>2, <1>3, <1>4, <1>5

\* b bounds what a hop can cost: Infinity is out of reach of a path.
HopLimit(b) == b \in Nat /\ b <= Infinity /\ BoundsHops(b) /\ Cardinality(Node) * b < Infinity

\* ShortestPathInputs: there is a limit to what a hop costs.
LEMMA HopLimitExists == \E b : HopLimit(b)
BY ShortestPathInputs, ShortestPathAssumption DEF HopLimit

\* What an edge costs, and that it is passable exactly when it is usable and the node it
\* enters is not Open.
LEMMA EdgeCostFacts ==
    ASSUME GraphOK, NEW e \in IndexedEdge, NEW b, HopLimit(b)
    PROVE  /\ EdgeCost(e) \in Nat
           /\ Passable(e) <=> e.enabled /\ IsValid(e) /\ health[idToNode[e.to]].state # "Open"
           /\ Passable(e) => EdgeCost(e) <= b
<1> DEFINE n == idToNode[e.to]
           h == health[n]
<1>1. n \in Node /\ e.to \in Ids
  BY IdsAreUnique DEF IndexedEdge
<1>2. h \in HealthInputs \cup {NewHealth} /\ h \in NodeHealth
  <2>1. NewHealth \in NodeHealth
    BY DEF NewHealth, NodeHealth
  <2> QED BY <1>1, <2>1, ShortestPathInputs DEF GraphOK
<1>3. model \in CostModel /\ model \in Models \cup {DefaultModel} /\ ValidModel(model)
  <2>1. DefaultModel \in CostModel
    BY DEF DefaultModel, CostModel
  <2> QED BY <2>1, ShortestPathInputs DEF GraphOK
<1>4. e.base \in Int /\ e.dollar \in Int /\ e.latency \in Nat /\ e.risk \in Int
  BY DEF IndexedEdge
<1> DEFINE whole == (model.wDollar + model.wLatency + model.wRisk + model.wBase) * Scale
<1>5. Weight(e, model) \in Nat /\ (IsValid(e) => Weight(e, model) <= whole)
  BY <1>3, <1>4, WeightRange
<1>6. Penalty(h) \in Nat /\ (h.state = "Open" => Penalty(h) = Infinity)
  BY <1>2, PenaltyRange
<1>7. h.state # "Open" => whole + Penalty(h) <= b
  BY <1>2, <1>3 DEF HopLimit, BoundsHops
<1>8. whole \in Int
  BY <1>3, ShortestPathAssumption DEF CostModel
<1>9. EdgeCost(e) = Weight(e, model) + Penalty(h)
  BY DEF EdgeCost
<1>10. b < Infinity
  <2>1. Cardinality(Node) \in Nat /\ Cardinality(Node) # 0
    BY <1>1, ShortestPathAssumption, FS_CardinalityType, FS_EmptySet
  <2>2. b \in Nat /\ Infinity \in Nat
    BY ShortestPathAssumption DEF HopLimit
  <2>3. Cardinality(Node) - 1 \in Nat
    BY <2>1
  <2>4. Cardinality(Node) * b = (Cardinality(Node) - 1) * b + b
    BY <2>1, <2>2
  <2>5. (Cardinality(Node) - 1) * b \in Nat
    BY <2>2, <2>3
  <2> QED BY <2>2, <2>4, <2>5 DEF HopLimit
<1> HIDE DEF n, h, whole
<1>11. EdgeCost(e) \in Nat
  BY <1>5, <1>6, <1>9
<1>12. h.state = "Open" => ~(EdgeCost(e) < Infinity)
  BY <1>5, <1>6, <1>9, ShortestPathAssumption
<1>13. h.state # "Open" /\ IsValid(e) => EdgeCost(e) <= b /\ EdgeCost(e) < Infinity
  BY <1>5, <1>6, <1>7, <1>8, <1>9, <1>10, ShortestPathAssumption DEF HopLimit
<1> QED BY <1>11, <1>12, <1>13 DEF Passable, h, n

\* Min finds it.
LEMMA MinOfNumbers ==
    ASSUME NEW S \in SUBSET Nat, S # {}
    PROVE  Min(S) \in S /\ \A y \in S : Min(S) <= y
<1>1. \E x \in S : \A y \in S : x <= y
  BY LeastNumber
<1> QED BY <1>1 DEF Min

--------------------------------------------------------------------------------
(* Hops and paths *)

\* An edge that is passable is a hop of ToolGraph.
LEMMA PassableIsHop ==
    ASSUME GraphOK, NEW i \in Ids, NEW e \in ToSet(adjacency[i]), Passable(e)
    PROVE  CanHop(UsableEdges, Blocked, idToNode[i], idToNode[e.to])
<1>1. PICK b : HopLimit(b)
  BY HopLimitExists
<1>2. e \in IndexedEdge /\ e.from = i /\ e \in AllEdges
  BY Listed
<1>3. e.enabled /\ IsValid(e) /\ health[idToNode[e.to]].state # "Open"
  BY <1>1, <1>2, EdgeCostFacts
<1> DEFINE x == [from |-> idToNode[e.from], to |-> idToNode[e.to],
                 usable |-> e.enabled /\ e.base >= 0 /\ e.dollar >= 0 /\ e.risk >= 0]
<1>4. x \in UsableEdges
  BY <1>2 DEF UsableEdges
<1>5. x.from = idToNode[i] /\ x.to = idToNode[e.to] /\ x.usable
  BY <1>2, <1>3 DEF IsValid
<1>6. idToNode[e.to] \notin Blocked
  BY <1>3 DEF Blocked
<1> QED BY <1>4, <1>5, <1>6 DEF CanHop

\* A hop of ToolGraph is a passable edge between known nodes, and costs what the cheapest of
\* the parallel edges does.
LEMMA HopFacts ==
    ASSUME GraphOK, NEW b, HopLimit(b), NEW u, NEW v, CanHop(UsableEdges, Blocked, u, v)
    PROVE  /\ Known(u) /\ Known(v)
           /\ HopCosts[<<u, v>>] \in Nat /\ HopCosts[<<u, v>>] <= b
           /\ \E e \in ToSet(adjacency[IdOf(u)]) :
                 Passable(e) /\ e.to = IdOf(v) /\ EdgeCost(e) = HopCosts[<<u, v>>]
           /\ \A e \in ToSet(adjacency[IdOf(u)]) :
                 Passable(e) /\ e.to = IdOf(v) => HopCosts[<<u, v>>] <= EdgeCost(e)
<1> DEFINE usable == {x \in AllEdges : x.enabled /\ x.base >= 0 /\ x.dollar >= 0 /\ x.risk >= 0}
           between == {y \in usable : idToNode[y.from] = u /\ idToNode[y.to] = v}
           costs == {EdgeCost(x) : x \in between}
<1>1. v \notin Blocked /\ \E x \in between : TRUE
  <2>1. PICK y \in UsableEdges : y.from = u /\ y.to = v /\ y.usable
    BY DEF CanHop
  <2>2. PICK x \in AllEdges :
          y = [from |-> idToNode[x.from], to |-> idToNode[x.to],
               usable |-> x.enabled /\ x.base >= 0 /\ x.dollar >= 0 /\ x.risk >= 0]
    BY DEF UsableEdges
  <2>3. x.enabled /\ x.base >= 0 /\ x.dollar >= 0 /\ x.risk >= 0
    BY <2>1, <2>2
  <2> QED BY <2>1, <2>2, <2>3 DEF CanHop
<1>2. PICK x0 \in between : TRUE
  BY <1>1
<1>3. x0 \in AllEdges /\ idToNode[x0.from] = u /\ idToNode[x0.to] = v
  OBVIOUS
<1>4. x0.from \in Ids /\ x0.to \in Ids
  BY <1>3, EdgesAreListed
<1>5. Known(u) /\ Known(v) /\ IdOf(u) = x0.from /\ IdOf(v) = x0.to
  BY <1>3, <1>4, IdsAreUnique
<1>6. v \in Node /\ health[v].state # "Open"
  BY <1>1, <1>3, <1>4, IdsAreUnique DEF Blocked
<1>7. ASSUME NEW x \in between
      PROVE  /\ x \in ToSet(adjacency[IdOf(u)]) /\ Passable(x) /\ x.to = IdOf(v)
             /\ EdgeCost(x) \in Nat /\ EdgeCost(x) <= b
  <2>1. x \in AllEdges /\ idToNode[x.from] = u /\ idToNode[x.to] = v
    OBVIOUS
  <2>2. x \in IndexedEdge /\ x.from \in Ids /\ x.to \in Ids /\ x \in ToSet(adjacency[x.from])
    BY <2>1, EdgesAreListed
  <2>3. x.from = IdOf(u) /\ x.to = IdOf(v)
    BY <2>1, <2>2, IdsAreUnique
  <2>4. x.enabled /\ IsValid(x)
    BY DEF IsValid
  <2>5. Passable(x) /\ EdgeCost(x) \in Nat /\ EdgeCost(x) <= b
    BY <1>6, <2>1, <2>2, <2>4, EdgeCostFacts
  <2> QED BY <2>2, <2>3, <2>5
<1>8. ASSUME NEW e \in ToSet(adjacency[IdOf(u)]), Passable(e), e.to = IdOf(v)
      PROVE  e \in between
  <2>1. IdOf(u) \in Ids /\ idToNode[IdOf(u)] = u /\ idToNode[IdOf(v)] = v
    BY <1>5, IdsAreUnique
  <2>2. e \in IndexedEdge /\ e.from = IdOf(u) /\ e \in AllEdges
    BY <2>1, Listed
  <2>3. e.enabled /\ IsValid(e)
    BY <1>8 DEF Passable
  <2> QED BY <1>8, <2>1, <2>2, <2>3 DEF IsValid
<1>9. HopCosts[<<u, v>>] = Min(costs)
  <2> DEFINE hops == {<<idToNode[x.from], idToNode[x.to]>> : x \in usable}
             F == [h \in hops |->
                     Min({EdgeCost(x) : x \in {y \in usable :
                             idToNode[y.from] = h[1] /\ idToNode[y.to] = h[2]}})]
  <2>1. <<u, v>> \in hops
    BY <1>3
  <2>2. HopCosts = F
    BY DEF HopCosts
  <2>3. <<u, v>>[1] = u /\ <<u, v>>[2] = v
    OBVIOUS
  <2> HIDE DEF hops, usable
  <2>4. F[<<u, v>>] = Min({EdgeCost(x) : x \in {y \in usable :
                        idToNode[y.from] = <<u, v>>[1] /\ idToNode[y.to] = <<u, v>>[2]}})
    BY <2>1, Zenon
  <2> QED BY <2>2, <2>3, <2>4, Zenon
<1> HIDE DEF between
<1>10. costs \in SUBSET Nat /\ costs # {}
  BY <1>2, <1>7
<1> HIDE DEF costs
<1>11. Min(costs) \in costs /\ \A c \in costs : Min(costs) <= c
  BY <1>10, MinOfNumbers
<1>12. PICK x \in between : Min(costs) = EdgeCost(x)
  BY <1>11 DEF costs
<1>13. \A e \in between : Min(costs) <= EdgeCost(e)
  BY <1>11 DEF costs
<1> QED BY <1>5, <1>7, <1>8, <1>9, <1>12, <1>13

\* c counts the cost of p up to each of its places.
CountsUp(c, p, hop) ==
    /\ c[1] = 0
    /\ \A k \in Nat : 1 <= k /\ k < Len(p) => c[k + 1] = c[k] + hop[<<p[k], p[k + 1]>>]

UpTo(f, p, hop, n) ==
    f = [i \in 1..n |-> IF i = 1 THEN 0 ELSE f[i - 1] + hop[<<p[i - 1], p[i]>>]]

\* A function that counts as UpTo says exists for every length.
LEMMA UpToExists ==
    ASSUME NEW p, NEW hop, NEW n \in Nat
    PROVE  \E f : UpTo(f, p, hop, n)
<1> DEFINE T == {m \in Nat : \E f : UpTo(f, p, hop, m)}
<1>1. 0 \in T
  <2> DEFINE g == [i \in 1..0 |-> 0]
  <2>1. UpTo(g, p, hop, 0)
    BY DEF UpTo
  <2> QED BY <2>1
<1>2. ASSUME NEW m \in Nat, m < n, m \in T PROVE m + 1 \in T
  <2>1. PICK f : UpTo(f, p, hop, m)
    BY <1>2
  <2> DEFINE step(x, i) == IF i = 1 THEN 0 ELSE x[i - 1] + hop[<<p[i - 1], p[i]>>]
             g == [i \in 1..(m + 1) |-> step(f, i)]
  <2>2. \A i \in 1..m : f[i] = step(f, i)
    BY <2>1, Zenon DEF UpTo
  <2>3. \A i \in 1..(m + 1) : i # 1 => i - 1 \in 1..m /\ i - 1 \in 1..(m + 1)
    OBVIOUS
  <2>4. \A i \in 1..m : i \in 1..(m + 1)
    OBVIOUS
  <2>5. \A i \in 1..m : g[i] = f[i]
    BY <2>2, <2>4, Zenon
  <2>6. \A i \in 1..(m + 1) : step(f, i) = step(g, i)
    <3> HIDE DEF g
    <3> QED BY <2>3, <2>5
  <2>7. g = [i \in 1..(m + 1) |-> step(g, i)]
    <3> DEFINE G == g
    <3>1. G = [i \in 1..(m + 1) |-> step(f, i)]
      OBVIOUS
    <3>2. \A i \in 1..(m + 1) : step(f, i) = step(G, i)
      BY <2>6
    <3> HIDE DEF G, step
    <3>3. [i \in 1..(m + 1) |-> step(f, i)] = [i \in 1..(m + 1) |-> step(G, i)]
      BY <3>2
    <3> QED BY <3>1, <3>3 DEF G
  <2> HIDE DEF g
  <2>8. UpTo(g, p, hop, m + 1)
    BY <2>7, Zenon DEF UpTo
  <2> QED BY <2>8
<1> HIDE DEF T
<1>3. 0..n \subseteq T
  BY <1>1, <1>2, CountingUp
<1>4. n \in T
  BY <1>3
<1> QED BY <1>4 DEF T

\* The cost of a path is the last of the counts.
LEMMA PathCostCounts ==
    ASSUME NEW p, NEW hop, Len(p) \in Nat, Len(p) # 0
    PROVE  \E c : CountsUp(c, p, hop) /\ PathCost(p, hop) = c[Len(p)]
<1> DEFINE n == Len(p)
           F == CHOOSE f : UpTo(f, p, hop, n)
<1>1. UpTo(F, p, hop, n)
  BY UpToExists, Zenon
<1>2. PathCost(p, hop) = F[n]
  BY DEF PathCost, UpTo
<1> HIDE DEF F
<1>3. F[1] = 0
  BY <1>1 DEF UpTo
<1>4. ASSUME NEW k \in Nat, 1 <= k, k < n
      PROVE  F[k + 1] = F[k] + hop[<<p[k], p[k + 1]>>]
  <2>1. k + 1 \in 1..n /\ k + 1 # 1 /\ (k + 1) - 1 = k
    BY <1>4
  <2> QED BY <1>1, <2>1 DEF UpTo
<1>5. CountsUp(F, p, hop)
  BY <1>3, <1>4 DEF CountsUp
<1> QED BY <1>2, <1>5

\* Two counts of paths that begin alike agree as far as the paths do.
LEMMA CountsAgree ==
    ASSUME NEW p, NEW q, NEW hop, NEW c, NEW d, CountsUp(c, p, hop), CountsUp(d, q, hop),
           NEW n \in Nat, n # 0, Len(p) \in Nat, Len(q) \in Nat, n <= Len(p), n <= Len(q),
           \A k \in 1..n : p[k] = q[k]
    PROVE  c[n] = d[n]
<1> DEFINE T == {m \in Nat : m + 1 <= n => c[m + 1] = d[m + 1]}
<1>1. 0 \in T
  BY DEF CountsUp
<1>2. ASSUME NEW m \in Nat, m < n, m \in T PROVE m + 1 \in T
  <2> SUFFICES ASSUME m + 2 <= n PROVE c[m + 2] = d[m + 2]
    OBVIOUS
  <2>1. c[m + 1] = d[m + 1]
    BY <1>2
  <2>2. p[m + 1] = q[m + 1] /\ p[m + 2] = q[m + 2]
    OBVIOUS
  <2>3. m + 1 \in Nat /\ 1 <= m + 1 /\ m + 1 < Len(p) /\ m + 1 < Len(q) /\ (m + 1) + 1 = m + 2
    OBVIOUS
  <2>4. c[m + 2] = c[m + 1] + hop[<<p[m + 1], p[m + 2]>>]
    BY <2>3 DEF CountsUp
  <2>5. d[m + 2] = d[m + 1] + hop[<<q[m + 1], q[m + 2]>>]
    BY <2>3 DEF CountsUp
  <2> QED BY <2>1, <2>2, <2>4, <2>5
<1> HIDE DEF T
<1>3. 0..n \subseteq T
  BY <1>1, <1>2, CountingUp
<1>4. n - 1 \in T
  BY <1>3
<1> QED BY <1>4 DEF T

\* One more node costs one more hop.
LEMMA PathCostAppend ==
    ASSUME NEW S, NEW p \in Seq(S), p # << >>, NEW x, NEW hop
    PROVE  PathCost(Append(p, x), hop) = PathCost(p, hop) + hop[<<p[Len(p)], x>>]
<1> DEFINE q == Append(p, x)
           n == Len(p)
<1>1. /\ n \in Nat /\ n # 0 /\ Len(q) = n + 1 /\ q[n + 1] = x
      /\ \A k \in 1..n : q[k] = p[k]
  OBVIOUS
<1> HIDE DEF q
<1>2. PICK c : CountsUp(c, p, hop) /\ PathCost(p, hop) = c[n]
  BY <1>1, PathCostCounts
<1>3. PICK d : CountsUp(d, q, hop) /\ PathCost(q, hop) = d[n + 1]
  BY <1>1, PathCostCounts
<1>4. c[n] = d[n]
  BY <1>1, <1>2, <1>3, CountsAgree
<1>5. d[n + 1] = d[n] + hop[<<q[n], q[n + 1]>>]
  BY <1>1, <1>3 DEF CountsUp
<1>6. q[n] = p[n]
  BY <1>1
<1> QED BY <1>1, <1>2, <1>3, <1>4, <1>5, <1>6 DEF q

\* A path of one node costs nothing.
LEMMA PathCostOne ==
    ASSUME NEW p, NEW hop, Len(p) = 1
    PROVE  PathCost(p, hop) = 0
<1>1. Len(p) \in Nat /\ Len(p) # 0
  OBVIOUS
<1>2. PICK c : CountsUp(c, p, hop) /\ PathCost(p, hop) = c[Len(p)]
  BY <1>1, PathCostCounts
<1> QED BY <1>2 DEF CountsUp

--------------------------------------------------------------------------------
(* The heap and the loop of the relaxations *)

\* The order of the heap is total: there is a top, and nothing is cheaper.
LEMMA TopIsCheapest ==
    ASSUME GraphOK, NEW h, h \subseteq [node : Ids, cost : Nat], h # {}
    PROVE  Top(h) \in h /\ \A y \in h : Top(h).cost <= y.cost
<1> DEFINE n == Len(idToNode)
           costs == {x.cost : x \in h}
<1>1. n \in Nat /\ Ids = 1..n
  BY IdsAreUnique
<1>2. \A x \in h : x.cost \in Nat /\ x.node \in 1..n
  BY <1>1
<1>3. PICK c \in costs : \A y \in costs : c <= y
  <2>1. costs \in SUBSET Nat /\ costs # {}
    BY <1>2
  <2> QED BY <2>1, LeastNumber
<1> DEFINE cheapest == {x \in h : x.cost = c}
           ranks == {n - x.node : x \in cheapest}
<1>4. PICK r \in ranks : \A y \in ranks : r <= y
  <2>1. ranks \in SUBSET Nat /\ ranks # {}
    BY <1>1, <1>2, <1>3
  <2> QED BY <2>1, LeastNumber
<1>5. PICK x \in cheapest : r = n - x.node
  OBVIOUS
<1>6. \A y \in h : x.cost < y.cost \/ (x.cost = y.cost /\ x.node >= y.node)
  <2>1. ASSUME NEW y \in h
        PROVE  x.cost < y.cost \/ (x.cost = y.cost /\ x.node >= y.node)
    <3>1. x.cost = c /\ y.cost \in costs
      OBVIOUS
    <3>2. c <= y.cost /\ c \in Nat /\ y.cost \in Nat
      BY <1>2, <1>3, <3>1
    <3>3. CASE y.cost = c
      <4>1. n - y.node \in ranks
        BY <3>3
      <4>2. n - x.node <= n - y.node
        BY <1>4, <1>5, <4>1
      <4> QED BY <1>1, <1>2, <3>1, <3>3, <4>2
    <3> QED BY <3>1, <3>2, <3>3
  <2> QED BY <2>1
<1>7. x \in h
  OBVIOUS
<1> HIDE DEF cheapest, costs, ranks
<1>8. Top(h) \in h /\ \A y \in h :
        Top(h).cost < y.cost \/ (Top(h).cost = y.cost /\ Top(h).node >= y.node)
  BY <1>6, <1>7 DEF Top
<1> QED BY <1>2, <1>8

\* The variables of the loop
Loop ==
    [node : Ids, cost : Nat, heap : SUBSET [node : Ids, cost : Nat], dist : [Ids -> Nat],
     prev : [Ids -> 0..Len(idToNode)]]

\* The loop that began with s has come to t by way of the edges in K: a distance is as it
\* was, or has fallen to what a passable edge makes it, and then waits in the heap.
Improved(s, t, K, n) ==
    /\ t.dist[n] < s.dist[n] /\ t.prev[n] = s.node
    /\ [node |-> n, cost |-> t.dist[n]] \in t.heap
    /\ \E e \in K : Passable(e) /\ e.to = n /\ t.dist[n] = s.cost + EdgeCost(e)

Relaxed(s, t, K) ==
    /\ t \in Loop /\ t.node = s.node /\ t.cost = s.cost
    /\ s.heap \subseteq t.heap
    /\ \A n \in Ids : (t.dist[n] = s.dist[n] /\ t.prev[n] = s.prev[n]) \/ Improved(s, t, K, n)
    /\ \A x \in t.heap :
          x \in s.heap \/ (/\ s.cost <= x.cost /\ x.cost < s.dist[x.node]
                           /\ t.dist[x.node] <= x.cost)
    /\ \A e \in K : Passable(e) => t.dist[e.to] <= s.cost + EdgeCost(e)

\* One more edge relaxed: what Relaxed says of the edges before it stays true, and it holds of
\* this one.
LEMMA RelaxOne ==
    ASSUME NEW s \in Loop, NEW t, NEW K, Relaxed(s, t, K), s.node \in Ids, Ids = 1..Len(idToNode),
           NEW e, e.to \in Ids, EdgeCost(e) \in Nat,
           \A x \in K : x.to \in Ids /\ EdgeCost(x) \in Nat
    PROVE  Relaxed(s, Relax(t, e), K \cup {e})
<1> DEFINE c == s.cost + EdgeCost(e)
           j == e.to
           new == [node |-> j, cost |-> c]
<1>1. /\ t \in Loop /\ t.node = s.node /\ t.cost = s.cost /\ s.cost \in Nat /\ c \in Nat
      /\ t.dist \in [Ids -> Nat] /\ t.prev \in [Ids -> 0..Len(idToNode)]
      /\ t.heap \in SUBSET [node : Ids, cost : Nat] /\ s.dist \in [Ids -> Nat]
      /\ s.heap \in SUBSET [node : Ids, cost : Nat]
  <2>1. t \in Loop /\ t.node = s.node /\ t.cost = s.cost
    BY DEF Relaxed
  <2>2. s.cost \in Nat /\ s.dist \in [Ids -> Nat] /\ s.heap \in SUBSET [node : Ids, cost : Nat]
    BY DEF Loop
  <2>3. /\ t.dist \in [Ids -> Nat] /\ t.prev \in [Ids -> 0..Len(idToNode)]
        /\ t.heap \in SUBSET [node : Ids, cost : Nat]
    BY <2>1 DEF Loop
  <2>4. c \in Nat
    BY <2>2
  <2> QED BY <2>1, <2>2, <2>3, <2>4
<1>2. CASE ~(Passable(e) /\ c < t.dist[j])
  <2>1. Relax(t, e) = t
    BY <1>1, <1>2 DEF Relax
  <2>2. Passable(e) => t.dist[j] <= c
    BY <1>1, <1>2
  <2>3. \A n \in Ids : Improved(s, t, K, n) => Improved(s, t, K \cup {e}, n)
    BY DEF Improved
  <2>4. \A x \in K \cup {e} : Passable(x) => t.dist[x.to] <= s.cost + EdgeCost(x)
    BY <2>2 DEF Relaxed
  <2> HIDE DEF c, j
  <2> QED BY <2>1, <2>3, <2>4 DEF Relaxed
<1>3. CASE Passable(e) /\ c < t.dist[j]
  <2> DEFINE dist == [t.dist EXCEPT ![j] = c]
             prev == [t.prev EXCEPT ![j] = s.node]
             heap1 == t.heap \cup {new}
  <2>1. ASSUME NEW u, u = Relax(t, e)
        PROVE  u = [node |-> s.node, cost |-> s.cost, heap |-> heap1, dist |-> dist, prev |-> prev]
    <3>1. u = [t EXCEPT !.dist[j] = c, !.prev[j] = t.node, !.heap = t.heap \cup {new}]
      BY <1>1, <1>3, <2>1 DEF Relax
    <3> QED BY <1>1, <3>1 DEF Loop
  <2>2. /\ dist \in [Ids -> Nat] /\ prev \in [Ids -> 0..Len(idToNode)]
        /\ heap1 \in SUBSET [node : Ids, cost : Nat]
        /\ dist[j] = c /\ prev[j] = s.node
        /\ \A n \in Ids : n # j => dist[n] = t.dist[n] /\ prev[n] = t.prev[n]
        /\ \A n \in Ids : dist[n] <= t.dist[n] /\ t.dist[n] \in Nat /\ dist[n] \in Nat
    <3>1. new \in [node : Ids, cost : Nat]
      BY <1>1
    <3>2. heap1 \in SUBSET [node : Ids, cost : Nat]
      <4> HIDE DEF new
      <4> QED BY <1>1, <3>1
    <3>3. s.node \in 0..Len(idToNode)
      OBVIOUS
    <3> DEFINE D == t.dist  Q == t.prev
    <3>4. D \in [Ids -> Nat] /\ Q \in [Ids -> 0..Len(idToNode)] /\ c \in Nat /\ c < D[j]
      BY <1>1, <1>3
    <3>5. j \in Ids
      OBVIOUS
    <3> HIDE DEF D, Q, c, j
    <3>6. /\ dist \in [Ids -> Nat] /\ dist[j] = c
          /\ \A n \in Ids : n # j => dist[n] = D[n]
          /\ \A n \in Ids : dist[n] <= D[n] /\ D[n] \in Nat /\ dist[n] \in Nat
      <4>1. /\ dist \in [Ids -> Nat] /\ dist[j] = c
            /\ \A n \in Ids : n # j => dist[n] = D[n]
        BY <3>4, <3>5 DEF D
      <4> HIDE DEF dist
      <4>2. ASSUME NEW n \in Ids PROVE dist[n] <= D[n] /\ D[n] \in Nat /\ dist[n] \in Nat
        <5>1. D[n] \in Nat /\ (n = j \/ n # j)
          BY <3>4
        <5> QED BY <3>4, <4>1, <5>1
      <4> QED BY <4>1, <4>2
    <3>7. /\ prev \in [Ids -> 0..Len(idToNode)] /\ prev[j] = s.node
          /\ \A n \in Ids : n # j => prev[n] = Q[n]
      BY <3>3, <3>4, <3>5 DEF Q
    <3> HIDE DEF dist, prev, heap1
    <3> QED BY <3>2, <3>6, <3>7 DEF D, Q
  <2> DEFINE u == Relax(t, e)
  <2>3. /\ u.node = s.node /\ u.cost = s.cost /\ u.heap = heap1 /\ u.dist = dist /\ u.prev = prev
        /\ u = [node |-> s.node, cost |-> s.cost, heap |-> heap1, dist |-> dist, prev |-> prev]
    BY <2>1
  <2> HIDE DEF dist, prev, u
  <2>4. u \in Loop
    <3> HIDE DEF heap1
    <3> QED BY <1>1, <2>2, <2>3 DEF Loop
  <2>5. \A n \in Ids : t.dist[n] <= s.dist[n] /\ s.dist[n] \in Nat
    <3>1. ASSUME NEW n \in Ids PROVE t.dist[n] <= s.dist[n] /\ s.dist[n] \in Nat
      <4>1. t.dist[n] \in Nat /\ s.dist[n] \in Nat
        BY <1>1
      <4>2. t.dist[n] = s.dist[n] \/ t.dist[n] < s.dist[n]
        BY DEF Relaxed, Improved
      <4> QED BY <4>1, <4>2
    <3> QED BY <3>1
  <2>6. ASSUME NEW n \in Ids
        PROVE  (u.dist[n] = s.dist[n] /\ u.prev[n] = s.prev[n]) \/ Improved(s, u, K \cup {e}, n)
    <3>1. CASE n = j
      <4>1. u.dist[n] = c /\ u.prev[n] = s.node /\ [node |-> n, cost |-> u.dist[n]] \in u.heap
        BY <2>2, <2>3, <3>1
      <4>2. c < s.dist[n]
        BY <1>1, <1>3, <2>5, <3>1
      <4> QED BY <1>3, <3>1, <4>1, <4>2 DEF Improved
    <3>2. CASE n # j
      <4>1. u.dist[n] = t.dist[n] /\ u.prev[n] = t.prev[n] /\ t.heap \subseteq u.heap
        BY <2>2, <2>3, <3>2
      <4>2. Improved(s, t, K, n) => Improved(s, u, K \cup {e}, n)
        BY <4>1 DEF Improved
      <4> QED BY <4>1, <4>2 DEF Relaxed
    <3> QED BY <3>1, <3>2
  <2>7. ASSUME NEW x \in u.heap
        PROVE  x \in s.heap \/ (/\ s.cost <= x.cost /\ x.cost < s.dist[x.node]
                                /\ u.dist[x.node] <= x.cost)
    <3>1. CASE x = new
      <4>1. x.node = j /\ x.cost = c
        BY <3>1
      <4>2. s.cost <= c /\ c < s.dist[j] /\ u.dist[j] = c
        <5>1. t.dist[j] <= s.dist[j] /\ s.dist[j] \in Nat /\ t.dist[j] \in Nat
          BY <2>2, <2>5
        <5>2. s.cost <= c /\ u.dist[j] = c
          BY <1>1, <2>2, <2>3
        <5> QED BY <1>1, <1>3, <5>1, <5>2
      <4> QED BY <1>1, <4>1, <4>2
    <3>2. CASE x \in t.heap
      <4>1. x.node \in Ids /\ x.cost \in Nat
        BY <1>1, <3>2
      <4>2. u.dist[x.node] <= t.dist[x.node] /\ u.dist[x.node] \in Nat /\ t.dist[x.node] \in Nat
        BY <2>2, <2>3, <4>1
      <4> QED BY <3>2, <4>1, <4>2 DEF Relaxed
    <3> QED BY <2>3, <3>1, <3>2
  <2>8. ASSUME NEW x \in K \cup {e}, Passable(x)
        PROVE  u.dist[x.to] <= s.cost + EdgeCost(x)
    <3>1. CASE x = e
      BY <1>1, <2>2, <2>3, <3>1
    <3>2. CASE x \in K
      <4>1. x.to \in Ids /\ EdgeCost(x) \in Nat /\ t.dist[x.to] <= s.cost + EdgeCost(x)
        BY <2>8, <3>2 DEF Relaxed
      <4>2. u.dist[x.to] <= t.dist[x.to] /\ u.dist[x.to] \in Nat /\ t.dist[x.to] \in Nat
        BY <2>2, <2>3, <4>1
      <4> QED BY <1>1, <4>1, <4>2
    <3> QED BY <3>1, <3>2
  <2>9. s.heap \subseteq u.heap
    BY <2>3 DEF Relaxed
  <2>10. Relaxed(s, u, K \cup {e})
    BY <2>3, <2>4, <2>6, <2>7, <2>8, <2>9 DEF Relaxed
  <2> QED BY <2>10 DEF u
<1> QED BY <1>2, <1>3

RelaxesTo(f, s, out, n) ==
    f = [i \in 0..n |-> IF i = 0 THEN s ELSE Relax(f[i - 1], out[i])]

\* A function that relaxes as RelaxesTo says exists for every length.
LEMMA RelaxUnfolds ==
    ASSUME NEW s, NEW out, NEW n \in Nat
    PROVE  \E f : RelaxesTo(f, s, out, n)
<1> DEFINE T == {m \in Nat : \E f : RelaxesTo(f, s, out, m)}
<1>1. 0 \in T
  <2> DEFINE g == [i \in 0..0 |-> s]
  <2>1. \A i \in 0..0 : i = 0
    OBVIOUS
  <2>2. RelaxesTo(g, s, out, 0)
    BY <2>1 DEF RelaxesTo
  <2> QED BY <2>2
<1>2. ASSUME NEW m \in Nat, m < n, m \in T PROVE m + 1 \in T
  <2>1. PICK f : RelaxesTo(f, s, out, m)
    BY <1>2
  <2> DEFINE step(x, i) == IF i = 0 THEN s ELSE Relax(x[i - 1], out[i])
             g == [i \in 0..(m + 1) |-> step(f, i)]
  <2>2. \A i \in 0..m : f[i] = step(f, i)
    BY <2>1, Zenon DEF RelaxesTo
  <2>3. \A i \in 0..(m + 1) : i # 0 => i - 1 \in 0..m /\ i - 1 \in 0..(m + 1)
    OBVIOUS
  <2>4. \A i \in 0..m : i \in 0..(m + 1)
    OBVIOUS
  <2>5. \A i \in 0..m : g[i] = f[i]
    BY <2>2, <2>4, Zenon
  <2>6. \A i \in 0..(m + 1) : step(f, i) = step(g, i)
    <3> HIDE DEF g
    <3> QED BY <2>3, <2>5
  <2>7. g = [i \in 0..(m + 1) |-> step(g, i)]
    <3> DEFINE G == g
    <3>1. G = [i \in 0..(m + 1) |-> step(f, i)]
      OBVIOUS
    <3>2. \A i \in 0..(m + 1) : step(f, i) = step(G, i)
      BY <2>6
    <3> HIDE DEF G, step
    <3>3. [i \in 0..(m + 1) |-> step(f, i)] = [i \in 0..(m + 1) |-> step(G, i)]
      BY <3>2
    <3> QED BY <3>1, <3>3 DEF G
  <2> HIDE DEF g
  <2>8. RelaxesTo(g, s, out, m + 1)
    BY <2>7, Zenon DEF RelaxesTo
  <2> QED BY <2>8
<1> HIDE DEF T
<1>3. 0..n \subseteq T
  BY <1>1, <1>2, CountingUp
<1>4. n \in T
  BY <1>3
<1> QED BY <1>4 DEF T

\* The whole loop relaxes every edge of the list.
LEMMA RelaxAllFacts ==
    ASSUME NEW s \in Loop, Ids = 1..Len(idToNode), NEW E, NEW out \in Seq(E),
           \A e \in E : e.to \in Ids /\ EdgeCost(e) \in Nat
    PROVE  Relaxed(s, RelaxAll(s, out), ToSet(out))
<1> DEFINE n == Len(out)
           F == CHOOSE f : RelaxesTo(f, s, out, n)
<1>1. n \in Nat /\ DOMAIN out = 1..n /\ \A i \in 1..n : out[i] \in E
  OBVIOUS
<1>2. RelaxesTo(F, s, out, n)
  BY <1>1, RelaxUnfolds, Zenon
<1>3. RelaxAll(s, out) = F[n]
  BY DEF RelaxAll, RelaxesTo
<1> HIDE DEF F
<1> DEFINE K(m) == {out[i] : i \in 1..m}
           T == {m \in Nat : Relaxed(s, F[m], K(m))}
<1>4. 0 \in T
  <2>1. F[0] = s
    BY <1>1, <1>2 DEF RelaxesTo
  <2>2. K(0) = {}
    OBVIOUS
  <2>3. Relaxed(s, s, {})
    BY DEF Relaxed
  <2> HIDE DEF K
  <2> QED BY <2>1, <2>2, <2>3
<1>5. ASSUME NEW m \in Nat, m < n, m \in T PROVE m + 1 \in T
  <2>1. m + 1 \in 1..n /\ m + 1 \in 0..n /\ m + 1 # 0 /\ (m + 1) - 1 = m
    BY <1>1, <1>5
  <2>2. F[m + 1] = Relax(F[m], out[m + 1])
    BY <1>2, <2>1 DEF RelaxesTo
  <2>3. K(m + 1) = K(m) \cup {out[m + 1]}
    OBVIOUS
  <2>4. \A x \in K(m) : x.to \in Ids /\ EdgeCost(x) \in Nat
    <3>1. \A x \in K(m) : x \in E
      BY <1>1, <1>5
    <3> QED BY <3>1
  <2> DEFINE e == out[m + 1]
  <2>5. e.to \in Ids /\ EdgeCost(e) \in Nat /\ s.node \in Ids
    BY <1>1, <2>1 DEF Loop
  <2> HIDE DEF K
  <2>6. Relaxed(s, F[m], K(m))
    BY <1>5
  <2>7. Relaxed(s, Relax(F[m], e), K(m) \cup {e})
    <3>1. ASSUME NEW t, NEW L, Relaxed(s, t, L), \A x \in L : x.to \in Ids /\ EdgeCost(x) \in Nat
          PROVE  Relaxed(s, Relax(t, e), L \cup {e})
      <4> HIDE DEF e
      <4> QED BY <2>5, <3>1, RelaxOne
    <3> HIDE DEF e
    <3> QED BY <2>4, <2>6, <3>1, Zenon
  <2>8. Relaxed(s, F[m + 1], K(m + 1))
    BY <2>2, <2>3, <2>7, Zenon
  <2>9. m + 1 \in Nat
    OBVIOUS
  <2> QED BY <2>8, <2>9
<1> HIDE DEF T
<1>6. n \in T
  <2>1. 0..n \subseteq T
    BY <1>1, <1>4, <1>5, CountingUp
  <2> QED BY <1>1, <2>1
<1>7. K(n) = ToSet(out)
  BY <1>1 DEF ToSet
<1> QED BY <1>3, <1>6, <1>7 DEF T

--------------------------------------------------------------------------------
(* What a path costs, and what the search knows of it *)

\* A feasible route is a path without repetition, from the start to the goal, hop by hop.
LEMMA FeasibleFacts ==
    ASSUME NEW k, NEW p \in Feasible(k)
    PROVE  /\ p \in Seq(Node) /\ Len(p) \in 1..Cardinality(Node) /\ p # << >>
           /\ DOMAIN p = 1..Len(p) /\ IsInjective(p)
           /\ p[1] = k.start /\ p[Len(p)] = k.goal
           /\ \A i \in 1..(Len(p) - 1) : CanHop(UsableEdges, Blocked, p[i], p[i + 1])
<1>1. p \in Paths /\ IsRoute(UsableEdges, Blocked, k, p)
  BY DEF Feasible, Routes
<1>2. PICK n \in 1..Cardinality(Node) : p \in [1..n -> Node] /\ IsInjective(p)
  BY <1>1 DEF Paths
<1>3. p \in Seq(Node) /\ Len(p) = n /\ DOMAIN p = 1..n
  BY <1>2
<1>4. n # 0 /\ p # << >>
  BY <1>2, <1>3
<1> QED BY <1>1, <1>2, <1>3, <1>4 DEF IsRoute

\* Every path costs less than Infinity.
LEMMA PathsAreAffordable ==
    ASSUME GraphOK, NEW k, NEW p \in Feasible(k)
    PROVE  PathCost(p, HopCosts) \in Nat /\ PathCost(p, HopCosts) < Infinity
<1> DEFINE n == Len(p)
           N == Cardinality(Node)
<1>1. PICK b : HopLimit(b)
  BY HopLimitExists
<1>2. /\ n \in 1..N /\ \A i \in 1..(n - 1) : CanHop(UsableEdges, Blocked, p[i], p[i + 1])
  BY FeasibleFacts
<1>3. n \in Nat /\ n # 0 /\ N \in Nat /\ b \in Nat /\ Infinity \in Nat
  BY <1>1, <1>2, ShortestPathAssumption, FS_CardinalityType DEF HopLimit
<1>4. PICK c : CountsUp(c, p, HopCosts) /\ PathCost(p, HopCosts) = c[n]
  BY <1>3, PathCostCounts
<1> DEFINE T == {m \in Nat : m < n => c[m + 1] \in Nat /\ c[m + 1] <= m * b}
<1>5. 0 \in T
  <2>1. c[1] = 0 /\ 0 * b = 0
    BY <1>3, <1>4 DEF CountsUp
  <2> QED BY <2>1
<1>6. ASSUME NEW m \in Nat, m < n, m \in T PROVE m + 1 \in T
  <2> SUFFICES ASSUME m + 1 < n PROVE c[m + 2] \in Nat /\ c[m + 2] <= (m + 1) * b
    OBVIOUS
  <2>1. c[m + 1] \in Nat /\ c[m + 1] <= m * b
    BY <1>3, <1>6
  <2>2. m + 1 \in 1..(n - 1) /\ m + 1 \in Nat /\ 1 <= m + 1 /\ m + 1 < n /\ (m + 1) + 1 = m + 2
    BY <1>3
  <2> DEFINE hc == HopCosts[<<p[m + 1], p[m + 2]>>]
  <2>3. c[m + 2] = c[m + 1] + hc
    BY <1>4, <2>2 DEF CountsUp
  <2>4. CanHop(UsableEdges, Blocked, p[m + 1], p[m + 2])
    BY <1>2, <2>2
  <2>5. hc \in Nat /\ hc <= b
    BY <1>1, <2>4, HopFacts
  <2>6. (m + 1) * b = m * b + b /\ m * b \in Nat
    BY <1>3
  <2> HIDE DEF hc
  <2> QED BY <1>3, <2>1, <2>3, <2>5, <2>6
<1> HIDE DEF T
<1>7. n - 1 \in T
  <2>1. 0..n \subseteq T
    BY <1>3, <1>5, <1>6, CountingUp
  <2> QED BY <1>3, <2>1
<1>8. c[n] \in Nat /\ c[n] <= (n - 1) * b
  BY <1>3, <1>7 DEF T
<1>9. N * b = (n - 1) * b + (N - (n - 1)) * b /\ (N - (n - 1)) * b \in Nat /\ (n - 1) * b \in Nat
  <2> DEFINE x == n - 1
             y == N - x
  <2>1. x \in Nat /\ y \in Nat /\ N = x + y
    BY <1>2, <1>3
  <2> HIDE DEF x, y
  <2>2. (x + y) * b = x * b + y * b /\ x * b \in Nat /\ y * b \in Nat
    BY <1>3, <2>1
  <2> QED BY <2>1, <2>2 DEF x, y
<1>10. N * b < Infinity
  BY <1>1 DEF HopLimit
<1> HIDE DEF N, n
<1> DEFINE A == (n - 1) * b  B == (N - (n - 1)) * b  C == N * b
<1>11. C = A + B /\ A \in Nat /\ B \in Nat /\ C < Infinity /\ c[n] <= A
  BY <1>8, <1>9, <1>10
<1> HIDE DEF A, B, C
<1>12. c[n] < Infinity
  BY <1>3, <1>8, <1>11
<1> QED BY <1>4, <1>8, <1>12

\* What the search knows of a path from the start: where it ends is as near as the path makes
\* it, or something no dearer than the path waits in the heap.
LEMMA ReachedOrWaiting ==
    ASSUME GraphOK, NEW h, NEW d, NEW q, NEW s \in Ids, d[s] = 0,
           SearchType(h, d, q), Frontier(h, d), Settled(h, d),
           NEW v, NEW p \in Feasible([start |-> idToNode[s], goal |-> v])
    PROVE  /\ Known(v)
           /\ \/ d[IdOf(v)] <= PathCost(p, HopCosts)
              \/ \E x \in h : x.cost <= PathCost(p, HopCosts)
<1> DEFINE n == Len(p)
<1>1. PICK b : HopLimit(b)
  BY HopLimitExists
<1>2. /\ n \in 1..Cardinality(Node) /\ p[1] = idToNode[s] /\ p[n] = v
      /\ \A i \in 1..(n - 1) : CanHop(UsableEdges, Blocked, p[i], p[i + 1])
  <2> DEFINE k == [start |-> idToNode[s], goal |-> v]
  <2>1. k.start = idToNode[s] /\ k.goal = v
    OBVIOUS
  <2> HIDE DEF k
  <2>2. p \in Feasible(k)
    BY DEF k
  <2> QED BY <2>1, <2>2, FeasibleFacts
<1>3. n \in Nat /\ n # 0 /\ Infinity \in Nat
  BY <1>2, ShortestPathAssumption, FS_CardinalityType
<1>4. PICK c : CountsUp(c, p, HopCosts) /\ PathCost(p, HopCosts) = c[n]
  BY <1>3, PathCostCounts
<1>5. PathCost(p, HopCosts) \in Nat /\ PathCost(p, HopCosts) < Infinity
  BY PathsAreAffordable
<1> DEFINE reached(m) == d[IdOf(p[m])] <= c[m]
           waiting(m) == \E x \in h : x.cost <= c[m]
           T == {m \in Nat : m < n => /\ Known(p[m + 1]) /\ c[m + 1] \in Nat
                                      /\ reached(m + 1) \/ waiting(m + 1)}
<1>6. 0 \in T
  <2>1. c[1] = 0 /\ Known(p[1]) /\ IdOf(p[1]) = s
    BY <1>2, <1>4, IdsAreUnique DEF CountsUp
  <2> QED BY <2>1
<1>7. ASSUME NEW m \in Nat, m < n, m \in T PROVE m + 1 \in T
  <2> SUFFICES ASSUME m + 1 < n
               PROVE  /\ Known(p[m + 2]) /\ c[m + 2] \in Nat
                      /\ reached(m + 2) \/ waiting(m + 2)
    OBVIOUS
  <2> DEFINE u == p[m + 1]
             w == p[m + 2]
             hc == HopCosts[<<u, w>>]
  <2>1. Known(u) /\ c[m + 1] \in Nat /\ (reached(m + 1) \/ waiting(m + 1))
    BY <1>7
  <2>2. m + 1 \in 1..(n - 1) /\ m + 1 \in Nat /\ 1 <= m + 1 /\ m + 1 < n /\ (m + 1) + 1 = m + 2
    BY <1>3
  <2>3. c[m + 2] = c[m + 1] + hc
    BY <1>4, <2>2 DEF CountsUp
  <2>4. CanHop(UsableEdges, Blocked, u, w)
    BY <1>2, <2>2
  <2>5. /\ hc \in Nat /\ Known(w)
        /\ \E e \in ToSet(adjacency[IdOf(u)]) : Passable(e) /\ e.to = IdOf(w) /\ EdgeCost(e) = hc
    BY <1>1, <2>4, HopFacts
  <2> HIDE DEF hc, u, w
  <2>6. c[m + 2] \in Nat /\ c[m + 1] <= c[m + 2]
    BY <2>1, <2>3, <2>5
  <2>7. IdOf(u) \in Ids /\ IdOf(w) \in Ids
    BY <2>1, <2>5, IdsAreUnique
  <2>8. \A x \in h : x.cost \in Nat
    BY DEF SearchType
  <2>9. CASE \E x \in h : x.cost <= c[m + 1]
    <3>1. PICK x \in h : x.cost <= c[m + 1]
      BY <2>9
    <3>2. x.cost <= c[m + 2]
      BY <2>1, <2>6, <2>8, <3>1
    <3> QED BY <2>5, <2>6, <3>2 DEF w
  <2>10. CASE reached(m + 1)
    <3>1. d[IdOf(u)] \in Nat /\ d[IdOf(u)] <= c[m + 1] /\ d[IdOf(w)] \in Nat
      BY <2>7, <2>10 DEF SearchType, u
    <3>2. CASE Pending(IdOf(u), h, d)
      <4> DEFINE x == [node |-> IdOf(u), cost |-> d[IdOf(u)]]
      <4>1. x \in h /\ x.cost = d[IdOf(u)]
        BY <3>2 DEF Pending
      <4> HIDE DEF x
      <4>2. x.cost <= c[m + 2]
        BY <2>1, <2>6, <3>1, <4>1
      <4> QED BY <2>5, <2>6, <4>1, <4>2 DEF w
    <3>3. CASE ~Pending(IdOf(u), h, d) /\ d[IdOf(u)] < Infinity
      <4>1. PICK e \in ToSet(adjacency[IdOf(u)]) :
              Passable(e) /\ e.to = IdOf(w) /\ EdgeCost(e) = hc
        BY <2>5
      <4>2. d[e.to] <= d[IdOf(u)] + EdgeCost(e)
        BY <2>7, <3>3, <4>1 DEF Settled, Closed
      <4>3. d[IdOf(w)] <= c[m + 2]
        BY <2>1, <2>3, <2>5, <2>6, <3>1, <4>1, <4>2
      <4> QED BY <2>5, <2>6, <4>3 DEF w
    <3>4. CASE ~(d[IdOf(u)] < Infinity)
      <4>1. d[IdOf(w)] <= Infinity
        BY <2>7 DEF Frontier
      <4>2. d[IdOf(w)] <= c[m + 2]
        BY <1>3, <2>1, <2>6, <3>1, <3>4, <4>1
      <4> QED BY <2>5, <2>6, <4>2 DEF w
    <3> QED BY <3>2, <3>3, <3>4
  <2> QED BY <2>1, <2>9, <2>10
<1> HIDE DEF T
<1>8. n - 1 \in T
  <2>1. 0..n \subseteq T
    BY <1>3, <1>6, <1>7, CountingUp
  <2> QED BY <1>3, <2>1
<1>9. Known(p[n]) /\ (reached(n) \/ waiting(n))
  <2>1. \E m \in T : m < n /\ m + 1 = n
    BY <1>3, <1>8
  <2>2. PICK m \in T : m < n /\ m + 1 = n
    BY <2>1
  <2>3. Known(p[m + 1]) /\ (reached(m + 1) \/ waiting(m + 1))
    BY <2>2 DEF T
  <2> QED BY <2>2, <2>3
<1> QED BY <1>2, <1>4, <1>9

\* A closed node has its final distance.
LEMMA ClosedIsFinal ==
    ASSUME GraphOK, NEW h, NEW d, NEW q, NEW s \in Ids, d[s] = 0,
           SearchType(h, d, q), Frontier(h, d), Settled(h, d),
           NEW i \in Ids, Closed(i, h, d),
           NEW p \in Feasible([start |-> idToNode[s], goal |-> idToNode[i]])
    PROVE  d[i] <= PathCost(p, HopCosts)
<1>1. IdOf(idToNode[i]) = i
  BY IdsAreUnique
<1>2. \/ d[i] <= PathCost(p, HopCosts)
      \/ \E x \in h : x.cost <= PathCost(p, HopCosts)
  BY <1>1, ReachedOrWaiting
<1>3. PathCost(p, HopCosts) \in Nat
  BY PathsAreAffordable
<1>4. ASSUME NEW x \in h, x.cost <= PathCost(p, HopCosts) PROVE d[i] <= PathCost(p, HopCosts)
  <2>1. d[i] <= x.cost /\ d[i] \in Nat /\ x.cost \in Nat
    BY DEF Frontier, SearchType
  <2> QED BY <1>3, <1>4, <2>1
<1> QED BY <1>2, <1>4

\* A way that goes on to a node it has not met.
LEMMA WayGoesOn ==
    ASSUME GraphOK, NEW a, NEW u, NEW w \in Feasible([start |-> a, goal |-> u]),
           NEW v \in Node, CanHop(UsableEdges, Blocked, u, v),
           \A i \in 1..Len(w) : w[i] # v
    PROVE  Append(w, v) \in Feasible([start |-> a, goal |-> v])
<1> DEFINE n == Len(w)
           x == Append(w, v)
           k == [start |-> a, goal |-> v]
<1>1. /\ w \in Seq(Node) /\ n \in 1..Cardinality(Node) /\ DOMAIN w = 1..n /\ IsInjective(w)
      /\ w[1] = a /\ w[n] = u
      /\ \A i \in 1..(n - 1) : CanHop(UsableEdges, Blocked, w[i], w[i + 1])
  <2> DEFINE k0 == [start |-> a, goal |-> u]
  <2>1. k0.start = a /\ k0.goal = u
    OBVIOUS
  <2> HIDE DEF k0
  <2>2. w \in Feasible(k0)
    BY DEF k0
  <2> QED BY <2>1, <2>2, FeasibleFacts
<1>2. Cardinality(Node) \in Nat /\ n \in Nat /\ n # 0
  BY <1>1, ShortestPathAssumption, FS_CardinalityType
<1>3. /\ x \in [1..(n + 1) -> Node] /\ Len(x) = n + 1 /\ x[n + 1] = v
      /\ \A i \in 1..n : x[i] = w[i]
  <2>1. x \in Seq(Node) /\ Len(x) = n + 1
    BY <1>1
  <2>2. DOMAIN x = 1..(n + 1) /\ \A i \in 1..(n + 1) : x[i] \in Node
    <3> HIDE DEF x
    <3> QED BY <2>1
  <2>3. x = [i \in 1..(n + 1) |-> x[i]]
    <3> HIDE DEF x
    <3> QED BY <2>1
  <2>4. x[n + 1] = v /\ \A i \in 1..n : x[i] = w[i]
    BY <1>1
  <2> HIDE DEF x
  <2> QED BY <2>1, <2>2, <2>3, <2>4
<1> HIDE DEF x
<1>4. IsInjective(x)
  <2> SUFFICES ASSUME NEW i \in 1..(n + 1), NEW j \in 1..(n + 1), x[i] = x[j] PROVE i = j
    BY <1>3 DEF IsInjective
  <2>1. (i \in 1..n \/ i = n + 1) /\ (j \in 1..n \/ j = n + 1)
    BY <1>2
  <2>2. CASE i \in 1..n /\ j \in 1..n
    BY <1>1, <1>3, <2>2 DEF IsInjective
  <2> QED BY <1>3, <2>1, <2>2
<1>5. n + 1 <= Cardinality(Node)
  <2>1. x \in Injection(1..(n + 1), Node)
    BY <1>3, <1>4 DEF Injection
  <2>2. Cardinality(1..(n + 1)) <= Cardinality(Node)
    BY <2>1, ShortestPathAssumption, FS_Injection
  <2>3. Cardinality(1..(n + 1)) = n + 1
    <3>1. 1 \in Int /\ n + 1 \in Int /\ ~(1 > n + 1) /\ (n + 1) - 1 + 1 = n + 1
      BY <1>2
    <3> QED BY <3>1, FS_Interval
  <2> QED BY <2>2, <2>3
<1>6. x \in Paths
  <2>1. n + 1 \in 1..Cardinality(Node)
    BY <1>2, <1>5
  <2> QED BY <1>3, <1>4, <2>1 DEF Paths
<1>7. k.start = a /\ k.goal = v
  OBVIOUS
<1> HIDE DEF k
<1>8. IsRoute(UsableEdges, Blocked, k, x)
  <2>1. x[1] = a /\ x[Len(x)] = v
    BY <1>1, <1>2, <1>3
  <2>2. ASSUME NEW i \in 1..(Len(x) - 1) PROVE CanHop(UsableEdges, Blocked, x[i], x[i + 1])
    <3>1. i \in 1..n /\ (i = n \/ i \in 1..(n - 1)) /\ (i # n => i + 1 \in 1..n)
      BY <1>2, <1>3
    <3>2. CASE i = n
      <4>1. x[i] = u /\ x[i + 1] = v
        BY <1>1, <1>3, <3>1, <3>2
      <4> QED BY <4>1
    <3>3. CASE i # n
      <4>1. x[i] = w[i] /\ x[i + 1] = w[i + 1] /\ i \in 1..(n - 1)
        BY <1>3, <3>1, <3>3
      <4> QED BY <1>1, <4>1
    <3> QED BY <3>2, <3>3
  <2> QED BY <1>7, <2>1, <2>2 DEF IsRoute
<1> QED BY <1>6, <1>8 DEF Feasible, Routes, k, x

--------------------------------------------------------------------------------
(* The steps of the search *)

\* The search is given room: Infinity is not 0.
LEMMA InfinityIsPositive == Infinity \in Nat /\ 0 < Infinity
<1>1. PICK b : HopLimit(b)
  BY HopLimitExists
<1>2. Cardinality(Node) \in Nat /\ b \in Nat /\ Cardinality(Node) * b < Infinity
  BY <1>1, ShortestPathAssumption, FS_CardinalityType DEF HopLimit
<1>3. Cardinality(Node) * b \in Nat
  BY <1>2
<1> QED BY <1>2, <1>3, ShortestPathAssumption

\* The start alone is a way to the start.
LEMMA StartIsAWay ==
    ASSUME NEW a \in Node
    PROVE  /\ <<a>> \in Feasible([start |-> a, goal |-> a])
           /\ PathCost(<<a>>, HopCosts) = 0
<1> DEFINE k == [start |-> a, goal |-> a]
           p == <<a>>
<1>1. p \in [1..1 -> Node] /\ Len(p) = 1 /\ p[1] = a /\ DOMAIN p = 1..1
  OBVIOUS
<1>2. IsInjective(p)
  BY <1>1 DEF IsInjective
<1>3. 1 \in 1..Cardinality(Node)
  <2>1. Cardinality(Node) \in Nat /\ Cardinality(Node) # 0
    BY ShortestPathAssumption, FS_CardinalityType, FS_EmptySet
  <2> QED BY <2>1
<1> HIDE DEF p
<1>4. p \in Paths
  BY <1>1, <1>2, <1>3 DEF Paths
<1>5. k.start = a /\ k.goal = a
  OBVIOUS
<1> HIDE DEF k
<1>6. IsRoute(UsableEdges, Blocked, k, p)
  <2>1. 1..(Len(p) - 1) = {}
    BY <1>1
  <2> QED BY <1>1, <1>5, <2>1 DEF IsRoute
<1>7. PathCost(p, HopCosts) = 0
  BY <1>1, PathCostOne
<1> QED BY <1>4, <1>6, <1>7 DEF Feasible, Routes, k, p

\* AskSearch
LEMMA SearchBegins ==
    ASSUME GraphOK, NEW s \in Ids, NEW g \in Ids, s # g, NEW h, NEW d, NEW q,
           h = {[node |-> s, cost |-> 0]},
           d = [i \in Ids |-> IF i = s THEN 0 ELSE Infinity],
           q = [i \in Ids |-> NoPrevious]
    PROVE  SearchOK(s, g, h, d, q)
<1>1. Infinity \in Nat /\ 0 < Infinity /\ Len(idToNode) \in Nat
  BY InfinityIsPositive, IdsAreUnique
<1>2. SearchType(h, d, q)
  <2>1. [node |-> s, cost |-> 0] \in [node : Ids, cost : Nat]
    OBVIOUS
  <2>2. d \in [Ids -> Nat]
    BY <1>1
  <2>3. q \in [Ids -> 0..Len(idToNode)]
    BY <1>1 DEF NoPrevious
  <2> QED BY <2>1, <2>2, <2>3 DEF SearchType
<1>3. d[s] = 0 /\ \A i \in Ids : i # s => d[i] = Infinity
  OBVIOUS
<1>4. \A x \in h : x.node = s /\ x.cost = 0
  OBVIOUS
<1>5. \A i \in Ids : ~Closed(i, h, d)
  BY <1>1, <1>3 DEF Closed, Pending
<1>6. Frontier(h, d)
  <2>1. \A i \in Ids : d[i] <= Infinity
    BY <1>1, <1>3
  <2>2. \A x \in h : d[x.node] <= x.cost /\ x.cost < Infinity
    BY <1>1, <1>3, <1>4
  <2> QED BY <1>5, <2>1, <2>2 DEF Frontier
<1>7. Settled(h, d)
  BY <1>5 DEF Settled
<1>8. EndsOK(s, g, h, d)
  BY <1>3, <1>5 DEF EndsOK
<1>9. Tree(s, h, d, q)
  BY <1>1, <1>3 DEF Tree, NoPrevious
<1>10. Ways(s, h, d, q)
  <2> DEFINE f0 == [n \in Ids |-> <<idToNode[n]>>]
  <2>1. WalksBack(f0, s, q)
    BY DEF WalksBack
  <2>2. ASSUME NEW f, WalksBack(f, s, q), NEW n \in Ids, d[n] < Infinity
        PROVE  IsWayTo(f[n], s, n, h, d)
    <3>1. n = s /\ d[n] = 0
      BY <1>1, <1>3, <2>2
    <3>2. f[n] = <<idToNode[s]>>
      BY <2>2, <3>1 DEF WalksBack
    <3>3. idToNode[s] \in Node
      BY IdsAreUnique
    <3> DEFINE w == <<idToNode[s]>>
    <3>4. Len(w) = 1 /\ 1..(Len(w) - 1) = {}
      OBVIOUS
    <3>5. w \in Feasible([start |-> idToNode[s], goal |-> idToNode[s]])
          /\ PathCost(w, HopCosts) = 0
      BY <3>3, StartIsAWay
    <3> HIDE DEF w
    <3>6. IsWayTo(w, s, n, h, d)
      BY <3>1, <3>4, <3>5 DEF IsWayTo
    <3> QED BY <3>2, <3>6 DEF w
  <2> QED BY <2>1, <2>2 DEF Ways
<1> QED BY <1>2, <1>6, <1>7, <1>8, <1>9, <1>10 DEF SearchOK

\* A stale entry that leaves the heap changes nothing of what the search knows.
LEMMA StaleLeaves ==
    ASSUME NEW h, NEW d, NEW q, NEW s, NEW g, SearchOK(s, g, h, d, q), GraphOK,
           NEW x \in h, d[x.node] < x.cost, NEW rest, rest = h \ {x}
    PROVE  /\ SearchOK(s, g, rest, d, q)
           /\ \A i \in Ids : Closed(i, rest, d) <=> Closed(i, h, d)
<1>1. \A i \in Ids : Closed(i, rest, d) <=> Closed(i, h, d)
  <2>1. ASSUME NEW i \in Ids PROVE Pending(i, rest, d) <=> Pending(i, h, d)
    <3> DEFINE y == [node |-> i, cost |-> d[i]]
    <3>1. y.node = i /\ y.cost = d[i]
      OBVIOUS
    <3>2. d[i] \in Nat /\ x.cost \in Nat /\ x.node \in Ids
      BY DEF SearchOK, SearchType
    <3> HIDE DEF y
    <3>3. y # x
      BY <3>1, <3>2
    <3> QED BY <3>3 DEF Pending, y
  <2> QED BY <2>1 DEF Closed
<1>2. rest \subseteq h
  OBVIOUS
<1>3. SearchType(rest, d, q)
  BY <1>2 DEF SearchOK, SearchType
<1>4. Frontier(rest, d)
  BY <1>1, <1>2 DEF SearchOK, Frontier
<1>5. Settled(rest, d)
  BY <1>1 DEF SearchOK, Settled
<1>6. EndsOK(s, g, rest, d)
  BY <1>1 DEF SearchOK, EndsOK
<1>7. Tree(s, rest, d, q)
  <2>1. ASSUME NEW n \in Ids, q[n] # NoPrevious PROVE q[n] \in Ids
    <3>1. q[n] \in 0..Len(idToNode) /\ q[n] # 0
      BY <2>1 DEF SearchOK, SearchType, NoPrevious
    <3> QED BY <3>1, IdsAreUnique
  <2> QED BY <1>1, <2>1 DEF SearchOK, Tree
<1>8. Ways(s, rest, d, q)
  <2>1. \A w, n : IsWayTo(w, s, n, h, d) => IsWayTo(w, s, n, rest, d)
    BY <1>1 DEF IsWayTo
  <2> QED BY <2>1 DEF SearchOK, Ways
<1> QED BY <1>1, <1>3, <1>4, <1>5, <1>6, <1>7, <1>8 DEF SearchOK

\* What the expansion of i, the cheapest in the heap, does to heap, distances and previous
Moved(d, i, n, h1, d1, q1) ==
    /\ d1[n] < d[n] /\ d[i] <= d1[n] /\ q1[n] = i
    /\ [node |-> n, cost |-> d1[n]] \in h1
    /\ \E e \in ToSet(adjacency[i]) : Passable(e) /\ e.to = n /\ d1[n] = d[i] + EdgeCost(e)

Expansion(h, d, q, i, h1, d1, q1) ==
    /\ SearchType(h1, d1, q1)
    /\ i \in Ids /\ d[i] < Infinity /\ [node |-> i, cost |-> d[i]] \in h
    /\ \A x \in h : d[i] <= x.cost
    /\ \A n \in Ids : (d1[n] = d[n] /\ q1[n] = q[n]) \/ Moved(d, i, n, h1, d1, q1)
    /\ \A x \in h1 :
          \/ x \in h /\ x # [node |-> i, cost |-> d[i]]
          \/ d[i] <= x.cost /\ x.cost < d[x.node] /\ d1[x.node] <= x.cost
    /\ \A x \in h : x = [node |-> i, cost |-> d[i]] \/ x \in h1
    /\ \A e \in ToSet(adjacency[i]) : Passable(e) => d1[e.to] <= d[i] + EdgeCost(e)

\* Expand, with the loop over the edges of the node, is such an expansion.
LEMMA ExpandExpands ==
    ASSUME GraphOK, NEW h, NEW d, NEW q, SearchType(h, d, q), Frontier(h, d), h # {},
           NEW top, top = Top(h), top.cost <= d[top.node],
           NEW t, t = RelaxAll([node |-> top.node, cost |-> top.cost, heap |-> h \ {top},
                                dist |-> d, prev |-> q], adjacency[top.node])
    PROVE  Expansion(h, d, q, top.node, t.heap, t.dist, t.prev)
<1> DEFINE i == top.node
           c == top.cost
           out == adjacency[i]
           rest == h \ {top}
           s == [node |-> i, cost |-> c, heap |-> rest, dist |-> d, prev |-> q]
<1>1. h \in SUBSET [node : Ids, cost : Nat] /\ d \in [Ids -> Nat] /\ q \in [Ids -> 0..Len(idToNode)]
  BY DEF SearchType
<1>2. top \in h /\ \A x \in h : c <= x.cost
  BY <1>1, TopIsCheapest
<1>3. top \in [node : Ids, cost : Nat]
  BY <1>1, <1>2
<1>4. i \in Ids /\ c \in Nat /\ top = [node |-> i, cost |-> c]
  BY <1>3
<1>5. c = d[i] /\ c < Infinity
  <2>1. d[i] <= c /\ c < Infinity /\ d[i] \in Nat
    BY <1>1, <1>2, <1>4 DEF Frontier
  <2> QED BY <1>4, <2>1
<1>6. s \in Loop
  <2>1. rest \in SUBSET [node : Ids, cost : Nat]
    BY <1>1
  <2> HIDE DEF rest, i, c
  <2> QED BY <1>1, <1>4, <2>1 DEF Loop
<1>7. /\ s.node = i /\ s.cost = c /\ s.heap = rest /\ s.dist = d /\ s.prev = q
  OBVIOUS
<1>8. out \in Seq(IndexedEdge) /\ \A e \in IndexedEdge : e.to \in Ids /\ EdgeCost(e) \in Nat
  <2>1. out \in Seq(IndexedEdge)
    BY <1>4, Listed
  <2>2. PICK b : HopLimit(b)
    BY HopLimitExists
  <2>3. \A e \in IndexedEdge : EdgeCost(e) \in Nat
    BY <2>2, EdgeCostFacts
  <2> QED BY <2>1, <2>3 DEF IndexedEdge
<1> HIDE DEF s, out
<1>9. t = RelaxAll(s, out)
  BY DEF s, out, i, c, rest
<1>10. Relaxed(s, t, ToSet(out))
  <2>1. Ids = 1..Len(idToNode)
    BY IdsAreUnique
  <2>2. Relaxed(s, RelaxAll(s, out), ToSet(out))
    BY <1>6, <1>8, <2>1, RelaxAllFacts
  <2> QED BY <1>9, <2>2
<1>11. t \in Loop /\ SearchType(t.heap, t.dist, t.prev)
  BY <1>10 DEF Relaxed, Loop, SearchType
<1>12. \A e \in ToSet(out) : EdgeCost(e) \in Nat
  BY <1>8 DEF ToSet
<1> HIDE DEF i, c, rest
<1>13. ASSUME NEW n \in Ids
       PROVE  (t.dist[n] = d[n] /\ t.prev[n] = q[n]) \/ Moved(d, i, n, t.heap, t.dist, t.prev)
  <2>1. CASE t.dist[n] = s.dist[n] /\ t.prev[n] = s.prev[n]
    BY <1>7, <2>1
  <2>2. CASE Improved(s, t, ToSet(out), n)
    <3>1. PICK e \in ToSet(out) : Passable(e) /\ e.to = n /\ t.dist[n] = c + EdgeCost(e)
      BY <1>7, <2>2 DEF Improved
    <3>2. d[i] <= t.dist[n]
      BY <1>4, <1>5, <1>12, <3>1
    <3>3. t.dist[n] < d[n] /\ t.prev[n] = i /\ [node |-> n, cost |-> t.dist[n]] \in t.heap
      BY <1>7, <2>2 DEF Improved
    <3> QED BY <1>5, <3>1, <3>2, <3>3 DEF Moved, out
  <2> QED BY <1>10, <2>1, <2>2 DEF Relaxed
<1>14. \A x \in t.heap : x \in rest \/ (c <= x.cost /\ x.cost < d[x.node] /\ t.dist[x.node] <= x.cost)
  BY <1>7, <1>10 DEF Relaxed
<1>15. rest \subseteq t.heap
  BY <1>7, <1>10 DEF Relaxed
<1>16. \A e \in ToSet(out) : Passable(e) => t.dist[e.to] <= c + EdgeCost(e)
  BY <1>7, <1>10 DEF Relaxed
<1>17. \A x : x \in rest <=> x \in h /\ x # [node |-> i, cost |-> d[i]]
  BY <1>4, <1>5 DEF rest
<1>18. [node |-> i, cost |-> d[i]] \in h
  BY <1>2, <1>4, <1>5
<1> QED BY <1>2, <1>4, <1>5, <1>11, <1>13, <1>14, <1>15, <1>16, <1>17, <1>18 DEF Expansion, out, i

\* Expanding i closes it and nothing else, and leaves every closed node as it is.
LEMMA ExpansionCloses ==
    ASSUME GraphOK, NEW h, NEW d, NEW q, SearchType(h, d, q), Frontier(h, d),
           NEW i, NEW h1, NEW d1, NEW q1, Expansion(h, d, q, i, h1, d1, q1)
    PROVE  /\ \A n \in Ids : d1[n] <= d[n] /\ d1[n] \in Nat /\ d[n] \in Nat
           /\ \A n \in Ids : d[n] <= d[i] => d1[n] = d[n] /\ q1[n] = q[n]
           /\ \A n \in Ids : Closed(n, h, d) => d[n] <= d[i]
           /\ \A n \in Ids : Closed(n, h1, d1) <=> Closed(n, h, d) \/ n = i
           /\ ~Closed(i, h, d)
<1>1. /\ d \in [Ids -> Nat] /\ d1 \in [Ids -> Nat]
      /\ h \subseteq [node : Ids, cost : Nat] /\ h1 \subseteq [node : Ids, cost : Nat]
  BY DEF Expansion, SearchType
<1>2. i \in Ids /\ d[i] \in Nat /\ d[i] < Infinity /\ [node |-> i, cost |-> d[i]] \in h
  BY <1>1 DEF Expansion
<1>3. ASSUME NEW n \in Ids PROVE d1[n] <= d[n] /\ d1[n] \in Nat /\ d[n] \in Nat
  <2>1. d1[n] \in Nat /\ d[n] \in Nat
    BY <1>1
  <2>2. d1[n] = d[n] \/ d1[n] < d[n]
    BY DEF Expansion, Moved
  <2> QED BY <2>1, <2>2
<1>4. ASSUME NEW n \in Ids, d[n] <= d[i] PROVE d1[n] = d[n] /\ q1[n] = q[n]
  <2>1. (d1[n] = d[n] /\ q1[n] = q[n]) \/ (d1[n] < d[n] /\ d[i] <= d1[n])
    BY DEF Expansion, Moved
  <2>2. d1[n] \in Nat /\ d[n] \in Nat
    BY <1>1
  <2> QED BY <1>2, <1>4, <2>1, <2>2
<1>5. ASSUME NEW n \in Ids, Closed(n, h, d) PROVE d[n] <= d[i]
  <2> DEFINE x == [node |-> i, cost |-> d[i]]
  <2>1. x \in h /\ x.cost = d[i]
    BY <1>2
  <2> HIDE DEF x
  <2> QED BY <1>5, <2>1 DEF Frontier
<1>6. ~Closed(i, h, d)
  BY <1>2 DEF Closed, Pending
<1>7. ASSUME NEW n \in Ids, Pending(n, h1, d1), d1[n] = d[n]
      PROVE  Pending(n, h, d) /\ n # i
  <2> DEFINE x == [node |-> n, cost |-> d[n]]
             y == [node |-> i, cost |-> d[i]]
  <2>1. x \in h1 /\ x.node = n /\ x.cost = d[n]
    BY <1>7 DEF Pending
  <2>2. d[n] \in Nat
    BY <1>1
  <2>3. n = i => x = y
    OBVIOUS
  <2> HIDE DEF x, y
  <2>4. x \in h /\ x # y
    BY <2>1, <2>2 DEF Expansion, y
  <2> QED BY <2>3, <2>4 DEF Pending, x
<1>8. ASSUME NEW n \in Ids, Pending(n, h, d), d1[n] = d[n], n # i
      PROVE  Pending(n, h1, d1)
  <2> DEFINE x == [node |-> n, cost |-> d[n]]
             y == [node |-> i, cost |-> d[i]]
  <2>1. x \in h /\ x.node = n /\ y.node = i
    BY <1>8 DEF Pending
  <2> HIDE DEF x, y
  <2>2. x # y
    BY <1>8, <2>1
  <2>3. x \in h1
    BY <2>1, <2>2 DEF Expansion, y
  <2> QED BY <1>8, <2>3 DEF Pending, x
<1>9. ASSUME NEW n \in Ids PROVE Closed(n, h1, d1) <=> Closed(n, h, d) \/ n = i
  <2>1. CASE n = i
    <3>1. d1[n] = d[n]
      BY <1>2, <1>4, <2>1
    <3>2. ~Pending(n, h1, d1)
      BY <1>7, <2>1, <3>1
    <3> QED BY <1>2, <2>1, <3>1, <3>2 DEF Closed
  <2>2. CASE n # i /\ d1[n] = d[n]
    <3>1. Pending(n, h1, d1) <=> Pending(n, h, d)
      BY <1>7, <1>8, <2>2
    <3> QED BY <2>2, <3>1 DEF Closed
  <2>3. CASE n # i /\ d1[n] # d[n]
    <3>1. Pending(n, h1, d1)
      BY <2>3 DEF Expansion, Moved, Pending
    <3>2. ~Closed(n, h, d)
      BY <1>4, <1>5, <2>3
    <3> QED BY <2>3, <3>1, <3>2 DEF Closed
  <2> QED BY <2>1, <2>2, <2>3
<1> QED BY <1>3, <1>4, <1>5, <1>6, <1>9

\* The distances and the heap stay in order, and previous stays a tree.
LEMMA ExpansionKeepsOrder ==
    ASSUME GraphOK, NEW s, NEW g, NEW h, NEW d, NEW q, SearchOK(s, g, h, d, q),
           NEW i, NEW h1, NEW d1, NEW q1, Expansion(h, d, q, i, h1, d1, q1), i # g
    PROVE  /\ Frontier(h1, d1) /\ Settled(h1, d1)
           /\ EndsOK(s, g, h1, d1) /\ Tree(s, h1, d1, q1)
<1>1. SearchType(h, d, q) /\ Frontier(h, d)
  BY DEF SearchOK
<1>2. /\ \A n \in Ids : d1[n] <= d[n] /\ d1[n] \in Nat /\ d[n] \in Nat
      /\ \A n \in Ids : d[n] <= d[i] => d1[n] = d[n] /\ q1[n] = q[n]
      /\ \A n \in Ids : Closed(n, h, d) => d[n] <= d[i]
      /\ \A n \in Ids : Closed(n, h1, d1) <=> Closed(n, h, d) \/ n = i
  BY <1>1, ExpansionCloses
<1>3. /\ i \in Ids /\ d[i] < Infinity /\ [node |-> i, cost |-> d[i]] \in h
      /\ \A x \in h : d[i] <= x.cost
      /\ h \subseteq [node : Ids, cost : Nat] /\ h1 \subseteq [node : Ids, cost : Nat]
  BY <1>1 DEF Expansion, SearchType
<1>4. Infinity \in Nat
  BY InfinityIsPositive
<1>5. \A n \in Ids : Closed(n, h1, d1) => d1[n] = d[n] /\ q1[n] = q[n] /\ d[n] <= d[i]
  BY <1>2, <1>3
<1>6. Frontier(h1, d1)
  <2>1. ASSUME NEW n \in Ids PROVE d1[n] <= Infinity
    <3>1. d[n] <= Infinity
      BY <1>1 DEF Frontier
    <3> QED BY <1>2, <1>4, <3>1
  <2>2. ASSUME NEW x \in h1
        PROVE  d1[x.node] <= x.cost /\ x.cost < Infinity /\ d[i] <= x.cost
    <3>1. x.node \in Ids /\ x.cost \in Nat
      BY <1>3
    <3>2. d[x.node] <= Infinity
      BY <1>1, <3>1 DEF Frontier
    <3>3. CASE x \in h
      <4>1. d[x.node] <= x.cost /\ x.cost < Infinity
        BY <1>1, <3>3 DEF Frontier
      <4> QED BY <1>2, <1>3, <3>1, <3>3, <4>1
    <3>4. CASE d[i] <= x.cost /\ x.cost < d[x.node] /\ d1[x.node] <= x.cost
      <4>1. d[x.node] \in Nat
        BY <1>2, <3>1
      <4> QED BY <1>4, <3>1, <3>2, <3>4, <4>1
    <3> QED BY <3>3, <3>4 DEF Expansion
  <2>3. ASSUME NEW n \in Ids, Closed(n, h1, d1), NEW x \in h1 PROVE d1[n] <= x.cost
    <3>1. d1[n] <= d[i] /\ d1[n] \in Nat /\ d[i] \in Nat
      BY <1>2, <1>3, <1>5, <2>3
    <3>2. d[i] <= x.cost /\ x.cost \in Nat
      BY <1>3, <2>2
    <3> QED BY <3>1, <3>2
  <2> QED BY <2>1, <2>2, <2>3 DEF Frontier
<1>7. Settled(h1, d1)
  <2> SUFFICES ASSUME NEW n \in Ids, Closed(n, h1, d1), NEW e \in ToSet(adjacency[n]), Passable(e)
               PROVE  d1[e.to] <= d1[n] + EdgeCost(e)
    BY DEF Settled
  <2>1. d1[n] = d[n]
    BY <1>5
  <2>2. CASE n = i
    BY <2>1, <2>2 DEF Expansion
  <2>3. CASE n # i
    <3>1. Closed(n, h, d)
      BY <1>2, <2>3
    <3>2. d[e.to] <= d[n] + EdgeCost(e)
      BY <3>1 DEF SearchOK, Settled
    <3>3. e.to \in Ids /\ e \in IndexedEdge
      BY Listed
    <3>4. EdgeCost(e) \in Nat
      <4>1. PICK b : HopLimit(b)
        BY HopLimitExists
      <4> QED BY <3>3, <4>1, EdgeCostFacts
    <3>5. d1[e.to] <= d[e.to] /\ d1[e.to] \in Nat /\ d[e.to] \in Nat /\ d[n] \in Nat
      BY <1>2, <3>3
    <3> QED BY <2>1, <3>2, <3>4, <3>5
  <2> QED BY <2>2, <2>3
<1>8. EndsOK(s, g, h1, d1)
  <2>1. s \in Ids /\ g \in Ids /\ s # g /\ d[s] = 0 /\ ~Closed(g, h, d)
    BY DEF SearchOK, EndsOK
  <2>2. d1[s] = 0
    BY <1>2, <2>1
  <2> QED BY <1>2, <2>1, <2>2 DEF EndsOK
<1>9. Tree(s, h1, d1, q1)
  <2> SUFFICES ASSUME NEW n \in Ids
               PROVE  /\ q1[n] # NoPrevious => Closed(q1[n], h1, d1)
                      /\ n # s /\ d1[n] < Infinity =>
                            /\ q1[n] # NoPrevious
                            /\ \E e \in ToSet(adjacency[q1[n]]) :
                                  Passable(e) /\ e.to = n /\ d1[n] = d1[q1[n]] + EdgeCost(e)
    BY DEF Tree
  <2>1. CASE d1[n] = d[n] /\ q1[n] = q[n]
    <3>1. q[n] # NoPrevious => q[n] \in Ids
      <4>1. q[n] \in 0..Len(idToNode)
        BY <1>1 DEF SearchType
      <4> QED BY <4>1, IdsAreUnique DEF NoPrevious
    <3>2. q[n] # NoPrevious => Closed(q[n], h, d)
      BY DEF SearchOK, Tree
    <3>3. q[n] # NoPrevious => Closed(q[n], h1, d1) /\ d1[q[n]] = d[q[n]]
      BY <1>2, <1>5, <3>1, <3>2
    <3>4. n # s /\ d[n] < Infinity =>
             /\ q[n] # NoPrevious
             /\ \E e \in ToSet(adjacency[q[n]]) :
                   Passable(e) /\ e.to = n /\ d[n] = d[q[n]] + EdgeCost(e)
      BY DEF SearchOK, Tree
    <3> QED BY <2>1, <3>3, <3>4
  <2>2. CASE Moved(d, i, n, h1, d1, q1)
    <3>1. q1[n] = i /\ i # NoPrevious
      BY <1>3, <2>2, IdsAreUnique DEF Moved, NoPrevious
    <3>2. Closed(i, h1, d1) /\ d1[i] = d[i]
      BY <1>2, <1>3, <1>5
    <3>3. PICK e \in ToSet(adjacency[i]) : Passable(e) /\ e.to = n /\ d1[n] = d[i] + EdgeCost(e)
      BY <2>2 DEF Moved
    <3> QED BY <3>1, <3>2, <3>3
  <2> QED BY <2>1, <2>2 DEF Expansion
<1> QED BY <1>6, <1>7, <1>8, <1>9

\* The ways of previous: those of closed nodes stand, a node that has moved is reached over i.
LEMMA ExpansionKeepsWays ==
    ASSUME GraphOK, NEW s, NEW g, NEW h, NEW d, NEW q, SearchOK(s, g, h, d, q),
           NEW i, NEW h1, NEW d1, NEW q1, Expansion(h, d, q, i, h1, d1, q1),
           Settled(h1, d1)
    PROVE  Ways(s, h1, d1, q1)
<1>1. SearchType(h, d, q) /\ Frontier(h, d) /\ Tree(s, h, d, q) /\ Ways(s, h, d, q) /\ s \in Ids
      /\ d[s] = 0
  BY DEF SearchOK, EndsOK
<1>2. /\ \A n \in Ids : d1[n] <= d[n] /\ d1[n] \in Nat /\ d[n] \in Nat
      /\ \A n \in Ids : d[n] <= d[i] => d1[n] = d[n] /\ q1[n] = q[n]
      /\ \A n \in Ids : Closed(n, h, d) => d[n] <= d[i]
      /\ \A n \in Ids : Closed(n, h1, d1) <=> Closed(n, h, d) \/ n = i
      /\ ~Closed(i, h, d)
  BY <1>1, ExpansionCloses
<1>3. i \in Ids /\ i # NoPrevious /\ d[i] < Infinity /\ d[i] \in Nat
  BY <1>2, IdsAreUnique DEF Expansion, NoPrevious
<1> DEFINE moved == {n \in Ids : Moved(d, i, n, h1, d1, q1)}
<1>4. \A n \in Ids : n \notin moved => d1[n] = d[n] /\ q1[n] = q[n]
  BY DEF Expansion
<1>5. \A n \in moved : n # i /\ n # s /\ ~Closed(n, h, d) /\ q1[n] = i
  <2>1. ASSUME NEW n \in moved PROVE n # i /\ n # s /\ ~Closed(n, h, d) /\ q1[n] = i
    <3>1. d1[n] < d[n] /\ q1[n] = i /\ n \in Ids
      BY DEF Moved
    <3>2. ~(d[n] <= d[i])
      BY <1>2, <3>1
    <3> QED BY <1>1, <1>2, <1>3, <3>1, <3>2
  <2> QED BY <2>1
<1>6. \A n \in Ids : q[n] # NoPrevious => q[n] \in Ids /\ Closed(q[n], h, d) /\ q[n] \notin moved
  <2>1. ASSUME NEW n \in Ids, q[n] # NoPrevious PROVE q[n] \in Ids
    <3>1. q[n] \in 0..Len(idToNode)
      BY <1>1 DEF SearchType
    <3> QED BY <2>1, <3>1, IdsAreUnique DEF NoPrevious
  <2> QED BY <1>1, <1>5, <2>1 DEF Tree
<1> HIDE DEF moved
<1>7. \E f : WalksBack(f, s, q1)
  <2>1. PICK f : WalksBack(f, s, q)
    BY <1>1 DEF Ways
  <2> DEFINE f1 == [n \in Ids |-> IF n \in moved THEN Append(f[i], idToNode[n]) ELSE f[n]]
             step1(x, n) == IF n = s \/ q1[n] = NoPrevious THEN <<idToNode[n]>>
                            ELSE Append(x[q1[n]], idToNode[n])
  <2>2. ASSUME NEW n \in Ids PROVE f1[n] = step1(f1, n)
    <3>1. CASE n \in moved
      <4>1. f1[n] = Append(f[i], idToNode[n]) /\ f1[i] = f[i]
        BY <1>3, <1>5, <3>1
      <4>2. n # s /\ q1[n] = i
        BY <1>5, <3>1
      <4> HIDE DEF f1
      <4> QED BY <1>3, <4>1, <4>2
    <3>2. CASE n \notin moved
      <4>1. f1[n] = f[n] /\ q1[n] = q[n]
        BY <1>4, <3>2
      <4>2. q[n] # NoPrevious => f1[q[n]] = f[q[n]]
        BY <1>6
      <4>3. f[n] = IF n = s \/ q[n] = NoPrevious THEN <<idToNode[n]>>
                   ELSE Append(f[q[n]], idToNode[n])
        BY <2>1 DEF WalksBack
      <4> HIDE DEF f1
      <4> QED BY <4>1, <4>2, <4>3
    <3> QED BY <3>1, <3>2
  <2>3. f1 = [n \in Ids |-> f1[n]]
    OBVIOUS
  <2> HIDE DEF f1
  <2>4. WalksBack(f1, s, q1)
    BY <2>2, <2>3 DEF WalksBack
  <2> QED BY <2>4
<1>8. ASSUME NEW f1, WalksBack(f1, s, q1), NEW n \in Ids, d1[n] < Infinity
      PROVE  IsWayTo(f1[n], s, n, h1, d1)
  <2> DEFINE step(x, m) == IF m = s \/ q[m] = NoPrevious THEN <<idToNode[m]>>
                           ELSE Append(x[q[m]], idToNode[m])
             f == [m \in Ids |-> step(f1, m)]
  <2>1. \A m \in Ids : m \notin moved => f[m] = f1[m]
    <3>1. ASSUME NEW m \in Ids, m \notin moved PROVE step(f1, m) = f1[m]
      <4>1. q1[m] = q[m]
        BY <1>4, <3>1
      <4>2. f1[m] = IF m = s \/ q1[m] = NoPrevious THEN <<idToNode[m]>>
                    ELSE Append(f1[q1[m]], idToNode[m])
        BY <1>8 DEF WalksBack
      <4> QED BY <4>1, <4>2
    <3> HIDE DEF step
    <3> QED BY <3>1
  <2>2. ASSUME NEW m \in Ids PROVE step(f1, m) = step(f, m)
    <3> HIDE DEF f
    <3> QED BY <1>6, <2>1
  <2>3. f = [m \in Ids |-> step(f, m)]
    <3> DEFINE F == f
    <3>1. F = [m \in Ids |-> step(f1, m)]
      OBVIOUS
    <3>2. \A m \in Ids : step(f1, m) = step(F, m)
      BY <2>2
    <3> HIDE DEF F, step
    <3>3. [m \in Ids |-> step(f1, m)] = [m \in Ids |-> step(F, m)]
      BY <3>2
    <3> QED BY <3>1, <3>3 DEF F
  <2> HIDE DEF f
  <2>4. WalksBack(f, s, q)
    BY <2>3, Zenon DEF WalksBack
  <2>5. \A m \in Ids : d[m] < Infinity => IsWayTo(f[m], s, m, h, d)
    BY <1>1, <2>4 DEF Ways
  <2>6. CASE n \notin moved
    <3>1. d1[n] = d[n] /\ f1[n] = f[n]
      BY <1>4, <2>1, <2>6
    <3>2. IsWayTo(f[n], s, n, h, d)
      BY <1>8, <2>5, <3>1
    <3> QED BY <1>2, <3>1, <3>2 DEF IsWayTo
  <2>7. CASE n \in moved
    <3> DEFINE w == f[i]
               v == idToNode[n]
               u == idToNode[i]
    <3>1. IsWayTo(w, s, i, h, d)
      BY <1>3, <2>5
    <3>2. f1[n] = Append(w, v)
      <4>1. n # s /\ q1[n] = i /\ i \notin moved
        BY <1>5, <2>7
      <4>2. f1[n] = Append(f1[i], idToNode[n])
        BY <1>3, <1>8, <4>1 DEF WalksBack
      <4> QED BY <1>3, <2>1, <4>1, <4>2
    <3>3. PICK e \in ToSet(adjacency[i]) : Passable(e) /\ e.to = n /\ d1[n] = d[i] + EdgeCost(e)
      BY <2>7 DEF moved, Moved
    <3>4. CanHop(UsableEdges, Blocked, u, v)
      BY <1>3, <3>3, PassableIsHop
    <3>5. /\ v \in Node /\ u \in Node /\ IdOf(u) = i /\ IdOf(v) = n
          /\ \A m \in Ids : idToNode[m] = v => m = n
      BY <1>3, IdsAreUnique
    <3>6. /\ w \in Feasible([start |-> idToNode[s], goal |-> u]) /\ PathCost(w, HopCosts) = d[i]
          /\ \A k \in 1..(Len(w) - 1) : \E m \in Ids : Closed(m, h, d) /\ w[k] = idToNode[m]
      BY <3>1 DEF IsWayTo
    <3> HIDE DEF w, u, v
    <3>7. w \in Seq(Node) /\ w # << >> /\ Len(w) \in Nat /\ Len(w) # 0 /\ w[Len(w)] = u
      <4> DEFINE k0 == [start |-> idToNode[s], goal |-> u]
      <4>1. k0.goal = u
        OBVIOUS
      <4> HIDE DEF k0
      <4>2. w \in Feasible(k0)
        BY <3>6 DEF k0
      <4> QED BY <4>1, <4>2, FeasibleFacts
    <3>8. \A k \in 1..Len(w) : \E m \in Ids : Closed(m, h1, d1) /\ w[k] = idToNode[m] /\ m # n
      <4>1. ASSUME NEW k \in 1..Len(w)
            PROVE  \E m \in Ids : Closed(m, h1, d1) /\ w[k] = idToNode[m] /\ m # n
        <5>1. CASE k = Len(w)
          BY <1>2, <1>3, <1>5, <2>7, <3>7, <5>1 DEF u
        <5>2. CASE k # Len(w)
          <6>1. k \in 1..(Len(w) - 1)
            BY <3>7, <5>2
          <6>2. PICK m \in Ids : Closed(m, h, d) /\ w[k] = idToNode[m]
            BY <3>6, <6>1
          <6> QED BY <1>2, <1>5, <2>7, <6>2
        <5> QED BY <5>1, <5>2
      <4> QED BY <4>1
    <3>9. \A k \in 1..Len(w) : w[k] # v
      BY <3>5, <3>8
    <3>10. Append(w, v) \in Feasible([start |-> idToNode[s], goal |-> v])
      BY <3>4, <3>5, <3>6, <3>9, WayGoesOn
    <3>11. HopCosts[<<u, v>>] = EdgeCost(e)
      <4>1. PICK b : HopLimit(b)
        BY HopLimitExists
      <4>2. HopCosts[<<u, v>>] \in Nat /\ HopCosts[<<u, v>>] <= EdgeCost(e)
        BY <3>3, <3>4, <3>5, <4>1, HopFacts
      <4>3. PICK x \in ToSet(adjacency[i]) :
              Passable(x) /\ x.to = n /\ EdgeCost(x) = HopCosts[<<u, v>>]
        BY <3>4, <3>5, <4>1, HopFacts
      <4>4. d1[n] <= d[i] + EdgeCost(x)
        BY <4>3 DEF Expansion
      <4>5. EdgeCost(e) \in Nat
        <5>1. e \in IndexedEdge
          BY <1>3, Listed
        <5> QED BY <4>1, <5>1, EdgeCostFacts
      <4> QED BY <1>3, <3>3, <4>2, <4>3, <4>4, <4>5
    <3>12. PathCost(Append(w, v), HopCosts) = d1[n]
      <4>1. PathCost(Append(w, v), HopCosts) = PathCost(w, HopCosts) + HopCosts[<<w[Len(w)], v>>]
        BY <3>7, PathCostAppend
      <4> QED BY <3>3, <3>6, <3>7, <3>11, <4>1
    <3> DEFINE x == Append(w, v)
    <3>13. Len(x) = Len(w) + 1 /\ \A k \in 1..(Len(x) - 1) : k \in 1..Len(w) /\ x[k] = w[k]
      BY <3>5, <3>7
    <3> HIDE DEF x
    <3>14. \A k \in 1..(Len(x) - 1) : \E m \in Ids : Closed(m, h1, d1) /\ x[k] = idToNode[m]
      BY <3>8, <3>13
    <3>15. IsWayTo(x, s, n, h1, d1)
      BY <3>10, <3>12, <3>14 DEF IsWayTo, x, v
    <3> QED BY <3>2, <3>15 DEF x
  <2> QED BY <2>6, <2>7
<1> QED BY <1>7, <1>8 DEF Ways

\* Expand
LEMMA SearchExpands ==
    ASSUME GraphOK, NEW s, NEW g, NEW h, NEW d, NEW q, SearchOK(s, g, h, d, q),
           NEW i, NEW h1, NEW d1, NEW q1, Expansion(h, d, q, i, h1, d1, q1), i # g
    PROVE  /\ SearchOK(s, g, h1, d1, q1)
           /\ \A n \in Ids : Closed(n, h, d) => Closed(n, h1, d1) /\ d1[n] = d[n]
<1>1. SearchType(h, d, q) /\ Frontier(h, d)
  BY DEF SearchOK
<1>2. \A n \in Ids : Closed(n, h, d) => Closed(n, h1, d1) /\ d1[n] = d[n]
  BY <1>1, ExpansionCloses
<1>3. Frontier(h1, d1) /\ Settled(h1, d1) /\ EndsOK(s, g, h1, d1) /\ Tree(s, h1, d1, q1)
  BY ExpansionKeepsOrder
<1>4. Ways(s, h1, d1, q1)
  BY <1>3, ExpansionKeepsWays
<1> QED BY <1>2, <1>3, <1>4 DEF SearchOK, Expansion

--------------------------------------------------------------------------------
(* The graph stands still while the search runs *)

\* What is said of the graph alone is said after a step that leaves the graph alone.
LEMMA GraphStands ==
    ASSUME UNCHANGED graphVars
    PROVE  /\ Ids' = Ids /\ idToNode' = idToNode /\ adjacency' = adjacency
           /\ \A e : Passable(e)' <=> Passable(e)
           /\ \A e : EdgeCost(e)' = EdgeCost(e)
           /\ \A k : Feasible(k)' = Feasible(k)
           /\ \A n : IdOf(n)' = IdOf(n) /\ (Known(n)' <=> Known(n))
           /\ HopCosts' = HopCosts
           /\ GraphOK' <=> GraphOK
<1>1. idToNode' = idToNode /\ adjacency' = adjacency /\ model' = model /\ health' = health
  BY DEF graphVars
<1>2. Ids' = Ids
  BY <1>1 DEF Ids
<1>3. \A e : EdgeCost(e)' = EdgeCost(e)
  BY <1>1 DEF EdgeCost
<1>4. \A e : Passable(e)' <=> Passable(e)
  BY <1>3 DEF Passable
<1>5. AllEdges' = AllEdges
  BY <1>1, <1>2 DEF AllEdges
<1>6. UsableEdges' = UsableEdges
  BY <1>1, <1>5 DEF UsableEdges
<1>7. Blocked' = Blocked
  BY <1>1 DEF Blocked
<1>8. \A k : Feasible(k)' = Feasible(k)
  BY <1>6, <1>7 DEF Feasible
<1>9. HopCosts' = HopCosts
  BY <1>1, <1>3, <1>5 DEF HopCosts
<1>10. \A n : IdOf(n)' = IdOf(n) /\ (Known(n)' <=> Known(n))
  BY <1>1 DEF IdOf, Known
<1>11. GraphOK' <=> GraphOK
  BY <1>1, <1>2 DEF GraphOK, IndexedEdge
<1> QED BY <1>1, <1>2, <1>3, <1>4, <1>8, <1>9, <1>10, <1>11

\* What the search knows is said of the graph and of its own vectors; a step that leaves the
\* graph alone leaves what is known of given vectors alone.
LEMMA SearchStands ==
    ASSUME UNCHANGED graphVars, NEW s, NEW g, NEW h, NEW d, NEW q
    PROVE  SearchOK(s, g, h, d, q)' <=> SearchOK(s, g, h, d, q)
<1>1. /\ Ids' = Ids /\ idToNode' = idToNode /\ adjacency' = adjacency
      /\ \A e : Passable(e)' <=> Passable(e)
      /\ \A e : EdgeCost(e)' = EdgeCost(e)
      /\ \A k : Feasible(k)' = Feasible(k)
      /\ HopCosts' = HopCosts
  BY GraphStands
<1>2. SearchType(h, d, q)' <=> SearchType(h, d, q)
  BY <1>1 DEF SearchType
<1>3. Frontier(h, d)' <=> Frontier(h, d)
  BY <1>1 DEF Frontier, Closed, Pending
<1>4. Settled(h, d)' <=> Settled(h, d)
  BY <1>1 DEF Settled, Closed, Pending
<1>5. EndsOK(s, g, h, d)' <=> EndsOK(s, g, h, d)
  BY <1>1 DEF EndsOK, Closed, Pending
<1>6. Tree(s, h, d, q)' <=> Tree(s, h, d, q)
  BY <1>1 DEF Tree, Closed, Pending
<1>7. \A f : WalksBack(f, s, q)' <=> WalksBack(f, s, q)
  BY <1>1 DEF WalksBack
<1>8. \A w, n : IsWayTo(w, s, n, h, d)' <=> IsWayTo(w, s, n, h, d)
  BY <1>1 DEF IsWayTo, Closed, Pending
<1>9. Ways(s, h, d, q)' <=> Ways(s, h, d, q)
  BY <1>1, <1>7, <1>8 DEF Ways
<1> QED BY <1>2, <1>3, <1>4, <1>5, <1>6, <1>9 DEF SearchOK

\* What holds of the new heap, distances and previous, in the graph as it was, holds next.
LEMMA SearchGoesOn ==
    ASSUME UNCHANGED graphVars,
           SearchOK(IdOf(request'.start), IdOf(request'.goal), heap', distances', previous')
    PROVE  SearchOK(IdOf(request.start), IdOf(request.goal), heap, distances, previous)'
<1>1. PICK s, g, h, d, q : /\ s = IdOf(request'.start) /\ g = IdOf(request'.goal)
                           /\ h = heap' /\ d = distances' /\ q = previous'
  OBVIOUS
<1>2. SearchOK(s, g, h, d, q)
  BY <1>1
<1>3. SearchOK(s, g, h, d, q)'
  BY <1>2, SearchStands
<1>4. IdOf(request.start)' = s /\ IdOf(request.goal)' = g
  <2>1. PICK a, b : a = request'.start /\ b = request'.goal
    OBVIOUS
  <2>2. IdOf(a)' = IdOf(a) /\ IdOf(b)' = IdOf(b)
    BY GraphStands
  <2> QED BY <1>1, <2>1, <2>2
<1> QED BY <1>1, <1>3, <1>4

--------------------------------------------------------------------------------
(* The answers *)

\* What AnswerIsCheapest says of an answer a to the key k
Fits(k, a) ==
    IF a = NoRoute
    THEN Feasible(k) = {}
    ELSE /\ a.path \in Feasible(k)
         /\ a.cost = PathCost(a.path, HopCosts)
         /\ \A p \in Feasible(k) : a.cost <= PathCost(p, HopCosts)

\* start = goal: the route of one node, which costs nothing
LEMMA TrivialFits ==
    ASSUME GraphOK, NEW k \in RouteKey, k.start = k.goal
    PROVE  Fits(k, [path |-> <<k.start>>, cost |-> 0])
<1> DEFINE a == [path |-> <<k.start>>, cost |-> 0]
<1>1. k.start \in Node /\ k = [start |-> k.start, goal |-> k.start]
  BY DEF RouteKey
<1>2. <<k.start>> \in Feasible([start |-> k.start, goal |-> k.start])
      /\ PathCost(<<k.start>>, HopCosts) = 0
  BY <1>1, StartIsAWay
<1>3. a.path \in Feasible(k) /\ a.cost = PathCost(a.path, HopCosts) /\ a.cost = 0
  BY <1>1, <1>2
<1>4. \A p \in Feasible(k) : 0 <= PathCost(p, HopCosts)
  <2>1. ASSUME NEW p \in Feasible(k) PROVE 0 <= PathCost(p, HopCosts)
    <3>1. PathCost(p, HopCosts) \in Nat
      BY PathsAreAffordable
    <3> QED BY <3>1
  <2> QED BY <2>1
<1>5. a # NoRoute
  <2>1. a.cost # NoRoute.cost
    BY DEF NoRoute
  <2> QED BY <2>1
<1> HIDE DEF a
<1>6. Fits(k, a)
  BY <1>3, <1>4, <1>5 DEF Fits
<1> QED BY <1>6 DEF a

\* Both ends of a feasible route between different nodes are known to the graph.
LEMMA UnknownFits ==
    ASSUME GraphOK, NEW k, k.start # k.goal, ~Known(k.start) \/ ~Known(k.goal)
    PROVE  Fits(k, NoRoute)
<1> SUFFICES ASSUME NEW p \in Feasible(k) PROVE FALSE
  BY DEF Fits
<1> DEFINE n == Len(p)
<1>1. /\ p \in Seq(Node) /\ p[1] = k.start /\ p[n] = k.goal
      /\ \A i \in 1..(n - 1) : CanHop(UsableEdges, Blocked, p[i], p[i + 1])
      /\ p # << >>
  BY FeasibleFacts
<1>2. n \in Nat /\ n # 0
  BY <1>1
<1>3. PICK b : HopLimit(b)
  BY HopLimitExists
<1>4. ASSUME NEW i \in 1..(n - 1) PROVE Known(p[i]) /\ Known(p[i + 1])
  BY <1>1, <1>3, HopFacts
<1>5. 1 \in 1..(n - 1) /\ n - 1 \in 1..(n - 1) /\ (n - 1) + 1 = n
  <2>1. n # 1
    BY <1>1
  <2> HIDE DEF n
  <2> QED BY <1>2, <2>1
<1>6. Known(p[1]) /\ Known(p[n])
  BY <1>4, <1>5
<1> QED BY <1>1, <1>6

\* The empty heap
LEMMA ExhaustedFits ==
    ASSUME GraphOK, NEW k, Known(k.start), Known(k.goal), k \in RouteKey,
           NEW h, NEW d, NEW q, SearchOK(IdOf(k.start), IdOf(k.goal), h, d, q), h = {}
    PROVE  Fits(k, NoRoute)
<1> SUFFICES ASSUME NEW p \in Feasible(k) PROVE FALSE
  BY DEF Fits
<1> DEFINE s == IdOf(k.start)
           g == IdOf(k.goal)
<1>1. s \in Ids /\ g \in Ids /\ idToNode[s] = k.start /\ idToNode[g] = k.goal
  BY IdsAreUnique
<1>2. k = [start |-> idToNode[s], goal |-> k.goal]
  BY <1>1 DEF RouteKey
<1> HIDE DEF s, g
<1>3. SearchType(h, d, q) /\ Frontier(h, d) /\ Settled(h, d) /\ d[s] = 0 /\ ~Closed(g, h, d)
  BY DEF SearchOK, EndsOK, s, g
<1>4. p \in Feasible([start |-> idToNode[s], goal |-> k.goal])
  BY <1>2
<1>5. d[g] <= PathCost(p, HopCosts)
  <2>1. d[IdOf(k.goal)] <= PathCost(p, HopCosts) \/ \E x \in h : x.cost <= PathCost(p, HopCosts)
    BY <1>1, <1>3, <1>4, ReachedOrWaiting
  <2> QED BY <2>1 DEF g
<1>6. PathCost(p, HopCosts) \in Nat /\ PathCost(p, HopCosts) < Infinity
  BY PathsAreAffordable
<1>7. d[g] \in Nat /\ Infinity \in Nat
  BY <1>1, <1>3, InfinityIsPositive DEF SearchType
<1> QED BY <1>3, <1>5, <1>6, <1>7 DEF Closed, Pending

\* The goal on top of the heap: what waits there is its distance.
LEMMA GoalFits ==
    ASSUME GraphOK, NEW k, Known(k.start), Known(k.goal), k \in RouteKey,
           NEW h, NEW d, NEW q, SearchOK(IdOf(k.start), IdOf(k.goal), h, d, q), h # {},
           NEW top, top = Top(h), top.node = IdOf(k.goal),
           NEW f, WalksBack(f, IdOf(k.start), q)
    PROVE  Fits(k, [path |-> f[top.node], cost |-> top.cost])
<1> DEFINE s == IdOf(k.start)
           g == IdOf(k.goal)
           a == [path |-> f[g], cost |-> top.cost]
<1>1. s \in Ids /\ g \in Ids /\ idToNode[s] = k.start /\ idToNode[g] = k.goal
  BY IdsAreUnique
<1>2. k = [start |-> idToNode[s], goal |-> idToNode[g]]
  BY <1>1 DEF RouteKey
<1> HIDE DEF s, g
<1>3. /\ SearchType(h, d, q) /\ Frontier(h, d) /\ Settled(h, d) /\ d[s] = 0 /\ ~Closed(g, h, d)
      /\ Ways(s, h, d, q) /\ WalksBack(f, s, q) /\ top.node = g
  BY DEF SearchOK, EndsOK, s, g
<1>4. h \subseteq [node : Ids, cost : Nat] /\ d \in [Ids -> Nat] /\ Infinity \in Nat
  BY <1>3, InfinityIsPositive DEF SearchType
<1>5. top \in h /\ \A y \in h : top.cost <= y.cost
  BY <1>4, TopIsCheapest
<1>6. top.cost \in Nat /\ d[g] \in Nat /\ d[g] <= top.cost /\ top.cost < Infinity
  BY <1>3, <1>4, <1>5 DEF Frontier
<1>7. Pending(g, h, d)
  BY <1>3, <1>4, <1>6 DEF Closed
<1>8. top.cost = d[g]
  <2> DEFINE y == [node |-> g, cost |-> d[g]]
  <2>1. y \in h /\ y.cost = d[g]
    BY <1>7 DEF Pending
  <2> HIDE DEF y
  <2>2. top.cost <= d[g]
    BY <1>5, <2>1
  <2> QED BY <1>6, <2>2
<1>9. IsWayTo(f[g], s, g, h, d)
  <2>1. d[g] < Infinity
    BY <1>4, <1>6
  <2> QED BY <1>1, <1>3, <2>1 DEF Ways
<1>10. f[g] \in Feasible(k) /\ top.cost = PathCost(f[g], HopCosts)
  BY <1>2, <1>8, <1>9 DEF IsWayTo
<1>11. ASSUME NEW p \in Feasible(k) PROVE top.cost <= PathCost(p, HopCosts)
  <2>1. PathCost(p, HopCosts) \in Nat
    BY PathsAreAffordable
  <2>2. p \in Feasible([start |-> idToNode[s], goal |-> idToNode[g]])
    BY <1>2
  <2>3. IdOf(idToNode[g]) = g
    BY <1>1, IdsAreUnique
  <2>4. d[g] <= PathCost(p, HopCosts) \/ \E x \in h : x.cost <= PathCost(p, HopCosts)
    BY <1>1, <1>3, <2>2, <2>3, ReachedOrWaiting
  <2>5. ASSUME NEW x \in h, x.cost <= PathCost(p, HopCosts)
        PROVE  top.cost <= PathCost(p, HopCosts)
    <3>1. x.cost \in Nat /\ top.cost <= x.cost
      BY <1>4, <1>5
    <3> QED BY <1>6, <2>1, <2>5, <3>1
  <2> QED BY <1>8, <2>4, <2>5
<1>12. a.path = f[g] /\ a.cost = top.cost /\ a # NoRoute
  <2>1. a.cost # NoRoute.cost
    BY <1>6 DEF NoRoute
  <2> QED BY <2>1
<1> HIDE DEF a
<1>13. Fits(k, a)
  BY <1>10, <1>11, <1>12 DEF Fits
<1> QED BY <1>3, <1>13 DEF a

\* The walk back is one that WalksBack describes.
LEMMA PathToWalks ==
    ASSUME NEW s, s = IdOf(request.start), \E f : WalksBack(f, s, previous)
    PROVE  \E f : WalksBack(f, s, previous) /\ \A i : PathTo(i) = f[i]
<1> DEFINE F == CHOOSE f : WalksBack(f, s, previous)
<1>1. WalksBack(F, s, previous)
  BY Zenon
<1>2. \A i : PathTo(i) = F[i]
  BY DEF PathTo, WalksBack
<1> QED BY <1>1, <1>2

\* Reached and with no entry left that is not stale: closed.
LEMMA ClosedMeans ==
    ASSUME NEW h, NEW d, NEW q, SearchType(h, d, q), Frontier(h, d), NEW i \in Ids
    PROVE  Closed(i, h, d) <=> d[i] < Infinity /\ \A x \in h : x.node = i => x.cost > d[i]
<1>1. h \subseteq [node : Ids, cost : Nat] /\ d[i] \in Nat
  BY DEF SearchType
<1>2. ASSUME NEW x \in h, x.node = i
      PROVE  x.cost > d[i] <=> x # [node |-> i, cost |-> d[i]]
  <2>1. x \in [node : Ids, cost : Nat] /\ d[x.node] <= x.cost
    BY <1>1 DEF Frontier
  <2>2. x = [node |-> x.node, cost |-> x.cost] /\ x.cost \in Nat
    BY <2>1
  <2> QED BY <1>1, <1>2, <2>1, <2>2
<1> DEFINE y == [node |-> i, cost |-> d[i]]
<1>3. y.node = i
  OBVIOUS
<1> HIDE DEF y
<1>4. (\A x \in h : x.node = i => x.cost > d[i]) <=> y \notin h
  BY <1>2, <1>3 DEF y
<1> QED BY <1>4 DEF Closed, Pending, y

--------------------------------------------------------------------------------
(* The graph grows *)

\* get_or_insert_node
LEMMA NodeAdded ==
    ASSUME NEW names \in Seq(Node), IsInjective(names), NEW n \in Node
    PROVE  LET more == WithNode(names, n)
           IN  /\ more \in Seq(Node) /\ IsInjective(more)
               /\ Len(names) <= Len(more) /\ \E i \in DOMAIN more : more[i] = n
               /\ \A i \in DOMAIN names : i \in DOMAIN more /\ more[i] = names[i]
<1> DEFINE more == WithNode(names, n)
<1>1. CASE n \in ToSet(names)
  <2>1. more = names
    BY <1>1 DEF WithNode
  <2>2. \E i \in DOMAIN names : names[i] = n
    BY <1>1 DEF ToSet
  <2> QED BY <2>1, <2>2
<1>2. CASE n \notin ToSet(names)
  <2> DEFINE k == Len(names)
  <2>1. more = Append(names, n)
    BY <1>2 DEF WithNode
  <2>2. /\ more \in Seq(Node) /\ k \in Nat /\ Len(more) = k + 1 /\ more[k + 1] = n
        /\ DOMAIN names = 1..k /\ DOMAIN more = 1..(k + 1)
        /\ \A i \in 1..k : more[i] = names[i]
    BY <2>1
  <2>3. \A i \in 1..k : names[i] # n
    BY <1>2, <2>2 DEF ToSet
  <2> HIDE DEF more, k
  <2>4. ASSUME NEW i \in 1..(k + 1), NEW j \in 1..(k + 1), more[i] = more[j] PROVE i = j
    <3>1. (i \in 1..k \/ i = k + 1) /\ (j \in 1..k \/ j = k + 1)
      BY <2>2
    <3>2. CASE i \in 1..k /\ j \in 1..k
      BY <2>2, <2>4, <3>2 DEF IsInjective
    <3> QED BY <2>2, <2>3, <2>4, <3>1, <3>2
  <2>5. IsInjective(more)
    BY <2>2, <2>4 DEF IsInjective
  <2>6. k <= Len(more) /\ k + 1 \in DOMAIN more /\ \A i \in 1..k : i \in DOMAIN more
    BY <2>2
  <2> QED BY <2>2, <2>5, <2>6 DEF more, k
<1> QED BY <1>1, <1>2

\* add_edge: the ids there were keep their lists, the node it leaves gets the edge.
LEMMA EdgeAdded ==
    ASSUME GraphOK, NEW e \in EdgeInputs, AddEdge(e)
    PROVE  GraphOK'
<1> DEFINE mid   == WithNode(idToNode, e.from)
           names == WithNode(mid, e.to)
           old   == [i \in DOMAIN names |-> IF i \in Ids THEN adjacency[i] ELSE << >>]
           from  == CHOOSE i \in DOMAIN names : names[i] = e.from
           to    == CHOOSE i \in DOMAIN names : names[i] = e.to
           x     == [e EXCEPT !.from = from, !.to = to]
<1>1. e \in CostEdge
  BY ShortestPathInputs
<1>2. e.from \in Node /\ e.to \in Node
  BY <1>1 DEF CostEdge
<1>3. /\ mid \in Seq(Node) /\ IsInjective(mid) /\ \E i \in DOMAIN mid : mid[i] = e.from
      /\ \A i \in Ids : i \in DOMAIN mid
  BY <1>2, NodeAdded DEF GraphOK, Ids
<1> HIDE DEF mid
<1>4. /\ names \in Seq(Node) /\ IsInjective(names) /\ \E i \in DOMAIN names : names[i] = e.to
      /\ \A i \in DOMAIN mid : i \in DOMAIN names /\ names[i] = mid[i]
  BY <1>2, <1>3, NodeAdded
<1> HIDE DEF names
<1>5. from \in DOMAIN names /\ to \in DOMAIN names
  <2>1. \E i \in DOMAIN names : names[i] = e.from
    BY <1>3, <1>4
  <2> QED BY <1>4, <2>1
<1> HIDE DEF from, to
<1>6. /\ idToNode' = names /\ adjacency' = [old EXCEPT ![from] = Append(@, x)]
      /\ model' = model /\ health' = health
  BY DEF AddEdge, names, mid, from, to
<1>7. Ids' = DOMAIN names /\ Ids' = 1..Len(names) /\ Len(names) \in Nat
  BY <1>4, <1>6 DEF Ids
<1>8. IndexedEdge \subseteq IndexedEdge'
  BY <1>3, <1>4, <1>7 DEF IndexedEdge
<1>9. x \in IndexedEdge' /\ x.from = from
  <2>1. from \in Ids' /\ to \in Ids'
    BY <1>5, <1>7
  <2> QED BY <1>1, <2>1 DEF CostEdge, IndexedEdge
<1> HIDE DEF x
<1> DEFINE E == IndexedEdge'
<1>10. ASSUME NEW i \in DOMAIN names
       PROVE  old[i] \in Seq(E) /\ \A y \in ToSet(old[i]) : y.from = i
  <2>1. CASE i \in Ids
    <3>1. old[i] = adjacency[i]
      BY <2>1
    <3>2. adjacency[i] \in Seq(IndexedEdge) /\ \A y \in ToSet(adjacency[i]) : y.from = i
      BY <2>1, Listed
    <3>3. adjacency[i] \in Seq(E)
      <4>1. \A j \in 1..Len(adjacency[i]) : adjacency[i][j] \in E
        BY <1>8, <3>2
      <4> HIDE DEF E
      <4> QED BY <3>2, <4>1
    <3> QED BY <3>1, <3>2, <3>3
  <2>2. CASE i \notin Ids
    <3>1. old[i] = << >>
      BY <2>2
    <3>2. << >> \in Seq(E) /\ \A y \in ToSet(<< >>) : y.from = i
      <4> HIDE DEF E
      <4> QED BY DEF ToSet
    <3> QED BY <3>1, <3>2
  <2> QED BY <2>1, <2>2
<1>11. x \in E
  BY <1>9
<1> DEFINE now == adjacency'
<1>12. DOMAIN old = DOMAIN names
  OBVIOUS
<1> HIDE DEF E, old
<1>13. DOMAIN now = DOMAIN names /\ now = [i \in DOMAIN names |-> now[i]]
  BY <1>6, <1>12
<1>14. ASSUME NEW i \in DOMAIN names
       PROVE  now[i] \in Seq(E) /\ \A y \in ToSet(now[i]) : y.from = i
  <2>1. CASE i = from
    <3>1. now[i] = Append(old[i], x)
      BY <1>6, <1>12, <2>1
    <3>2. old[i] \in Seq(E) /\ \A y \in ToSet(old[i]) : y.from = i
      BY <1>10
    <3>3. ASSUME NEW y \in ToSet(Append(old[i], x)) PROVE y.from = i
      <4>1. PICK j \in DOMAIN Append(old[i], x) : y = Append(old[i], x)[j]
        BY DEF ToSet
      <4>2. y = x \/ (j \in DOMAIN old[i] /\ y = old[i][j])
        BY <1>11, <3>2, <4>1
      <4>3. y = x \/ y \in ToSet(old[i])
        BY <4>2 DEF ToSet
      <4> QED BY <1>9, <2>1, <3>2, <4>3
    <3> QED BY <1>11, <3>1, <3>2, <3>3
  <2>2. CASE i # from
    <3>1. now[i] = old[i]
      BY <1>6, <1>12, <2>2
    <3> QED BY <1>10, <3>1
  <2> QED BY <2>1, <2>2
<1>15. now \in Seq(Seq(E)) /\ Len(now) = Len(names)
  BY <1>7, <1>13, <1>14
<1> HIDE DEF now
<1> QED BY <1>4, <1>6, <1>7, <1>14, <1>15 DEF GraphOK, E, now

\* try_set_cost_model sets only what validates.
LEMMA ModelSet ==
    ASSUME GraphOK, NEW m \in Models, SetCostModel(m)
    PROVE  GraphOK'
<1>1. idToNode' = idToNode /\ adjacency' = adjacency /\ health' = health
      /\ model' = m /\ ValidModel(m)
  BY DEF SetCostModel
<1>2. Ids' = Ids /\ IndexedEdge' = IndexedEdge
  BY <1>1 DEF Ids, IndexedEdge
<1>3. ValidModel(model)'
  BY <1>1 DEF ValidModel
<1> QED BY <1>1, <1>2, <1>3 DEF GraphOK

\* A node shows other health.
LEMMA HealthMoved ==
    ASSUME GraphOK, NEW n \in Sick, NEW h \in HealthInputs, HealthMoves(n, h)
    PROVE  GraphOK'
<1>1. idToNode' = idToNode /\ adjacency' = adjacency /\ model' = model
      /\ health' = [health EXCEPT ![n] = h]
  BY DEF HealthMoves
<1>2. Ids' = Ids /\ IndexedEdge' = IndexedEdge
  BY <1>1 DEF Ids, IndexedEdge
<1>3. health' \in [Node -> HealthInputs \cup {NewHealth}]
  BY <1>1 DEF GraphOK
<1>4. ValidModel(model)'
  BY <1>1 DEF GraphOK, ValidModel
<1> QED BY <1>1, <1>2, <1>3, <1>4 DEF GraphOK

--------------------------------------------------------------------------------
(* The theorems *)

\* An answer that fits, in the graph as it is, still does when the step has left the graph.
LEMMA FitsNext ==
    ASSUME UNCHANGED graphVars, Fits(request', answer')
    PROVE  AnswerIsCheapest'
<1>1. PICK k, a : k = request' /\ a = answer'
  OBVIOUS
<1>2. Fits(k, a)
  BY <1>1
<1>3. /\ \A x : Feasible(x)' = Feasible(x)
      /\ HopCosts' = HopCosts
  BY GraphStands
<1>4. Fits(k, a)'
  BY <1>2, <1>3 DEF Fits
<1> QED BY <1>1, <1>4 DEF AnswerIsCheapest, Fits

\* The empty graph
LEMMA PathInit == Init => PathInv
<1> SUFFICES ASSUME Init PROVE PathInv
  OBVIOUS
<1>1. /\ idToNode = << >> /\ adjacency = << >> /\ model = DefaultModel
      /\ health = [n \in Node |-> NewHealth] /\ phase = "Idle"
  BY DEF Init
<1>2. << >> \in Seq(Node) /\ << >> \in Seq(Seq(IndexedEdge)) /\ IsInjective(<< >>) /\ Ids = {}
  BY <1>1 DEF IsInjective, Ids
<1>3. ValidModel(DefaultModel)
  BY DEF ValidModel, DefaultModel
<1>4. GraphOK
  BY <1>1, <1>2, <1>3 DEF GraphOK
<1> QED BY <1>1, <1>4 DEF PathInv, AnswerIsCheapest

\* A step of the search that leaves the graph alone
LEMMA SearchStep ==
    ASSUME PathInv, UNCHANGED graphVars, phase' = "Searching",
           request' \in RouteKey, Known(request'.start), Known(request'.goal),
           SearchOK(IdOf(request'.start), IdOf(request'.goal), heap', distances', previous')
    PROVE  PathInv'
<1>1. PICK a, b : a = request'.start /\ b = request'.goal
  OBVIOUS
<1>2. GraphOK' /\ (Known(a)' <=> Known(a)) /\ (Known(b)' <=> Known(b))
  BY GraphStands DEF PathInv
<1>3. Known(request.start)' /\ Known(request.goal)'
  BY <1>1, <1>2
<1>4. SearchOK(IdOf(request.start), IdOf(request.goal), heap, distances, previous)'
  BY SearchGoesOn
<1>5. RouteKey' = RouteKey /\ AnswerIsCheapest'
  BY DEF AnswerIsCheapest, RouteKey
<1> QED BY <1>2, <1>3, <1>4, <1>5 DEF PathInv

\* A step that answers
LEMMA AnswerStep ==
    ASSUME PathInv, UNCHANGED graphVars, phase' = "Done", Fits(request', answer')
    PROVE  PathInv'
<1>1. GraphOK'
  BY GraphStands DEF PathInv
<1>2. AnswerIsCheapest'
  BY FitsNext
<1> QED BY <1>1, <1>2 DEF PathInv

\* The invariant while a search runs
LEMMA SearchNow ==
    ASSUME PathInv, phase = "Searching"
    PROVE  /\ GraphOK /\ request \in RouteKey /\ Known(request.start) /\ Known(request.goal)
           /\ SearchOK(IdOf(request.start), IdOf(request.goal), heap, distances, previous)
           /\ SearchType(heap, distances, previous) /\ Frontier(heap, distances)
BY DEF PathInv, SearchOK

\* SkipStale and Expand keep what the search knows, and every closed node as it is.
LEMMA SearchMoves ==
    ASSUME PathInv, SkipStale \/ Expand
    PROVE  /\ UNCHANGED <<graphVars, phase, request>> /\ phase = "Searching"
           /\ SearchOK(IdOf(request.start), IdOf(request.goal), heap', distances', previous')
           /\ \A i \in Ids : Closed(i, heap, distances) =>
                 Closed(i, heap', distances') /\ distances'[i] = distances[i]
<1> DEFINE s == IdOf(request.start)
           g == IdOf(request.goal)
           top == Top(heap)
<1>1. UNCHANGED <<graphVars, phase, request>> /\ phase = "Searching" /\ heap # {} /\ top.node # g
  BY DEF SkipStale, Expand
<1>2. /\ GraphOK /\ SearchOK(s, g, heap, distances, previous)
      /\ SearchType(heap, distances, previous) /\ Frontier(heap, distances)
  BY <1>1, SearchNow
<1>3. top \in heap
  BY <1>1, <1>2, TopIsCheapest DEF SearchType
<1>4. top.cost \in Nat /\ distances[top.node] \in Nat
  <2>1. top \in [node : Ids, cost : Nat]
    BY <1>2, <1>3 DEF SearchType
  <2> QED BY <1>2, <2>1 DEF SearchType
<1> HIDE DEF s, g, top
<1>5. CASE SkipStale
  <2>1. /\ top.cost > distances[top.node] /\ heap' = heap \ {top}
        /\ distances' = distances /\ previous' = previous
    BY <1>5 DEF SkipStale, top
  <2>2. distances[top.node] < top.cost
    BY <1>4, <2>1
  <2>3. /\ SearchOK(s, g, heap', distances, previous)
        /\ \A i \in Ids : Closed(i, heap', distances) <=> Closed(i, heap, distances)
    BY <1>2, <1>3, <2>1, <2>2, StaleLeaves
  <2> QED BY <1>1, <2>1, <2>3 DEF s, g
<1>6. CASE Expand
  <2> DEFINE t == RelaxAll([node |-> top.node, cost |-> top.cost, heap |-> heap \ {top},
                            dist |-> distances, prev |-> previous], adjacency[top.node])
  <2>1. /\ top.cost <= distances[top.node]
        /\ heap' = t.heap /\ distances' = t.dist /\ previous' = t.prev
    BY <1>6 DEF Expand, top
  <2>2. Expansion(heap, distances, previous, top.node, t.heap, t.dist, t.prev)
    BY <1>1, <1>2, <2>1, ExpandExpands DEF top
  <2> HIDE DEF t
  <2>3. /\ SearchOK(s, g, t.heap, t.dist, t.prev)
        /\ \A i \in Ids : Closed(i, heap, distances) =>
              Closed(i, t.heap, t.dist) /\ t.dist[i] = distances[i]
    BY <1>1, <1>2, <2>2, SearchExpands
  <2> QED BY <1>1, <2>1, <2>3 DEF s, g
<1> QED BY <1>5, <1>6

\* Every action keeps the invariant.
LEMMA PathNext ==
    ASSUME PathInv, [Next]_vars
    PROVE  PathInv'
<1>1. ASSUME NEW e \in EdgeInputs, AddEdge(e) PROVE PathInv'
  <2>1. GraphOK'
    BY <1>1, EdgeAdded DEF PathInv
  <2>2. phase' = "Idle"
    BY <1>1 DEF AddEdge, searchVars
  <2> QED BY <2>1, <2>2 DEF PathInv, AnswerIsCheapest
<1>2. ASSUME NEW m \in Models, SetCostModel(m) PROVE PathInv'
  <2>1. GraphOK'
    BY <1>2, ModelSet DEF PathInv
  <2>2. phase' = "Idle"
    BY <1>2 DEF SetCostModel, searchVars
  <2> QED BY <2>1, <2>2 DEF PathInv, AnswerIsCheapest
<1>3. ASSUME NEW n \in Sick, NEW h \in HealthInputs, HealthMoves(n, h) PROVE PathInv'
  <2>1. GraphOK'
    BY <1>3, HealthMoved DEF PathInv
  <2>2. phase' = "Idle"
    BY <1>3 DEF HealthMoves, searchVars
  <2> QED BY <2>1, <2>2 DEF PathInv, AnswerIsCheapest
<1>4. ASSUME NEW k \in Requests, AskTrivial(k) PROVE PathInv'
  <2>1. /\ UNCHANGED graphVars /\ phase' = "Done" /\ request' = k /\ k.start = k.goal
        /\ answer' = [path |-> <<k.start>>, cost |-> 0]
    BY <1>4 DEF AskTrivial, Answered
  <2>2. Fits(k, [path |-> <<k.start>>, cost |-> 0])
    BY <2>1, TrivialFits, ShortestPathAssumption DEF PathInv
  <2> QED BY <2>1, <2>2, AnswerStep
<1>5. ASSUME NEW k \in Requests, AskUnknown(k) PROVE PathInv'
  <2>1. /\ UNCHANGED graphVars /\ phase' = "Done" /\ request' = k /\ answer' = NoRoute
        /\ k.start # k.goal /\ (~Known(k.start) \/ ~Known(k.goal))
    BY <1>5 DEF AskUnknown, Answered
  <2>2. Fits(k, NoRoute)
    BY <2>1, UnknownFits DEF PathInv
  <2> QED BY <2>1, <2>2, AnswerStep
<1>6. ASSUME NEW k \in Requests, AskSearch(k) PROVE PathInv'
  <2> DEFINE s == IdOf(k.start)
             g == IdOf(k.goal)
  <2>1. /\ UNCHANGED graphVars /\ phase' = "Searching" /\ request' = k
        /\ k.start # k.goal /\ Known(k.start) /\ Known(k.goal) /\ k \in RouteKey
    BY <1>6, ShortestPathAssumption DEF AskSearch
  <2>2. s \in Ids /\ g \in Ids /\ s # g
    BY <2>1, IdsAreUnique DEF PathInv
  <2>3. SearchOK(s, g, heap', distances', previous')
    <3>1. /\ heap' = {[node |-> s, cost |-> 0]}
          /\ distances' = [i \in Ids |-> IF i = s THEN 0 ELSE Infinity]
          /\ previous' = [i \in Ids |-> NoPrevious]
      BY <1>6 DEF AskSearch
    <3> HIDE DEF s, g
    <3> QED BY <2>2, <3>1, SearchBegins DEF PathInv
  <2> QED BY <2>1, <2>3, SearchStep
<1>7. ASSUME ReachGoal PROVE PathInv'
  <2> DEFINE top == Top(heap)
  <2>1. /\ UNCHANGED <<graphVars, request>> /\ phase = "Searching" /\ phase' = "Done"
        /\ heap # {} /\ top.node = IdOf(request.goal)
        /\ answer' = [path |-> PathTo(top.node), cost |-> top.cost]
    BY <1>7 DEF ReachGoal, Answered
  <2>2. /\ GraphOK /\ request \in RouteKey /\ Known(request.start) /\ Known(request.goal)
        /\ SearchOK(IdOf(request.start), IdOf(request.goal), heap, distances, previous)
    BY <2>1, SearchNow
  <2>3. \E f : WalksBack(f, IdOf(request.start), previous)
    BY <2>2 DEF SearchOK, Ways
  <2>4. PICK f : WalksBack(f, IdOf(request.start), previous) /\ \A i : PathTo(i) = f[i]
    BY <2>3, PathToWalks
  <2>5. Fits(request, [path |-> f[top.node], cost |-> top.cost])
    BY <2>1, <2>2, <2>4, GoalFits
  <2> HIDE DEF top
  <2>6. Fits(request', answer')
    BY <2>1, <2>4, <2>5
  <2> QED BY <2>1, <2>6, AnswerStep
<1>8. ASSUME SkipStale \/ Expand PROVE PathInv'
  <2>1. /\ UNCHANGED <<graphVars, phase, request>> /\ phase = "Searching"
        /\ SearchOK(IdOf(request.start), IdOf(request.goal), heap', distances', previous')
    BY <1>8, SearchMoves
  <2>2. request \in RouteKey /\ Known(request.start) /\ Known(request.goal)
    BY <2>1, SearchNow
  <2> QED BY <2>1, <2>2, SearchStep
<1>9. ASSUME Exhausted PROVE PathInv'
  <2>1. /\ UNCHANGED <<graphVars, request>> /\ phase = "Searching" /\ phase' = "Done"
        /\ heap = {} /\ answer' = NoRoute
    BY <1>9 DEF Exhausted, Answered
  <2>2. /\ GraphOK /\ request \in RouteKey /\ Known(request.start) /\ Known(request.goal)
        /\ SearchOK(IdOf(request.start), IdOf(request.goal), heap, distances, previous)
    BY <2>1, SearchNow
  <2>3. Fits(request, NoRoute)
    BY <2>1, <2>2, ExhaustedFits
  <2> QED BY <2>1, <2>3, AnswerStep
<1>10. ASSUME Return PROVE PathInv'
  <2>1. UNCHANGED graphVars /\ phase' = "Idle"
    BY <1>10 DEF Return
  <2>2. GraphOK'
    BY <2>1, GraphStands DEF PathInv
  <2> QED BY <2>1, <2>2 DEF PathInv, AnswerIsCheapest
<1>11. ASSUME UNCHANGED vars PROVE PathInv'
  <2>1. /\ UNCHANGED graphVars /\ phase' = phase /\ request' = request /\ answer' = answer
        /\ heap' = heap /\ distances' = distances /\ previous' = previous
    BY <1>11 DEF vars, searchVars
  <2>2. CASE phase = "Searching"
    BY <2>1, <2>2, SearchNow, SearchStep
  <2>3. CASE phase = "Done"
    <3>1. Fits(request, answer)
      BY <2>3 DEF PathInv, AnswerIsCheapest, Fits
    <3> QED BY <2>1, <2>3, <3>1, AnswerStep
  <2>4. CASE phase = "Idle"
    <3>1. GraphOK'
      BY <2>1, GraphStands DEF PathInv
    <3> QED BY <2>1, <2>4, <3>1 DEF PathInv, AnswerIsCheapest
  <2> QED BY <2>2, <2>3, <2>4 DEF PathInv
<1> QED BY <1>1, <1>2, <1>3, <1>4, <1>5, <1>6, <1>7, <1>8, <1>9, <1>10, <1>11 DEF Next

\* The invariant of ToolGraph::shortest_path, said of every search that runs: its frontier is monotone, closed nodes are settled,
\* and what is reached is owed to a way of closed nodes.
THEOREM SearchIsSound == Spec => []PathInv
<1>1. Init => PathInv
  BY PathInit
<1>2. PathInv /\ [Next]_vars => PathInv'
  BY PathNext
<1> QED BY <1>1, <1>2, PTL DEF Spec

\* route() answers with a cheapest feasible route, and with none only where there is none,
\* whatever the graph, the cost model and the health are.
THEOREM AnswersAreCheapest == Spec => []AnswerIsCheapest
<1>1. PathInv => AnswerIsCheapest
  BY DEF PathInv
<1> QED BY <1>1, SearchIsSound, PTL

\* The same of one state
LEMMA ExpandedAreFinal ==
    ASSUME PathInv
    PROVE  ExpandedIsFinal
<1> SUFFICES ASSUME phase = "Searching", NEW i \in Ids, Expanded(i)
             PROVE  LET costs == {PathCost(p, HopCosts) :
                        p \in Feasible([start |-> request.start, goal |-> idToNode[i]])}
                    IN  distances[i] \in costs /\ \A x \in costs : distances[i] <= x
  BY DEF ExpandedIsFinal
<1> DEFINE s == IdOf(request.start)
           ways == Feasible([start |-> request.start, goal |-> idToNode[i]])
<1>1. /\ GraphOK /\ Known(request.start)
      /\ SearchOK(s, IdOf(request.goal), heap, distances, previous)
      /\ SearchType(heap, distances, previous) /\ Frontier(heap, distances)
  BY SearchNow
<1>2. s \in Ids /\ idToNode[s] = request.start
  BY <1>1, IdsAreUnique
<1>3. ways = Feasible([start |-> idToNode[s], goal |-> idToNode[i]])
  BY <1>2
<1> HIDE DEF s, ways
<1>4. /\ distances[s] = 0 /\ Settled(heap, distances)
      /\ Ways(s, heap, distances, previous)
  BY <1>1 DEF SearchOK, EndsOK
<1>5. Closed(i, heap, distances) /\ distances[i] < Infinity
  BY <1>1, ClosedMeans DEF Expanded
<1>6. PICK f : WalksBack(f, s, previous)
  BY <1>4 DEF Ways
<1>7. IsWayTo(f[i], s, i, heap, distances)
  BY <1>4, <1>5, <1>6 DEF Ways
<1>8. f[i] \in ways /\ distances[i] = PathCost(f[i], HopCosts)
  BY <1>3, <1>7 DEF IsWayTo
<1>9. ASSUME NEW p \in ways PROVE distances[i] <= PathCost(p, HopCosts)
  BY <1>1, <1>2, <1>3, <1>4, <1>5, ClosedIsFinal
<1> QED BY <1>8, <1>9 DEF ways

\* A node that was expanded has the cost of a cheapest route to it: skipping stale entries and
\* returning at the first pop of the goal (ToolGraph::shortest_path) lose nothing.
THEOREM ExpandedNodesAreFinal == Spec => []ExpandedIsFinal
<1>1. PathInv => ExpandedIsFinal
  BY ExpandedAreFinal
<1> QED BY <1>1, SearchIsSound, PTL

\* A node is expanded once, and its distance is final from then on: so the search of every
\* graph ends after at most one expansion a node.
THEOREM NodesExpandOnce == Spec => ExpandsOnce
<1> DEFINE Kept == phase = "Searching" /\ phase' = "Searching" =>
                \A i \in Ids : Expanded(i) => Expanded(i)' /\ distances'[i] = distances[i]
<1>1. ASSUME PathInv, [Next]_vars PROVE [Kept]_vars
  <2> SUFFICES ASSUME Next, phase = "Searching", phase' = "Searching",
                      NEW i \in Ids, Expanded(i)
               PROVE  Expanded(i)' /\ distances'[i] = distances[i]
    BY <1>1
  <2>1. SkipStale \/ Expand
    BY DEF Next, AddEdge, SetCostModel, HealthMoves, AskTrivial, AskUnknown, AskSearch,
           ReachGoal, Exhausted, Return, Answered
  <2>2. SearchType(heap, distances, previous) /\ Frontier(heap, distances)
    BY <1>1, SearchNow
  <2>3. SearchType(heap', distances', previous') /\ Frontier(heap', distances')
    BY <1>1, <2>1, SearchMoves DEF SearchOK
  <2>4. Closed(i, heap, distances)
    BY <2>2, ClosedMeans DEF Expanded
  <2>5. Closed(i, heap', distances') /\ distances'[i] = distances[i]
    BY <1>1, <2>1, <2>4, SearchMoves
  <2>6. distances'[i] < Infinity /\ \A x \in heap' : x.node = i => x.cost > distances'[i]
    BY <2>3, <2>5, ClosedMeans
  <2> QED BY <2>5, <2>6 DEF Expanded
<1> QED BY <1>1, SearchIsSound, PTL DEF Spec, ExpandsOnce
================================================================================
