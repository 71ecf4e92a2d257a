----------------------------- MODULE ShortestPath -----------------------------
(***************************************************************************)
(* The search route() runs on a cache miss (src/lib.rs, ToolGraph): the    *)
(* indexed graph, edge weights under the tenant's cost model, health       *)
(* penalties and Dijkstra's algorithm with a binary heap and lazy          *)
(* deletion, one iteration of its loop a step.  The search runs under the  *)
(* router's write lock, so graph, model and health stand still meanwhile.  *)
(*                                                                         *)
(* Costs are integers: a component normalised to 0..1 counts 0..Scale, a   *)
(* weight and a penalty are in tenths.  Amounts that are not finite are    *)
(* represented by negative ones, which every test of the code treats alike.*)
(***************************************************************************)
EXTENDS ToolGraph, SequencesExt

CONSTANTS
    Scale,        \* the integer a normalised cost of 1.0 stands for
    Infinity,     \* f64::INFINITY: above the cost of every path
    EdgeInputs,   \* bound: the edges operators add
    Models,       \* bound: cost models given to try_set_cost_model, valid or not
    HealthInputs, \* bound: the health a node may show
    Sick,         \* bound: the nodes whose health varies
    Requests,     \* bound: the keys asked for
    MaxEdges      \* bound: edges of the graph

ASSUME ShortestPathAssumption ==
    /\ Scale \in Nat \ {0}
    /\ Infinity \in Nat
    /\ MaxEdges \in Nat
    /\ IsFiniteSet(Node)
    /\ Requests \subseteq RouteKey

VARIABLES
    idToNode,   \* ToolGraph.id_to_node; node_to_id is its inverse
    adjacency,  \* ToolGraph.adjacency: per id the edges in the order they were added
    model,      \* TenantState.cost_model
    health,     \* what penalty() reads of TenantState.health
    phase,      \* Idle, Searching, Done
    request,    \* the key asked for
    heap,       \* BinaryHeap<SearchState>
    distances,
    previous,
    answer      \* Option<Route>

graphVars == <<idToNode, adjacency, model, health>>
searchVars == <<phase, request, heap, distances, previous, answer>>
vars == <<graphVars, searchVars>>

CostEdge ==
    [from : Node, to : Node, base : Int, dollar : Int, latency : Nat, risk : Int,
     enabled : BOOLEAN]
CostModel ==
    [wDollar : Int, wLatency : Int, wRisk : Int, wBase : Int,
     maxDollar : Int, maxLatency : Nat, maxBase : Int]
NodeHealth == [state : {"Healthy", "Degraded", "Open", "HalfOpen"}, drag : Nat]

NewHealth == [state |-> "Healthy", drag |-> 0]
NoRoute == [path |-> << >>, cost |-> -1]
NoPrevious == 0
NoRequest == [start |-> "none", goal |-> "none"]

--------------------------------------------------------------------------------
(* Weights *)

\* TenantCostModel::default, weights in tenths, ceilings in units of their own
DefaultModel ==
    [wDollar |-> 4, wLatency |-> 3, wRisk |-> 2, wBase |-> 1,
     maxDollar |-> 2, maxLatency |-> 2, maxBase |-> 2]

\* TenantCostModel::validate
ValidModel(m) ==
    LET weights == {m.wDollar, m.wLatency, m.wRisk, m.wBase}
    IN  /\ \A w \in weights : w >= 0
        /\ \E w \in weights : w # 0
        /\ m.maxDollar > 0 /\ m.maxBase > 0 /\ m.maxLatency > 0

Clamped(v) == IF v < 0 THEN 0 ELSE IF v > Scale THEN Scale ELSE v

\* normalize
Normalized(value, ceiling) ==
    IF ceiling <= 0 THEN Scale ELSE Clamped((value * Scale) \div ceiling)

\* Mutant: a negative risk is let through.
IsValidAnyRisk(e) == e.base >= 0 /\ e.dollar >= 0

\* IndexedEdge::is_valid
IsValid(e) == e.base >= 0 /\ e.dollar >= 0 /\ e.risk >= 0

\* IndexedEdge::weight
Weight(e, m) ==
    IF ~IsValid(e) \/ ~ValidModel(m) THEN Infinity
    ELSE m.wDollar * Normalized(e.dollar, m.maxDollar)
         + m.wLatency * Normalized(e.latency, m.maxLatency)
         + m.wRisk * Clamped(e.risk)
         + m.wBase * Normalized(e.base, m.maxBase)

\* HealthTracker::penalty; drag is what the p99 latency and the success rate add
Penalty(h) ==
    CASE h.state = "Healthy"  -> h.drag
      [] h.state = "Degraded" -> 5 * Scale + h.drag
      [] h.state = "HalfOpen" -> 3 * Scale + h.drag
      [] h.state = "Open"     -> Infinity

\* No hop into a node that is not Open costs more than b, whatever the model and the edge
BoundsHops(b) ==
    \A m \in Models \cup {DefaultModel}, h \in HealthInputs \cup {NewHealth} :
        ValidModel(m) /\ h.state # "Open" =>
            (m.wDollar + m.wLatency + m.wRisk + m.wBase) * Scale + Penalty(h) <= b

\* The types of what is offered, and what Infinity is: as many hops as there are nodes do
\* not add up to it.
ASSUME ShortestPathInputs ==
    /\ EdgeInputs \subseteq CostEdge /\ Models \subseteq CostModel
    /\ HealthInputs \subseteq NodeHealth /\ Sick \subseteq Node
    /\ \E b \in 0..Infinity : BoundsHops(b) /\ Cardinality(Node) * b < Infinity

--------------------------------------------------------------------------------
(* The graph *)

Known(n) == n \in ToSet(idToNode)
IdOf(n) == CHOOSE i \in DOMAIN idToNode : idToNode[i] = n
Ids == DOMAIN idToNode

\* get_or_insert_node, on id_to_node
WithNode(names, n) == IF n \in ToSet(names) THEN names ELSE Append(names, n)

EdgeCount ==
    LET upTo[i \in 0..Len(adjacency)] ==
            IF i = 0 THEN 0 ELSE upTo[i - 1] + Len(adjacency[i])
    IN  upTo[Len(adjacency)]

\* ToolGraph::add_edge
AddEdge(e) ==
    LET names == WithNode(WithNode(idToNode, e.from), e.to)
        old   == [i \in DOMAIN names |-> IF i \in Ids THEN adjacency[i] ELSE << >>]
        from  == CHOOSE i \in DOMAIN names : names[i] = e.from
        to    == CHOOSE i \in DOMAIN names : names[i] = e.to
    IN  /\ phase = "Idle"
        /\ EdgeCount < MaxEdges
        /\ idToNode' = names
        /\ adjacency' = [old EXCEPT ![from] = Append(@, [e EXCEPT !.from = from, !.to = to])]
        /\ UNCHANGED <<model, health, searchVars>>

\* try_set_cost_model
SetCostModel(m) ==
    /\ phase = "Idle"
    /\ ValidModel(m)
    /\ model' = m
    /\ UNCHANGED <<idToNode, adjacency, health, searchVars>>

\* A report or a probe has changed the health of a node (Router's RecordResult, external
\* to the search)
HealthMoves(n, h) ==
    /\ phase = "Idle"
    /\ health' = [health EXCEPT ![n] = h]
    /\ UNCHANGED <<idToNode, adjacency, model, searchVars>>

--------------------------------------------------------------------------------
(* shortest_path *)

Answered(a) == phase' = "Done" /\ answer' = a

\* start == goal is answered before the graph is looked at
AskTrivial(k) ==
    /\ phase = "Idle"
    /\ k.start = k.goal
    /\ request' = k
    /\ Answered([path |-> <<k.start>>, cost |-> 0])
    /\ UNCHANGED <<graphVars, heap, distances, previous>>

\* node_to_id.get(..)?
AskUnknown(k) ==
    /\ phase = "Idle"
    /\ k.start # k.goal
    /\ ~Known(k.start) \/ ~Known(k.goal)
    /\ request' = k
    /\ Answered(NoRoute)
    /\ UNCHANGED <<graphVars, heap, distances, previous>>

AskSearch(k) ==
    /\ phase = "Idle"
    /\ k.start # k.goal
    /\ Known(k.start) /\ Known(k.goal)
    /\ request' = k
    /\ phase' = "Searching"
    /\ distances' = [i \in Ids |-> IF i = IdOf(k.start) THEN 0 ELSE Infinity]
    /\ previous' = [i \in Ids |-> NoPrevious]
    /\ heap' = {[node |-> IdOf(k.start), cost |-> 0]}
    /\ UNCHANGED <<graphVars, answer>>

\* Mutant: the comparison of the costs is not reversed, the max-heap pops the dearest.
TopDearest(h) ==
    CHOOSE x \in h : \A y \in h :
        x.cost > y.cost \/ (x.cost = y.cost /\ x.node >= y.node)

\* SearchState::cmp: cheapest first, the larger id among equals.  A node is pushed with
\* strictly falling costs, so no state is in the heap twice and a set will do.
Top(h) ==
    CHOOSE x \in h : \A y \in h :
        x.cost < y.cost \/ (x.cost = y.cost /\ x.node >= y.node)

\* The walk back over previous
PathTo(i) ==
    LET back[n \in Ids] ==
            IF n = IdOf(request.start) \/ previous[n] = NoPrevious
            THEN <<idToNode[n]>>
            ELSE Append(back[previous[n]], idToNode[n])
    IN  back[i]

ReachGoal ==
    LET top == Top(heap)
    IN  /\ phase = "Searching" /\ heap # {}
        /\ top.node = IdOf(request.goal)
        /\ Answered([path |-> PathTo(top.node), cost |-> top.cost])
        /\ UNCHANGED <<graphVars, request, heap, distances, previous>>

\* cost > distances[node]: a cheaper entry of the node has been expanded already
SkipStale ==
    LET top == Top(heap)
    IN  /\ phase = "Searching" /\ heap # {}
        /\ top.node # IdOf(request.goal)
        /\ top.cost > distances[top.node]
        /\ heap' = heap \ {top}
        /\ UNCHANGED <<graphVars, phase, request, distances, previous, answer>>

EdgeCost(e) == Weight(e, model) + Penalty(health[idToNode[e.to]])

\* The edge is not skipped
Passable(e) == e.enabled /\ IsValid(e) /\ EdgeCost(e) < Infinity

\* Mutant: an equally cheap way counts as an improvement.
RelaxOnTies(s, e) ==
    LET next == s.cost + EdgeCost(e)
    IN  IF Passable(e) /\ next <= s.dist[e.to]
        THEN [s EXCEPT !.dist[e.to] = next, !.prev[e.to] = s.node,
                       !.heap = @ \cup {[node |-> e.to, cost |-> next]}]
        ELSE s

\* Mutant: a node that has a distance already is not improved.
RelaxFirstOnly(s, e) ==
    LET next == s.cost + EdgeCost(e)
    IN  IF Passable(e) /\ s.dist[e.to] = Infinity
        THEN [s EXCEPT !.dist[e.to] = next, !.prev[e.to] = s.node,
                       !.heap = @ \cup {[node |-> e.to, cost |-> next]}]
        ELSE s

\* The body of the loop over adjacency[node]
Relax(s, e) ==
    LET next == s.cost + EdgeCost(e)
    IN  IF Passable(e) /\ next < s.dist[e.to]
        THEN [s EXCEPT !.dist[e.to] = next, !.prev[e.to] = s.node,
                       !.heap = @ \cup {[node |-> e.to, cost |-> next]}]
        ELSE s

\* The loop over the edges that leave the node popped
RelaxAll(s, out) ==
    LET relaxed[i \in 0..Len(out)] ==
            IF i = 0 THEN s ELSE Relax(relaxed[i - 1], out[i])
    IN  relaxed[Len(out)]

Expand ==
    LET top  == Top(heap)
        done == RelaxAll([node |-> top.node, cost |-> top.cost, heap |-> heap \ {top},
                          dist |-> distances, prev |-> previous],
                         adjacency[top.node])
    IN  /\ phase = "Searching" /\ heap # {}
        /\ top.node # IdOf(request.goal)
        /\ top.cost <= distances[top.node]
        /\ heap' = done.heap
        /\ distances' = done.dist
        /\ previous' = done.prev
        /\ UNCHANGED <<graphVars, phase, request, answer>>

Exhausted ==
    /\ phase = "Searching" /\ heap = {}
    /\ Answered(NoRoute)
    /\ UNCHANGED <<graphVars, request, heap, distances, previous>>

\* The caller takes the answer; the search's vectors are dropped
Return ==
    /\ phase = "Done"
    /\ phase' = "Idle" /\ answer' = NoRoute /\ request' = NoRequest
    /\ heap' = {} /\ distances' = << >> /\ previous' = << >>
    /\ UNCHANGED graphVars

Init ==
    /\ idToNode = << >> /\ adjacency = << >>
    /\ model = DefaultModel
    /\ health = [n \in Node |-> NewHealth]
    /\ phase = "Idle" /\ request = NoRequest /\ answer = NoRoute
    /\ heap = {} /\ distances = << >> /\ previous = << >>

Next ==
    \/ \E e \in EdgeInputs : AddEdge(e)
    \/ \E m \in Models : SetCostModel(m)
    \/ \E n \in Sick, h \in HealthInputs : HealthMoves(n, h)
    \/ \E k \in Requests : AskTrivial(k)
    \/ \E k \in Requests : AskUnknown(k)
    \/ \E k \in Requests : AskSearch(k)
    \/ ReachGoal
    \/ SkipStale
    \/ Expand
    \/ Exhausted
    \/ Return

Spec == Init /\ [][Next]_vars

--------------------------------------------------------------------------------
(* What the answer has to be, said without the algorithm: over all paths of   *)
(* ToolGraph, which is also what Router's search chooses from.                *)

AllEdges == UNION {ToSet(adjacency[i]) : i \in Ids}

\* An edge that may be used, by the documentation of Edge: enabled and no negative cost
UsableEdges ==
    {[from |-> idToNode[e.from], to |-> idToNode[e.to],
      usable |-> e.enabled /\ e.base >= 0 /\ e.dollar >= 0 /\ e.risk >= 0] : e \in AllEdges}

Blocked == {n \in Node : health[n].state = "Open"}

Feasible(k) == Routes(UsableEdges, Blocked, k)

\* The cost of every hop that can be made; of parallel edges the cheapest counts
HopCosts ==
    LET usable == {x \in AllEdges : x.enabled /\ x.base >= 0 /\ x.dollar >= 0 /\ x.risk >= 0}
        hops   == {<<idToNode[x.from], idToNode[x.to]>> : x \in usable}
    IN  [h \in hops |->
            Min({EdgeCost(x) : x \in {y \in usable :
                    idToNode[y.from] = h[1] /\ idToNode[y.to] = h[2]}})]

PathCost(p, hop) ==
    LET upTo[i \in 1..Len(p)] ==
            IF i = 1 THEN 0 ELSE upTo[i - 1] + hop[<<p[i - 1], p[i]>>]
    IN  upTo[Len(p)]

\* An answer is a feasible route, its cost is the route's cost and no feasible route is
\* cheaper; "no path" is answered only when there is none.  Parallel edges, entries
\* made stale by a cheaper way, ties and disabled or invalid edges are where
\* shortest_path could go wrong (ARCHITECTURE.md: "chooses the lowest-cost
\* feasible route").
AnswerIsCheapest ==
    phase = "Done" =>
        LET routes == Feasible(request)
            hop    == HopCosts
        IN  IF answer = NoRoute
            THEN routes = {}
            ELSE /\ answer.path \in routes
                 /\ answer.cost = PathCost(answer.path, hop)
                 /\ \A p \in routes : answer.cost <= PathCost(p, hop)

\* Reached, and no entry that is not stale is left in the heap
Expanded(i) ==
    /\ distances[i] < Infinity
    /\ \A x \in heap : x.node = i => x.cost > distances[i]

\* What lazy deletion rests on: a node that has been expanded has its final distance, so
\* the skip of stale entries and the return at the first pop of the goal are right.
ExpandedIsFinal ==
    phase = "Searching" =>
        LET hop == HopCosts
        IN  \A i \in Ids :
              Expanded(i) =>
                LET costs == {PathCost(p, hop) :
                                p \in Feasible([start |-> request.start, goal |-> idToNode[i]])}
                IN  distances[i] \in costs /\ \A x \in costs : distances[i] <= x

\* A node is expanded once: after that neither its distance changes nor does an entry
\* that would be expanded again come into the heap.  So every search ends, cycles
\* of zero cost included, after at most one expansion a node.
ExpandsOnce ==
    [][ phase = "Searching" /\ phase' = "Searching" =>
          \A i \in Ids : Expanded(i) => Expanded(i)' /\ distances'[i] = distances[i]
      ]_vars
==============================================================================
