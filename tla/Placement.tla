------------------------------ MODULE Placement ------------------------------
(***************************************************************************)
(* Planning a placement: the capacity snapshot (src/capacity.rs), the      *)
(* registry of backends (src/backend_registry.rs), the system planner that *)
(* puts both in front of the inference decision (src/system_planning.rs)   *)
(* and the bounded trace of the decision (src/decision_trace.rs).          *)
(*                                                                         *)
(* Both registries only grow.  The planner borrows them, so they stand     *)
(* still while it decides.  Identifiers are numbers, 0 an invalid one;     *)
(* regions and accelerators are names, the empty one invalid.              *)
(***************************************************************************)
EXTENDS Inference, FiniteSets

CONSTANTS
    NodeInputs,     \* bound: nodes offered for registration, valid or not
    BackendInputs,  \* bound: backends offered for registration, valid or not
    CandidateInputs,\* bound: the placements proposed
    Asks,           \* bound: requirement, constraints and weights of a request
    MaxCandidates,  \* bound: placements proposed at once
    MaxRejections   \* max_rejections of the trace, clamped to 1..MAX_TRACE_REJECTIONS

ASSUME PlacementAssumption == MaxRejections \in 1..64 /\ MaxCandidates \in Nat

\* ComputeNode
ComputeNode ==
    [id : Nat, region : STRING, accelerator : STRING, healthy : BOOLEAN, models : SUBSET Nat,
     total : Nat, available : Nat, utilization : Int, queue : Nat]

\* PlacementCandidate
Candidate == [backend : Nat, node : Nat, estimate : Estimate]

\* CapacityRequirement, InferenceConstraints and ObjectiveWeights of a request
AskOf ==
    [requirement : [model : Nat, region : STRING, minMemory : Nat, maxQueue : Nat],
     constraints : [maxLatency : Int, maxCost : Int, minQuality : Int],
     weights     : [latency : Int, cost : Int, reliability : Int, quality : Int]]

ASSUME PlacementInputs ==
    NodeInputs \subseteq ComputeNode /\ CandidateInputs \subseteq Candidate /\ Asks \subseteq AskOf

VARIABLES
    nodes,      \* CapacitySnapshot.nodes: id -> node
    capacityRevision,
    backends,   \* BackendRegistry.entries: id -> capabilities
    backendRevision,
    asked,      \* the candidates and the ask of the decision under way
    answer,     \* the SystemDecision returned for it
    trace       \* the DecisionTrace made of that

vars == <<nodes, capacityRevision, backends, backendRevision, asked, answer, trace>>

NotAsked == << >>
AnyRegion == "any"
NoEntry == [x \in {} |-> x]

Identifier(v) == v # 0
Named(v) == v # ""

Put(f, k, v) == [x \in DOMAIN f \cup {k} |-> IF x = k THEN v ELSE f[x]]

--------------------------------------------------------------------------------
(* The registries *)

\* ComputeNode::validate
ValidNode(n) ==
    /\ Identifier(n.id) /\ Named(n.region) /\ Named(n.accelerator)
    /\ n.total > 0 /\ n.available <= n.total
    /\ Valid(n.utilization) /\ n.utilization <= Unit

\* CapacitySnapshot::register
RegisterNode(n) ==
    /\ asked = NotAsked
    /\ ValidNode(n)
    /\ n.id \notin DOMAIN nodes
    /\ nodes' = Put(nodes, n.id, n)
    /\ capacityRevision' = capacityRevision + 1
    /\ UNCHANGED <<backends, backendRevision, asked, answer, trace>>

\* BackendDescriptor::validate
ValidDescriptor(b) ==
    /\ Identifier(b.id) /\ Identifier(b.version)
    /\ DOMAIN b.capabilities # {}
    /\ \A m \in DOMAIN b.capabilities : Identifier(m) /\ b.capabilities[m] # {}

\* BackendRegistry::register; name is what the adapter calls itself
RegisterBackend(b) ==
    /\ asked = NotAsked
    /\ ValidDescriptor(b)
    /\ b.id = b.name
    /\ b.id \notin DOMAIN backends
    /\ backends' = Put(backends, b.id, b.capabilities)
    /\ backendRevision' = backendRevision + 1
    /\ UNCHANGED <<nodes, capacityRevision, asked, answer, trace>>

Supports(b, model, strategy) ==
    model \in DOMAIN backends[b] /\ strategy \in backends[b][model]

--------------------------------------------------------------------------------
(* CapacitySnapshot::evaluate: the first requirement a node fails *)

Eligible == "Eligible"

CapacityVerdict(n, req) ==
    IF ~n.healthy THEN "Unhealthy"
    ELSE IF req.region \notin {AnyRegion, n.region} THEN "RegionMismatch"
    ELSE IF req.model \notin n.models THEN "ModelNotResident"
    ELSE IF n.available < req.minMemory THEN "InsufficientMemory"
    ELSE IF n.queue > req.maxQueue THEN "QueueLimit"
    ELSE Eligible

\* The ids of the BTreeMap are visited in order
UnavailableNodes(req) ==
    LET ids == SetToSortSeq({i \in DOMAIN nodes : CapacityVerdict(nodes[i], req) # Eligible}, <)
    IN  [k \in DOMAIN ids |->
            [node |-> ids[k], reason |-> CapacityVerdict(nodes[ids[k]], req)]]

--------------------------------------------------------------------------------
(* SystemPlanner::decide *)

\* candidate_order
PlacementKey(p) == <<p.backend, p.node>> \o EstimateKey(p.estimate)

\* Mutant: whether the backend declared the strategy is not asked.
GateAnyBackend(p, req) ==
    IF ~Identifier(p.backend) \/ ~Identifier(p.node) THEN "InvalidCandidate"
    ELSE IF p.estimate.model # req.model THEN "ModelMismatch"
    ELSE IF p.node \notin DOMAIN nodes THEN "UnknownComputeNode"
    ELSE CapacityVerdict(nodes[p.node], req)

\* The first gate a placement fails before it is scored
Gate(p, req) ==
    IF ~Identifier(p.backend) \/ ~Identifier(p.node) THEN "InvalidCandidate"
    ELSE IF p.estimate.model # req.model THEN "ModelMismatch"
    ELSE IF p.node \notin DOMAIN nodes THEN "UnknownComputeNode"
    ELSE IF CapacityVerdict(nodes[p.node], req) # Eligible
         THEN CapacityVerdict(nodes[p.node], req)
    ELSE IF p.backend \notin DOMAIN backends THEN "UnknownBackend"
    ELSE IF ~Supports(p.backend, p.estimate.model, p.estimate.strategy)
         THEN "UnsupportedBackendCapability"
    ELSE Eligible

Refusal(p, reason) == [candidate |-> p, reason |-> reason]

\* The placements whose estimate is == to e
With(feasible, e) == Only(feasible, {p \in ToSet(feasible) : SameEstimate(p.estimate, e)})

\* Mutant: only the first placement with a refused estimate is listed.
ScoringRefusalsOncePerEstimate(feasible, decision) ==
    [i \in DOMAIN decision.rejected |->
        Refusal(CHOOSE p \in ToSet(feasible) : p.estimate = decision.rejected[i].estimate,
                decision.rejected[i].reason)]

\* Every refused estimate is looked for in the feasible placements by ==: placements
\* that share one are listed once for each of them, and a NaN finds none.
ScoringRefusals(feasible, decision) ==
    FlattenSeq([i \in DOMAIN decision.rejected |->
        LET same == With(feasible, decision.rejected[i].estimate)
        IN  [j \in DOMAIN same |-> Refusal(same[j], decision.rejected[i].reason)]])

\* The first feasible placement with the selected estimate
Selection(feasible, decision) ==
    IF ~decision.selected.found THEN NoneSelected
    ELSE LET p == Head(With(feasible, decision.selected.estimate))
         IN  [found |-> TRUE, backend |-> p.backend, node |-> p.node,
              estimate |-> p.estimate, score |-> decision.selected.score,
              fallback |-> decision.selected.fallback]

SystemDecision(candidates, ask) ==
    LET all      == ToSet(candidates)
        ordered  == Sorted(candidates, [p \in all |-> PlacementKey(p)])
        eligible == {p \in all : Gate(p, ask.requirement) = Eligible}
        refused  == Only(ordered, all \ eligible)
        early    == [i \in DOMAIN refused |->
                        Refusal(refused[i], Gate(refused[i], ask.requirement))]
        feasible == Only(ordered, eligible)
        decision == TryDecide([i \in DOMAIN feasible |-> feasible[i].estimate],
                              ask.constraints, ask.weights)
        late     == IF decision.error # "none"
                    THEN [i \in DOMAIN feasible |->
                             Refusal(feasible[i], "InvalidPlanningConfig")]
                    ELSE ScoringRefusals(feasible, decision)
        rejected == early \o late
    IN  [selected    |-> IF decision.error # "none" THEN NoneSelected
                         ELSE Selection(feasible, decision),
         rejected    |-> Sorted(rejected, [r \in ToSet(rejected) |-> PlacementKey(r.candidate)]),
         unavailable |-> UnavailableNodes(ask.requirement),
         configError |-> decision.error]

\* TraceRejection: where a placement is and why it was refused; its estimate is dropped
TraceRejection(backend, node, reason) == [backend |-> backend, node |-> node, reason |-> reason]

\* TraceSelection: of the estimate only the model and the strategy
TraceSelection(s) ==
    [found |-> TRUE, backend |-> s.backend, node |-> s.node, model |-> s.estimate.model,
     strategy |-> s.estimate.strategy, score |-> s.score, fallback |-> s.fallback]

\* DecisionTrace::from_system_decision with a valid request id: the first rejections, and
\* whether there are more.  A node that is unavailable is listed without a backend.
TraceOf(d) ==
    LET shown == 1..Min({MaxRejections, Len(d.rejected)})
    IN  [selected    |-> IF d.selected.found THEN TraceSelection(d.selected) ELSE NoneSelected,
         rejected    |-> [i \in shown |->
                             LET r == d.rejected[i]
                             IN  TraceRejection(r.candidate.backend, r.candidate.node, r.reason)],
         truncated   |-> Len(d.rejected) > MaxRejections,
         unavailable |-> [i \in DOMAIN d.unavailable |->
                             TraceRejection(0, d.unavailable[i].node, d.unavailable[i].reason)],
         configError |-> d.configError,
         capacityRevision |-> capacityRevision,
         backendRevision  |-> backendRevision]

\* The planner answers, and its caller has the answer explained.
Decide(candidates, ask) ==
    /\ asked = NotAsked
    /\ asked' = <<candidates, ask>>
    /\ answer' = SystemDecision(candidates, ask)
    /\ trace' = TraceOf(answer')
    /\ UNCHANGED <<nodes, capacityRevision, backends, backendRevision>>

\* The borrow of the registries ends
Taken ==
    /\ asked # NotAsked
    /\ asked' = NotAsked /\ answer' = NotAsked /\ trace' = NotAsked
    /\ UNCHANGED <<nodes, capacityRevision, backends, backendRevision>>

Init ==
    /\ nodes = NoEntry /\ capacityRevision = 0
    /\ backends = NoEntry /\ backendRevision = 0
    /\ asked = NotAsked /\ answer = NotAsked /\ trace = NotAsked

Next ==
    \/ \E n \in NodeInputs : RegisterNode(n)
    \/ \E b \in BackendInputs : RegisterBackend(b)
    \/ \E s \in SeqOf(CandidateInputs, MaxCandidates), ask \in Asks : Decide(s, ask)
    \/ Taken

Spec == Init /\ [][Next]_vars

--------------------------------------------------------------------------------
(* The decision, said over the set of the proposed placements *)

Proposed == ToSet(asked[1])
Ask == asked[2]
ConfigIsValid == ValidConstraints(Ask.constraints) /\ ValidWeights(Ask.weights)

\* What a placement must be to be chosen
Placeable(p) ==
    /\ p.backend # 0 /\ p.node \in DOMAIN nodes
    /\ LET n == nodes[p.node]  req == Ask.requirement
       IN  /\ n.healthy /\ req.region \in {AnyRegion, n.region}
           /\ req.model = p.estimate.model /\ req.model \in n.models
           /\ n.available >= req.minMemory /\ n.queue <= req.maxQueue
    /\ p.backend \in DOMAIN backends
    /\ p.estimate.model \in DOMAIN backends[p.backend]
    /\ p.estimate.strategy \in backends[p.backend][p.estimate.model]

WithinConstraints(e) ==
    /\ ValidEstimate(e)
    /\ e.latency <= Ask.constraints.maxLatency
    /\ e.cost <= Ask.constraints.maxCost
    /\ e.quality >= Ask.constraints.minQuality

Choosable == {p \in Proposed : ConfigIsValid /\ Placeable(p) /\ WithinConstraints(p.estimate)}

\* The order of the choice: score, then the estimate, then where it is placed
ChoiceKey(p) ==
    <<Score(p.estimate, Ask.constraints, Ask.weights)>>
        \o EstimateKey(p.estimate) \o <<p.backend, p.node>>

\* A placement is selected exactly when one passes every gate, it is the best of those
\* that do, and the order in which they were proposed has no say: two sorts with
\* different keys and a search by == stand between the proposals and the selection
\* (test candidate_order_does_not_change_the_decision).
SelectionIsBest ==
    asked # NotAsked =>
        IF Choosable = {} THEN answer.selected = NoneSelected
        ELSE \E p \in Choosable :
                /\ \A q \in Choosable : ~LexLess(ChoiceKey(q), ChoiceKey(p))
                /\ answer.selected.found
                /\ answer.selected.backend = p.backend /\ answer.selected.node = p.node
                /\ answer.selected.estimate = p.estimate

HasNaN(e) == NaN \in {e.latency, e.cost, e.failure, e.quality}

\* What could not be chosen, less what reached the scoring with a NaN, which == does not find
\* again: neither selected nor refused, such a placement is lost.
RefusedPlacements ==
    (Proposed \ Choosable)
        \ {p \in Proposed : ConfigIsValid /\ Placeable(p) /\ HasNaN(p.estimate)}

\* The decision lists exactly the refused placements, each with one reason, although refusals
\* come from three places and those of the scoring go by the estimate.  Its trace shows
\* backends and nodes: it names only such as a refused placement has, and unless it
\* is truncated it names those of every refused one.  That a pair is named does not mean
\* that nothing on it was selected: another placement there may have been refused.
RefusalsAreListed ==
    asked # NotAsked =>
        /\ {r.candidate : r \in ToSet(answer.rejected)} = RefusedPlacements
        /\ \A r, s \in ToSet(answer.rejected) : r.candidate = s.candidate => r = s
        /\ LET named == {<<e.backend, e.node>> : e \in ToSet(trace.rejected)}
               pairs == {<<p.backend, p.node>> : p \in RefusedPlacements}
           IN  /\ named \subseteq pairs
               /\ ~trace.truncated => named = pairs
==============================================================================
