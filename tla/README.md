# A TLA+ verification of the trust router

The repository is a Rust library and an HTTP sidecar that route a tenant's
tool calls through a graph of nodes, fence out failing nodes with a circuit
breaker, and record every decision. Beside the router it holds an inference
control pipeline with its own admission, world state and audit chain. This
directory models the stateful part of that system, model-checks it with TLC and
proves the main results about its core with TLAPS. Paths below are relative to
the repository root (`src/lib.rs`); PROJECT.json prefixes them with `src/`.

## 1. Inventory

| Component | State | Operations | Hard behaviour | Correct when |
|---|---|---|---|---|
| Circuit breaker, `HealthTracker` and `HealthPolicy` (`src/lib.rs`) | node state, two counters, `opened_at` | `record_result`, `transition_to_half_open_if_ready`, `force_half_open` | late outcomes, probes racing reports, re-trips | state agrees with counters; cooldown honoured; recovery earned; Open is left |
| Router, `TenantState`, route cache, `AuditPipeline` (`src/lib.rs`) | graph, health and cache per tenant, eviction order, audit ring | `add_*`, `set_*`, `record_result`, `force_half_open`, probe, `route` | read lock, gap, write lock; cache answered without looking at health | cached answers right; cache in step with its order; the whole looks atomic |
| Shortest path, `ToolGraph` (`src/lib.rs`) | ids, adjacency lists, cost model; heap and distances of a search | `add_edge`, `try_set_cost_model`, `shortest_path` | lazy deletion, parallel edges, ties, cycles of cost zero | answers a cheapest feasible path and ends |
| Background loops (`src/lib.rs`) | thread, stop flag | recovery loop, audit flush loop | run between any two requests | as the breaker |
| HTTP sidecar (`src/bin/trust-router-sidecar.rs`) | metrics, audit file, limiter | `/route`, `/plan`, `/route/batch`, `/result`, `/force-half-open`, `/metrics` | handlers interleave, I/O errors, crashes | an answered decision is durable and counted once |
| Rate limiter (`src/sidecar_security.rs`) | tokens, `last_refill` | `try_acquire` | lazy refill, half-taken batches | tokens given out bounded by capacity + rate * time |
| In-process admission (`src/admission.rs`) | total, count per tenant | `admit`, drop of the permit | limits, early returns | counts = permits alive |
| Fabric admission (`src/fabric.rs`) | two atomic counters | `evaluate`, `complete`, `dequeue` | check-then-act without a lock | no lost update; limits |
| Audit chain (`src/fabric.rs`) | ring of linked records | `append`, `verify_integrity` | eviction, concurrent appends | the chain verifies |
| World state (`src/intelligence.rs`) | revision, `observed_at` | `ingest`, `snapshot` | staleness, revisions under overlap | revisions exact |
| Pipeline (`src/pipeline.rs`) | all of the last four | `process_request` | ten early returns, awaits between reads | permits released, feedback exact |
| Node lifecycle (`src/fabric.rs`) | state, two counters, bounded history | `record_success`, `record_failure`, `drain`, `begin_recovery` | long sequences of calls | state agrees with counters; history is a chain |
| Leases (`src/fabric.rs`) | current lease, epoch | `acquire`, `verify` | expiry against a clock that may step back | one holder the store verifies |
| Capacity, backend registry, system planner, inference decision, decision trace | two growing maps with revisions | `register`, `decide`, `from_system_decision` | two sorts and a search by float equality | the best placement, whatever the order; the decision accounts for the rest, the trace for where they are |
| KV and model registries, control-plane snapshot, planner, escalation | growing maps with revisions, a copy of them | `register`, `select`, `plan_with_kv` | planning from a stale copy; missing measurements | reuse is earned; equal revisions decide alike |
| Bounded queue, canary, KV decision, telemetry (`src/fabric.rs`) | values | pure functions | | not modelled |
| Execution adapter, health monitor (`src/execution.rs`, `src/health_monitor.rs`) | bounded channel, monitor task | `execute`, `report` | backpressure, cancelled calls, shutdown with outcomes queued | one outcome per returned result, applied in order; nobody waits for ever |
| Configuration, load tests, demos, SDKs, scripts | none of their own | | | not modelled |

Interaction: the sidecar's handlers call the router; the router calls the
breaker of the node concerned and pushes on the audit ring; the recovery loop
does the same from its own thread. The handlers then read the newest event of
the ring and append it to the JSONL file. The execution coordinator calls a
backend adapter and sends the outcome through the monitor's channel to the same
breaker. The pipeline calls admission, the
world state, the registry and capacity stores, an external transport, the audit
chain and the prediction tracker, each behind a lock of its own.

The hazards this gives rise to, each at its line, are in PROJECT.json.

## 2. Modules

| Module | Models | Role |
|---|---|---|
| `HealthTracker` | `HealthPolicy`, `HealthTracker` | operators on one tracker |
| `CircuitBreaker` | one node with reports, probes and time | state machine with fairness |
| `ToolGraph` | `Edge`, `RouteKey`, feasibility of a path | operators |
| `RouteService` | what `route` promises | abstract specification |
| `Router` | `Router`, `TenantState`, `AuditPipeline` | state machine; instance of `RouteService` |
| `TokenBucket` | the limiter | operators |
| `Sidecar` | the HTTP handlers, the audit file, metrics | state machine over `TokenBucket` |
| `FabricAdmission` | `fabric::AdmissionController` | state machine, one atomic access a step |
| `Admission`, `AuditChain` | `admission.rs`, `fabric::AuditChain` | operators |
| `Pipeline` | `PipelineEngine`, `WorldStateManager`, registration | state machine over the last two |
| `Execution` | `ExecutionCoordinator`, `HealthMonitor` | state machine over `HealthTracker`, with fairness |
| `ShortestPath` | the search and the costs it is made over | state machine over `ToolGraph` |
| `Inference` | `inference.rs` | operators |
| `Placement` | `capacity.rs`, `backend_registry.rs`, `system_planning.rs`, `decision_trace.rs` | state machine over `Inference` |
| `KvPlanning` | `kv.rs`, `control_plane.rs`, `planner.rs`, `escalation.rs` | state machine |
| `NodeLifecycle`, `LeaseStore` | the state machines of `fabric.rs` of these names | state machines; `MCFabricState` sets them beside `FabricAdmission` |
| `RouterProofs`, `SidecarProofs`, `PipelineProofs`, `ExecutionProofs`, `PlacementProofs` | | theorems about the module of that name |
| `ToolGraphProofs` | | theorems about `CircuitBreaker` and `ShortestPath` |
| `FabricProofs` | | theorems about `FabricAdmission`, `NodeLifecycle`, `LeaseStore` and `KvPlanning` |
| `HealthTrackerProofs` | | lemmas on trackers and on induction that the others share |
| `MC*` | | instances for TLC |

### HealthTracker, CircuitBreaker

A tracker is a record of state, `failures`, `successes` and `openedFor`: the
time since `opened_at`, or `NotOpened`. `AfterSuccess`, `AfterFailure`,
`ReadyToProbe` and `HalfOpened` are the branches of the code. Counters saturate
at caps that no threshold exceeds (`CapsAssumption`, `BelowCaps`), so a saturated
counter is never mistaken for a smaller one. The latency window and the success
rate only enter a cost and are left out. Two history variables say what the
code should have kept: `openFor`, the time since the last trip, and `earned`,
the successes since the state last changed.

### ToolGraph, RouteService, Router

`route()` is two steps: `RouteHit`/`RouteMiss` under the read lock, then under
the write lock one of `RouteTenantNotFound`, `RouteRecheckHit`, `RouteSearched`
and `RouteEscalated`. Anything may happen between. `RouteSearched` takes any
feasible path: which one is cheapest is a matter of the search (`ShortestPath`), and every
property here is true whichever it is. A path is feasible when its hops are usable edges that
enter no Open node (the start may be Open: the search never tests it). Every
operation is one action under the state lock with its trailing invalidation and
audit events. `RouteService` has no cache, no locks and no clients: each reply is
right for the graph and the health of the instant it is given.
`ImplementsRouteService` maps `open` to the Open nodes and `reply` to the newest
audit event if that is a decision. The three places that call `retain` on the eviction order
share `Retained`.

### TokenBucket, Sidecar

A token is `Unit` units and a tick is worth `Rate`, so fractions of tokens are
exact integers. A handler goes through phases: authorisation (tokens of a batch
under one lock, none given back), `route` with its audit event, `PickUp` of the
newest event of the ring, then for each event a write of the line and a write of
the newline (`writeln!` on an unbuffered `File`), `sync_all`, and the
response. Writes and syncs may fail. A crash keeps what was synced and any
prefix of the rest, loses memory, and restarts the process. The router appears
only as the event it pushes: of the ring the handlers use the newest alone.

### FabricAdmission

Every load and every read-modify-write of `evaluate` is a step. Callers are
assumed to call `complete` after Accept and `dequeue` after Queue, once each, as
the debug assertions of the code demand.

### Admission, AuditChain, Pipeline

`process_request` is a step per lock or await. Predictions and limits are data:
any set of candidates may be rejected and any approved one may rank first. The
age of the snapshot, which the firewall reads again, is kept. All early
returns end in `Release`, the drop of the permit. Locals that are no longer read
are reset, which has no meaning beyond keeping states few. `observed` are the
requests whose observation `ingest` accepted. Ages saturate above both limits.

### Execution

A call of `execute` is refused, answered badly, or has an outcome to report; then it
waits for room in the channel, fails because the receiver is gone, or is dropped by
its caller at that await. The monitor's task takes outcomes in order and applies
them with `AfterResult` of `HealthTracker`. Its owner may drop the handles, after which the
task drains the channel and ends, or abort it, which loses what is queued. All
calls are for one node: outcomes of different nodes touch different trackers.
`accepted` and `lost` are history. The adapters of `backend.rs` are test doubles and
appear only as the answer they give.

### ShortestPath

An action asks, and then every iteration of the loop of `shortest_path` is a step:
`SkipStale`, `Expand` with all its relaxations, `ReachGoal` or `Exhausted`. The search
runs under the router's write lock, so the graph, the model and the health stand still
meanwhile. Costs are integers: 1.0 is `Scale` for a normalised component, and weights and
penalties are in tenths of that; `normalize` divides with rounding down, which
keeps the order the code's division has and can merge neighbours. Amounts that are not finite are
represented by negative ones, which the code refuses in the same tests. The heap is a
set: a node is pushed at strictly falling costs, so no entry is there twice. The reference
is `Routes` of `ToolGraph`, from which `Router` also chooses; what `AnswerIsCheapest`
says is therefore that the search is one way of making the router's choice. Relaxing the
edges of a node one by one is a recursive function over their list (`RelaxAll`).
`ShortestPathInputs` says what the inputs are: what is a float in the code is any integer, a
latency is unsigned, and `Infinity` is more than as many hops as there are nodes can cost
under any model and health offered.

### Inference, Placement

`TryDecide` and `SystemDecision` are the code's filters and sorts on sequences: `Only` keeps
the elements of a set in their order, `Sorted` inserts one element after another
behind those it is not below, which is the one stable order there is.
`PlacementInputs` gives the inputs the declared types of the code.
Identifiers are numbers, 0 one that does not validate; regions and accelerators are names, the
empty one invalid. NaN is an integer above all
others, where `total_cmp` puts it, and `SameEstimate` makes it differ from itself, as `==`
does. The planner borrows both registries, so nothing is registered while a
decision is under way. `answer` is the `SystemDecision` with whole candidates, `trace` what
`from_system_decision` keeps of it: of a refusal the backend, the node and the reason, of the
selection no amounts. Two proposals may share backend and node, so a trace can name
a place as refused on which another proposal was selected; what is said of placements one by
one is therefore said of `answer`. The reference is stated over the set of proposals: what a placement must
be to be chosen, and the key by which the best is told.

### KvPlanning

`live` is the owner's copy of the registries and the policy, `planner` the copy the
planner was built with. `Select` is `KvIntelligence::select` with its tests in order;
`Unknown` is a measurement that is `None`. `Versions` are the two numbers
`ControlPlaneSnapshot::new` fills in. The policy is a public field that `SetPolicy` assigns, and
its version is a number the caller gives, equal in the worst case; so
`VersionsIdentifyDecisions` compares copies under one policy. It is about one lineage, since
two clones that register different entries have equal revisions. The router's answer is an input. The recovery plan is its length. Inputs have the
declared types of the code (`KvInputAssumption`): floats may be anything, the rest is unsigned.

### NodeLifecycle, LeaseStore

The counters of the lifecycle are only compared with 5, 3, 2 and 1 and are kept up to the
largest. A full history drops its oldest record. Every owner keeps the newest lease it
was handed; `verify` asks the store, `IsValid(held[o])` is the owner's own test.
The clock may step back by one at any time, and `wentBack` remembers that it did.

## 3. Runs

| Run | Instance | Shows |
|---|---|---|
| `circuit_breaker` | the default policy (with a cooldown of three ticks) and every policy with thresholds up to 3, the invalid ones refused | `TypeOK`, `StateMatchesCounters`, `OpenKnowsWhen`, `CooldownHonoured`, `RecoveryIsEarned`; under fairness `OpenIsLeft`, `NodeHeals` |
| `breaker_reopen` | the same | violation: a failed trial does not always reopen |
| `router` | triangle a-b-c, two clients, one tenant, three keys, a cache of two, a ring of one | `CacheIsFeasible`, `CacheOrderIsExact`, `InvalidationIsExact`, refinement of `RouteService` |
| `sidecar` | three requests in three mixes of endpoints, two tokens, one tick, one crash | `AnswersAreDurable`, `RateIsBounded`, `CountedOnce` |
| `audit_own` | two routes, no crash | violation: a decision never persisted |
| `admission_bounds` | five threads, one slot, one place | violation: more callers are let in than the limit |
| `pipeline` | three requests, two tenants in any split, two policies, ring of two | `SlotsMatchPermits`, `AuditChainVerifies`, `RevisionsAreExact`, `StaleWhenIdleIsFinal` |
| `execution` | four calls, channel of two, two failures open the node | `ReportedOnce`, `HealthFollowsReports`, `ShutdownDrains`; under fairness `EveryCallEnds` |
| `shortest_path` | four nodes, every list of up to four of nine edges, a node of any health, two models | `AnswerIsCheapest`, `ExpandedIsFinal`, `ExpandsOnce` |
| `placement` | nine nodes and five backends offered, up to three of eleven proposals, three requests, a trace of three | `SelectionIsBest`, `RefusalsAreListed` |
| `kv_planning` | six models, nine records, four policies, seven contexts, a planner's copy taken at any time | `ReuseIsEarned`, `VersionsIdentifyDecisions`, `GrowthNeverRevokes` |
| `fabric_state` | five threads, one slot, one place; a history of two with eight transitions; two owners, four leases, a clock of four instants | `TypeOK`, `CountersMatchHolders`, `OvershootIsBounded`; `HistoryIsLinked`, `LifecycleMatchesCounters`, `OneHolder` |

Why the bounds are enough. The breaker's thresholds cover equal, adjacent
and distant pairs; caps lie at the largest threshold. Two clients suffice for
the gap in `route`, where at most one other operation matters at a time;
a cache of two with three keys makes insertions evict and the order matter; the one
node reported on is the start of one key, the goal of another and a way through for the
third. In the sidecar two tokens and a batch of two make a batch run
out half-way after a single request; the refill of four thirds of a token
makes the cap bite and leaves fractions. Five threads allow an overlap of five
at one limit. In the pipeline, three requests exceed the global limit of two, the
lower of the two tenant limits rejects on its own, and the third audit record evicts the first.
In `execution`, four calls fill the channel of two with two more waiting, and four
outcomes take the node through every order of failure and success up to Open.
In `shortest_path`, four edges make a way of three hops with a dearer shortcut that
becomes stale, two parallel edges, or a cycle of cost zero before the goal; longer graphs
repeat these. In `placement`, three proposals can tie, share an estimate, and be chosen or
refused beside each other, and three that share a refused one exceed the trace. In `kv_planning` the offers
make each test of `select` the first to fail. In `fabric_state`, eight transitions are more
than a life from Healthy over Failed and Recovering back, and four leases with two
lengths let an old one outlive a younger. Its three machines share nothing, so one moves while
the others rest where they start: every state of each is reached, and their product is not walked.

Symmetry is over clients, threads, requests and tenants, none of which an
action or a property tells apart, and only in runs without liveness.

Deadlock is checked except in `sidecar`, its violation, `pipeline` and `execution`,
where the requests are finitely many and the system stops when all are answered.

Fairness appears in two modules. In `CircuitBreaker` time passes and the recovery loop,
a thread that runs for the life of the process, keeps probing (`WF` of `Tick` and
`RecoveryProbe`). `NodeHeals` in addition assumes, in the property itself, that
failures stop and successes keep coming. In `Execution` the runtime polls the monitor's
task and every call whose send can complete or fail (`WF` of `Receive`, `TaskEnds`,
`Send` and `SendFails`; tokio's channel wakes waiting senders in turn); nobody is
assumed to start or cancel a call, drop the monitor or abort its task. No liveness is
claimed of the pipeline's requests: a transport may hang, for the pipeline does not
enforce its timeout. That a search ends is `ExpandsOnce`, a safety property: every
iteration takes an entry from the heap, and no node is expanded twice.

## 4. Findings

- A failed trial call does not always reopen the circuit (`src/lib.rs:324`):
  failures are counted from the last success, and a success that arrives late,
  while the node is Open, clears them.
- A handler persists the newest event of the ring, which may be another
  request's (`src/bin/trust-router-sidecar.rs:313`).
- Callers that race in `evaluate` pass its limits (`src/fabric.rs:400`): the load and the
  `fetch_add` are separate, so two that load before either adds are both let in. The test
  `concurrent_admission_respects_bounds` asserts `accepted <= 10` and `queued <= 5` of thirty
  racing threads (`src/fabric.rs:1475`) and passes only while the scheduler lets it. What does hold
  is `OvershootIsBounded`: a limit is passed by fewer callers than were ever between their load
  and their `fetch_add` together.

Not findings, yet worth knowing: a stale world state nobody is about to refresh is
final (`StaleWhenIdleIsFinal` holds); a rejected observation reports a
made-up revision; a failed transport leaves no audit record. The cache
ARCHITECTURE.md calls LRU evicts in the order of insertion, for a hit under the read lock
(`src/lib.rs:750`) moves nothing. A line of the audit file and its newline are two writes
(`src/lib.rs:497`), so two handlers can put two events on one line. `Suspect`
is a state no node of `fabric.rs` enters: the second failure has made it Degraded when
the third is counted; and a drained node is drained until its fifth failure. An estimate
that is NaN is refused and not listed in the decision (`src/system_planning.rs:153`), and n placements
that share a refused estimate are each listed n times, which fills a bounded trace. A trace names
backend and node of a refusal without its estimate, so it can name the pair that was selected. An
expired lease becomes valid again, by its owner's own test, when the clock steps back; the store's
`verify` is not fooled.

## 5. Proofs

TLAPS proves what follows for every value of the constants under the assumptions the
modules name; TLC evaluates these on the instances. Every invariant and action property of
the runs is proved.

- `ToolGraphProofs`, the breaker. The inductive invariant is `IInv`: `TypeOK`,
  `StateMatchesCounters`, `OpenKnowsWhen` and `CounterIsEarned` (the code's success
  counter never exceeds `earned` while the node is on probation or degraded). The last
  is needed because `RecoveryIsEarned` speaks of the history and the code tests its
  own counter. `TypeCorrect`, `StateMatches`, `OpenIsDated`,
  `ProbesHonourCooldown` and `HealthIsEarned` follow. Assumptions: caps are positive
  and policies are records below the caps.
- `ToolGraphProofs`, the search. `SearchIsSound` is the invariant `PathInv`: the graph is indexed
  as it is kept (`GraphOK`), and for the search under way the frontier is monotone (nothing
  in the heap is cheaper than a node that has been expanded, `Frontier`), no edge out of an
  expanded node improves what it leads to (`Settled`), the start costs nothing and the goal has
  not been expanded (`EndsOK`), a node that was reached has its distance by an edge from an expanded
  predecessor (`Tree`), and the walk back through `previous` from it is a feasible way whose
  inner nodes have been expanded (`Ways`). The last needs the order of expansion: an edge
  may cost nothing, so the distances alone do not make the walk end. `Expand` relaxes all
  edges of a node in one step; that this keeps each part is an induction over the list. `ExpandedNodesAreFinal` and
  `NodesExpandOnce` follow from the frontier. For `AnswersAreCheapest`, where a
  feasible path ends is as near as the path makes it, or something no dearer waits in the heap
  (`ReachedOrWaiting`); so when the goal is taken from the heap, or the heap is empty, no
  path is cheaper. Assumptions: finitely many nodes, and `ShortestPathInputs`.
- `RouterProofs`. `TypeCorrect` by one lemma per group of actions; then
  `IInv` = `TypeOK` and `CacheIsFeasible`. The argument of `CacheAlwaysFeasible`: a step
  that opens a node drops the entries through it (`NodeChangeFeasible`), a step that
  adds edges clears or keeps feasible paths (`StaysFeasible`), an insertion
  inserts what the search just found (`SearchFeasible`). `RouterImplementsService` maps
  every step to a step of the service or a stutter; a hit is right because the cache is
  feasible. `CacheOrderStaysExact` is inductive with `TypeOK` (`OrderInv`, said of one
  tenant by `InStep`); it rests on what `VecDeque::retain` leaves of a list without
  repetition (`RetainedFacts`), which is why `Retained` is a recursive function whose
  unfolding is proved (`RetainedUnfolds`). `InvalidationStaysExact` goes through the actions:
  one that moves nodes drops the entries through the nodes that moved (`NextExact`).
- `SidecarProofs`. `SidecarRateIsBounded` from `LimiterInv`, which balances the account: what
  was handed out, what is left and what the time since the last refill is worth never
  exceed the first filling and the worth of the time. `SidecarInv` is `TypeOK` and, for
  each request, `HandlerOK` (how far the handler has come tells what it routed, took and
  wrote) and `FileHolds` (what it wrote is in the file, from its sync on in the durable
  part). Appends and syncs of one handler keep that of the others (`OthersKeep`), and a crash
  keeps the durable part; `SidecarAnswersAreDurable` follows. `SidecarCountedOnce` needs
  `MetricsInv`: the requests known since the start are finitely many, only audited ones
  are routed, and the counter is the cardinality of `Shares`, the set of items counted so
  far. Every step adds one item to the set and one to the counter, or nothing to both
  (`AccountKept`); that the sum in the property is this cardinality is `SumIsPlaces`.
  Nothing is assumed of the set of requests, which may be infinite.
- `PipelineProofs`. `ChainAlwaysVerifies` from the chain being a sequence (`IsRing`) and
  verifying: `AppendKeepsIntegrity` shows that the record `append` links to is still
  the newest when the full ring has dropped its oldest. `PermitsMatch` from `PInv`, the
  shape of `slots` and `phase` and `SlotsMatchPermits`: `AdmitKeeps` and `ReleaseKeeps`
  count with the cardinality theorems, and `QuietStep` covers every stage that
  neither lets a request in nor lets one go. `RevisionsExact` from `WInv`: besides the types,
  no request knows a revision the world has not had (`NotAhead`), and a request is observed
  only by passing the stage where `ingest` is called (`InOrder`), hence once.
  `PipelineTypeCorrect` puts these together with the limits (`SlotsFit`, `RingFits`), which hold
  because both tests of `admit` and its additions are under one lock. `StaleIdleIsFinal` needs
  only the shape of the world: whoever ingests has taken a snapshot, and a stale world gives
  none. Assumptions: finitely many requests, a ring that
  holds at least one record, policies with limits that are numbers.
- `ExecutionProofs`. `ExecInv` is `TypeOK`, `ReportedOnce`, `ChannelIsSuffix` (the channel holds
  the end of what was accepted, less what an abort lost) and `HealthIsARun` (the
  tracker is the last of a run of trackers, one per applied outcome). `ExecutionShutdownDrains`
  follows from the second last. `ExecutionHealthFollows` states the health as a fold, and
  `FoldIsRun` shows by induction over the sequence that `FoldLeft` ends where a run
  ends. Assumption: the channel has room for at least one outcome.
- `FabricProofs`. `AdmissionInv` (types, `CountersMatchHolders`, `OvershootIsBounded`) is inductive
  as it stands: a `fetch_add` moves one thread from one place to another, and the threads
  at each place are counted. Assumption: finitely many threads. `LifecycleInv` likewise; in
  it the history is a chain because the record that is added starts in the state in which
  the newest one ended, whether or not the oldest is dropped. `LeaseInv` adds
  to the types `EpochsIdentifyGrants` (an owner's copy is of an earlier epoch or is the store's
  lease) and `OthersExpired` (while the clock only advanced, other owners' copies have
  expired); the store's half of `OneHolder` needs only the first, and holds of any clock.
- `FabricProofs`, `KvPlanning`. `KvInv`: both copies of the registries are typed and hold only validated
  entries (`Checked`); the planner's copy is an earlier state of the live one, so that a
  revision that has not moved on vouches for the map it counts (`SameLineage`); an answer is
  what `select` says of the planner's copy (`ReplyIsSelection`). For `KvReuseIsEarned` the tests of `select`, in their order, are compared
  with the conditions said at once. `KvVersionsIdentifyDecisions` is
  `SameLineage` with both revisions equal, under one policy. `KvGrowthNeverRevokes`: no test of `select` that passes
  can fail after an entry was added.
  Assumption: inputs are of the declared types (`KvInputAssumption`).
- `PlacementProofs`. The order of the keys is strict and total on tuples of one length
  (`LexTotal`, `LexStrict`), and of tuples put together the first parts decide (`LexConcat`). A
  filter keeps the elements in a set and the order, a sort keeps the elements and
  puts them in order (`OnlyFacts`, `SortedFacts`), so its head is a least one. `TryDecideFacts` and
  `SystemDecisionFacts` say of sets what the decision selects and refuses: the head of
  the ranking has the least score and estimate, and the first feasible placement found by `==`
  with that estimate has the least place, since the placements were sorted by place
  first (`ChoiceOrder`). An accepted estimate holds no NaN, so it is found. `GateIsPlaceable`
  compares the tests, in their order, with the conditions said at once; it needs that nodes are
  registered under valid identifiers (`NodesKnown`), the rest of the invariant. `SelectedIsBest` and
  `EveryRefusalIsListed` follow, as only a decision hands out an answer and the registries stand still
  while one is out. For the trace, an entry is where the refusal at its position is (`TracedFacts`). Assumptions: `PlacementInputs`, `InferenceAssumption`, a trace of 1 to 64.

Induction. The library's induction theorems take an operator as a parameter, which the
provers cannot instantiate. Two lemmas stand in for them, proved from the well-foundedness of
strict inclusion among finite sets: `CountingUp` (a set that has 0 and with each number below n
the next has all up to n) and `SmallestPart` (a non-empty set of parts of a finite set
has a smallest one). A recursive function or a fold is a `CHOOSE` of a function that
unfolds; with these lemmas such a function is shown to exist and its values are determined.

Only model-checked: liveness (`OpenIsLeft`, `NodeHeals`, `EveryCallEnds`), which needs
`ENABLED`. The lists of `unavailable` nodes in a trace are in no property: they are made with a
library sort by a choice among permutations.

## 6. Plan

Modelled are all components of the inventory that keep state, and proved is every safety
property the runs check. What would come next:

1. a property of the background loops for the hazards of `PROJECT.json` that name none: the audit
   flush loop as an action of `Router`, and what a reader of its file may conclude;
2. the transport's timeout as a step of `Pipeline`, once the pipeline enforces it, and with it
   liveness of a request;
3. a proof that `ShortestPath` implements the choice in `RouteSearched` of `Router`, which is
   stated here only through their common reference, `Routes`.

## 7. Not modelled

Configuration parsing, done once at the start; JSON and HTTP; identifiers and their
validation beyond valid or not; latency percentiles and the EWMA, which enter a search as one
number (`drag`); predictions, drift, decision memory and the evaluation harness, which are
floating-point statistics over windows; the queue, canary, KV decision, compiler,
telemetry and transports of `fabric.rs`, which are pure functions, test doubles or a queue
behind one lock that nothing uses; its `StateStore`, a trait without an implementation; `decide` of
`inference.rs`, which wraps `try_decide`; signed zeros, which `total_cmp` tells apart and `==` does not;
OpenTelemetry export; the audit flush loop, which no
binary starts; load generators, SDKs and scripts. A system clock that goes backwards, which
`is_stale` treats as stale, is left out of `Pipeline`. Rounding of floating-point costs is
out of reach: `AnswerIsCheapest` is about exact sums.
