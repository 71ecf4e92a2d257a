------------------------------- MODULE Pipeline -------------------------------
(***************************************************************************)
(* PipelineEngine::process_request of src/pipeline.rs, run concurrently:   *)
(* admission, a snapshot of the world state, candidates from the backend   *)
(* registry and the capacity snapshot, the decision firewall, execution,   *)
(* and the feedback into the audit chain, the world state and the          *)
(* prediction tracker.  Each lock the code takes is a step of its own, and *)
(* every early return leaves through the drop of the admission permit.     *)
(*                                                                         *)
(* Predictions and limits are data: any candidate may exceed a limit of    *)
(* its request, and any acceptable one may rank first.  What the firewall  *)
(* checks of the shared state, the age of the snapshot, is kept.           *)
(***************************************************************************)
EXTENDS Admission, AuditChain, FiniteSets

CONSTANTS
    Request, Tenant, Backend, Node,
    MaxAge,         \* WorldStateManager::max_observation_age
    FirewallAge,    \* DecisionFirewall::max_world_state_age
    AgeCap,         \* bound: ages saturate above both limits
    MaxErrors       \* capacity of the PredictionErrorTracker

ASSUME PipelineAssumption ==
    /\ IsFiniteSet(Request) /\ IsFiniteSet(Tenant)
    /\ {MaxAge, FirewallAge, AgeCap} \subseteq Nat
    /\ AgeCap > MaxAge /\ AgeCap > FirewallAge
    /\ MaxErrors \in Nat \ {0}

VARIABLES
    tenant,     \* tenant[r]: tenant_id of r
    phase,      \* phase[r]: how far r has come
    slots,      \* AdmissionController: what its mutex protects
    world,      \* WorldStateManager: revision, age of observed_at, and who was observed
                \* (backends, nodes, health_states)
    registry,   \* BackendRegistry: what each backend declares for the model
    capacity,   \* CapacitySnapshot: whether each node meets the requirement
    seen,       \* seen[r]: r's snapshot of the world, growing old with it
    backends,   \* backends[r]: r's copy of the registry
    chosen,     \* chosen[r]: r's backend and node
    chain,      \* the AuditChain
    errors,     \* entries of the PredictionErrorTracker
    reported,   \* reported[r]: world_revision of r's outcome
    observed    \* the requests whose observation was accepted (observations_accepted)

vars == <<tenant, phase, slots, world, registry, capacity, seen, backends, chosen, chain,
          errors, reported, observed>>

local == <<seen, backends, chosen, reported, observed>>
inputs == <<tenant, registry, capacity>>

\* Admitted and not yet gone; past the snapshot and still able to feed the world state
Holding == {"admitted", "snapped", "fetched", "transfer", "execute", "executed",
            "audited", "ingested", "unobserved", "leaving"}
PastSnapshot == {"snapped", "fetched", "transfer", "execute", "executed", "audited"}

Holders == {r \in Request : phase[r] \in Holding}

Unset == [revision |-> 0, age |-> 0]
None == <<"none", "none">>
NothingDeclared == [b \in Backend |-> "absent"]

Older(age) == IF age < AgeCap THEN age + 1 ELSE age

Init ==
    /\ tenant \in [Request -> Tenant]
    /\ phase = [r \in Request |-> "new"]
    /\ \E policy \in AdmissionPolicies : slots = NoneInFlight(policy)
    /\ world = [revision |-> 0, age |-> 0, known |-> {}]
    /\ registry = NothingDeclared
    /\ capacity = [n \in Node |-> "absent"]
    /\ seen = [r \in Request |-> Unset]
    /\ backends = [r \in Request |-> registry]
    /\ chosen = [r \in Request |-> None]
    /\ chain = << >>
    /\ errors = 0
    /\ reported = [r \in Request |-> 0]
    /\ observed = {}

Move(r, from, to) == phase[r] = from /\ phase' = [phase EXCEPT ![r] = to]

--------------------------------------------------------------------------------
(* Stages 1 and 2 *)

\* An API key that is empty or "invalid", or a tenant id that does not validate
CredentialsFail(r) ==
    /\ Move(r, "new", "turned away")
    /\ UNCHANGED <<slots, world, inputs, local, chain, errors>>

Admit(r) ==
    /\ HasRoom(slots, tenant[r])
    /\ Move(r, "new", "admitted")
    /\ slots' = AfterAdmit(slots, tenant[r])
    /\ UNCHANGED <<world, inputs, local, chain, errors>>

AdmissionRejects(r) ==
    /\ ~HasRoom(slots, tenant[r])
    /\ Move(r, "new", "turned away")
    /\ UNCHANGED <<slots, world, inputs, local, chain, errors>>

--------------------------------------------------------------------------------
(* Stage 3: the world state and the two fetches, each at its own instant *)

WorldIsStale == world.age > MaxAge

\* Mutant: the snapshot is handed out whatever its age.
TakeSnapshotUnchecked(r) ==
    /\ Move(r, "admitted", "snapped")
    /\ seen' = [seen EXCEPT ![r] = [revision |-> world.revision, age |-> world.age]]
    /\ UNCHANGED <<slots, world, inputs, backends, chosen, reported, observed, chain, errors>>

TakeSnapshot(r) ==
    /\ ~WorldIsStale
    /\ Move(r, "admitted", "snapped")
    /\ seen' = [seen EXCEPT ![r] = [revision |-> world.revision, age |-> world.age]]
    /\ UNCHANGED <<slots, world, inputs, backends, chosen, reported, observed, chain, errors>>

\* Err(StaleWorldState)
SnapshotFails(r) ==
    /\ WorldIsStale
    /\ Move(r, "admitted", "leaving")
    /\ UNCHANGED <<slots, world, inputs, local, chain, errors>>

\* A request that sets force_stale_world_state
ForcedStale(r) ==
    /\ ~WorldIsStale
    /\ Move(r, "admitted", "leaving")
    /\ reported' = [reported EXCEPT ![r] = world.revision]
    /\ UNCHANGED <<slots, world, inputs, seen, backends, chosen, observed, chain, errors>>

\* A store that cannot answer stands for an empty registry (unwrap_or_default).
FetchRegistry(r) ==
    /\ Move(r, "snapped", "fetched")
    /\ \E got \in {registry, NothingDeclared} : backends' = [backends EXCEPT ![r] = got]
    /\ UNCHANGED <<slots, world, inputs, seen, chosen, reported, observed, chain, errors>>

--------------------------------------------------------------------------------
(* Stages 4 to 8: the capacity snapshot, candidates, firewall, selection *)

Supports(snapshot) == {b \in Backend : snapshot[b] = "supporting"}

\* CapacitySnapshot::evaluate
EligibleNodes == {n \in Node : capacity[n] = "fit"}

Candidates(r) == Supports(backends[r]) \X EligibleNodes

\* evaluate_candidate rejects every candidate once the snapshot has grown too old.
Approved(r) == IF seen[r].age > FirewallAge THEN {} ELSE Candidates(r)

\* KvDecisionInput::decide: Recompute, or Transfer when the telemetry makes it worth
\* while; the latter goes through the KV transport, if there is one.
KvSteps == {"transfer", "execute"}

Select(r) ==
    /\ phase[r] = "fetched"
    /\ \E c \in Approved(r) : chosen' = [chosen EXCEPT ![r] = c]
    /\ \E next \in KvSteps : phase' = [phase EXCEPT ![r] = next]
    /\ backends' = [backends EXCEPT ![r] = NothingDeclared]
    /\ UNCHANGED <<slots, world, inputs, seen, reported, observed, chain, errors>>

\* No backend is declared, the capacity snapshot could not be had, or none of the
\* candidates is within the limits of the request and of the firewall.
NoCandidate(r) ==
    /\ Move(r, "fetched", "leaving")
    /\ reported' = [reported EXCEPT ![r] = seen[r].revision]
    /\ UNCHANGED <<slots, world, inputs, seen, backends, chosen, observed, chain, errors>>

--------------------------------------------------------------------------------
(* Stage 9: external transports *)

TransferKv(r) ==
    /\ Move(r, "transfer", "execute")
    /\ UNCHANGED <<slots, world, inputs, local, chain, errors>>

Execute(r) ==
    /\ Move(r, "execute", "executed")
    /\ UNCHANGED <<slots, world, inputs, local, chain, errors>>

\* A failed transfer or execution returns at once: no audit record, no feedback.
TransportFails(r) ==
    /\ phase[r] \in KvSteps
    /\ phase' = [phase EXCEPT ![r] = "leaving"]
    /\ reported' = [reported EXCEPT ![r] = seen[r].revision]
    /\ UNCHANGED <<slots, world, inputs, seen, backends, chosen, observed, chain, errors>>

AppendAudit(r) ==
    /\ Move(r, "executed", "audited")
    /\ chain' = Appended(chain, r, chosen[r][1])
    /\ UNCHANGED <<slots, world, inputs, local, errors>>

--------------------------------------------------------------------------------
(* Stage 10: feedback *)

\* What the observation of r says of the shared state: the backend and the node observed
Observation(r) == chosen[r]

\* Mutant: the outcome reports the revision after the snapshot's.
IngestReportsSnapshot(r) ==
    /\ Move(r, "audited", "ingested")
    /\ world' = [revision |-> world.revision + 1, age |-> 0,
                 known |-> world.known \cup {Observation(r)}]
    /\ reported' = [reported EXCEPT ![r] = seen[r].revision + 1]
    /\ observed' = observed \cup {r}
    /\ UNCHANGED <<slots, inputs, seen, backends, chosen, chain, errors>>

Ingest(r) ==
    /\ Move(r, "audited", "ingested")
    /\ world' = [revision |-> world.revision + 1, age |-> 0,
                 known |-> world.known \cup {Observation(r)}]
    /\ reported' = [reported EXCEPT ![r] = world.revision + 1]
    /\ observed' = observed \cup {r}
    /\ UNCHANGED <<slots, inputs, seen, backends, chosen, chain, errors>>

\* An observation that does not validate changes nothing; the outcome then carries
\* a revision made up from the snapshot (unwrap_or).
IngestRejected(r) ==
    /\ Move(r, "audited", "unobserved")
    /\ reported' = [reported EXCEPT ![r] = seen[r].revision + 1]
    /\ UNCHANGED <<slots, world, inputs, seen, backends, chosen, observed, chain, errors>>

\* PredictionErrorTracker::record drops the oldest entry of a full tracker.
OneMoreError == IF errors < MaxErrors THEN errors + 1 ELSE errors

RecordError(r) ==
    /\ phase[r] \in {"ingested", "unobserved"}
    /\ phase' = [phase EXCEPT ![r] = "leaving"]
    /\ errors' = OneMoreError
    /\ UNCHANGED <<slots, world, inputs, local, chain>>

\* The end of process_request: its locals go, and Drop for AdmissionPermit runs, on
\* every way out.
Release(r) ==
    /\ Move(r, "leaving", "done")
    /\ slots' = AfterRelease(slots, tenant[r])
    /\ seen' = [seen EXCEPT ![r] = Unset]
    /\ backends' = [backends EXCEPT ![r] = NothingDeclared]
    /\ chosen' = [chosen EXCEPT ![r] = None]
    /\ UNCHANGED <<world, inputs, reported, observed, chain, errors>>

--------------------------------------------------------------------------------
(* Around the requests *)

\* BackendRegistry::register and CapacitySnapshot::register refuse an id they know.
RegisterBackend(b, declares) ==
    /\ registry[b] = "absent"
    /\ registry' = [registry EXCEPT ![b] = declares]
    /\ UNCHANGED <<tenant, phase, slots, world, capacity, local, chain, errors>>

RegisterNode(n, meets) ==
    /\ capacity[n] = "absent"
    /\ capacity' = [capacity EXCEPT ![n] = meets]
    /\ UNCHANGED <<tenant, phase, slots, world, registry, local, chain, errors>>

\* The system clock (external)
Tick ==
    /\ world' = [world EXCEPT !.age = Older(@)]
    /\ seen' = [r \in Request |-> IF phase[r] \in PastSnapshot
                                   THEN [seen[r] EXCEPT !.age = Older(@)] ELSE seen[r]]
    /\ UNCHANGED <<phase, slots, inputs, backends, chosen, reported, observed, chain, errors>>

Process(r) ==
    \/ CredentialsFail(r) \/ Admit(r) \/ AdmissionRejects(r)
    \/ TakeSnapshot(r) \/ SnapshotFails(r) \/ ForcedStale(r) \/ FetchRegistry(r)
    \/ Select(r) \/ NoCandidate(r)
    \/ TransferKv(r) \/ Execute(r) \/ TransportFails(r) \/ AppendAudit(r)
    \/ Ingest(r) \/ IngestRejected(r) \/ RecordError(r) \/ Release(r)

Next ==
    \/ \E r \in Request : Process(r)
    \/ \E b \in Backend, declares \in {"declared", "supporting"} :
         RegisterBackend(b, declares)
    \/ \E n \in Node, meets \in {"unfit", "fit"} : RegisterNode(n, meets)
    \/ Tick

Spec == Init /\ [][Next]_vars

--------------------------------------------------------------------------------
(* Properties *)

\* The state has its shape: in particular the total never leaves 0..global_in_flight
\* (admit tests before it adds), and the ring and the tracker keep their capacity.
TypeOK ==
    /\ tenant \in [Request -> Tenant]
    /\ phase \in [Request -> Holding \cup {"new", "turned away", "done"}]
    /\ slots.policy \in AdmissionPolicies /\ slots.total \in 0..slots.policy.global
    /\ slots.perTenant \in UNION {[S -> 1..slots.policy.tenant] : S \in SUBSET Tenant}
    /\ world.revision \in 0..Cardinality(Request) /\ world.age \in 0..AgeCap
    /\ world.known \subseteq Backend \X Node
    /\ registry \in [Backend -> {"absent", "declared", "supporting"}]
    /\ capacity \in [Node -> {"absent", "unfit", "fit"}]
    /\ seen \in [Request -> [revision : 0..world.revision, age : 0..AgeCap]]
    /\ backends \in [Request -> [Backend -> {"absent", "declared", "supporting"}]]
    /\ chosen \in [Request -> (Backend \X Node) \cup {None}]
    /\ Len(chain) <= MaxRecords /\ errors \in 0..MaxErrors
    /\ reported \in [Request -> 0..(world.revision + 1)]
    /\ observed \subseteq Request

\* No permit leaks and none is given back twice: whichever of the early returns of
\* process_request a request takes, the two counts are those of the requests inside.
SlotsMatchPermits ==
    /\ slots.total = Cardinality(Holders)
    /\ DOMAIN slots.perTenant = {tenant[r] : r \in Holders}
    /\ \A t \in DOMAIN slots.perTenant :
        slots.perTenant[t] = Cardinality({r \in Holders : tenant[r] = t})

\* verify_integrity accepts the audit chain whatever requests append to it in whatever
\* order, and however many records the ring has dropped.
AuditChainVerifies == VerifiesIntegrity(chain)

\* Revisions are those of the world, however requests overlap: the outcomes whose
\* observation ingest accepted report each revision exactly once, and each of them a
\* revision later than the snapshot the decision was made on.
RevisionsAreExact ==
    /\ {reported[r] : r \in observed} = 1..world.revision
    /\ Cardinality(observed) = world.revision
    /\ \A r \in observed : reported[r] > seen[r].revision

\* A stale world with no request past its snapshot
StaleAndIdle == WorldIsStale /\ \A r \in Request : phase[r] \notin PastSnapshot

\* Staleness feeds on itself: process_request is the only caller of ingest, so once the
\* world is stale and no request is past its snapshot, no later request ever is.
StaleWhenIdleIsFinal == [][StaleAndIdle => StaleAndIdle']_vars
==============================================================================
