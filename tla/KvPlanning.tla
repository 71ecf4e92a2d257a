------------------------------ MODULE KvPlanning ------------------------------
(***************************************************************************)
(* Planning with KV reuse: the model and compatibility registries and the  *)
(* choice of a KV strategy (src/kv.rs), the versioned snapshot of both     *)
(* (src/control_plane.rs), the planner that turns a routing decision into  *)
(* an execution plan (src/planner.rs) and the recovery plan of an          *)
(* escalation (src/escalation.rs).                                         *)
(*                                                                         *)
(* A planner owns the copy it was built with: the registries grow on while *)
(* plans are made from the snapshot.  Identifiers and versions are         *)
(* numbers, 0 an invalid one; a ratio of 1.0 is Unit; measurements that    *)
(* are not finite are represented by -1, unknown ones by Unknown.          *)
(***************************************************************************)
EXTENDS Integers, Sequences, FiniteSets, FiniteSetsExt

CONSTANTS
    Unit,
    ModelInputs,    \* bound: metadata offered to ModelRegistry::register
    RecordInputs,   \* bound: records offered to KvCompatibilityRegistry::register
    PolicyInputs,   \* bound: policies assigned
    DefaultPolicy,  \* KvPolicy::default()
    Contexts,       \* bound: KvPlanningContexts asked for
    RouteInputs,    \* bound: what the router answers (external)
    MaxSteps,       \* the planner's max_steps
    MaxRecovery     \* the recovery adapter's max_steps

Unknown == -2

KvStrategy == {"None", "PrefixCache", "CachedKv", "CrossModelKvTransfer"}
ModelRef == [id : Nat, version : Nat]
Metadata == [model : ModelRef, layout : Nat, strategies : SUBSET KvStrategy]
Record ==
    [source : ModelRef, target : ModelRef, supported : BOOLEAN,
     mapping : Nat \cup {Unknown}, samples : Nat \cup {Unknown},
     quality : Int, variance : Int, failure : Int, confidence : Int, p50 : Int, p95 : Int]
Policy == [minQuality : Int, maxVariance : Int, minConfidence : Int, maxFailure : Int]
Context == [target : ModelRef, source : ModelRef, requested : KvStrategy]

ASSUME KvAssumption ==
    /\ Unit \in Nat \ {0}
    /\ MaxSteps \in 1..64          \* clamp(1, MAX_EXECUTION_PLAN_STEPS)
    /\ MaxRecovery \in Nat \ {0}   \* max(1)

\* The declared types of what is offered: floats may be anything, the rest is unsigned.
ASSUME KvInputAssumption ==
    /\ ModelInputs \subseteq Metadata /\ RecordInputs \subseteq Record
    /\ PolicyInputs \subseteq Policy /\ DefaultPolicy \in Policy
    /\ Contexts \subseteq Context

VARIABLES
    live,     \* KvIntelligence as its owner keeps it
    planner,  \* the snapshot the planner was built with
    reply     \* the last planning call's answer

kvVars == <<live, planner, reply>>

NoSource == [id |-> 0, version |-> 0]
NoReply == [outcome |-> "none"]
NoEntry == [x \in {} |-> x]

Put(f, k, v) == [x \in DOMAIN f \cup {k} |-> IF x = k THEN v ELSE f[x]]

--------------------------------------------------------------------------------
(* The registries *)

ValidModel(m) == m.id # 0 /\ m.version # 0

\* Mutant: a second registration replaces the first.
RegisterModelOver(m) ==
    /\ ValidModel(m.model) /\ m.layout # 0
    /\ "None" \notin m.strategies
    /\ live' = [live EXCEPT !.models = Put(@, m.model, m), !.modelRevision = @ + 1]
    /\ live.modelRevision < 3
    /\ reply' = NoReply
    /\ UNCHANGED planner

\* ModelRegistry::register
RegisterModel(m) ==
    /\ ValidModel(m.model) /\ m.layout # 0
    /\ "None" \notin m.strategies
    /\ m.model \notin DOMAIN live.models
    /\ live' = [live EXCEPT !.models = Put(@, m.model, m), !.modelRevision = @ + 1]
    /\ reply' = NoReply
    /\ UNCHANGED planner

Known(v) == v # Unknown
ValidRatio(v) == Known(v) => v \in 0..Unit
ValidAmount(v) == Known(v) => v >= 0

\* KvCompatibilityRecord::validate
ValidRecord(r) ==
    /\ r.source # r.target /\ ValidModel(r.source) /\ ValidModel(r.target)
    /\ r.supported => Known(r.mapping)
    /\ Known(r.mapping) => r.mapping # 0
    /\ \A v \in {r.quality, r.failure, r.confidence} : ValidRatio(v)
    /\ \A v \in {r.variance, r.p50, r.p95} : ValidAmount(v)
    /\ r.samples # 0
    /\ Known(r.p50) /\ Known(r.p95) => r.p95 >= r.p50

\* Mutant: registering a record does not count as a new revision.
RegisterCompatibilityUncounted(r) ==
    /\ ValidRecord(r)
    /\ <<r.source, r.target>> \notin DOMAIN live.compatibility
    /\ live' = [live EXCEPT !.compatibility = Put(@, <<r.source, r.target>>, r)]
    /\ reply' = NoReply
    /\ UNCHANGED planner

\* KvCompatibilityRegistry::register
RegisterCompatibility(r) ==
    /\ ValidRecord(r)
    /\ <<r.source, r.target>> \notin DOMAIN live.compatibility
    /\ live' = [live EXCEPT !.compatibility = Put(@, <<r.source, r.target>>, r),
                            !.compatibilityRevision = @ + 1]
    /\ reply' = NoReply
    /\ UNCHANGED planner

\* KvIntelligence.policy is a public field: its owner assigns any policy, valid or not, and
\* nothing counts the change.
SetPolicy(p) ==
    /\ live' = [live EXCEPT !.policy = p]
    /\ reply' = NoReply
    /\ UNCHANGED planner

\* KvPolicy::validate
ValidPolicy(p) ==
    \A v \in {p.minQuality, p.maxVariance, p.minConfidence, p.maxFailure} : v \in 0..Unit

--------------------------------------------------------------------------------
(* KvIntelligence::select *)

\* ModelRegistry::lookup, the error
LookupError(kv, m) ==
    IF \E x \in DOMAIN kv.models : x.id = m.id THEN "UnknownVersion" ELSE "UnknownModel"

\* ModelCapabilities::supports
SupportsKv(metadata, strategy) == strategy = "None" \/ strategy \in metadata.strategies

\* KvIntelligence::normal
Normal(kv) ==
    [strategy |-> "None", target |-> NoSource, source |-> NoSource, mapping |-> Unknown,
     modelRevision |-> kv.modelRevision,
     compatibilityRevision |-> kv.compatibilityRevision, fallback |-> "none"]

FallbackTo(kv, c, reason) ==
    [Normal(kv) EXCEPT !.target = c.target, !.source = c.source, !.fallback = reason]

Reuse(kv, c, mapping) ==
    [Normal(kv) EXCEPT !.strategy = c.requested, !.target = c.target,
                       !.source = c.source, !.mapping = mapping]

Measurements(r) ==
    {r.mapping, r.quality, r.variance, r.failure, r.samples, r.confidence, r.p50, r.p95}

\* Mutant: the confidence may be missing.
TransferDoubtUnsure(r, p) ==
    IF ~r.supported THEN "CompatibilityNotSupported"
    ELSE IF Unknown \in {r.mapping, r.quality, r.variance, r.failure, r.samples, r.p50, r.p95}
         THEN "MeasurementsUnknown"
    ELSE IF r.quality < p.minQuality THEN "InsufficientQuality"
    ELSE IF r.variance > p.maxVariance THEN "ExcessQualityVariance"
    ELSE IF Known(r.confidence) /\ r.confidence < p.minConfidence THEN "InsufficientConfidence"
    ELSE IF r.failure > p.maxFailure THEN "UnreliableTransfer"
    ELSE "none"

\* The first thing that speaks against a transfer by record r
TransferDoubt(r, p) ==
    IF ~r.supported THEN "CompatibilityNotSupported"
    ELSE IF Unknown \in Measurements(r) \/ r.samples = 0 THEN "MeasurementsUnknown"
    ELSE IF r.quality < p.minQuality THEN "InsufficientQuality"
    ELSE IF r.variance > p.maxVariance THEN "ExcessQualityVariance"
    ELSE IF r.confidence < p.minConfidence THEN "InsufficientConfidence"
    ELSE IF r.failure > p.maxFailure THEN "UnreliableTransfer"
    ELSE "none"

SourceError(e) ==
    IF e = "UnknownVersion" THEN "UnknownSourceVersion" ELSE "UnknownSourceModel"

SelectTransfer(kv, c) ==
    LET pair == <<c.source, c.target>>
    IN  IF c.source = NoSource THEN FallbackTo(kv, c, "MissingSource")
        ELSE IF c.source \notin DOMAIN kv.models
             THEN FallbackTo(kv, c, SourceError(LookupError(kv, c.source)))
        ELSE IF ~SupportsKv(kv.models[c.source], c.requested)
             THEN FallbackTo(kv, c, "UnsupportedStrategy")
        ELSE IF pair \notin DOMAIN kv.compatibility
             THEN FallbackTo(kv, c, "CompatibilityUnknown")
        ELSE IF TransferDoubt(kv.compatibility[pair], kv.policy) # "none"
             THEN FallbackTo(kv, c, TransferDoubt(kv.compatibility[pair], kv.policy))
        ELSE Reuse(kv, c, kv.compatibility[pair].mapping)

Select(kv, c) ==
    IF ~ValidPolicy(kv.policy) THEN FallbackTo(kv, c, "InvalidPolicy")
    ELSE IF c.target \notin DOMAIN kv.models THEN FallbackTo(kv, c, LookupError(kv, c.target))
    ELSE IF c.requested = "None" THEN Normal(kv)
    ELSE IF ~SupportsKv(kv.models[c.target], c.requested)
         THEN FallbackTo(kv, c, "UnsupportedStrategy")
    ELSE IF c.requested # "CrossModelKvTransfer" THEN Reuse(kv, c, Unknown)
    ELSE SelectTransfer(kv, c)

--------------------------------------------------------------------------------
(* The snapshot and the planner *)

\* ControlPlaneVersions, as ControlPlaneSnapshot::new fills them in.  The others (graph,
\* health, policy, capacity, planner) are numbers its caller gives.
Versions(kv) == [models |-> kv.modelRevision, kv |-> kv.compatibilityRevision]

\* is_current_for, where the caller gives both snapshots the same numbers
IsCurrent(kv, other) == Versions(kv) = Versions(other)

\* A planner is built (with_kv_intelligence) with a copy of the registries.
Capture ==
    /\ planner' = live
    /\ reply' = NoReply
    /\ UNCHANGED live

\* EscalationAdapter::plan: one step for each blocked node, and the question for an
\* alternative if there is room
RecoverySteps(blocked) ==
    LET inspect == Min({Len(blocked), MaxRecovery})
    IN  Min({inspect + 1, MaxRecovery})

\* Planner::plan_with_kv: the routing request is checked, routed, and an executable plan
\* gets its KV strategy from the planner's copy (plan alone leaves it at Normal).  The
\* test of the route's score never fires: a route's cost is a sum of finite
\* non-negative ones (AnswerIsCheapest).
PlanInvalid(route) ==
    /\ route.type = "InvalidRequest"
    /\ reply' = [outcome |-> "InvalidRequest"]
    /\ UNCHANGED <<live, planner>>

PlanTooLong(route) ==
    /\ route.type = "Routed" /\ route.nodes > MaxSteps
    /\ reply' = [outcome |-> "RouteExceedsStepLimit", steps |-> route.nodes]
    /\ UNCHANGED <<live, planner>>

PlanExecute(route, c) ==
    /\ route.type = "Routed" /\ route.nodes <= MaxSteps
    /\ reply' = [outcome |-> "Execute", steps |-> route.nodes, context |-> c,
                 kv |-> Select(planner, c)]
    /\ UNCHANGED <<live, planner>>

PlanRecover(route) ==
    /\ route.type = "Escalate"
    /\ reply' = [outcome |-> "Recover", steps |-> RecoverySteps(route.blocked)]
    /\ UNCHANGED <<live, planner>>

Empty ==
    [models |-> NoEntry, modelRevision |-> 0, compatibility |-> NoEntry,
     compatibilityRevision |-> 0, policy |-> DefaultPolicy]

KvInit == live = Empty /\ planner = Empty /\ reply = NoReply

KvNext ==
    \/ \E m \in ModelInputs : RegisterModel(m)
    \/ \E r \in RecordInputs : RegisterCompatibility(r)
    \/ \E p \in PolicyInputs : SetPolicy(p)
    \/ Capture
    \/ \E route \in RouteInputs : PlanInvalid(route)
    \/ \E route \in RouteInputs : PlanTooLong(route)
    \/ \E route \in RouteInputs, c \in Contexts : PlanExecute(route, c)
    \/ \E route \in RouteInputs : PlanRecover(route)

KvSpec == KvInit /\ [][KvNext]_kvVars

--------------------------------------------------------------------------------
Measured(r) == \A v \in Measurements(r) : v >= 0

TransferEarned(kv, c) ==
    /\ c.source \in DOMAIN kv.models
    /\ "CrossModelKvTransfer" \in kv.models[c.source].strategies
    /\ <<c.source, c.target>> \in DOMAIN kv.compatibility
    /\ LET r == kv.compatibility[<<c.source, c.target>>]
       IN  /\ r.supported /\ Measured(r) /\ r.samples > 0
           /\ r.quality >= kv.policy.minQuality /\ r.variance <= kv.policy.maxVariance
           /\ r.confidence >= kv.policy.minConfidence /\ r.failure <= kv.policy.maxFailure

\* "Unknown measurements never imply reuse" (kv.rs): KV state is reused in a plan exactly
\* when the planner's copy speaks for it: the target can do it and, for a transfer
\* between models, so can the source, the pair has been measured in every respect
\* and every measurement is within the policy.  Otherwise the plan says why not.
ReuseIsEarned ==
    reply.outcome = "Execute" =>
        LET c      == reply.context
            earned == /\ c.requested # "None"
                      /\ ValidPolicy(planner.policy)
                      /\ c.target \in DOMAIN planner.models
                      /\ c.requested \in planner.models[c.target].strategies
                      /\ c.requested = "CrossModelKvTransfer" => TransferEarned(planner, c)
        IN  /\ reply.kv.strategy = IF earned THEN c.requested ELSE "None"
            /\ earned => reply.kv.fallback = "none"
            /\ ~earned /\ c.requested # "None" => reply.kv.fallback # "none"

\* Two snapshots of one lineage that is_current_for calls equal decide alike under one
\* policy, whatever is asked: the revisions that ControlPlaneSnapshot::new fills in
\* count every change of a registry (register).  They say nothing of the policy:
\* whoever assigns it gives its version, or forgets to.
VersionsIdentifyDecisions ==
    IsCurrent(planner, live) /\ planner.policy = live.policy =>
        \A c \in Contexts : Select(planner, c) = Select(live, c)

Revokes(c) ==
    /\ Select(live, c).strategy # "None"
    /\ \/ Select(live', c).strategy # Select(live, c).strategy
       \/ Select(live', c).mapping # Select(live, c).mapping

\* Registering more never takes a reuse back: entries are not replaced, so under one
\* policy what was selected stays selected, with the mapping it was selected with.
GrowthNeverRevokes ==
    [][live'.policy = live.policy => \A c \in Contexts : ~Revokes(c)]_kvVars
==============================================================================
