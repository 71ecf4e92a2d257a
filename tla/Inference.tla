------------------------------ MODULE Inference ------------------------------
(***************************************************************************)
(* Feasibility, scoring and choice of an inference candidate               *)
(* (src/inference.rs, try_decide) as operators on sequences.               *)
(*                                                                         *)
(* Numbers are integers: a ratio of 1.0 is Unit, NaN is a value above all  *)
(* others, as f64::total_cmp orders it, and the negative ones stand for    *)
(* themselves and for the infinities.                                      *)
(***************************************************************************)
EXTENDS Integers, SequencesExt

CONSTANTS
    Unit, \* the integer 1.0 stands for, in ratios and in normalised amounts
    NaN

ASSUME InferenceAssumption == Unit \in Nat \ {0} /\ NaN \in Nat /\ NaN > Unit

KvStrategy == {"None", "PrefixCache", "CachedKv", "CrossModelKvTransfer"}

\* The derived order of the enum
StrategyRank(s) ==
    CASE s = "None"                 -> 0
      [] s = "PrefixCache"          -> 1
      [] s = "CachedKv"             -> 2
      [] s = "CrossModelKvTransfer" -> 3

\* InferenceCandidate
Estimate ==
    [model : Nat, strategy : KvStrategy, latency : Int, cost : Int, failure : Int,
     quality : Int]

RejectionReason ==
    {"InvalidEstimate", "LatencyConstraint", "CostConstraint", "QualityConstraint",
     "InvalidPlanningConfig"}

Valid(v) == v # NaN /\ v >= 0

\* InferenceConstraints::validate
ValidConstraints(c) ==
    Valid(c.maxLatency) /\ Valid(c.maxCost) /\ Valid(c.minQuality) /\ c.minQuality <= Unit

\* ObjectiveWeights::validate
ValidWeights(w) ==
    LET all == {w.latency, w.cost, w.reliability, w.quality}
    IN  (\A v \in all : Valid(v)) /\ (\E v \in all : v # 0)

--------------------------------------------------------------------------------
\* Lexicographic order of integer tuples of one length: Ordering::then_with
LexLess(s, t) ==
    \E i \in DOMAIN s : s[i] < t[i] /\ \A j \in 1..(i - 1) : s[j] = t[j]

\* candidate_order
EstimateKey(e) ==
    <<e.model, StrategyRank(e.strategy), e.latency, e.cost, e.failure, e.quality>>

\* PartialEq on the candidates: a NaN is equal to nothing, itself included
SameEstimate(e, f) ==
    e = f /\ NaN \notin {e.latency, e.cost, e.failure, e.quality}

\* normalized
Normalized(value, ceiling) == IF ceiling = 0 THEN 0 ELSE (Unit * value) \div ceiling

Score(e, c, w) ==
    w.latency * Normalized(e.latency, c.maxLatency)
    + w.cost * Normalized(e.cost, c.maxCost)
    + w.reliability * e.failure
    + w.quality * (Unit - e.quality)

Accepted == "Accepted"

ValidEstimate(e) ==
    /\ Valid(e.latency) /\ Valid(e.cost) /\ Valid(e.failure) /\ Valid(e.quality)
    /\ e.failure <= Unit /\ e.quality <= Unit

\* Mutant: the cost is not looked at.
VerdictFreeOfCharge(e, c) ==
    IF ~ValidEstimate(e) THEN "InvalidEstimate"
    ELSE IF e.latency > c.maxLatency THEN "LatencyConstraint"
    ELSE IF e.quality < c.minQuality THEN "QualityConstraint"
    ELSE Accepted

\* The first test an estimate fails
Verdict(e, c) ==
    IF ~ValidEstimate(e) THEN "InvalidEstimate"
    ELSE IF e.latency > c.maxLatency THEN "LatencyConstraint"
    ELSE IF e.cost > c.maxCost THEN "CostConstraint"
    ELSE IF e.quality < c.minQuality THEN "QualityConstraint"
    ELSE Accepted

--------------------------------------------------------------------------------
\* fallback: the strategies below the chosen one, best first
Fallback(s) ==
    CASE s = "CrossModelKvTransfer" -> <<"CachedKv", "PrefixCache", "None">>
      [] s = "CachedKv"             -> <<"PrefixCache", "None">>
      [] s = "PrefixCache"          -> <<"None">>
      [] s = "None"                 -> << >>

\* The elements of s that are in S, in their order: Iterator::filter
Only(s, S) ==
    LET kept[i \in 0..Len(s)] ==
            IF i = 0 THEN << >>
            ELSE IF s[i] \in S THEN Append(kept[i - 1], s[i]) ELSE kept[i - 1]
    IN  kept[Len(s)]

\* x after all of t that it is not below of
Inserted(t, x, key) ==
    LET above == {y \in ToSet(t) : LexLess(key[x], key[y])}
    IN  Append(Only(t, ToSet(t) \ above), x) \o Only(t, above)

\* sort_by, which is stable
Sorted(s, key) ==
    LET upTo[i \in 0..Len(s)] == IF i = 0 THEN << >> ELSE Inserted(upTo[i - 1], s[i], key)
    IN  upTo[Len(s)]

NoneSelected == [found |-> FALSE]

\* Mutant: the feasible candidates are not sorted, the first one wins.
RankedAsGiven(feasible, c, w) == feasible

\* Cheapest score first, then candidate_order
Ranked(feasible, c, w) ==
    Sorted(feasible, [e \in ToSet(feasible) |-> <<Score(e, c, w)>> \o EstimateKey(e)])

\* try_decide
TryDecide(estimates, c, w) ==
    IF ~ValidConstraints(c) THEN [error |-> "InvalidConstraints"]
    ELSE IF ~ValidWeights(w) THEN [error |-> "InvalidObjective"]
    ELSE LET accepted == {e \in ToSet(estimates) : Verdict(e, c) = Accepted}
             turned   == ToSet(estimates) \ accepted
             feasible == Ranked(Only(estimates, accepted), c, w)
             refused  == Sorted(Only(estimates, turned), [e \in turned |-> EstimateKey(e)])
         IN  [error    |-> "none",
              rejected |-> [i \in DOMAIN refused |->
                               [estimate |-> refused[i], reason |-> Verdict(refused[i], c)]],
              selected |-> IF feasible = << >> THEN NoneSelected
                           ELSE [found |-> TRUE, estimate |-> Head(feasible),
                                 score |-> Score(Head(feasible), c, w),
                                 fallback |-> Fallback(Head(feasible).strategy)]]
==============================================================================
