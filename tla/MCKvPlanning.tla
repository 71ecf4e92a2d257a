----------------------------- MODULE MCKvPlanning -----------------------------
(***************************************************************************)
(* Two versions of model 1 and a model 2; records between them that are    *)
(* good, incomplete, out of policy or invalid.                             *)
(***************************************************************************)
EXTENDS KvPlanning

MCRef(id, version) == [id |-> id, version |-> version]
MCModel(ref, strategies) == [model |-> ref, layout |-> 1, strategies |-> strategies]
MCModels ==
    {MCModel(MCRef(1, 1), {"CachedKv", "CrossModelKvTransfer"}),
     MCModel(MCRef(2, 1), {"CrossModelKvTransfer"}), MCModel(MCRef(2, 1), {"PrefixCache"}),
     MCModel(MCRef(1, 2), {}), MCModel(MCRef(1, 2), {"None"}), MCModel(MCRef(1, 0), {})}

MCRecord ==
    [source |-> MCRef(2, 1), target |-> MCRef(1, 1), supported |-> TRUE, mapping |-> 1,
     quality |-> 3, variance |-> 0, p50 |-> 1, p95 |-> 2, failure |-> 0, samples |-> 5,
     confidence |-> 3]
MCRecords ==
    {MCRecord,
     [MCRecord EXCEPT !.supported = FALSE, !.mapping = Unknown, !.quality = Unknown],
     [MCRecord EXCEPT !.confidence = Unknown, !.mapping = 2],
     [MCRecord EXCEPT !.quality = 4, !.failure = 2, !.mapping = 3],
     [MCRecord EXCEPT !.variance = 2], [MCRecord EXCEPT !.confidence = 1],
     [MCRecord EXCEPT !.p95 = 0], [MCRecord EXCEPT !.samples = 0],
     [MCRecord EXCEPT !.source = MCRef(1, 1)]}

MCPolicy == [minQuality |-> 3, maxVariance |-> 1, minConfidence |-> 2, maxFailure |-> 1]
MCPolicies ==
    {MCPolicy, [MCPolicy EXCEPT !.minQuality = 4, !.maxFailure = 2],
     [MCPolicy EXCEPT !.maxFailure = -1], [MCPolicy EXCEPT !.minConfidence = 0]}

MCAsk(target, source, requested) ==
    [target |-> target, source |-> source, requested |-> requested]
MCContexts ==
    {MCAsk(MCRef(1, 1), MCRef(2, 1), "CrossModelKvTransfer"),
     MCAsk(MCRef(1, 1), NoSource, "CrossModelKvTransfer"),
     MCAsk(MCRef(1, 1), MCRef(2, 2), "CrossModelKvTransfer"),
     MCAsk(MCRef(2, 1), MCRef(1, 1), "CrossModelKvTransfer"),
     MCAsk(MCRef(1, 1), NoSource, "CachedKv"), MCAsk(MCRef(1, 2), NoSource, "CachedKv"),
     MCAsk(MCRef(2, 1), NoSource, "None")}

MCRoutes ==
    {[type |-> "Routed", nodes |-> 1], [type |-> "Routed", nodes |-> 3],
     [type |-> "Escalate", blocked |-> << >>], [type |-> "Escalate", blocked |-> <<1, 2>>],
     [type |-> "InvalidRequest"]}
==============================================================================
