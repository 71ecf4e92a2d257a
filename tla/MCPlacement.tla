----------------------------- MODULE MCPlacement -----------------------------
(***************************************************************************)
(* Two nodes and two backends that may or may not be registered, or be     *)
(* registered in a form a request cannot use, and placements that fail at  *)
(* each gate, share an estimate, tie in score or carry a NaN.              *)
(***************************************************************************)
EXTENDS Placement

MCNode(id) ==
    [id |-> id, region |-> "eu", accelerator |-> "gpu", healthy |-> TRUE, models |-> {1},
     total |-> 2, available |-> 2, utilization |-> 0, queue |-> 0]
MCNodes ==
    {MCNode(1), MCNode(2), [MCNode(1) EXCEPT !.healthy = FALSE],
     [MCNode(2) EXCEPT !.region = "us"], [MCNode(2) EXCEPT !.available = 1, !.queue = 2],
     [MCNode(2) EXCEPT !.models = {2}],
     [MCNode(1) EXCEPT !.available = 3], [MCNode(1) EXCEPT !.region = ""],
     [MCNode(2) EXCEPT !.accelerator = ""]}

MCBackend(id, strategies) ==
    [id |-> id, name |-> id, version |-> 1, capabilities |-> [m \in {1} |-> strategies]]
MCBackends ==
    {MCBackend(1, {"None", "CachedKv"}), MCBackend(2, {"None"}),
     [MCBackend(2, {"None"}) EXCEPT !.name = 1], MCBackend(1, {}),
     [MCBackend(1, {"None"}) EXCEPT !.version = 0]}

MCEstimate(latency, cost) ==
    [model |-> 1, strategy |-> "None", latency |-> latency, cost |-> cost,
     failure |-> 0, quality |-> 4]
MCAt(backend, node, estimate) == [backend |-> backend, node |-> node, estimate |-> estimate]
MCCandidates ==
    {MCAt(1, 1, MCEstimate(1, 1)), MCAt(2, 2, MCEstimate(1, 1)),
     MCAt(2, 1, MCEstimate(2, 0)), MCAt(1, 2, [MCEstimate(0, 2) EXCEPT !.strategy = "CachedKv"]),
     MCAt(1, 1, MCEstimate(9, 0)), MCAt(2, 2, MCEstimate(9, 0)),
     MCAt(1, 2, MCEstimate(0, 9)), MCAt(1, 1, MCEstimate(NaN, 0)),
     MCAt(0, 1, MCEstimate(1, 1)), MCAt(2, 1, [MCEstimate(1, 1) EXCEPT !.model = 2]),
     MCAt(1, 2, [MCEstimate(0, 0) EXCEPT !.quality = 1])}

MCRequirement == [model |-> 1, region |-> "eu", minMemory |-> 2, maxQueue |-> 1]
MCConstraints == [maxLatency |-> 4, maxCost |-> 4, minQuality |-> 2]
MCWeights == [latency |-> 1, cost |-> 1, reliability |-> 1, quality |-> 1]
MCAsk == [requirement |-> MCRequirement, constraints |-> MCConstraints, weights |-> MCWeights]
MCAsks ==
    {MCAsk, [MCAsk EXCEPT !.weights.cost = -1],
     [MCAsk EXCEPT !.requirement.region = AnyRegion, !.requirement.minMemory = 1,
                   !.weights.latency = 2, !.constraints.minQuality = 0]}
==============================================================================
