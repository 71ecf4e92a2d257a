--------------------------- MODULE MCShortestPath ---------------------------
(***************************************************************************)
(* Four nodes: the direct edge a-d is dear, b and c lie on cheaper ways, a *)
(* cycle a-b-a costs nothing, one edge is invalid and one disabled.        *)
(***************************************************************************)
EXTENDS ShortestPath

CONSTANTS a, b, c, d

MCEdge(x, y, base, dollar) ==
    [from |-> x, to |-> y, base |-> base, dollar |-> dollar, latency |-> 0,
     risk |-> 0, enabled |-> TRUE]

MCEdges ==
    {MCEdge(a, b, 0, 0), MCEdge(b, a, 0, 0),
     MCEdge(a, c, 2, 1), MCEdge(b, c, 1, 0),
     MCEdge(c, d, 1, 0), MCEdge(a, d, 0, 3), MCEdge(b, d, 0, 2),
     [MCEdge(a, c, 0, 0) EXCEPT !.risk = -1],
     [MCEdge(b, d, 0, 0) EXCEPT !.enabled = FALSE, !.latency = 1]}

MCModels ==
    {[DefaultModel EXCEPT !.wBase = 4, !.wDollar = 1],
     [DefaultModel EXCEPT !.maxDollar = 0]}

MCHealth ==
    {[state |-> "Healthy", drag |-> 0], [state |-> "Degraded", drag |-> 1],
     [state |-> "Open", drag |-> 1], [state |-> "HalfOpen", drag |-> 1]}

MCKey(x, y) == [start |-> x, goal |-> y]
MCRequests == {MCKey(a, d), MCKey(d, d)}
==============================================================================
