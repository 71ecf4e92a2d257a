------------------------------- MODULE MCRouter -------------------------------
(***************************************************************************)
(* A triangle: a to c directly or over b, and two clients.  The node       *)
(* reported on, b, is a start, a goal and a way through.                   *)
(***************************************************************************)
EXTENDS Router

CONSTANTS a, b, c

MCHop(x, y) == [from |-> x, to |-> y, usable |-> TRUE]
MCEdges == {MCHop(a, b), MCHop(b, c), MCHop(a, c)}
MCKey(x, y) == [start |-> x, goal |-> y]
MCRequests == {MCKey(a, c), MCKey(b, c), MCKey(a, b)}

MCDefaultPolicy ==
    [open |-> 2, degraded |-> 1, halfOpenNeeded |-> 1, degradedNeeded |-> 1,
     cooldown |-> 1]
\* one that is accepted and one that validation refuses
MCPolicies ==
    {[MCDefaultPolicy EXCEPT !.open = 1], [MCDefaultPolicy EXCEPT !.degraded = 0]}

MCSymmetry == Permutations(Client)
==============================================================================
