------------------------------ MODULE ToolGraph ------------------------------
(***************************************************************************)
(* The tenant's graph of tools (src/lib.rs, Edge and ToolGraph) as far as  *)
(* feasibility goes: which paths route() may answer with.  Which of them   *)
(* is the cheapest is a matter of costs.                                   *)
(***************************************************************************)
EXTENDS Integers, Sequences, FiniteSets, Functions

CONSTANT Node

\* usable: enabled and is_valid(); an unusable edge is skipped by the search
Edge == [from : Node, to : Node, usable : BOOLEAN]

RouteKey == [start : Node, goal : Node]

\* Node sequences without repetition, the shape of every path the search rebuilds
Paths ==
    UNION {{p \in [1..n -> Node] : IsInjective(p)} : n \in 1..Cardinality(Node)}

\* One relaxation step: an enabled valid edge into a node whose penalty is finite.
\* Only the node being ENTERED is tested: an Open start node may still be left.
CanHop(edges, blocked, from, to) ==
    /\ to \notin blocked
    /\ \E e \in edges : e.from = from /\ e.to = to /\ e.usable

\* A path shortest_path may return for k: <<start>> when start = goal (known to the
\* graph or not), otherwise a chain of hops.
IsRoute(edges, blocked, k, p) ==
    /\ p[1] = k.start
    /\ p[Len(p)] = k.goal
    /\ \A i \in 1..(Len(p) - 1) : CanHop(edges, blocked, p[i], p[i + 1])

Routes(edges, blocked, k) == {p \in Paths : IsRoute(edges, blocked, k, p)}
==============================================================================
