------------------------------ MODULE MCPipeline ------------------------------
(***************************************************************************)
(* Three requests of two tenants, in any split, under a policy whose       *)
(* limit for a tenant is the global one and under one where it is lower:   *)
(* either test may reject the third, and the audit ring keeps only two.    *)
(***************************************************************************)
EXTENDS Pipeline, TLC

MCPolicies == [global : {2}, tenant : {1, 2}]

\* Digests that never collide
MCHash(event, previous, actor) == <<event, previous, actor>>

\* No action and no property tells one request, or one tenant, from another.
MCSymmetry == Permutations(Request) \cup Permutations(Tenant)
==============================================================================
