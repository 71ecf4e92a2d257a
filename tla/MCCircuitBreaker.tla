--------------------------- MODULE MCCircuitBreaker ---------------------------
(***************************************************************************)
(* The breaker under the shipped default policy and under every small      *)
(* policy, the invalid ones (refused by validate) included.                *)
(***************************************************************************)
EXTENDS CircuitBreaker

MCDefaultPolicy ==
    [open |-> 5, degraded |-> 2, halfOpenNeeded |-> 3, degradedNeeded |-> 2,
     cooldown |-> 3]

MCPolicies ==
    {MCDefaultPolicy} \cup
    [open : 0..3, degraded : 0..3, halfOpenNeeded : 0..2, degradedNeeded : {1, 2},
     cooldown : {0, 2}]
==============================================================================
