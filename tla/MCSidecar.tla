------------------------------ MODULE MCSidecar ------------------------------
(***************************************************************************)
(* Three requests on a bucket of two tokens that refills at four thirds    *)
(* of a token per tick, in mixes that cover every endpoint.                *)
(***************************************************************************)
EXTENDS Sidecar

CONSTANTS r1, r2, r3

MCMix(x, y, z) == r1 :> x @@ r2 :> y @@ r3 :> z
MCMixes ==
    {MCMix("route", "batch", "result"), MCMix("plan", "batch", "force"),
     MCMix("route", "plan", "metrics")}
MCRoutes == {MCMix("route", "route", "metrics")}
==============================================================================
