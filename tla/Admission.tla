------------------------------ MODULE Admission ------------------------------
(***************************************************************************)
(* The in-process admission controller of src/admission.rs, as operators   *)
(* on the controller: its policy and, behind the mutex, the total and a    *)
(* map with the tenants that have work in flight.                          *)
(***************************************************************************)
EXTENDS Integers, Functions

CONSTANT AdmissionPolicies  \* policies a controller may be built with

\* AdmissionPolicy::validate, without which new() fails
Valid(policy) ==
    /\ {policy.global, policy.tenant} \subseteq Nat \ {0}
    /\ policy.tenant <= policy.global

ASSUME AdmissionAssumption ==
    /\ AdmissionPolicies # {}
    /\ \A policy \in AdmissionPolicies :
        policy \in [global : Nat, tenant : Nat] /\ Valid(policy)

NoneInFlight(policy) == [policy |-> policy, total |-> 0, perTenant |-> [t \in {} |-> 0]]

TenantCount(slots, t) ==
    IF t \in DOMAIN slots.perTenant THEN slots.perTenant[t] ELSE 0

\* Mutant: the limits are compared with > instead of >=.
HasRoomOffByOne(slots, t) ==
    /\ ~(slots.total > slots.policy.global)
    /\ ~(TenantCount(slots, t) > slots.policy.tenant)

\* The two tests of admit()
HasRoom(slots, t) ==
    /\ slots.total < slots.policy.global
    /\ TenantCount(slots, t) < slots.policy.tenant

WithCount(slots, t, n) ==
    [u \in DOMAIN slots.perTenant \cup {t} |->
        IF u = t THEN n ELSE slots.perTenant[u]]

AfterAdmit(slots, t) ==
    [slots EXCEPT !.total = @ + 1,
                  !.perTenant = WithCount(slots, t, TenantCount(slots, t) + 1)]

\* The counts of the tenants after one of t's slots is given back; an idle tenant
\* leaves the map.
OneLess(slots, t) ==
    IF TenantCount(slots, t) = 1
    THEN Restrict(slots.perTenant, DOMAIN slots.perTenant \ {t})
    ELSE WithCount(slots, t, TenantCount(slots, t) - 1)

\* Mutant: the total is given back only while the tenant has other work.
AfterReleaseKeepsTotal(slots, t) ==
    [slots EXCEPT !.total = IF TenantCount(slots, t) = 1 THEN @ ELSE @ - 1,
                  !.perTenant = OneLess(slots, t)]

\* Drop for AdmissionPermit: a tenant that is not in the map gives nothing back.
AfterRelease(slots, t) ==
    IF t \in DOMAIN slots.perTenant
    THEN [slots EXCEPT !.total = @ - 1, !.perTenant = OneLess(slots, t)]
    ELSE slots
==============================================================================
