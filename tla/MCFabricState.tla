---------------------------- MODULE MCFabricState ----------------------------
(***************************************************************************)
(* The three state machines of fabric.rs that share nothing, side by side: *)
(* the admission controller, the lifecycle of a node and the lease store.  *)
(* Since none reads what another writes, every state of each is reached    *)
(* while the others rest where they start, and only those runs are walked. *)
(***************************************************************************)
EXTENDS FabricAdmission, NodeLifecycle, LeaseStore, TLC

Init == AdmissionInit /\ LifecycleInit /\ LeaseInit

Next ==
    \/ AdmissionNext /\ LifecycleInit /\ LeaseInit /\ UNCHANGED <<lifecycleVars, leaseVars>>
    \/ LifecycleNext /\ AdmissionInit /\ LeaseInit /\ UNCHANGED <<admissionVars, leaseVars>>
    \/ LeaseNext /\ AdmissionInit /\ LifecycleInit /\ UNCHANGED <<admissionVars, lifecycleVars>>

Spec == Init /\ [][Next]_<<admissionVars, lifecycleVars, leaseVars>>

MCSymmetry == Permutations(Thread)
==============================================================================
