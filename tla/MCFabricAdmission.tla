------------------------- MODULE MCFabricAdmission -------------------------
(***************************************************************************)
(* Five threads, one slot and one place in the queue: the test             *)
(* concurrent_admission_respects_bounds of src/fabric.rs, scaled down.     *)
(***************************************************************************)
EXTENDS FabricAdmission, TLC

MCSymmetry == Permutations(Thread)
==============================================================================
