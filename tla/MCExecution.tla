----------------------------- MODULE MCExecution -----------------------------
(***************************************************************************)
(* Four calls and a channel of two.  Two failures open the node and one    *)
(* degrades it, so that the order of outcomes shows in its health.         *)
(***************************************************************************)
EXTENDS Execution

MCPolicy ==
    [open |-> 2, degraded |-> 1, halfOpenNeeded |-> 1, degradedNeeded |-> 1,
     cooldown |-> 1]
==============================================================================
