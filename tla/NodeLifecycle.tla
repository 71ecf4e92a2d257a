---------------------------- MODULE NodeLifecycle ----------------------------
(***************************************************************************)
(* The lifecycle of a backend node (src/fabric.rs, NodeLifecycle): six     *)
(* states, two counters of consecutive reports and a bounded history of    *)
(* transitions.  Every operation takes &mut self and is one step.          *)
(*                                                                         *)
(* The counters are only compared with the thresholds 5 and 3, so they     *)
(* are kept up to those.  Reasons and timestamps are left out.             *)
(***************************************************************************)
EXTENDS Integers, Sequences

CONSTANTS
    MaxTransitions, \* max_transitions, clamped to 1..1000
    MaxRevision     \* bound: transitions taken

ASSUME LifecycleAssumption == MaxTransitions \in 1..1000 /\ MaxRevision \in Nat

VARIABLES
    state,
    failures,    \* consecutive_failures
    successes,   \* consecutive_successes
    transitions, \* oldest first
    revision

lifecycleVars == <<state, failures, successes, transitions, revision>>

NodeLifecycleState ==
    {"Healthy", "Degraded", "Suspect", "Draining", "Failed", "Recovering"}

Transition == [from : NodeLifecycleState, to : NodeLifecycleState, revision : Nat]

LifecycleInit ==
    /\ state = "Healthy"
    /\ failures = 0 /\ successes = 0
    /\ transitions = << >> /\ revision = 0

UpTo(n, cap) == IF n < cap THEN n + 1 ELSE cap

\* Mutant: the record is made after the state has been assigned.
TransitionToLate(to) ==
    LET kept == IF Len(transitions) >= MaxTransitions THEN Tail(transitions) ELSE transitions
    IN  /\ revision < MaxRevision
        /\ revision' = revision + 1
        /\ transitions' = Append(kept, [from |-> to, to |-> to, revision |-> revision + 1])
        /\ state' = to

\* transition: a full history loses its oldest record
TransitionTo(to) ==
    LET kept == IF Len(transitions) >= MaxTransitions THEN Tail(transitions) ELSE transitions
    IN  /\ revision < MaxRevision
        /\ revision' = revision + 1
        /\ transitions' = Append(kept, [from |-> state, to |-> to, revision |-> revision + 1])
        /\ state' = to

Stays == UNCHANGED <<state, transitions, revision>>

\* The match of record_success: where the node goes, or where it is
AfterSuccesses(s) ==
    CASE state = "Recovering" /\ s >= 3 -> "Healthy"
      [] state = "Degraded" /\ s >= 2   -> "Healthy"
      [] state = "Suspect" /\ s >= 1    -> "Degraded"
      [] OTHER                          -> state

RecordSuccess ==
    LET to == AfterSuccesses(successes + 1)
    IN  /\ successes' = UpTo(successes, 3)
        /\ failures' = 0
        /\ IF to # state THEN TransitionTo(to) ELSE Stays

\* The match of record_failure, arm by arm: a Degraded node is degraded again, and that is
\* a transition of its own
FailureArm(f) ==
    IF f >= 5 /\ state # "Failed" THEN "Failed"
    ELSE IF f >= 3 /\ state = "Healthy" THEN "Suspect"
    ELSE IF f >= 2 /\ state \in {"Healthy", "Degraded"} THEN "Degraded"
    ELSE "none"

RecordFailure ==
    LET arm == FailureArm(failures + 1)
    IN  /\ failures' = UpTo(failures, 5)
        /\ successes' = 0
        /\ IF arm # "none" THEN TransitionTo(arm) ELSE Stays

Drain ==
    /\ state # "Draining"
    /\ TransitionTo("Draining")
    /\ UNCHANGED <<failures, successes>>

\* Mutant: the counters of the failed life are kept.
BeginRecoveryKeepsCounters ==
    /\ state = "Failed"
    /\ TransitionTo("Recovering")
    /\ UNCHANGED <<failures, successes>>

BeginRecovery ==
    /\ state = "Failed"
    /\ TransitionTo("Recovering")
    /\ failures' = 0 /\ successes' = 0

LifecycleNext ==
    \/ RecordSuccess
    \/ RecordFailure
    \/ Drain
    \/ BeginRecovery

LifecycleSpec == LifecycleInit /\ [][LifecycleNext]_lifecycleVars

--------------------------------------------------------------------------------
\* The history is a chain that ends in the present: each record starts where the one
\* before it ended, revisions follow each other without a gap, the newest record is
\* the current state and revision, and eviction takes whole records from the old
\* end only (NodeLifecycle::transition).
HistoryIsLinked ==
    /\ Len(transitions) <= MaxTransitions
    /\ \A i \in 1..(Len(transitions) - 1) :
          /\ transitions[i].to = transitions[i + 1].from
          /\ transitions[i + 1].revision = transitions[i].revision + 1
    /\ IF transitions = << >> THEN revision = 0 /\ state = "Healthy"
       ELSE transitions[Len(transitions)].to = state
            /\ transitions[Len(transitions)].revision = revision

\* The state is what the counters say it can be.  A node counted Healthy has at most one
\* failure behind it and a node that is being recovered fewer than three successes;
\* five failures leave it Failed, or Draining if it was drained after that.  Suspect
\* is never entered: the second failure has already moved a Healthy node to
\* Degraded when the arm for the third is tried.
LifecycleMatchesCounters ==
    /\ failures = 0 \/ successes = 0
    /\ state # "Suspect"
    /\ state = "Healthy" => failures <= 1
    /\ state = "Degraded" => failures <= 4 /\ successes <= 1
    /\ state = "Recovering" => failures <= 4 /\ successes <= 2
    /\ failures >= 5 => state \in {"Failed", "Draining"}
==============================================================================
