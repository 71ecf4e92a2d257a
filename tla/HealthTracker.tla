---------------------------- MODULE HealthTracker ----------------------------
(***************************************************************************)
(* The per-node circuit breaker of src/lib.rs: HealthPolicy and            *)
(* HealthTracker as pure operators on records.  CircuitBreaker runs one    *)
(* tracker; Router keeps one per tenant and node.                          *)
(*                                                                         *)
(* The latency window and the EWMA success rate only feed penalty(), a     *)
(* cost; what the state machine reads is the state, the two counters and   *)
(* opened_at.  opened_at is kept as the time elapsed since that instant:   *)
(* the code only ever compares now - opened_at with a cooldown.            *)
(***************************************************************************)
EXTENDS Integers

CONSTANTS
    FailureCap, \* bound: consecutive_failures saturates at or above every threshold
    SuccessCap, \* bound: consecutive_successes likewise
    AgeCap      \* bound: elapsed time saturates at or above every cooldown

ASSUME CapsAssumption == {FailureCap, SuccessCap, AgeCap} \subseteq Nat \ {0}

NodeState == {"Healthy", "Degraded", "Open", "HalfOpen"}

\* opened_at = None
NotOpened == -1

HealthPolicy ==
    [open : Nat, degraded : Nat, halfOpenNeeded : Nat, degradedNeeded : Nat,
     cooldown : Nat]

\* HealthPolicy::validate
ValidPolicy(p) ==
    /\ p.degraded > 0 /\ p.open > 0
    /\ p.degraded <= p.open
    /\ p.halfOpenNeeded > 0 /\ p.degradedNeeded > 0
    /\ p.cooldown > 0

\* Saturation is exact for a policy below the caps: counters are only compared.
BelowCaps(p) ==
    /\ p.open <= FailureCap
    /\ p.halfOpenNeeded <= SuccessCap /\ p.degradedNeeded <= SuccessCap
    /\ p.cooldown <= AgeCap

Tracker ==
    [state : NodeState, failures : 0..FailureCap, successes : 0..SuccessCap,
     openedFor : -1..AgeCap]

\* HealthTracker::default; a node without an entry in the health map behaves the same
NewTracker ==
    [state |-> "Healthy", failures |-> 0, successes |-> 0, openedFor |-> NotOpened]

CountUp(n, cap) == IF n < cap THEN n + 1 ELSE cap

--------------------------------------------------------------------------------
(* record_result_with_policy, success branch *)

\* Mutant: a success forgets opened_at whatever the state.
AfterSuccessForgetsOpenedAt(tr, p) ==
    [tr EXCEPT !.successes = CountUp(tr.successes, SuccessCap), !.failures = 0,
               !.openedFor = NotOpened]

\* Mutant: HalfOpen is missing from the match that heals a node.
AfterSuccessOnlyDegradedHeals(tr, p) ==
    LET counted == [tr EXCEPT !.successes = CountUp(tr.successes, SuccessCap), !.failures = 0]
    IN  IF tr.state = "Degraded" /\ counted.successes >= p.degradedNeeded
        THEN [counted EXCEPT !.state = "Healthy", !.openedFor = NotOpened]
        ELSE counted

AfterSuccess(tr, p) ==
    LET counted == [tr EXCEPT !.successes = CountUp(tr.successes, SuccessCap), !.failures = 0]
        heals   == \/ tr.state = "HalfOpen" /\ counted.successes >= p.halfOpenNeeded
                   \/ tr.state = "Degraded" /\ counted.successes >= p.degradedNeeded
    IN  IF heals
        THEN [counted EXCEPT !.state = "Healthy", !.openedFor = NotOpened]
        ELSE counted

(* record_result_with_policy, failure branch *)

\* The match on consecutive_failures
StateAfterFailures(n, current, p) ==
    CASE n >= p.open                         -> "Open"
      [] n < p.open /\ n >= p.degraded       -> "Degraded"
      [] OTHER                               -> current

\* Mutant: the arms of the match in the other order.
AfterFailureArmsSwapped(tr, p) ==
    LET n    == CountUp(tr.failures, FailureCap)
        next == IF n >= p.degraded THEN "Degraded" ELSE tr.state
    IN  [tr EXCEPT !.failures = n, !.successes = 0, !.state = next]

\* Mutant: opened_at is set only once (get_or_insert), not on every trip.
AfterFailureKeepsOldOpenedAt(tr, p) ==
    LET n    == CountUp(tr.failures, FailureCap)
        next == StateAfterFailures(n, tr.state, p)
    IN  [tr EXCEPT !.failures = n, !.successes = 0, !.state = next,
                   !.openedFor = IF next = "Open" /\ @ = NotOpened THEN 0 ELSE @]

AfterFailure(tr, p) ==
    LET n    == CountUp(tr.failures, FailureCap)
        next == StateAfterFailures(n, tr.state, p)
    IN  [tr EXCEPT !.failures = n, !.successes = 0, !.state = next,
                   !.openedFor = IF next = "Open" /\ tr.state # "Open" THEN 0 ELSE @]

AfterResult(tr, success, p) ==
    IF success THEN AfterSuccess(tr, p) ELSE AfterFailure(tr, p)

--------------------------------------------------------------------------------
(* The two ways out of Open by a probe *)

\* The test of transition_to_half_open_if_ready
ReadyToProbe(tr, cooldown) ==
    /\ tr.state = "Open"
    /\ tr.openedFor # NotOpened
    /\ tr.openedFor >= cooldown

\* Mutant: successes reported while Open count towards the recovery.
HalfOpenedKeepsSuccesses(tr) == [tr EXCEPT !.state = "HalfOpen"]

\* The assignments transition_to_half_open_if_ready and force_half_open share
HalfOpened(tr) == [tr EXCEPT !.state = "HalfOpen", !.successes = 0]

--------------------------------------------------------------------------------
(* The monotonic clock, seen from one tracker (external) *)

Aged(tr) ==
    [tr EXCEPT !.openedFor = IF @ = NotOpened \/ @ >= AgeCap THEN @ ELSE @ + 1]
==============================================================================
