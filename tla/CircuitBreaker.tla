---------------------------- MODULE CircuitBreaker ----------------------------
(***************************************************************************)
(* One HealthTracker under one policy: outcomes reported in any order      *)
(* (also late ones, for calls sent before the breaker tripped), the        *)
(* background recovery loop, and operators forcing a probe.                *)
(*                                                                         *)
(* The sidecar sets the policy once at start-up and hands the same         *)
(* policy's cooldown to the recovery loop, so the policy is chosen in      *)
(* BreakerInit and never changes here.  Router lets it change.             *)
(***************************************************************************)
EXTENDS HealthTracker

CONSTANT Policies   \* the policies tried, valid or not

ASSUME PoliciesAssumption ==
    /\ Policies \subseteq HealthPolicy
    /\ \A p \in Policies : BelowCaps(p)

VARIABLES
    policy,     \* the tenant's health_policy
    tracker,    \* the node's HealthTracker
    earned,     \* history: successes in a row since the node entered its state
    openFor     \* history: time since the node last entered Open

breakerVars == <<policy, tracker, earned, openFor>>

\* Mutant: the policy is installed unchecked.
AcceptedUnchecked == Policies

\* try_set_health_policy refuses an invalid policy
Accepted == {p \in Policies : ValidPolicy(p)}

BreakerInit ==
    /\ policy \in Accepted
    /\ tracker = NewTracker
    /\ earned = 0
    /\ openFor = 0

\* The history variables follow what is observable, not the tracker's counters.
Observe(success) ==
    /\ earned' = IF tracker'.state # tracker.state \/ ~success
                 THEN 0 ELSE CountUp(earned, SuccessCap)
    /\ openFor' = IF tracker'.state = "Open" /\ tracker.state # "Open"
                  THEN 0 ELSE openFor

RecordSuccess ==
    /\ tracker' = AfterResult(tracker, TRUE, policy)
    /\ Observe(TRUE)
    /\ UNCHANGED policy

RecordFailure ==
    /\ tracker' = AfterResult(tracker, FALSE, policy)
    /\ Observe(FALSE)
    /\ UNCHANGED policy

\* One scan of run_recovery_probe_once that finds the node ready
RecoveryProbe ==
    /\ ReadyToProbe(tracker, policy.cooldown)
    /\ tracker' = HalfOpened(tracker)
    /\ Observe(FALSE)
    /\ UNCHANGED policy

\* Router::force_half_open, which asks for no cooldown
ForceHalfOpen ==
    /\ tracker.state = "Open"
    /\ tracker' = HalfOpened(tracker)
    /\ Observe(FALSE)
    /\ UNCHANGED policy

Tick ==
    /\ tracker' = Aged(tracker)
    /\ openFor' = IF openFor < AgeCap THEN openFor + 1 ELSE openFor
    /\ UNCHANGED <<policy, earned>>

BreakerNext ==
    \/ RecordSuccess
    \/ RecordFailure
    \/ RecoveryProbe
    \/ ForceHalfOpen
    \/ Tick

\* Time passes and the recovery loop ticks for as long as the sidecar runs.
Fairness == WF_breakerVars(Tick) /\ WF_breakerVars(RecoveryProbe)

BreakerSpec == BreakerInit /\ [][BreakerNext]_breakerVars /\ Fairness

--------------------------------------------------------------------------------
\* The state has its shape: in particular the policy in force is one that
\* HealthPolicy::validate accepts.
TypeOK ==
    /\ policy \in Policies /\ ValidPolicy(policy)
    /\ tracker \in Tracker
    /\ earned \in 0..SuccessCap
    /\ openFor \in 0..AgeCap

\* The state never lags behind the counters (record_result_with_policy): a run of
\* failures at a threshold has moved the node, whichever probes, forced probes
\* and late successes came between, and a routable node that has earned its
\* recovery is no longer degraded or on probation.
StateMatchesCounters ==
    /\ tracker.failures >= policy.open => tracker.state \in {"Open", "HalfOpen"}
    /\ tracker.failures >= policy.degraded => tracker.state # "Healthy"
    /\ tracker.state = "HalfOpen" => tracker.successes < policy.halfOpenNeeded
    /\ tracker.state = "Degraded" => tracker.successes < policy.degradedNeeded

\* An Open node always knows when it opened, and that instant is the last trip
\* and no earlier one: without it transition_to_half_open_if_ready would return
\* false for ever, or probe too early after a second trip.
OpenKnowsWhen ==
    tracker.state = "Open" => tracker.openedFor = openFor

\* The recovery loop never reintroduces a node before its cooldown has passed since
\* the LAST time it tripped (transition_to_half_open_if_ready with opened_at
\* refreshed by record_result_with_policy).
CooldownHonoured ==
    [][RecoveryProbe => openFor >= policy.cooldown]_breakerVars

\* A node becomes Healthy again only on the last of the successes the policy asks for,
\* all reported while it was on probation or degraded: successes that arrive
\* late, while it is Open, earn nothing, and Open never jumps to Healthy.
RecoveryIsEarned ==
    [][ (tracker.state # "Healthy" /\ tracker'.state = "Healthy") =>
            \/ tracker.state = "HalfOpen" /\ earned + 1 >= policy.halfOpenNeeded
            \/ tracker.state = "Degraded" /\ earned + 1 >= policy.degradedNeeded
      ]_breakerVars

\* No node stays Open for ever: the recovery loop (or a late result) gets it out,
\* however many failures are reported meanwhile.
OpenIsLeft == (tracker.state = "Open") ~> (tracker.state # "Open")

\* Once a node stops failing and outcomes keep arriving, it is Healthy for good
\* in the end, from any state: no counter or timestamp is left in a state that blocks it.
NodeHeals ==
    (<>[][~RecordFailure]_breakerVars /\ WF_breakerVars(RecordSuccess))
        => <>[](tracker.state = "Healthy" /\ tracker.openedFor = NotOpened)

\* What the test half_open_failure_reopens_the_circuit says of the breaker: a
\* failure reported for a node on probation opens the circuit again.
HalfOpenFailureReopens ==
    [][ (tracker.state = "HalfOpen" /\ RecordFailure) => tracker'.state = "Open" ]_breakerVars
==============================================================================
