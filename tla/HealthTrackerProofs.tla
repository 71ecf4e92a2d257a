------------------------- MODULE HealthTrackerProofs -------------------------
(***************************************************************************)
(* What the operators of the per-node breaker return, for the proofs of    *)
(* the specifications that keep trackers (RouterProofs, ExecutionProofs,   *)
(* ToolGraphProofs), and a rule for reasoning by induction over numbers,   *)
(* which PlacementProofs takes from here as well.                          *)
(***************************************************************************)
EXTENDS HealthTracker, FiniteSetTheorems, TLAPS

\* Induction over 0..n, said of a set: no operator is a parameter.  The least number left
\* out would head the smallest of the intervals that end in a number left out.
LEMMA CountingUp ==
    ASSUME NEW n \in Nat, NEW T, 0 \in T,
           \A i \in Nat : i < n /\ i \in T => i + 1 \in T
    PROVE  0..n \subseteq T
  <1> DEFINE left == (0..n) \ T
             upTo == {0..i : i \in left}
             R == StrictSubsetOrdering(Nat)
  <1> SUFFICES ASSUME left # {} PROVE FALSE
    OBVIOUS
  <1>1. IsWellFoundedOn(R, FiniteSubsetsOf(Nat))
    BY FS_StrictSubsetOrderingWellFounded
  <1>2. \A i \in Nat : 0..i \in SUBSET Nat /\ IsFiniteSet(0..i)
    BY FS_Interval
  <1>3. upTo \subseteq FiniteSubsetsOf(Nat) /\ upTo # {}
    BY <1>2 DEF FiniteSubsetsOf
  <1> HIDE DEF R, upTo
  <1>4. PICK x \in upTo : \A y \in upTo : <<y, x>> \notin R
    BY <1>1, <1>3, WFMin
  <1>5. PICK i \in left : x = 0..i
    BY <1>4 DEF upTo
  <1>6. i \in Nat /\ i # 0 /\ i <= n
    BY <1>5
  <1>7. i - 1 \in left
    <2>1. i - 1 \in Nat /\ i - 1 < n /\ (i - 1) + 1 = i
      BY <1>6
    <2>2. i - 1 \notin T
      BY <1>5, <2>1
    <2> QED
      BY <1>6, <2>1, <2>2
  <1>8. 0..(i - 1) \in upTo
    BY <1>7 DEF upTo
  <1>9. <<0..(i - 1), 0..i>> \in R
    <2>1. i - 1 \in Nat
      BY <1>6
    <2>2. 0..(i - 1) \subseteq 0..i /\ i \in 0..i /\ i \notin 0..(i - 1)
      BY <1>6
    <2> QED
      BY <1>2, <1>6, <2>1, <2>2 DEF R, StrictSubsetOrdering
  <1> QED
    BY <1>4, <1>5, <1>8, <1>9

\* The counters, the state and the clock of a tracker stay in range, whatever is
\* reported and under whatever policy.
LEMMA TrackerType ==
    ASSUME NEW tr \in Tracker, NEW p \in HealthPolicy
    PROVE  /\ \A success \in BOOLEAN : AfterResult(tr, success, p) \in Tracker
           /\ HalfOpened(tr) \in Tracker /\ HalfOpened(tr).state = "HalfOpen"
           /\ Aged(tr) \in Tracker /\ Aged(tr).state = tr.state
  <1>1. FailureCap \in Nat \ {0} /\ SuccessCap \in Nat \ {0} /\ AgeCap \in Nat \ {0}
    BY CapsAssumption
  <1>2. /\ CountUp(tr.successes, SuccessCap) \in 0..SuccessCap
        /\ CountUp(tr.failures, FailureCap) \in 0..FailureCap
    BY <1>1 DEF Tracker, CountUp
  <1>3. AfterSuccess(tr, p) \in Tracker
    <2> DEFINE n == CountUp(tr.successes, SuccessCap)
    <2>1. \/ AfterSuccess(tr, p) = [state |-> "Healthy", failures |-> 0,
                                    successes |-> n, openedFor |-> NotOpened]
          \/ AfterSuccess(tr, p) = [state |-> tr.state, failures |-> 0,
                                    successes |-> n, openedFor |-> tr.openedFor]
      BY DEF AfterSuccess, Tracker
    <2> QED
      BY <1>1, <1>2, <2>1 DEF Tracker, NodeState, NotOpened
  <1>4. AfterFailure(tr, p) \in Tracker
    <2> DEFINE n == CountUp(tr.failures, FailureCap)
               next == StateAfterFailures(n, tr.state, p)
    <2>1. next \in NodeState
      <3>1. n \in Int /\ p.open \in Int /\ p.degraded \in Int /\ tr.state \in NodeState
        BY <1>1, <1>2 DEF Tracker, HealthPolicy
      <3>2. next \in {"Open", "Degraded", tr.state}
        BY <3>1 DEF StateAfterFailures
      <3> QED
        BY <3>1, <3>2 DEF NodeState
    <2> DEFINE age == IF next = "Open" /\ tr.state # "Open" THEN 0 ELSE tr.openedFor
    <2>2. ASSUME NEW x, x = AfterFailure(tr, p)
          PROVE  x = [state |-> next, failures |-> n, successes |-> 0, openedFor |-> age]
      BY <2>2 DEF AfterFailure, Tracker
    <2>3. age \in -1..AgeCap
      BY <1>1 DEF Tracker
    <2> HIDE DEF next, age
    <2> QED
      BY <1>1, <1>2, <2>1, <2>2, <2>3 DEF Tracker
  <1>5. ASSUME NEW x, x = HalfOpened(tr)
        PROVE  x = [state |-> "HalfOpen", failures |-> tr.failures, successes |-> 0,
                    openedFor |-> tr.openedFor]
    BY <1>5 DEF HalfOpened, Tracker
  <1>6. HalfOpened(tr) \in Tracker /\ HalfOpened(tr).state = "HalfOpen"
    BY <1>1, <1>5 DEF Tracker, NodeState
  <1>7. Aged(tr) \in Tracker /\ Aged(tr).state = tr.state
    <2> DEFINE age == IF tr.openedFor = NotOpened \/ tr.openedFor >= AgeCap
                      THEN tr.openedFor ELSE tr.openedFor + 1
    <2>1. ASSUME NEW x, x = Aged(tr)
          PROVE  x = [state |-> tr.state, failures |-> tr.failures,
                      successes |-> tr.successes, openedFor |-> age]
      BY <2>1 DEF Aged, Tracker
    <2>2. age \in -1..AgeCap
      BY <1>1 DEF Tracker, NotOpened
    <2> HIDE DEF age
    <2> QED
      BY <2>1, <2>2 DEF Tracker
  <1> QED
    BY <1>3, <1>4, <1>6, <1>7 DEF AfterResult

\* A set of numbers has a least one.
LEMMA LeastNumber ==
    ASSUME NEW S \in SUBSET Nat, S # {}
    PROVE  \E x \in S : \A y \in S : x <= y
<1> SUFFICES ASSUME \A x \in S : \E y \in S : ~(x <= y) PROVE FALSE
  OBVIOUS
<1>1. PICK m \in S : TRUE
  OBVIOUS
<1> DEFINE T == {k \in Nat : \A x \in S : k < x}
<1>2. 0 \in T
  <2>1. ASSUME NEW x \in S PROVE 0 < x
    <3>1. PICK y \in S : ~(x <= y)
      OBVIOUS
    <3> QED BY <3>1
  <2> QED BY <2>1
<1>3. ASSUME NEW k \in Nat, k < m, k \in T PROVE k + 1 \in T
  <2>1. ASSUME NEW x \in S PROVE k + 1 < x
    <3>1. PICK y \in S : ~(x <= y)
      OBVIOUS
    <3>2. k < y /\ k < x
      BY <1>3
    <3> QED BY <3>1, <3>2
  <2> QED BY <2>1
<1> HIDE DEF T
<1>4. 0..m \subseteq T
  BY <1>1, <1>2, <1>3, CountingUp
<1>5. m \in T
  BY <1>1, <1>4
<1> QED BY <1>1, <1>5 DEF T
================================================================================
