----------------------------- MODULE FabricProofs -----------------------------
(***************************************************************************)
(* Proofs about the four state machines of the execution fabric.  Of       *)
(* src/fabric.rs: the lock-free admission controller (AdmissionSpec), for  *)
(* every finite set of threads and pair of limits; the lifecycle of a node *)
(* (LifecycleSpec), for every length of its history; the lease store       *)
(* (LeaseSpec), for every set of owners and durations.  Of src/kv.rs,      *)
(* src/control_plane.rs and src/planner.rs: planning with KV reuse         *)
(* (KvSpec), for every set of models, records, policies and questions, not *)
(* only the handful that MCKvPlanning enumerates.  They share no state.    *)
(***************************************************************************)
EXTENDS FabricAdmission, NodeLifecycle, LeaseStore, KvPlanning, FiniteSetTheorems, TLAPS

--------------------------------------------------------------------------------
(* FabricAdmission *)

Place == {"idle", "full", "shed"} \cup Entering \cup Holding

\* The inductive invariant: TypeOK is its first part, so that a subtraction of complete or
\* dequeue stays in the naturals because its caller is counted.
AdmissionInv == TypeOK /\ CountersMatchHolders /\ OvershootIsBounded

\* The threads at a place are finitely many, at most all of them.
LEMMA PlacesAreFinite ==
    ASSUME NEW w
    PROVE  /\ IsFiniteSet(At(w)) /\ Cardinality(At(w)) \in Nat
           /\ Cardinality(At(w)) <= Cardinality(Thread) /\ Cardinality(Thread) \in Nat
<1>1. IsFiniteSet(Thread) /\ At(w) \subseteq Thread
  BY FabricAssumption DEF At
<1> QED BY <1>1, FS_Subset, FS_CardinalityType

\* The same of the places after a step.
LEMMA PlacesAreFiniteNext ==
    ASSUME NEW w
    PROVE  /\ IsFiniteSet(At(w)') /\ Cardinality(At(w)') \in Nat
           /\ Cardinality(At(w)') <= Cardinality(Thread)
<1>1. IsFiniteSet(Thread) /\ At(w)' \subseteq Thread
  BY FabricAssumption DEF At
<1> QED BY <1>1, FS_Subset, FS_CardinalityType

\* A step of one thread takes it from the place it was at and adds it to the place it goes
\* to, and counts on: no other place changes (each load and each fetch_add).
LEMMA MoveCounts ==
    ASSUME TypeOK, NEW t \in Thread, NEW from \in Place, NEW to \in Place, from # to,
           Goto(t, from, to)
    PROVE  /\ pc' \in [Thread -> Place]
           /\ Cardinality(At(from)') = Cardinality(At(from)) - 1
           /\ Cardinality(At(to)') = Cardinality(At(to)) + 1
           /\ \A w \in Place \ {from, to} : Cardinality(At(w)') = Cardinality(At(w))
<1>1. pc \in [Thread -> Place] /\ pc[t] = from /\ pc' = [pc EXCEPT ![t] = to]
  BY DEF TypeOK, Place, Goto
<1>2. /\ t \in At(from) /\ t \notin At(to)
      /\ At(from)' = At(from) \ {t} /\ At(to)' = At(to) \cup {t}
  BY <1>1 DEF At
<1>3. \A w \in Place \ {from, to} : At(w)' = At(w)
  BY <1>1 DEF At
<1>4. IsFiniteSet(At(from)) /\ IsFiniteSet(At(to))
  BY PlacesAreFinite
<1>5. Cardinality(At(from)') = Cardinality(At(from)) - 1
  BY <1>2, <1>4, FS_RemoveElement
<1>6. Cardinality(At(to)') = Cardinality(At(to)) + 1
  BY <1>2, <1>4, FS_AddElement
<1> QED BY <1>1, <1>3, <1>5, <1>6

\* The history variable covers the threads that are between a load and a fetch_add after
\* the step, never shrinks, and is bounded by the number of threads.
LEMMA OverlapCovers ==
    ASSUME TypeOK, NEW t, NEW from, NEW to, Goto(t, from, to)
    PROVE  /\ overlap' \in 1..(Cardinality(Thread) + 1) /\ overlap' >= overlap
           /\ Cardinality(At("entering")') <= overlap'
           /\ Cardinality(At("queueing")') <= overlap'
<1> DEFINE e == Cardinality(At("entering")')
           q == Cardinality(At("queueing")')
<1>1. e \in Nat /\ q \in Nat /\ e <= Cardinality(Thread) /\ q <= Cardinality(Thread)
      /\ Cardinality(Thread) \in Nat
  BY PlacesAreFiniteNext, PlacesAreFinite
<1>2. overlap \in 1..(Cardinality(Thread) + 1) /\ overlap' = Largest(overlap, Largest(e, q))
  BY DEF TypeOK, Goto
<1> QED BY <1>1, <1>2 DEF Largest

\* Counts in their places make types: the bounds of TypeOK follow from what the counters
\* count.
LEMMA CountersAreTyped ==
    ASSUME TypeOK, NEW t \in Thread, NEW from \in Place, NEW to \in Place, from # to,
           Goto(t, from, to), CountersMatchHolders'
    PROVE  TypeOK'
<1>1. active' = Cardinality(At("accepted")') /\ queued' = Cardinality(At("waiting")')
  BY DEF CountersMatchHolders
<1>2. active' \in 0..Cardinality(Thread) /\ queued' \in 0..Cardinality(Thread)
  BY <1>1, PlacesAreFiniteNext, PlacesAreFinite
<1>3. overlap' \in 1..(Cardinality(Thread) + 1) /\ pc' \in [Thread -> Place]
  BY OverlapCovers, MoveCounts
<1> QED BY <1>2, <1>3 DEF TypeOK, Place

\* Every step of every thread keeps the invariant, whatever the others did between its
\* load and its fetch_add.
LEMMA AdmissionStep ==
    ASSUME AdmissionInv, [AdmissionNext]_admissionVars
    PROVE  AdmissionInv'
<1> USE DEF AdmissionInv
<1>1. {"idle", "full", "shed", "entering", "queueing", "accepted", "waiting"} = Place
  BY DEF Place, Entering, Holding
<1>2. /\ \A w \in Place : Cardinality(At(w)) \in Nat /\ Cardinality(At(w)') \in Nat
      /\ {GlobalLimit, QueueLimit, overlap, active, queued} \subseteq Nat
  BY PlacesAreFinite, PlacesAreFiniteNext, FabricAssumption DEF TypeOK
<1>3. ASSUME NEW t \in Thread, NEW from \in Place, NEW to \in Place, from # to,
             Goto(t, from, to)
      PROVE  /\ overlap' \in Nat /\ overlap' >= overlap
             /\ Cardinality(At("entering")') <= overlap'
             /\ Cardinality(At("queueing")') <= overlap'
  BY <1>3, OverlapCovers, PlacesAreFinite
<1>4. ASSUME NEW t \in Thread, LoadActive(t)
      PROVE  AdmissionInv'
  <2>1. active' = active /\ queued' = queued
    BY <1>4 DEF LoadActive
  <2>2. CASE active < GlobalLimit
    <3>1. Goto(t, "idle", "entering")
      BY <1>4, <2>2 DEF LoadActive
    <3>2. CountersMatchHolders'
      BY <3>1, <2>1, <1>1, MoveCounts DEF CountersMatchHolders
    <3>3. /\ overlap' \in Nat /\ overlap' >= overlap
          /\ Cardinality(At("entering")') <= overlap'
          /\ Cardinality(At("queueing")') <= overlap'
      BY <3>1, <1>1, <1>3
    <3>4. Cardinality(At("queueing")') = Cardinality(At("queueing"))
      BY <3>1, <1>1, MoveCounts
    <3>5. OvershootIsBounded'
      BY <3>3, <3>4, <2>1, <2>2, <1>1, <1>2 DEF OvershootIsBounded
    <3> QED BY <3>1, <3>2, <3>5, <1>1, CountersAreTyped
  <2>3. CASE ~(active < GlobalLimit)
    <3>1. Goto(t, "idle", "full")
      BY <1>4, <2>3 DEF LoadActive
    <3>2. CountersMatchHolders'
      BY <3>1, <2>1, <1>1, MoveCounts DEF CountersMatchHolders
    <3>3. overlap' \in Nat /\ overlap' >= overlap
      BY <3>1, <1>1, <1>3
    <3>4. /\ Cardinality(At("entering")') = Cardinality(At("entering"))
          /\ Cardinality(At("queueing")') = Cardinality(At("queueing"))
      BY <3>1, <1>1, MoveCounts
    <3>5. OvershootIsBounded'
      BY <3>3, <3>4, <2>1, <1>1, <1>2 DEF OvershootIsBounded
    <3> QED BY <3>1, <3>2, <3>5, <1>1, CountersAreTyped
  <2> QED BY <2>2, <2>3
<1>5. ASSUME NEW t \in Thread, Accept(t)
      PROVE  AdmissionInv'
  <2>1. Goto(t, "entering", "accepted") /\ active' = active + 1 /\ queued' = queued
    BY <1>5 DEF Accept
  <2>2. CountersMatchHolders'
    BY <2>1, <1>1, MoveCounts DEF CountersMatchHolders
  <2>3. overlap' \in Nat /\ overlap' >= overlap
    BY <2>1, <1>1, <1>3
  <2>4. /\ Cardinality(At("entering")') = Cardinality(At("entering")) - 1
        /\ Cardinality(At("queueing")') = Cardinality(At("queueing"))
    BY <2>1, <1>1, MoveCounts
  <2>5. OvershootIsBounded'
    BY <2>1, <2>3, <2>4, <1>1, <1>2 DEF OvershootIsBounded
  <2> QED BY <2>1, <2>2, <2>5, <1>1, CountersAreTyped
<1>6. ASSUME NEW t \in Thread, LoadQueue(t)
      PROVE  AdmissionInv'
  <2>1. active' = active /\ queued' = queued
    BY <1>6 DEF LoadQueue
  <2>2. CASE queued < QueueLimit
    <3>1. Goto(t, "full", "queueing")
      BY <1>6, <2>2 DEF LoadQueue
    <3>2. CountersMatchHolders'
      BY <3>1, <2>1, <1>1, MoveCounts DEF CountersMatchHolders
    <3>3. /\ overlap' \in Nat /\ overlap' >= overlap
          /\ Cardinality(At("entering")') <= overlap'
          /\ Cardinality(At("queueing")') <= overlap'
      BY <3>1, <1>1, <1>3
    <3>4. Cardinality(At("entering")') = Cardinality(At("entering"))
      BY <3>1, <1>1, MoveCounts
    <3>5. OvershootIsBounded'
      BY <3>3, <3>4, <2>1, <2>2, <1>1, <1>2 DEF OvershootIsBounded
    <3> QED BY <3>1, <3>2, <3>5, <1>1, CountersAreTyped
  <2>3. CASE ~(queued < QueueLimit)
    <3>1. Goto(t, "full", "shed")
      BY <1>6, <2>3 DEF LoadQueue
    <3>2. CountersMatchHolders'
      BY <3>1, <2>1, <1>1, MoveCounts DEF CountersMatchHolders
    <3>3. overlap' \in Nat /\ overlap' >= overlap
      BY <3>1, <1>1, <1>3
    <3>4. /\ Cardinality(At("entering")') = Cardinality(At("entering"))
          /\ Cardinality(At("queueing")') = Cardinality(At("queueing"))
      BY <3>1, <1>1, MoveCounts
    <3>5. OvershootIsBounded'
      BY <3>3, <3>4, <2>1, <1>1, <1>2 DEF OvershootIsBounded
    <3> QED BY <3>1, <3>2, <3>5, <1>1, CountersAreTyped
  <2> QED BY <2>2, <2>3
<1>7. ASSUME NEW t \in Thread, Queue(t)
      PROVE  AdmissionInv'
  <2>1. Goto(t, "queueing", "waiting") /\ active' = active /\ queued' = queued + 1
    BY <1>7 DEF Queue
  <2>2. CountersMatchHolders'
    BY <2>1, <1>1, MoveCounts DEF CountersMatchHolders
  <2>3. overlap' \in Nat /\ overlap' >= overlap
    BY <2>1, <1>1, <1>3
  <2>4. /\ Cardinality(At("queueing")') = Cardinality(At("queueing")) - 1
        /\ Cardinality(At("entering")') = Cardinality(At("entering"))
    BY <2>1, <1>1, MoveCounts
  <2>5. OvershootIsBounded'
    BY <2>1, <2>3, <2>4, <1>1, <1>2 DEF OvershootIsBounded
  <2> QED BY <2>1, <2>2, <2>5, <1>1, CountersAreTyped
<1>8. ASSUME NEW t \in Thread, Shed(t)
      PROVE  AdmissionInv'
  <2>1. Goto(t, "shed", "idle") /\ active' = active /\ queued' = queued
    BY <1>8 DEF Shed
  <2>2. CountersMatchHolders'
    BY <2>1, <1>1, MoveCounts DEF CountersMatchHolders
  <2>3. overlap' \in Nat /\ overlap' >= overlap
    BY <2>1, <1>1, <1>3
  <2>4. /\ Cardinality(At("entering")') = Cardinality(At("entering"))
        /\ Cardinality(At("queueing")') = Cardinality(At("queueing"))
    BY <2>1, <1>1, MoveCounts
  <2>5. OvershootIsBounded'
    BY <2>1, <2>3, <2>4, <1>1, <1>2 DEF OvershootIsBounded
  <2> QED BY <2>1, <2>2, <2>5, <1>1, CountersAreTyped
<1>9. ASSUME NEW t \in Thread, Complete(t)
      PROVE  AdmissionInv'
  <2>1. Goto(t, "accepted", "idle") /\ active' = active - 1 /\ queued' = queued
    BY <1>9 DEF Complete
  <2>2. CountersMatchHolders'
    BY <2>1, <1>1, MoveCounts DEF CountersMatchHolders
  <2>3. overlap' \in Nat /\ overlap' >= overlap
    BY <2>1, <1>1, <1>3
  <2>4. /\ Cardinality(At("entering")') = Cardinality(At("entering"))
        /\ Cardinality(At("queueing")') = Cardinality(At("queueing"))
    BY <2>1, <1>1, MoveCounts
  <2>5. OvershootIsBounded'
    BY <2>1, <2>3, <2>4, <1>1, <1>2 DEF OvershootIsBounded
  <2> QED BY <2>1, <2>2, <2>5, <1>1, CountersAreTyped
<1>10. ASSUME NEW t \in Thread, Dequeue(t)
       PROVE  AdmissionInv'
  <2>1. Goto(t, "waiting", "idle") /\ active' = active /\ queued' = queued - 1
    BY <1>10 DEF Dequeue
  <2>2. CountersMatchHolders'
    BY <2>1, <1>1, MoveCounts DEF CountersMatchHolders
  <2>3. overlap' \in Nat /\ overlap' >= overlap
    BY <2>1, <1>1, <1>3
  <2>4. /\ Cardinality(At("entering")') = Cardinality(At("entering"))
        /\ Cardinality(At("queueing")') = Cardinality(At("queueing"))
    BY <2>1, <1>1, MoveCounts
  <2>5. OvershootIsBounded'
    BY <2>1, <2>3, <2>4, <1>1, <1>2 DEF OvershootIsBounded
  <2> QED BY <2>1, <2>2, <2>5, <1>1, CountersAreTyped
<1>11. CASE UNCHANGED admissionVars
  <2>1. /\ active' = active /\ queued' = queued /\ overlap' = overlap /\ pc' = pc
        /\ \A w \in Place : At(w)' = At(w)
    BY <1>11 DEF admissionVars, At
  <2> QED BY <2>1, <1>1 DEF TypeOK, CountersMatchHolders, OvershootIsBounded
<1> QED BY <1>4, <1>5, <1>6, <1>7, <1>8, <1>9, <1>10, <1>11 DEF AdmissionNext, Step

\* The controller keeps its invariant from the empty state of AdmissionController::new.
LEMMA AdmissionCorrect == AdmissionSpec => []AdmissionInv
<1>1. ASSUME AdmissionInit
      PROVE  AdmissionInv
  <2>1. \A w \in Place \ {"idle"} : At(w) = {}
    BY <1>1 DEF AdmissionInit, At
  <2>2. {"accepted", "waiting", "entering", "queueing"} \subseteq Place \ {"idle"}
    BY DEF Place, Entering, Holding
  <2>3. /\ Cardinality(At("accepted")) = 0 /\ Cardinality(At("waiting")) = 0
        /\ Cardinality(At("entering")) = 0 /\ Cardinality(At("queueing")) = 0
    BY <2>1, <2>2, FS_EmptySet
  <2>4. Cardinality(Thread) \in Nat /\ GlobalLimit \in Nat /\ QueueLimit \in Nat
    BY FabricAssumption, FS_CardinalityType
  <2> QED BY <1>1, <2>3, <2>4
          DEF AdmissionInit, AdmissionInv, TypeOK, CountersMatchHolders, OvershootIsBounded
<1>2. AdmissionInv /\ [AdmissionNext]_admissionVars => AdmissionInv'
  BY AdmissionStep
<1> QED BY <1>1, <1>2, PTL DEF AdmissionSpec

\* For any number of threads no counter underflows or outgrows the threads (the
\* debug_asserts of complete and dequeue never fire).
THEOREM AdmissionTypeCorrect == AdmissionSpec => []TypeOK
<1>1. AdmissionInv => TypeOK
  BY DEF AdmissionInv
<1> QED BY <1>1, AdmissionCorrect, PTL

\* In every interleaving of loads and fetch_adds the two atomics are exactly the numbers of
\* callers that hold a slot and that wait (evaluate, complete, dequeue).
THEOREM AdmissionCountersMatch == AdmissionSpec => []CountersMatchHolders
<1>1. AdmissionInv => CountersMatchHolders
  BY DEF AdmissionInv
<1> QED BY <1>1, AdmissionCorrect, PTL

\* The check-then-act of evaluate passes a limit by fewer than the number of callers that
\* ever were between their load and their fetch_add at once.
THEOREM AdmissionOvershootBounded == AdmissionSpec => []OvershootIsBounded
<1>1. AdmissionInv => OvershootIsBounded
  BY DEF AdmissionInv
<1> QED BY <1>1, AdmissionCorrect, PTL

--------------------------------------------------------------------------------
(* NodeLifecycle *)

\* The types the two counters and the bounded history keep.
LifecycleTypeOK ==
    /\ state \in NodeLifecycleState
    /\ failures \in 0..5 /\ successes \in 0..3
    /\ transitions \in Seq(Transition)
    /\ revision \in Nat

\* The inductive invariant of the lifecycle: both properties are inductive together with
\* the types, the link of the newest record to the state being part of the first.
LifecycleInv == LifecycleTypeOK /\ HistoryIsLinked /\ LifecycleMatchesCounters

\* NodeLifecycle::transition keeps the history a chain that ends in the present, whether
\* or not the oldest record had to go.
LEMMA TransitionKeepsHistory ==
    ASSUME LifecycleTypeOK, HistoryIsLinked,
           NEW to \in NodeLifecycleState, TransitionTo(to)
    PROVE  /\ HistoryIsLinked'
           /\ state' = to
           /\ transitions' \in Seq(Transition)
           /\ revision' \in Nat
<1> DEFINE kept == IF Len(transitions) >= MaxTransitions THEN Tail(transitions) ELSE transitions
           new  == [from |-> state, to |-> to, revision |-> revision + 1]
<1> USE LifecycleAssumption
<1>1. new \in Transition /\ state' = to /\ revision' = revision + 1 /\ revision' \in Nat
  BY DEF TransitionTo, LifecycleTypeOK, Transition
<1>2. transitions' = Append(kept, new)
  BY DEF TransitionTo
<1>3. kept \in Seq(Transition) /\ Len(kept) < MaxTransitions
  <2>1. /\ transitions \in Seq(Transition) /\ Len(transitions) <= MaxTransitions
        /\ MaxTransitions \in Nat \ {0} /\ Len(transitions) \in Nat
    BY DEF LifecycleTypeOK, HistoryIsLinked
  <2>2. CASE Len(transitions) >= MaxTransitions
    <3>1. transitions # << >> /\ kept = Tail(transitions)
      BY <2>1, <2>2
    <3> QED BY <2>1, <3>1
  <2>3. CASE ~(Len(transitions) >= MaxTransitions)
    BY <2>1, <2>3
  <2> QED BY <2>2, <2>3
<1>4. \A i \in 1..(Len(kept) - 1) :
          /\ kept[i].to = kept[i + 1].from
          /\ kept[i + 1].revision = kept[i].revision + 1
  BY DEF LifecycleTypeOK, HistoryIsLinked
<1>5. kept # << >> => /\ kept[Len(kept)].to = state
                      /\ kept[Len(kept)].revision = revision
  BY DEF LifecycleTypeOK, HistoryIsLinked
<1> HIDE DEF kept
<1>6. /\ transitions' \in Seq(Transition)
      /\ Len(transitions') = Len(kept) + 1
      /\ transitions'[Len(kept) + 1] = new
      /\ \A i \in 1..Len(kept) : transitions'[i] = kept[i]
  BY <1>1, <1>2, <1>3
<1>7. \A i \in 1..(Len(transitions') - 1) :
          /\ transitions'[i].to = transitions'[i + 1].from
          /\ transitions'[i + 1].revision = transitions'[i].revision + 1
  <2> TAKE i \in 1..(Len(transitions') - 1)
  <2>1. CASE i < Len(kept)
    <3>1. i \in 1..(Len(kept) - 1) /\ i \in 1..Len(kept) /\ i + 1 \in 1..Len(kept)
      BY <2>1, <1>3, <1>6
    <3>2. transitions'[i] = kept[i] /\ transitions'[i + 1] = kept[i + 1]
      BY <3>1, <1>6
    <3> QED BY <3>1, <3>2, <1>4
  <2>2. CASE i = Len(kept)
    <3>1. kept # << >> /\ transitions'[i] = kept[i] /\ transitions'[i + 1] = new
      BY <2>2, <1>3, <1>6
    <3> QED BY <3>1, <2>2, <1>5
  <2> QED BY <2>1, <2>2, <1>3, <1>6
<1>8. transitions' # << >> /\ Len(transitions') <= MaxTransitions
  BY <1>3, <1>6
<1>9. transitions'[Len(transitions')].to = state'
      /\ transitions'[Len(transitions')].revision = revision'
  BY <1>1, <1>6
<1> QED BY <1>1, <1>6, <1>7, <1>8, <1>9 DEF HistoryIsLinked

\* A report that moves no state leaves the history as it is (the arms of record_success and
\* record_failure that do nothing).
LEMMA StaysKeepsHistory ==
    ASSUME LifecycleTypeOK, HistoryIsLinked, Stays
    PROVE  /\ HistoryIsLinked'
           /\ state' = state
           /\ transitions' \in Seq(Transition)
           /\ revision' \in Nat
BY DEF Stays, HistoryIsLinked, LifecycleTypeOK

\* record_success, record_failure, drain and begin_recovery keep the lifecycle invariant.
LEMMA LifecycleStep ==
    ASSUME LifecycleInv, [LifecycleNext]_lifecycleVars
    PROVE  LifecycleInv'
<1> USE DEF LifecycleInv
<1>1. CASE RecordSuccess
  <2> DEFINE to == AfterSuccesses(successes + 1)
  <2>1. to \in NodeLifecycleState
    BY DEF AfterSuccesses, LifecycleTypeOK, NodeLifecycleState
  <2>2. /\ successes' = UpTo(successes, 3) /\ failures' = 0
        /\ IF to # state THEN TransitionTo(to) ELSE Stays
    BY <1>1 DEF RecordSuccess
  <2>3. /\ HistoryIsLinked' /\ state' = to
        /\ transitions' \in Seq(Transition) /\ revision' \in Nat
    BY <2>1, <2>2, TransitionKeepsHistory, StaysKeepsHistory
  <2>4. LifecycleTypeOK'
    BY <2>1, <2>2, <2>3 DEF LifecycleTypeOK, UpTo
  <2>5. LifecycleMatchesCounters'
    BY <2>2, <2>3 DEF LifecycleMatchesCounters, LifecycleTypeOK, NodeLifecycleState,
                      AfterSuccesses, UpTo
  <2> QED BY <2>3, <2>4, <2>5
<1>2. CASE RecordFailure
  <2> DEFINE arm == FailureArm(failures + 1)
  <2>1. arm # "none" => arm \in NodeLifecycleState
    BY DEF FailureArm, NodeLifecycleState
  <2>2. /\ failures' = UpTo(failures, 5) /\ successes' = 0
        /\ IF arm # "none" THEN TransitionTo(arm) ELSE Stays
    BY <1>2 DEF RecordFailure
  <2>3. /\ HistoryIsLinked' /\ state' = IF arm # "none" THEN arm ELSE state
        /\ transitions' \in Seq(Transition) /\ revision' \in Nat
    BY <2>1, <2>2, TransitionKeepsHistory, StaysKeepsHistory
  <2>4. LifecycleTypeOK'
    BY <2>1, <2>2, <2>3 DEF LifecycleTypeOK, UpTo
  <2>5. LifecycleMatchesCounters'
    BY <2>2, <2>3 DEF LifecycleMatchesCounters, LifecycleTypeOK, NodeLifecycleState,
                      FailureArm, UpTo
  <2> QED BY <2>3, <2>4, <2>5
<1>3. CASE Drain
  <2>1. TransitionTo("Draining") /\ failures' = failures /\ successes' = successes
    BY <1>3 DEF Drain
  <2>2. "Draining" \in NodeLifecycleState
    BY DEF NodeLifecycleState
  <2>3. HistoryIsLinked' /\ state' = "Draining" /\ transitions' \in Seq(Transition)
        /\ revision' \in Nat
    BY <2>1, <2>2, TransitionKeepsHistory
  <2> QED BY <2>1, <2>2, <2>3 DEF LifecycleTypeOK, LifecycleMatchesCounters
<1>4. CASE BeginRecovery
  <2>1. TransitionTo("Recovering") /\ failures' = 0 /\ successes' = 0
    BY <1>4 DEF BeginRecovery
  <2>2. "Recovering" \in NodeLifecycleState
    BY DEF NodeLifecycleState
  <2>3. HistoryIsLinked' /\ state' = "Recovering" /\ transitions' \in Seq(Transition)
        /\ revision' \in Nat
    BY <2>1, <2>2, TransitionKeepsHistory
  <2> QED BY <2>1, <2>2, <2>3 DEF LifecycleTypeOK, LifecycleMatchesCounters
<1>5. CASE UNCHANGED lifecycleVars
  BY <1>5 DEF lifecycleVars, LifecycleTypeOK, HistoryIsLinked, LifecycleMatchesCounters
<1> QED BY <1>1, <1>2, <1>3, <1>4, <1>5 DEF LifecycleNext

\* NodeLifecycle keeps its invariant from the healthy node it starts as.
THEOREM LifecycleCorrect == LifecycleSpec => []LifecycleInv
<1>1. LifecycleInit => LifecycleInv
  BY LifecycleAssumption DEF LifecycleInit, LifecycleInv, LifecycleTypeOK, HistoryIsLinked,
        LifecycleMatchesCounters, NodeLifecycleState
<1>2. LifecycleInv /\ [LifecycleNext]_lifecycleVars => LifecycleInv'
  BY LifecycleStep
<1> QED BY <1>1, <1>2, PTL DEF LifecycleSpec

\* However many transitions the history keeps, it is a gapless chain that ends in the
\* current state and revision (NodeLifecycle::transition).
THEOREM LifecycleHistoryIsLinked == LifecycleSpec => []HistoryIsLinked
<1>1. LifecycleInv => HistoryIsLinked
  BY DEF LifecycleInv
<1> QED BY <1>1, LifecycleCorrect, PTL

\* In every sequence of reports, drains and recoveries the state is one the counters allow,
\* and Suspect is never entered (record_success, record_failure).
THEOREM LifecycleStateMatchesCounters == LifecycleSpec => []LifecycleMatchesCounters
<1>1. LifecycleInv => LifecycleMatchesCounters
  BY DEF LifecycleInv
<1> QED BY <1>1, LifecycleCorrect, PTL

--------------------------------------------------------------------------------
(* LeaseStore *)

\* The types of the store and of the owners' copies.
LeaseTypeOK ==
    /\ now \in Nat /\ epoch \in Nat /\ wentBack \in BOOLEAN
    /\ current \in Lease
    /\ held \in [Owner -> Lease]

\* What each copy says about the grant it came from, and what the store's own lease is: the
\* newest grant, whose owner still holds it.
EpochsIdentifyGrants ==
    /\ current = NoLease => epoch = 0
    /\ current # NoLease => /\ current.owner \in Owner /\ current.epoch = epoch
                            /\ epoch > 0 /\ held[current.owner] = current
    /\ \A o \in Owner : held[o] # NoLease =>
          /\ held[o].owner = o /\ held[o].epoch \in 1..epoch
          /\ held[o].epoch = epoch => held[o] = current

\* While the clock has only advanced, whoever is not the owner of the store's lease holds
\* an expired copy: it was expired when the store let another owner in.
OthersExpired ==
    ~wentBack => \A o \in Owner : IsValid(held[o]) => held[o] = current

\* The inductive invariant of the lease store.
LeaseInv == LeaseTypeOK /\ EpochsIdentifyGrants /\ OthersExpired

\* acquire and the wall clock, in either direction, keep the lease invariant.
LEMMA LeaseStep ==
    ASSUME LeaseInv, [LeaseNext]_leaseVars
    PROVE  LeaseInv'
<1> USE DEF LeaseInv
<1>1. ASSUME NEW o \in Owner, NEW ttl \in Ttls, Acquire(o, ttl)
      PROVE  LeaseInv'
  <2> DEFINE lease == [epoch |-> epoch + 1, owner |-> o, expiresAt |-> now + ttl]
  <2>1. /\ epoch' = epoch + 1 /\ current' = lease
        /\ held' = [held EXCEPT ![o] = lease]
        /\ now' = now /\ wentBack' = wentBack
        /\ ~(IsValid(current) /\ current.owner # o)
    BY <1>1 DEF Acquire, Granted
  <2>2. ttl \in Nat /\ epoch \in Nat /\ now \in Nat
    BY LeaseAssumption DEF LeaseTypeOK
  <2>3. /\ lease \in Lease /\ lease # NoLease /\ lease.owner = o /\ lease.epoch = epoch + 1
    BY <2>2 DEF Lease, NoLease
  <2> HIDE DEF lease
  <2>4. LeaseTypeOK'
    BY <2>1, <2>2, <2>3 DEF LeaseTypeOK
  <2>5. held'[o] = lease /\ \A p \in Owner \ {o} : held'[p] = held[p]
    BY <2>1 DEF LeaseTypeOK
  <2>6. EpochsIdentifyGrants'
    BY <2>1, <2>2, <2>3, <2>5 DEF EpochsIdentifyGrants
  <2>7. OthersExpired'
    <3> SUFFICES ASSUME ~wentBack, NEW p \in Owner, p # o, IsValid(held[p])
                 PROVE  FALSE
      BY <2>1, <2>5 DEF OthersExpired, IsValid
    <3>1. held[p] = current /\ held[p] # NoLease
      BY DEF OthersExpired, IsValid
    <3>2. current.owner = p /\ IsValid(current)
      BY <3>1 DEF EpochsIdentifyGrants
    <3> QED BY <3>2, <2>1
  <2> QED BY <2>4, <2>6, <2>7
<1>2. CASE ClockAdvances
  <2>1. /\ now' = now + 1 /\ epoch' = epoch /\ current' = current
        /\ held' = held /\ wentBack' = wentBack
    BY <1>2 DEF ClockAdvances
  <2>2. LeaseTypeOK' /\ EpochsIdentifyGrants'
    BY <2>1 DEF LeaseTypeOK, EpochsIdentifyGrants
  <2>3. \A l \in Lease : IsValid(l)' => IsValid(l)
    BY <2>1 DEF IsValid, Lease, NoLease, LeaseTypeOK
  <2>4. OthersExpired'
    BY <2>1, <2>3 DEF OthersExpired, LeaseTypeOK, IsValid
  <2> QED BY <2>2, <2>4
<1>3. CASE ClockStepsBack
  <2>1. /\ now' = now - 1 /\ now > 0 /\ epoch' = epoch /\ current' = current
        /\ held' = held /\ wentBack' = TRUE
    BY <1>3 DEF ClockStepsBack
  <2> QED BY <2>1 DEF LeaseTypeOK, EpochsIdentifyGrants, OthersExpired
<1>4. CASE UNCHANGED leaseVars
  BY <1>4 DEF leaseVars, LeaseTypeOK, EpochsIdentifyGrants, OthersExpired, IsValid
<1> QED BY <1>1, <1>2, <1>3, <1>4 DEF LeaseNext

\* Whatever the owners ask for and however the clock moves, at most one owner's lease
\* verifies, it is the newest, and the owners' own copies exclude each other until the
\* clock steps back (InMemoryLeaseStore::acquire, verify, Lease::is_valid).
THEOREM LeaseOneHolder == LeaseSpec => []OneHolder
<1>1. LeaseInit => LeaseInv
  <2> SUFFICES ASSUME LeaseInit PROVE LeaseInv
    OBVIOUS
  <2>1. held = [o \in Owner |-> NoLease] /\ current = NoLease /\ NoLease \in Lease
    BY DEF LeaseInit, Lease
  <2>2. now \in Nat /\ epoch = 0 /\ epoch \in Nat
    BY DEF LeaseInit
  <2>3. wentBack \in BOOLEAN
    BY Zenon DEF LeaseInit
  <2> QED BY <2>1, <2>2, <2>3 DEF LeaseInv, LeaseTypeOK, EpochsIdentifyGrants, OthersExpired
<1>2. LeaseInv /\ [LeaseNext]_leaseVars => LeaseInv'
  BY LeaseStep
<1>3. LeaseInv => OneHolder
  <2> SUFFICES ASSUME LeaseInv PROVE OneHolder
    OBVIOUS
  <2>1. \A o \in Owner : Verify(held[o].epoch) =>
            held[o] = current /\ current.epoch = epoch /\ current.owner = o
    <3> SUFFICES ASSUME NEW o \in Owner, Verify(held[o].epoch)
                 PROVE  held[o] = current /\ current.epoch = epoch /\ current.owner = o
      OBVIOUS
    <3>1. current # NoLease /\ current.epoch = epoch /\ epoch > 0 /\ held[o].epoch = epoch
      BY DEF Verify, IsValid, LeaseInv, EpochsIdentifyGrants
    <3>2. held[o] # NoLease
      BY <3>1 DEF NoLease
    <3> QED BY <3>1, <3>2 DEF LeaseInv, EpochsIdentifyGrants
  <2>2. ~wentBack => \A o \in Owner : IsValid(held[o]) => current.owner = o
    BY DEF LeaseInv, OthersExpired, EpochsIdentifyGrants, IsValid
  <2> QED BY <2>1, <2>2 DEF OneHolder
<1> QED BY <1>1, <1>2, <1>3, PTL DEF LeaseSpec

--------------------------------------------------------------------------------
(* KvPlanning *)

\* What the registries hold: keys that passed their checks, entries of their types.
ModelMap == UNION {[D -> Metadata] : D \in SUBSET ModelRef}
RecordMap == UNION {[D -> Record] : D \in SUBSET (ModelRef \X ModelRef)}

KvState ==
    [models : ModelMap, modelRevision : Nat, compatibility : RecordMap,
     compatibilityRevision : Nat, policy : Policy]

\* Only what register validated is in a registry.
Checked(kv) ==
    /\ \A m \in DOMAIN kv.models : ValidModel(m)
    /\ \A pair \in DOMAIN kv.compatibility : ValidRecord(kv.compatibility[pair])

\* The planner's copy is an earlier state of the live registries: a revision that has not
\* moved on vouches for the map it counts.
SameLineage ==
    /\ planner.modelRevision <= live.modelRevision
    /\ planner.modelRevision = live.modelRevision => planner.models = live.models
    /\ planner.compatibilityRevision <= live.compatibilityRevision
    /\ planner.compatibilityRevision = live.compatibilityRevision =>
          planner.compatibility = live.compatibility

\* An executable plan carries the selection of the planner's present copy.
ReplyIsSelection ==
    reply.outcome = "Execute" =>
        reply.context \in Contexts /\ reply.kv = Select(planner, reply.context)

\* The inductive invariant.
KvInv ==
    /\ live \in KvState /\ planner \in KvState
    /\ Checked(live) /\ Checked(planner)
    /\ SameLineage
    /\ ReplyIsSelection

--------------------------------------------------------------------------------
\* ModelRegistry::register keeps the map typed.
LEMMA PutModelTyped ==
    ASSUME NEW f \in ModelMap, NEW k \in ModelRef, NEW v \in Metadata
    PROVE  Put(f, k, v) \in ModelMap
<1>1. PICK D \in SUBSET ModelRef : f \in [D -> Metadata]
  BY DEF ModelMap
<1>2. D \cup {k} \in SUBSET ModelRef /\ Put(f, k, v) \in [D \cup {k} -> Metadata]
  BY <1>1 DEF Put
<1> QED BY <1>2 DEF ModelMap

\* KvCompatibilityRegistry::register keeps the map typed.
LEMMA PutRecordTyped ==
    ASSUME NEW f \in RecordMap, NEW k \in ModelRef \X ModelRef, NEW v \in Record
    PROVE  Put(f, k, v) \in RecordMap
<1>1. PICK D \in SUBSET (ModelRef \X ModelRef) : f \in [D -> Record]
  BY DEF RecordMap
<1>2. D \cup {k} \in SUBSET (ModelRef \X ModelRef) /\ Put(f, k, v) \in [D \cup {k} -> Record]
  BY <1>1 DEF Put
<1> QED BY <1>2 DEF RecordMap

\* A registry's entries have the types of what was registered.
LEMMA EntriesAreTyped ==
    ASSUME NEW kv \in KvState
    PROVE  /\ \A m \in DOMAIN kv.models : kv.models[m] \in Metadata
           /\ \A pair \in DOMAIN kv.compatibility : kv.compatibility[pair] \in Record
           /\ kv.policy \in Policy
<1>1. kv.models \in ModelMap /\ kv.compatibility \in RecordMap /\ kv.policy \in Policy
  BY DEF KvState
<1>2. PICK D \in SUBSET ModelRef : kv.models \in [D -> Metadata]
  BY <1>1 DEF ModelMap
<1>3. PICK E \in SUBSET (ModelRef \X ModelRef) : kv.compatibility \in [E -> Record]
  BY <1>1 DEF RecordMap
<1> QED BY <1>1, <1>2, <1>3

--------------------------------------------------------------------------------
\* No doubt about a transfer means that the record is supported, measured in every respect
\* and within the policy, and the other way round (the chain of tests in select).
LEMMA NoDoubtMeansEarned ==
    ASSUME NEW r \in Record, ValidRecord(r), NEW p \in Policy
    PROVE  TransferDoubt(r, p) = "none" <=>
             /\ r.supported /\ Measured(r) /\ r.samples > 0
             /\ r.quality >= p.minQuality /\ r.variance <= p.maxVariance
             /\ r.confidence >= p.minConfidence /\ r.failure <= p.maxFailure
<1>1. /\ {r.quality, r.variance, r.failure, r.confidence, r.p50, r.p95} \subseteq Int
      /\ r.mapping \in Nat \cup {Unknown} /\ r.samples \in Nat \cup {Unknown}
      /\ {p.minQuality, p.maxVariance, p.minConfidence, p.maxFailure} \subseteq Int
  BY DEF Record, Policy
<1>2. Unknown = -2
  BY DEF Unknown
<1>3. Measured(r) <=> Unknown \notin Measurements(r)
  <2>1. ASSUME Unknown \notin Measurements(r)
        PROVE  Measured(r)
    <3>1. /\ r.quality \in 0..Unit /\ r.failure \in 0..Unit /\ r.confidence \in 0..Unit
          /\ r.variance >= 0 /\ r.p50 >= 0 /\ r.p95 >= 0
          /\ r.mapping \in Nat /\ r.samples \in Nat
      BY <2>1, <1>1 DEF ValidRecord, ValidRatio, ValidAmount, Known, Measurements
    <3>2. \A v \in 0..Unit : v >= 0
      BY KvAssumption
    <3> QED BY <3>1, <3>2 DEF Measured, Measurements
  <2>2. ASSUME Measured(r)
        PROVE  Unknown \notin Measurements(r)
    BY <2>2, <1>2 DEF Measured
  <2> QED BY <2>1, <2>2
<1>4. ~(Unknown \in Measurements(r) \/ r.samples = 0) => r.samples > 0
  BY <1>1 DEF Measurements
<1>5. r.samples > 0 => r.samples # 0
  BY <1>1, <1>2
<1>6. /\ ~(r.quality < p.minQuality) <=> r.quality >= p.minQuality
      /\ ~(r.variance > p.maxVariance) <=> r.variance <= p.maxVariance
      /\ ~(r.confidence < p.minConfidence) <=> r.confidence >= p.minConfidence
      /\ ~(r.failure > p.maxFailure) <=> r.failure <= p.maxFailure
  BY <1>1
<1> QED BY <1>3, <1>4, <1>5, <1>6 DEF TransferDoubt

--------------------------------------------------------------------------------
\* What ReuseIsEarned asks of a copy of the registries before it may say yes.
Earned(kv, c) ==
    /\ c.requested # "None"
    /\ ValidPolicy(kv.policy)
    /\ c.target \in DOMAIN kv.models
    /\ c.requested \in kv.models[c.target].strategies
    /\ c.requested = "CrossModelKvTransfer" => TransferEarned(kv, c)

\* The three answers of select: normal prefill, a fallback that says why, and reuse.
LEMMA Answers ==
    ASSUME NEW kv, NEW c, NEW x
    PROVE  /\ Normal(kv).strategy = "None"
           /\ FallbackTo(kv, c, x).strategy = "None" /\ FallbackTo(kv, c, x).fallback = x
           /\ Reuse(kv, c, x).strategy = c.requested /\ Reuse(kv, c, x).fallback = "none"
           /\ Reuse(kv, c, x).mapping = x
BY DEF Normal, FallbackTo, Reuse

\* The tests of the transfer arm of select, taken together, are TransferEarned.
LEMMA TransferIsEarned ==
    ASSUME NEW kv \in KvState, Checked(kv), NEW c \in Contexts,
           c.requested = "CrossModelKvTransfer"
    PROVE  IF TransferEarned(kv, c)
           THEN SelectTransfer(kv, c) = Reuse(kv, c, kv.compatibility[<<c.source, c.target>>].mapping)
           ELSE \E reason : reason # "none" /\ SelectTransfer(kv, c) = FallbackTo(kv, c, reason)
<1> DEFINE pair == <<c.source, c.target>>
           rec  == kv.compatibility[pair]
<1>1. /\ \A m \in DOMAIN kv.models : m # NoSource
      /\ pair \in DOMAIN kv.compatibility => rec \in Record /\ ValidRecord(rec)
      /\ kv.policy \in Policy
  BY EntriesAreTyped DEF Checked, ValidModel, NoSource
<1>2. CASE c.source = NoSource \/ c.source \notin DOMAIN kv.models
  <2>1. ~TransferEarned(kv, c)
    BY <1>1, <1>2 DEF TransferEarned
  <2>2. SourceError(LookupError(kv, c.source)) # "none"
    BY DEF SourceError
  <2>3. \/ SelectTransfer(kv, c) = FallbackTo(kv, c, "MissingSource")
        \/ SelectTransfer(kv, c) = FallbackTo(kv, c, SourceError(LookupError(kv, c.source)))
    BY <1>2 DEF SelectTransfer
  <2> QED BY <2>1, <2>2, <2>3
<1>3. CASE /\ c.source # NoSource /\ c.source \in DOMAIN kv.models
           /\ ~("CrossModelKvTransfer" \in kv.models[c.source].strategies)
  <2>1. ~TransferEarned(kv, c)
    BY <1>3 DEF TransferEarned
  <2>2. SelectTransfer(kv, c) = FallbackTo(kv, c, "UnsupportedStrategy")
    BY <1>3 DEF SelectTransfer, SupportsKv
  <2> QED BY <2>1, <2>2
<1>4. CASE /\ c.source # NoSource /\ c.source \in DOMAIN kv.models
           /\ "CrossModelKvTransfer" \in kv.models[c.source].strategies
           /\ pair \notin DOMAIN kv.compatibility
  <2>1. ~TransferEarned(kv, c)
    BY <1>4 DEF TransferEarned
  <2>2. SelectTransfer(kv, c) = FallbackTo(kv, c, "CompatibilityUnknown")
    BY <1>4 DEF SelectTransfer, SupportsKv
  <2> QED BY <2>1, <2>2
<1>5. CASE /\ c.source # NoSource /\ c.source \in DOMAIN kv.models
           /\ "CrossModelKvTransfer" \in kv.models[c.source].strategies
           /\ pair \in DOMAIN kv.compatibility
  <2>1. TransferEarned(kv, c) <=> TransferDoubt(rec, kv.policy) = "none"
    BY <1>1, <1>5, NoDoubtMeansEarned DEF TransferEarned
  <2>2. SelectTransfer(kv, c) = IF TransferDoubt(rec, kv.policy) # "none"
                                THEN FallbackTo(kv, c, TransferDoubt(rec, kv.policy))
                                ELSE Reuse(kv, c, rec.mapping)
    BY <1>5 DEF SelectTransfer, SupportsKv
  <2> QED BY <2>1, <2>2
<1> QED BY <1>2, <1>3, <1>4, <1>5

\* select reuses KV state exactly when it is earned and otherwise names a reason.
LEMMA SelectionIsEarned ==
    ASSUME NEW kv \in KvState, Checked(kv), NEW c \in Contexts
    PROVE  /\ Select(kv, c).strategy = IF Earned(kv, c) THEN c.requested ELSE "None"
           /\ Earned(kv, c) => Select(kv, c).fallback = "none"
           /\ ~Earned(kv, c) /\ c.requested # "None" => Select(kv, c).fallback # "none"
<1>1. CASE ~ValidPolicy(kv.policy)
  <2>1. Select(kv, c) = FallbackTo(kv, c, "InvalidPolicy") /\ ~Earned(kv, c)
    BY <1>1 DEF Select, Earned
  <2> QED BY <2>1, Answers
<1>2. CASE ValidPolicy(kv.policy) /\ c.target \notin DOMAIN kv.models
  <2>1. Select(kv, c) = FallbackTo(kv, c, LookupError(kv, c.target)) /\ ~Earned(kv, c)
    BY <1>2 DEF Select, Earned
  <2>2. LookupError(kv, c.target) # "none"
    BY DEF LookupError
  <2> QED BY <2>1, <2>2, Answers
<1>3. CASE ValidPolicy(kv.policy) /\ c.target \in DOMAIN kv.models /\ c.requested = "None"
  <2>1. Select(kv, c) = Normal(kv) /\ ~Earned(kv, c)
    BY <1>3 DEF Select, Earned
  <2> QED BY <1>3, <2>1, Answers
<1>4. CASE /\ ValidPolicy(kv.policy) /\ c.target \in DOMAIN kv.models
           /\ c.requested # "None" /\ c.requested \notin kv.models[c.target].strategies
  <2>1. Select(kv, c) = FallbackTo(kv, c, "UnsupportedStrategy") /\ ~Earned(kv, c)
    BY <1>4 DEF Select, Earned, SupportsKv
  <2> QED BY <2>1, Answers
<1>5. CASE /\ ValidPolicy(kv.policy) /\ c.target \in DOMAIN kv.models
           /\ c.requested # "None" /\ c.requested \in kv.models[c.target].strategies
  <2>1. CASE c.requested # "CrossModelKvTransfer"
    <3>1. Select(kv, c) = Reuse(kv, c, Unknown) /\ Earned(kv, c)
      BY <1>5, <2>1 DEF Select, Earned, SupportsKv
    <3> QED BY <3>1, Answers
  <2>2. CASE c.requested = "CrossModelKvTransfer"
    <3>1. Select(kv, c) = SelectTransfer(kv, c)
      BY <1>5, <2>2 DEF Select, SupportsKv
    <3>2. Earned(kv, c) <=> TransferEarned(kv, c)
      BY <1>5, <2>2 DEF Earned
    <3>3. CASE TransferEarned(kv, c)
      <4>1. PICK mapping : Select(kv, c) = Reuse(kv, c, mapping)
        BY <3>1, <3>3, <2>2, TransferIsEarned
      <4> QED BY <3>2, <3>3, <4>1, Answers
    <3>4. CASE ~TransferEarned(kv, c)
      <4>1. PICK reason : reason # "none" /\ Select(kv, c) = FallbackTo(kv, c, reason)
        BY <3>1, <3>4, <2>2, TransferIsEarned
      <4> QED BY <3>2, <3>4, <4>1, Answers
    <3> QED BY <3>3, <3>4
  <2> QED BY <2>1, <2>2
<1> QED BY <1>1, <1>2, <1>3, <1>4, <1>5

\* What is registered on top of a copy under the same policy takes no reuse back: the entries
\* that earned it are still there.
LEMMA GrowthKeepsSelection ==
    ASSUME NEW kv \in KvState, Checked(kv), NEW more \in KvState, Checked(more),
           NEW c \in Contexts,
           DOMAIN kv.models \subseteq DOMAIN more.models,
           \A m \in DOMAIN kv.models : more.models[m] = kv.models[m],
           DOMAIN kv.compatibility \subseteq DOMAIN more.compatibility,
           \A pair \in DOMAIN kv.compatibility :
               more.compatibility[pair] = kv.compatibility[pair],
           more.policy = kv.policy,
           Select(kv, c).strategy # "None"
    PROVE  /\ Select(more, c).strategy = Select(kv, c).strategy
           /\ Select(more, c).mapping = Select(kv, c).mapping
<1>1. Earned(kv, c) /\ Select(kv, c).strategy = c.requested /\ c.requested # "None"
  BY SelectionIsEarned DEF Earned
<1>2. Earned(more, c)
  BY <1>1 DEF Earned, TransferEarned
<1>3. Select(more, c).strategy = c.requested
  BY <1>2, SelectionIsEarned
<1>4. CASE c.requested # "CrossModelKvTransfer"
  <2>1. Select(kv, c) = Reuse(kv, c, Unknown) /\ Select(more, c) = Reuse(more, c, Unknown)
    BY <1>1, <1>2, <1>4 DEF Select, Earned, SupportsKv
  <2> QED BY <1>1, <1>3, <2>1, Answers
<1>5. CASE c.requested = "CrossModelKvTransfer"
  <2>1. TransferEarned(kv, c) /\ TransferEarned(more, c)
    BY <1>1, <1>2, <1>5 DEF Earned
  <2>2. Select(kv, c) = SelectTransfer(kv, c) /\ Select(more, c) = SelectTransfer(more, c)
    BY <1>1, <1>2, <1>5 DEF Select, Earned, SupportsKv
  <2>3. /\ Select(kv, c).mapping = kv.compatibility[<<c.source, c.target>>].mapping
        /\ Select(more, c).mapping = more.compatibility[<<c.source, c.target>>].mapping
    BY <2>1, <2>2, <1>5, TransferIsEarned, Answers
  <2>4. <<c.source, c.target>> \in DOMAIN kv.compatibility
    BY <2>1 DEF TransferEarned
  <2> QED BY <1>1, <1>3, <2>3, <2>4
<1> QED BY <1>4, <1>5

--------------------------------------------------------------------------------
\* Assigning a map and its revision changes those two fields and keeps the record typed.
LEMMA ModelsAssigned ==
    ASSUME NEW kv \in KvState, NEW f \in ModelMap, NEW n \in Nat
    PROVE  [kv EXCEPT !.models = f, !.modelRevision = n] \in KvState
BY DEF KvState

\* The same of the compatibility registry.
LEMMA CompatibilityAssigned ==
    ASSUME NEW kv \in KvState, NEW f \in RecordMap, NEW n \in Nat
    PROVE  [kv EXCEPT !.compatibility = f, !.compatibilityRevision = n] \in KvState
BY DEF KvState

\* The same of the policy.
LEMMA PolicyAssigned ==
    ASSUME NEW kv \in KvState, NEW p \in Policy
    PROVE  [kv EXCEPT !.policy = p] \in KvState
BY DEF KvState

\* The registries grow by checked entries only, and each growth is counted.
LEMMA RegisterModelStep ==
    ASSUME live \in KvState, Checked(live), NEW m \in ModelInputs, RegisterModel(m)
    PROVE  /\ live' \in KvState /\ Checked(live)'
           /\ live'.modelRevision = live.modelRevision + 1
           /\ live'.models = Put(live.models, m.model, m)
           /\ live'.compatibility = live.compatibility
           /\ live'.compatibilityRevision = live.compatibilityRevision
           /\ live'.policy = live.policy
<1> DEFINE grown == Put(live.models, m.model, m)
<1>1. /\ live' = [live EXCEPT !.models = grown, !.modelRevision = live.modelRevision + 1]
      /\ ValidModel(m.model) /\ m.model \notin DOMAIN live.models
  BY DEF RegisterModel
<1>2. m \in Metadata /\ m.model \in ModelRef /\ live.models \in ModelMap
  BY KvInputAssumption DEF KvState, Metadata
<1>3. grown \in ModelMap
  BY <1>2, PutModelTyped
<1>4. /\ DOMAIN grown = DOMAIN live.models \cup {m.model}
  BY DEF Put
<1> HIDE DEF grown
<1>5. live.modelRevision + 1 \in Nat
  BY DEF KvState
<1>6. live' \in KvState
  BY <1>1, <1>3, <1>5, ModelsAssigned
<1>7. /\ live'.modelRevision = live.modelRevision + 1
      /\ live'.models = grown
      /\ live'.compatibility = live.compatibility
      /\ live'.compatibilityRevision = live.compatibilityRevision
      /\ live'.policy = live.policy
  BY <1>1 DEF KvState
<1>8. Checked(live)'
  BY <1>1, <1>4, <1>7 DEF Checked
<1> QED BY <1>6, <1>7, <1>8 DEF grown

\* The same of a compatibility record.
LEMMA RegisterCompatibilityStep ==
    ASSUME live \in KvState, Checked(live), NEW r \in RecordInputs, RegisterCompatibility(r)
    PROVE  /\ live' \in KvState /\ Checked(live)'
           /\ live'.compatibilityRevision = live.compatibilityRevision + 1
           /\ live'.compatibility = Put(live.compatibility, <<r.source, r.target>>, r)
           /\ live'.models = live.models /\ live'.modelRevision = live.modelRevision
           /\ live'.policy = live.policy
<1> DEFINE pair  == <<r.source, r.target>>
           grown == Put(live.compatibility, pair, r)
<1>1. /\ live' = [live EXCEPT !.compatibility = grown,
                              !.compatibilityRevision = live.compatibilityRevision + 1]
      /\ ValidRecord(r) /\ pair \notin DOMAIN live.compatibility
  BY DEF RegisterCompatibility
<1>2. r \in Record /\ pair \in ModelRef \X ModelRef /\ live.compatibility \in RecordMap
  BY KvInputAssumption DEF KvState, Record
<1> HIDE DEF pair
<1>3. grown \in RecordMap
  BY <1>2, PutRecordTyped
<1>4. /\ DOMAIN grown = DOMAIN live.compatibility \cup {pair} /\ grown[pair] = r
      /\ \A x \in DOMAIN live.compatibility : grown[x] = live.compatibility[x]
  BY <1>1 DEF Put
<1> HIDE DEF grown
<1>5. live.compatibilityRevision + 1 \in Nat
  BY DEF KvState
<1>6. live' \in KvState
  BY <1>1, <1>3, <1>5, CompatibilityAssigned
<1>7. /\ live'.compatibilityRevision = live.compatibilityRevision + 1
      /\ live'.compatibility = grown
      /\ live'.models = live.models /\ live'.modelRevision = live.modelRevision
      /\ live'.policy = live.policy
  BY <1>1 DEF KvState
<1>8. Checked(live)'
  BY <1>1, <1>4, <1>7 DEF Checked
<1> QED BY <1>6, <1>7, <1>8 DEF grown, pair

\* Every operation keeps the invariant: a registration moves its revision on, the policy
\* leaves both alone, a new copy equals its origin, a plan changes neither.
LEMMA KvStep ==
    ASSUME KvInv, [KvNext]_kvVars
    PROVE  KvInv'
<1>0. /\ live \in KvState /\ planner \in KvState /\ Checked(live) /\ Checked(planner)
      /\ SameLineage /\ ReplyIsSelection
      /\ {live.modelRevision, live.compatibilityRevision} \subseteq Nat
      /\ {planner.modelRevision, planner.compatibilityRevision} \subseteq Nat
  BY DEF KvInv, KvState
<1>1. ASSUME reply' = NoReply
      PROVE  ReplyIsSelection'
  BY <1>1 DEF ReplyIsSelection, NoReply
<1>2. ASSUME NEW m \in ModelInputs, RegisterModel(m)
      PROVE  KvInv'
  <2>1. planner' = planner /\ reply' = NoReply
    BY <1>2 DEF RegisterModel
  <2>2. SameLineage'
    BY <1>0, <1>2, <2>1, RegisterModelStep DEF SameLineage
  <2>3. live' \in KvState /\ Checked(live)'
    BY <1>0, <1>2, RegisterModelStep
  <2> QED BY <1>0, <1>1, <2>1, <2>2, <2>3 DEF KvInv, Checked
<1>3. ASSUME NEW r \in RecordInputs, RegisterCompatibility(r)
      PROVE  KvInv'
  <2>1. planner' = planner /\ reply' = NoReply
    BY <1>3 DEF RegisterCompatibility
  <2>2. SameLineage'
    <3>1. /\ live'.compatibilityRevision = live.compatibilityRevision + 1
          /\ live'.models = live.models /\ live'.modelRevision = live.modelRevision
          /\ live'.policy = live.policy
      BY <1>0, <1>3, RegisterCompatibilityStep
    <3> QED BY <1>0, <2>1, <3>1 DEF SameLineage
  <2>3. live' \in KvState /\ Checked(live)'
    BY <1>0, <1>3, RegisterCompatibilityStep
  <2> QED BY <1>0, <1>1, <2>1, <2>2, <2>3 DEF KvInv, Checked
<1>4. ASSUME NEW p \in PolicyInputs, SetPolicy(p)
      PROVE  KvInv'
  <2>1. /\ planner' = planner /\ reply' = NoReply
        /\ live' = [live EXCEPT !.policy = p]
        /\ p \in Policy
    BY <1>4, KvInputAssumption DEF SetPolicy
  <2>2. /\ live'.models = live.models /\ live'.modelRevision = live.modelRevision
        /\ live'.compatibility = live.compatibility
        /\ live'.compatibilityRevision = live.compatibilityRevision
    BY <1>0, <2>1 DEF KvState
  <2>3. SameLineage'
    BY <1>0, <2>1, <2>2 DEF SameLineage
  <2>4. Checked(live)' /\ Checked(planner)'
    BY <1>0, <2>1, <2>2 DEF Checked
  <2>5. live' \in KvState
    BY <1>0, <2>1, PolicyAssigned
  <2> QED BY <1>0, <1>1, <2>1, <2>3, <2>4, <2>5 DEF KvInv
<1>5. CASE Capture
  <2>1. planner' = live /\ live' = live /\ reply' = NoReply
    BY <1>5 DEF Capture
  <2>2. SameLineage'
    BY <1>0, <2>1 DEF SameLineage
  <2> QED BY <1>0, <1>1, <2>1, <2>2 DEF KvInv, Checked
<1>6. ASSUME live' = live, planner' = planner, ReplyIsSelection'
      PROVE  KvInv'
  BY <1>0, <1>6 DEF KvInv, Checked, SameLineage
<1>7. ASSUME NEW route \in RouteInputs, PlanInvalid(route)
      PROVE  KvInv'
  BY <1>6, <1>7 DEF PlanInvalid, ReplyIsSelection
<1>8. ASSUME NEW route \in RouteInputs, PlanTooLong(route)
      PROVE  KvInv'
  BY <1>6, <1>8 DEF PlanTooLong, ReplyIsSelection
<1>9. ASSUME NEW route \in RouteInputs, NEW c \in Contexts, PlanExecute(route, c)
      PROVE  KvInv'
  <2>1. /\ live' = live /\ planner' = planner
        /\ reply' = [outcome |-> "Execute", steps |-> route.nodes, context |-> c,
                     kv |-> Select(planner, c)]
    BY <1>9 DEF PlanExecute
  <2>2. reply'.context = c /\ reply'.kv = Select(planner, c)
    BY <2>1
  <2>3. ReplyIsSelection'
    <3>1. Select(planner, c)' = Select(planner, c)
      BY <2>1
    <3> QED BY <2>2, <3>1 DEF ReplyIsSelection
  <2> QED BY <1>6, <2>1, <2>3
<1>10. ASSUME NEW route \in RouteInputs, PlanRecover(route)
       PROVE  KvInv'
  BY <1>6, <1>10 DEF PlanRecover, ReplyIsSelection
<1>11. CASE UNCHANGED kvVars
  BY <1>0, <1>6, <1>11 DEF kvVars, ReplyIsSelection
<1> QED BY <1>2, <1>3, <1>4, <1>5, <1>7, <1>8, <1>9, <1>10, <1>11 DEF KvNext

\* The invariant holds from the empty registries of KvIntelligence::default.
LEMMA KvCorrect == KvSpec => []KvInv
<1>1. ASSUME KvInit
      PROVE  KvInv
  <2>1. NoEntry \in ModelMap /\ NoEntry \in RecordMap /\ DOMAIN NoEntry = {}
    BY DEF NoEntry, ModelMap, RecordMap
  <2>2. Empty \in KvState /\ Checked(Empty)
    BY <2>1, KvInputAssumption DEF Empty, KvState, Checked
  <2>3. live = Empty /\ planner = Empty /\ reply.outcome = "none"
    BY <1>1 DEF KvInit, NoReply
  <2>4. {Empty.modelRevision, Empty.compatibilityRevision} \subseteq Nat
    BY DEF Empty
  <2> QED BY <2>2, <2>3, <2>4 DEF KvInv, SameLineage, ReplyIsSelection
<1>2. KvInv /\ [KvNext]_kvVars => KvInv'
  BY KvStep
<1> QED BY <1>1, <1>2, PTL DEF KvSpec

\* "Unknown measurements never imply reuse" for every content of the registries: a plan
\* reuses KV state exactly when the planner's copy speaks for it, and otherwise says
\* why not (KvIntelligence::select, Planner::plan_with_kv).
THEOREM KvReuseIsEarned == KvSpec => []ReuseIsEarned
<1>1. KvInv => ReuseIsEarned
  <2> SUFFICES ASSUME KvInv, reply.outcome = "Execute"
               PROVE  LET c == reply.context
                      IN /\ reply.kv.strategy = IF Earned(planner, c) THEN c.requested ELSE "None"
                         /\ Earned(planner, c) => reply.kv.fallback = "none"
                         /\ ~Earned(planner, c) /\ c.requested # "None" =>
                               reply.kv.fallback # "none"
    BY DEF ReuseIsEarned, Earned
  <2>1. reply.context \in Contexts /\ reply.kv = Select(planner, reply.context)
    BY DEF KvInv, ReplyIsSelection
  <2> QED BY <2>1, SelectionIsEarned DEF KvInv
<1> QED BY <1>1, KvCorrect, PTL

\* ControlPlaneSnapshot::is_current_for can be trusted with the registries: equal revisions
\* of one lineage mean equal registries, so under one policy no question is decided
\* differently.
THEOREM KvVersionsIdentifyDecisions == KvSpec => []VersionsIdentifyDecisions
<1>1. KvInv => VersionsIdentifyDecisions
  <2> SUFFICES ASSUME KvInv, IsCurrent(planner, live), planner.policy = live.policy
               PROVE  planner = live
    BY DEF VersionsIdentifyDecisions
  <2>1. /\ planner.modelRevision = live.modelRevision
        /\ planner.compatibilityRevision = live.compatibilityRevision
    BY DEF IsCurrent, Versions
  <2>2. /\ planner.models = live.models /\ planner.compatibility = live.compatibility
    BY <2>1 DEF KvInv, SameLineage
  <2> QED BY <2>1, <2>2 DEF KvInv, KvState
<1> QED BY <1>1, KvCorrect, PTL

\* No registration takes back a reuse that select grants under the same policy, nor changes
\* the mapping it was granted with (register refuses what is already there).
THEOREM KvGrowthNeverRevokes == KvSpec => GrowthNeverRevokes
<1>1. ASSUME KvInv, KvInv', [KvNext]_kvVars
      PROVE  [live'.policy = live.policy => \A c \in Contexts : ~Revokes(c)]_kvVars
  <2> SUFFICES ASSUME live'.policy = live.policy, NEW c \in Contexts,
                      Select(live, c).strategy # "None"
               PROVE  /\ Select(live', c).strategy = Select(live, c).strategy
                      /\ Select(live', c).mapping = Select(live, c).mapping
    BY DEF Revokes
  <2> DEFINE Grown == /\ DOMAIN live.models \subseteq DOMAIN live'.models
                      /\ \A m \in DOMAIN live.models : live'.models[m] = live.models[m]
                      /\ DOMAIN live.compatibility \subseteq DOMAIN live'.compatibility
                      /\ \A pair \in DOMAIN live.compatibility :
                            live'.compatibility[pair] = live.compatibility[pair]
  <2>1. live \in KvState /\ Checked(live) /\ live' \in KvState /\ Checked(live')
    BY <1>1 DEF KvInv, Checked
  <2>2. Grown
    <3>1. ASSUME NEW m \in ModelInputs, RegisterModel(m)
          PROVE  Grown
      <4>1. /\ live'.models = Put(live.models, m.model, m)
            /\ live'.compatibility = live.compatibility
            /\ m.model \notin DOMAIN live.models
        BY <3>1, <2>1, RegisterModelStep DEF RegisterModel
      <4> QED BY <4>1 DEF Put
    <3>2. ASSUME NEW r \in RecordInputs, RegisterCompatibility(r)
          PROVE  Grown
      <4>1. /\ live'.compatibility = Put(live.compatibility, <<r.source, r.target>>, r)
            /\ live'.models = live.models
            /\ <<r.source, r.target>> \notin DOMAIN live.compatibility
        BY <3>2, <2>1, RegisterCompatibilityStep DEF RegisterCompatibility
      <4> QED BY <4>1 DEF Put
    <3>3. ASSUME NEW p \in PolicyInputs, SetPolicy(p)
          PROVE  Grown
      BY <3>3, <2>1 DEF SetPolicy, KvState
    <3>4. CASE live' = live
      BY <3>4
    <3> QED BY <1>1, <3>1, <3>2, <3>3, <3>4
            DEF KvNext, kvVars, Capture, PlanInvalid, PlanTooLong, PlanExecute, PlanRecover
  <2> QED BY <2>1, <2>2, GrowthKeepsSelection
<1> QED BY <1>1, KvCorrect, PTL DEF KvSpec, GrowthNeverRevokes
===============================================================================
