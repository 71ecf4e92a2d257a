--------------------------- MODULE FabricAdmission ---------------------------
(***************************************************************************)
(* The lock-free admission controller of src/fabric.rs: two atomic         *)
(* counters, each tested with a load and raised by a separate fetch_add.   *)
(* Every load and every read-modify-write is a step of its own.  Callers   *)
(* hand back what they were given: complete() after Accept, dequeue()      *)
(* after Queue.                                                            *)
(***************************************************************************)
EXTENDS Integers, FiniteSets

CONSTANTS
    Thread,
    GlobalLimit,    \* global_concurrency_limit
    QueueLimit      \* max_queue_depth

ASSUME FabricAssumption ==
    /\ IsFiniteSet(Thread)
    /\ {GlobalLimit, QueueLimit} \subseteq Nat

VARIABLES
    active,     \* active_requests
    queued,     \* queue_depth
    pc,         \* pc[t]: where thread t is
    overlap     \* history: most threads ever between a load and its fetch_add

admissionVars == <<active, queued, pc, overlap>>

\* Between the load that found room and the fetch_add
Entering == {"entering", "queueing"}
Holding == {"accepted", "waiting"}

At(where) == {t \in Thread : pc[t] = where}

Largest(m, n) == IF m >= n THEN m ELSE n

Goto(t, from, to) ==
    /\ pc[t] = from
    /\ pc' = [pc EXCEPT ![t] = to]
    /\ overlap' = Largest(overlap, Largest(Cardinality(At("entering")'),
                                          Cardinality(At("queueing")')))

AdmissionInit ==
    /\ active = 0
    /\ queued = 0
    /\ pc = [t \in Thread |-> "idle"]
    /\ overlap = 1

\* evaluate(): the load of active_requests
LoadActive(t) ==
    /\ Goto(t, "idle", IF active < GlobalLimit THEN "entering" ELSE "full")
    /\ UNCHANGED <<active, queued>>

\* Mutant: load and store instead of fetch_add, with the value read before.
AcceptLosesUpdate(t) ==
    /\ Goto(t, "entering", "accepted")
    /\ active' = IF active < GlobalLimit THEN active + 1 ELSE GlobalLimit
    /\ UNCHANGED queued

Accept(t) ==
    /\ Goto(t, "entering", "accepted")
    /\ active' = active + 1
    /\ UNCHANGED queued

\* The load of queue_depth
LoadQueue(t) ==
    /\ Goto(t, "full", IF queued < QueueLimit THEN "queueing" ELSE "shed")
    /\ UNCHANGED <<active, queued>>

Queue(t) ==
    /\ Goto(t, "queueing", "waiting")
    /\ queued' = queued + 1
    /\ UNCHANGED active

\* Mutant: a caller that was shed reports completion.
ShedCompletes(t) ==
    /\ Goto(t, "shed", "idle")
    /\ active' = active - 1
    /\ UNCHANGED queued

\* The caller goes away with Shed and may come back.
Shed(t) ==
    /\ Goto(t, "shed", "idle")
    /\ UNCHANGED <<active, queued>>

Complete(t) ==
    /\ Goto(t, "accepted", "idle")
    /\ active' = active - 1
    /\ UNCHANGED queued

\* Mutant: a dequeued caller is let in without evaluate().
DequeueEnters(t) ==
    /\ Goto(t, "waiting", "entering")
    /\ queued' = queued - 1
    /\ UNCHANGED active

\* A dequeued caller must ask again: the queue reserves it no slot.
Dequeue(t) ==
    /\ Goto(t, "waiting", "idle")
    /\ queued' = queued - 1
    /\ UNCHANGED active

Step(t) ==
    \/ LoadActive(t) \/ Accept(t) \/ LoadQueue(t) \/ Queue(t) \/ Shed(t)
    \/ Complete(t) \/ Dequeue(t)

AdmissionNext == \E t \in Thread : Step(t)

AdmissionSpec == AdmissionInit /\ [][AdmissionNext]_admissionVars

--------------------------------------------------------------------------------
\* The state has its shape: in particular no unsigned counter goes below zero, which
\* the debug_asserts of complete and dequeue watch.
TypeOK ==
    /\ active \in 0..Cardinality(Thread)
    /\ queued \in 0..Cardinality(Thread)
    /\ overlap \in 1..(Cardinality(Thread) + 1)
    /\ pc \in [Thread -> {"idle", "full", "shed"} \cup Entering \cup Holding]

\* No update is lost and none underflows (the debug_asserts of complete and dequeue):
\* at rest and in every interleaving the counters are the numbers of callers
\* that hold a slot and that wait.
CountersMatchHolders ==
    /\ active = Cardinality(At("accepted"))
    /\ queued = Cardinality(At("waiting"))

\* What the test concurrent_admission_respects_bounds asserts of threads that call
\* evaluate() together (accepted <= 10, queued <= 5): no more hold a slot, and no more
\* wait, than the limits allow.  Not so: a load and its fetch_add are two steps.
AdmissionRespectsBounds ==
    /\ Cardinality(At("accepted")) <= GlobalLimit
    /\ Cardinality(At("waiting")) <= QueueLimit

\* What holds instead, how far the check-then-act of evaluate() can overshoot: each limit
\* is passed by at most the number of callers that were ever between their load and
\* their fetch_add together, less the one that is entitled to the slot.  Calls that
\* do not overlap keep the limits exactly.
OvershootIsBounded ==
    /\ active + Cardinality(At("entering")) < GlobalLimit + overlap
    /\ queued + Cardinality(At("queueing")) < QueueLimit + overlap
==============================================================================
