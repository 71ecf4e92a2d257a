------------------------------ MODULE Execution ------------------------------
(***************************************************************************)
(* ExecutionCoordinator::execute of src/execution.rs, called concurrently  *)
(* for one node, and the HealthMonitor of src/health_monitor.rs: a bounded *)
(* channel and a task that applies each outcome to the node's breaker      *)
(* through record_result.                                                  *)
(*                                                                         *)
(* An adapter's result is well formed or not (identity, latency, success   *)
(* consistent with failure), and a success or not.  A caller may drop the  *)
(* future of execute while it waits for room in the channel.               *)
(***************************************************************************)
EXTENDS HealthTracker, FiniteSets, SequencesExt

CONSTANTS
    Caller,         \* calls of execute, each made once
    QueueSize,      \* capacity of the mpsc channel
    Policy          \* the tenant's health policy

ASSUME ExecutionAssumption ==
    /\ QueueSize \in Nat \ {0}      \* mpsc::channel panics on zero
    /\ Policy \in HealthPolicy /\ ValidPolicy(Policy) /\ BelowCaps(Policy)

VARIABLES
    at,         \* at[c]: how far c's call has come
    success,    \* success[c]: what the backend answered c
    queue,      \* the channel: the calls whose outcome is in it
    task,       \* the monitor's task
    senders,    \* whether a HealthMonitor handle is left
    tracker,    \* the breaker of the node
    accepted,   \* history: the calls whose outcome entered the channel, in order
    lost        \* history: outcomes in the channel when the task was aborted

vars == <<at, success, queue, task, senders, tracker, accepted, lost>>

Ended == {"returned", "rejected", "closed", "cancelled"}

Init ==
    /\ at = [c \in Caller |-> "new"]
    /\ success = [c \in Caller |-> FALSE]
    /\ queue = << >>
    /\ task = "receiving"
    /\ senders = TRUE
    /\ tracker = NewTracker
    /\ accepted = << >>
    /\ lost = 0

Move(c, from, to) == at[c] = from /\ at' = [at EXCEPT ![c] = to]

monitor == <<queue, task, senders, tracker, accepted, lost>>

--------------------------------------------------------------------------------
(* ExecutionCoordinator::execute *)

\* InvalidRequest, or Backend(..): the registry knows no such backend or capability
Refuse(c) ==
    /\ senders
    /\ Move(c, "new", "rejected")
    /\ UNCHANGED <<success, monitor>>

\* The backend answers; its result is then to be reported.
RunBackend(c, ok) ==
    /\ senders
    /\ Move(c, "new", "sending")
    /\ success' = [success EXCEPT ![c] = ok]
    /\ UNCHANGED monitor

\* Mutant: the outcome is reported before the result is checked.
MalformedIsReported(c) ==
    /\ senders
    /\ Move(c, "new", "rejected")
    /\ task = "receiving" /\ Len(queue) < QueueSize
    /\ queue' = Append(queue, c)
    /\ accepted' = Append(accepted, c)
    /\ UNCHANGED <<success, task, senders, tracker, lost>>

\* BackendIdentityMismatch, InconsistentBackendResult or MissingLatency: no outcome
Malformed(c) ==
    /\ senders
    /\ Move(c, "new", "rejected")
    /\ UNCHANGED <<success, monitor>>

\* Mutant: the channel is unbounded.
SendUnbounded(c) ==
    /\ task = "receiving"
    /\ Move(c, "sending", "returned")
    /\ queue' = Append(queue, c)
    /\ accepted' = Append(accepted, c)
    /\ UNCHANGED <<success, task, senders, tracker, lost>>

\* report(): waits for room, then execute returns the result
Send(c) ==
    /\ task = "receiving" /\ Len(queue) < QueueSize
    /\ Move(c, "sending", "returned")
    /\ queue' = Append(queue, c)
    /\ accepted' = Append(accepted, c)
    /\ UNCHANGED <<success, task, senders, tracker, lost>>

\* The receiver is gone: HealthMonitorClosed, though the backend has run
SendFails(c) ==
    /\ task # "receiving"
    /\ Move(c, "sending", "closed")
    /\ UNCHANGED <<success, monitor>>

\* The caller drops the future at its await (external)
Cancel(c) ==
    /\ Move(c, "sending", "cancelled")
    /\ UNCHANGED <<success, monitor>>

--------------------------------------------------------------------------------
(* The task HealthMonitor::start spawns *)

\* Mutant: the newest outcome is taken first.
ReceiveNewest ==
    /\ task = "receiving" /\ queue # << >>
    /\ tracker' = AfterResult(tracker, success[Last(queue)], Policy)
    /\ queue' = Front(queue)
    /\ UNCHANGED <<at, success, task, senders, accepted, lost>>

\* Mutant: the task waits while the node is Open.
ReceiveUnlessOpen ==
    /\ task = "receiving" /\ queue # << >> /\ tracker.state # "Open"
    /\ tracker' = AfterResult(tracker, success[Head(queue)], Policy)
    /\ queue' = Tail(queue)
    /\ UNCHANGED <<at, success, task, senders, accepted, lost>>

\* recv() and record_result
Receive ==
    /\ task = "receiving" /\ queue # << >>
    /\ tracker' = AfterResult(tracker, success[Head(queue)], Policy)
    /\ queue' = Tail(queue)
    /\ UNCHANGED <<at, success, task, senders, accepted, lost>>

\* Mutant: the task ends with its senders, whatever is still in the channel.
TaskEndsAtOnce ==
    /\ task = "receiving" /\ ~senders
    /\ task' = "finished"
    /\ UNCHANGED <<at, success, queue, senders, tracker, accepted, lost>>

\* recv() yields None: no sender is left and the channel is empty
TaskEnds ==
    /\ task = "receiving" /\ ~senders /\ queue = << >>
    /\ task' = "finished"
    /\ UNCHANGED <<at, success, queue, senders, tracker, accepted, lost>>

--------------------------------------------------------------------------------
(* The owner of the monitor (external) *)

\* The handles are dropped once no call borrows them.
DropMonitor ==
    /\ senders
    /\ \A c \in Caller : at[c] \in Ended \cup {"new"}
    /\ senders' = FALSE
    /\ UNCHANGED <<at, success, queue, task, tracker, accepted, lost>>

\* JoinHandle::abort or the end of the runtime: the channel goes with the task
Abort ==
    /\ task = "receiving"
    /\ task' = "aborted"
    /\ lost' = Len(queue)
    /\ queue' = << >>
    /\ UNCHANGED <<at, success, senders, tracker, accepted>>

Call(c) ==
    \/ Refuse(c) \/ Malformed(c) \/ \E ok \in BOOLEAN : RunBackend(c, ok)
    \/ Send(c) \/ SendFails(c) \/ Cancel(c)

Next ==
    \/ \E c \in Caller : Call(c)
    \/ Receive \/ TaskEnds
    \/ DropMonitor \/ Abort

\* The runtime polls the task and the calls that can go on; nobody has to start a call,
\* cancel one, drop the monitor or abort the task.
Fairness ==
    /\ WF_vars(Receive) /\ WF_vars(TaskEnds)
    /\ \A c \in Caller : WF_vars(Send(c)) /\ WF_vars(SendFails(c))

Spec == Init /\ [][Next]_vars /\ Fairness

--------------------------------------------------------------------------------
(* Properties *)

\* The state has its shape: in particular the channel never holds more than its capacity
\* (send waits for room).
TypeOK ==
    /\ at \in [Caller -> {"new", "sending"} \cup Ended]
    /\ success \in [Caller -> BOOLEAN]
    /\ queue \in Seq(Caller) /\ Len(queue) <= QueueSize
    /\ task \in {"receiving", "finished", "aborted"} /\ senders \in BOOLEAN
    /\ tracker \in Tracker
    /\ accepted \in Seq(Caller) /\ lost \in 0..QueueSize

\* "Records exactly one validated health outcome": the outcomes that entered the channel
\* are those of the calls that returned a result, each once; calls that were refused,
\* answered badly, cancelled while they waited or too late leave none.
ReportedOnce ==
    /\ ToSet(accepted) = {c \in Caller : at[c] = "returned"}
    /\ IsInjective(accepted)

\* The outcomes the task has applied: all that are not in the channel or lost with it
Applied == SubSeq(accepted, 1, Len(accepted) - Len(queue) - lost)

\* The health of the node is what the applied outcomes make it in the order in which
\* they entered the channel; none is skipped, repeated or overtaken on the way.
HealthFollowsReports ==
    tracker = FoldLeft(LAMBDA tr, c : AfterResult(tr, success[c], Policy),
                       NewTracker, Applied)

\* A task that ends by itself, as the tests wait for after dropping the monitor, has
\* applied every outcome a call of execute was told was recorded.
ShutdownDrains ==
    task = "finished" => Applied = accepted

\* Backpressure never becomes a standstill: a call that waits for room in the channel
\* ends, whatever the monitor's owner does, and a monitor that was dropped ends too.
EveryCallEnds ==
    /\ \A c \in Caller : at[c] = "sending" ~> at[c] \in Ended
    /\ ~senders ~> task # "receiving"
==============================================================================
