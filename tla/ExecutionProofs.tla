--------------------------- MODULE ExecutionProofs ---------------------------
(***************************************************************************)
(* Proofs about the execution coordinator and the health monitor           *)
(* (src/execution.rs, src/health_monitor.rs), for every set of calls,      *)
(* every capacity of the channel and every valid health policy.            *)
(***************************************************************************)
EXTENDS Execution, HealthTrackerProofs

\* The channel holds the newest of the accepted outcomes, in their order; what the aborted
\* task took with it is counted, and a task that ended by itself took nothing.
ChannelIsSuffix ==
    /\ Len(queue) + lost <= Len(accepted)
    /\ task \in {"receiving", "finished"} => lost = 0
    /\ task # "receiving" => queue = << >>
    /\ \A i \in 1..Len(queue) : queue[i] = accepted[Len(accepted) - Len(queue) + i]

\* How many outcomes the task has applied
AppliedCount == Len(accepted) - Len(queue) - lost

\* The history of the breaker: a run of the tracker that starts new, applies the accepted
\* outcomes one by one in the order in which they entered the channel, and ends in
\* the present tracker.  The run is a function of the number of outcomes applied, so that
\* it says step by step what HealthFollowsReports says with a fold.
HealthIsARun ==
    \E run \in [0..AppliedCount -> Tracker] :
        /\ run[0] = NewTracker
        /\ \A i \in 1..AppliedCount :
              run[i] = AfterResult(run[i - 1], success[accepted[i]], Policy)
        /\ tracker = run[AppliedCount]

\* The inductive invariant.
ExecInv == TypeOK /\ ReportedOnce /\ ChannelIsSuffix /\ HealthIsARun

--------------------------------------------------------------------------------
\* The lengths are numbers, and what was accepted is a call that has returned.
LEMMA Lengths ==
    ASSUME ExecInv
    PROVE  /\ Len(queue) \in Nat /\ Len(accepted) \in Nat /\ lost \in Nat
           /\ AppliedCount \in 0..Len(accepted)
           /\ QueueSize \in Nat \ {0}
           /\ \A i \in 1..Len(accepted) : accepted[i] \in Caller /\ at[accepted[i]] = "returned"
<1>1. /\ queue \in Seq(Caller) /\ accepted \in Seq(Caller) /\ lost \in Nat
      /\ QueueSize \in Nat \ {0} /\ Len(queue) + lost <= Len(accepted)
  BY ExecutionAssumption DEF ExecInv, TypeOK, ChannelIsSuffix
<1>2. Len(queue) \in Nat /\ Len(accepted) \in Nat /\ DOMAIN accepted = 1..Len(accepted)
  BY <1>1
<1>3. \A i \in 1..Len(accepted) : accepted[i] \in {c \in Caller : at[c] = "returned"}
  BY <1>2 DEF ExecInv, ReportedOnce, ToSet
<1> QED BY <1>1, <1>2, <1>3 DEF AppliedCount

\* A step of a call that reports nothing (a refusal, the run of the backend, a malformed
\* answer, a closed channel, a cancellation) touches no outcome that was accepted.
LEMMA QuietCall ==
    ASSUME ExecInv, NEW c \in Caller, NEW from \in {"new", "sending"},
           NEW to \in {"sending"} \cup (Ended \ {"returned"}), Move(c, from, to),
           UNCHANGED monitor,
           success' \in [Caller -> BOOLEAN],
           \A d \in Caller \ {c} : success'[d] = success[d]
    PROVE  ExecInv'
<1>1. /\ queue' = queue /\ task' = task /\ senders' = senders /\ tracker' = tracker
      /\ accepted' = accepted /\ lost' = lost
  BY DEF monitor
<1>2. /\ at \in [Caller -> {"new", "sending"} \cup Ended]
      /\ at[c] = from /\ at' = [at EXCEPT ![c] = to]
      /\ to \in {"new", "sending"} \cup Ended /\ from # "returned" /\ to # "returned"
  BY DEF ExecInv, TypeOK, Move, Ended
<1>3. TypeOK'
  BY <1>1, <1>2 DEF ExecInv, TypeOK
<1>4. {d \in Caller : at'[d] = "returned"} = {d \in Caller : at[d] = "returned"}
  BY <1>2
<1>5. ReportedOnce'
  BY <1>1, <1>4 DEF ExecInv, ReportedOnce
<1>6. ChannelIsSuffix'
  BY <1>1 DEF ExecInv, ChannelIsSuffix
<1>7. AppliedCount' = AppliedCount
  BY <1>1 DEF AppliedCount
<1>8. \A i \in 1..AppliedCount : success'[accepted[i]] = success[accepted[i]]
  <2> SUFFICES ASSUME NEW i \in 1..AppliedCount
               PROVE  success'[accepted[i]] = success[accepted[i]]
    OBVIOUS
  <2>1. accepted[i] \in Caller /\ at[accepted[i]] = "returned"
    BY Lengths
  <2> QED BY <2>1, <1>2
<1>9. HealthIsARun'
  <2>1. PICK run \in [0..AppliedCount -> Tracker] :
              /\ run[0] = NewTracker
              /\ \A i \in 1..AppliedCount :
                    run[i] = AfterResult(run[i - 1], success[accepted[i]], Policy)
              /\ tracker = run[AppliedCount]
    BY DEF ExecInv, HealthIsARun
  <2>2. \A i \in 1..AppliedCount :
            run[i] = AfterResult(run[i - 1], success'[accepted'[i]], Policy)
    BY <2>1, <1>1, <1>8
  <2> QED BY <2>1, <2>2, <1>1, <1>7 DEF HealthIsARun
<1> QED BY <1>3, <1>5, <1>6, <1>9 DEF ExecInv

\* report: the outcome enters the channel as the newest, and its call returns.
LEMMA SendKeeps ==
    ASSUME ExecInv, NEW c \in Caller, Send(c)
    PROVE  ExecInv'
<1>1. /\ task = "receiving" /\ Len(queue) < QueueSize
      /\ at[c] = "sending" /\ at' = [at EXCEPT ![c] = "returned"]
      /\ queue' = Append(queue, c) /\ accepted' = Append(accepted, c)
      /\ success' = success /\ task' = task /\ senders' = senders
      /\ tracker' = tracker /\ lost' = lost
  BY DEF Send, Move
<1>2. /\ queue \in Seq(Caller) /\ accepted \in Seq(Caller) /\ lost = 0
      /\ at \in [Caller -> {"new", "sending"} \cup Ended]
  BY <1>1 DEF ExecInv, TypeOK, ChannelIsSuffix
<1>3. /\ Len(queue) \in Nat /\ Len(accepted) \in Nat /\ QueueSize \in Nat \ {0}
      /\ Len(queue) <= Len(accepted) /\ AppliedCount \in 0..Len(accepted)
  BY <1>2, Lengths DEF ExecInv, ChannelIsSuffix
<1>4. /\ queue' \in Seq(Caller) /\ Len(queue') = Len(queue) + 1
      /\ queue'[Len(queue) + 1] = c
      /\ \A i \in 1..Len(queue) : queue'[i] = queue[i]
  BY <1>1, <1>2
<1>5. /\ accepted' \in Seq(Caller) /\ Len(accepted') = Len(accepted) + 1
      /\ accepted'[Len(accepted) + 1] = c
      /\ \A i \in 1..Len(accepted) : accepted'[i] = accepted[i]
      /\ DOMAIN accepted' = 1..(Len(accepted) + 1) /\ DOMAIN accepted = 1..Len(accepted)
  BY <1>1, <1>2
<1>6. TypeOK'
  <2>1. "returned" \in Ended
    BY DEF Ended
  <2> QED BY <1>1, <1>2, <1>3, <1>4, <1>5, <2>1 DEF ExecInv, TypeOK
<1>7. ReportedOnce'
  <2>1. {d \in Caller : at'[d] = "returned"} = {d \in Caller : at[d] = "returned"} \cup {c}
    BY <1>1, <1>2
  <2>2. \A i \in 1..Len(accepted) : accepted[i] # c
    BY <1>1, Lengths
  <2>3. ToSet(accepted') = ToSet(accepted) \cup {c}
    BY <1>3, <1>5 DEF ToSet
  <2>4. IsInjective(accepted')
    <3> SUFFICES ASSUME NEW i \in 1..(Len(accepted) + 1), NEW j \in 1..(Len(accepted) + 1),
                        accepted'[i] = accepted'[j]
                 PROVE  i = j
      BY <1>5 DEF IsInjective
    <3>1. \A k \in 1..(Len(accepted) + 1) : k \in 1..Len(accepted) \/ k = Len(accepted) + 1
      BY <1>3
    <3>2. IsInjective(accepted)
      BY DEF ExecInv, ReportedOnce
    <3> QED BY <3>1, <3>2, <2>2, <1>5 DEF IsInjective
  <2> QED BY <2>1, <2>3, <2>4 DEF ExecInv, ReportedOnce
<1>8. ChannelIsSuffix'
  <2>1. ASSUME NEW i \in 1..Len(queue')
        PROVE  queue'[i] = accepted'[Len(accepted') - Len(queue') + i]
    <3>1. Len(accepted') - Len(queue') + i = Len(accepted) - Len(queue) + i
          /\ (i \in 1..Len(queue) \/ i = Len(queue) + 1)
      BY <1>3, <1>4, <1>5
    <3>2. CASE i \in 1..Len(queue)
      <4>1. Len(accepted) - Len(queue) + i \in 1..Len(accepted)
        BY <1>3, <3>2
      <4> QED BY <3>1, <3>2, <4>1, <1>4, <1>5 DEF ExecInv, ChannelIsSuffix
    <3>3. CASE i = Len(queue) + 1
      BY <3>1, <3>3, <1>3, <1>4, <1>5
    <3> QED BY <3>1, <3>2, <3>3
  <2>2. Len(queue') + lost' <= Len(accepted')
    BY <1>1, <1>2, <1>3, <1>4, <1>5
  <2>3. task' = "receiving" /\ lost' = 0
    BY <1>1, <1>2
  <2> QED BY <2>1, <2>2, <2>3 DEF ChannelIsSuffix
<1>9. HealthIsARun'
  <2>1. AppliedCount' = AppliedCount
    BY <1>1, <1>2, <1>3, <1>4, <1>5 DEF AppliedCount
  <2>2. \A i \in 1..AppliedCount : accepted'[i] = accepted[i]
    BY <1>3, <1>5
  <2>3. PICK run \in [0..AppliedCount -> Tracker] :
              /\ run[0] = NewTracker
              /\ \A i \in 1..AppliedCount :
                    run[i] = AfterResult(run[i - 1], success[accepted[i]], Policy)
              /\ tracker = run[AppliedCount]
    BY DEF ExecInv, HealthIsARun
  <2>4. \A i \in 1..AppliedCount :
            run[i] = AfterResult(run[i - 1], success'[accepted'[i]], Policy)
    BY <2>2, <2>3, <1>1
  <2> QED BY <2>1, <2>3, <2>4, <1>1 DEF HealthIsARun
<1> QED BY <1>6, <1>7, <1>8, <1>9 DEF ExecInv

\* The task takes the oldest outcome from the channel and applies it, which makes the run
\* of the breaker one longer.
LEMMA ReceiveKeeps ==
    ASSUME ExecInv, Receive
    PROVE  ExecInv'
<1> DEFINE n == AppliedCount
<1>1. /\ task = "receiving" /\ queue # << >> /\ queue' = Tail(queue)
      /\ tracker' = AfterResult(tracker, success[Head(queue)], Policy)
      /\ at' = at /\ success' = success /\ task' = task /\ senders' = senders
      /\ accepted' = accepted /\ lost' = lost
  BY DEF Receive
<1>2. /\ queue \in Seq(Caller) /\ accepted \in Seq(Caller) /\ lost = 0 /\ tracker \in Tracker
      /\ success \in [Caller -> BOOLEAN]
  BY <1>1 DEF ExecInv, TypeOK, ChannelIsSuffix
<1>3. /\ Len(queue) \in Nat \ {0} /\ Len(accepted) \in Nat /\ QueueSize \in Nat \ {0}
      /\ n = Len(accepted) - Len(queue) /\ n \in 0..Len(accepted)
      /\ Len(queue) <= Len(accepted) /\ Len(queue) <= QueueSize
  BY <1>1, <1>2, Lengths DEF ExecInv, TypeOK, ChannelIsSuffix, AppliedCount
<1>4. /\ queue' \in Seq(Caller) /\ Len(queue') = Len(queue) - 1
      /\ \A i \in 1..Len(queue') : queue'[i] = queue[i + 1]
      /\ Head(queue) = queue[1] /\ Head(queue) \in Caller
  BY <1>1, <1>2
<1>5. Head(queue) = accepted[n + 1] /\ n + 1 \in 1..Len(accepted)
  <2>1. 1 \in 1..Len(queue)
    BY <1>3
  <2>2. queue[1] = accepted[Len(accepted) - Len(queue) + 1]
    BY <2>1 DEF ExecInv, ChannelIsSuffix
  <2> QED BY <2>2, <1>3, <1>4
<1>6. tracker' \in Tracker
  <2>1. success[Head(queue)] \in BOOLEAN
    BY <1>2, <1>4, Zenon
  <2>2. Policy \in HealthPolicy
    BY ExecutionAssumption
  <2> QED BY <2>1, <2>2, <1>1, <1>2, TrackerType
<1>7. TypeOK'
  BY <1>1, <1>3, <1>4, <1>6 DEF ExecInv, TypeOK
<1>8. ReportedOnce'
  BY <1>1 DEF ExecInv, ReportedOnce
<1>9. ChannelIsSuffix'
  <2>1. ASSUME NEW i \in 1..Len(queue')
        PROVE  queue'[i] = accepted'[Len(accepted') - Len(queue') + i]
    <3>1. i + 1 \in 1..Len(queue)
          /\ Len(accepted') - Len(queue') + i = Len(accepted) - Len(queue) + (i + 1)
      BY <1>1, <1>3, <1>4
    <3>2. queue[i + 1] = accepted[Len(accepted) - Len(queue) + (i + 1)]
      BY <3>1 DEF ExecInv, ChannelIsSuffix
    <3> QED BY <3>1, <3>2, <1>1, <1>4
  <2>2. Len(queue') + lost' <= Len(accepted')
    BY <1>1, <1>2, <1>3, <1>4
  <2>3. task' = "receiving" /\ lost' = 0
    BY <1>1, <1>2
  <2> QED BY <2>1, <2>2, <2>3 DEF ChannelIsSuffix
<1>10. HealthIsARun'
  <2>1. AppliedCount' = n + 1 /\ n \in Nat
    BY <1>1, <1>2, <1>3, <1>4 DEF AppliedCount
  <2>2. PICK run \in [0..n -> Tracker] :
              /\ run[0] = NewTracker
              /\ \A i \in 1..n : run[i] = AfterResult(run[i - 1], success[accepted[i]], Policy)
              /\ tracker = run[n]
    BY DEF ExecInv, HealthIsARun
  <2> HIDE DEF n
  <2> DEFINE longer == [i \in 0..(n + 1) |-> IF i = n + 1 THEN tracker' ELSE run[i]]
  <2>3. longer \in [0..(n + 1) -> Tracker]
    BY <2>1, <2>2, <1>6
  <2>4. /\ longer[0] = NewTracker /\ longer[n + 1] = tracker'
        /\ \A i \in 0..n : longer[i] = run[i]
    BY <2>1, <2>2
  <2> HIDE DEF longer
  <2>5. ASSUME NEW i \in 1..(n + 1)
        PROVE  longer[i] = AfterResult(longer[i - 1], success[accepted[i]], Policy)
    <3>1. CASE i = n + 1
      <4>1. longer[i] = tracker' /\ longer[i - 1] = tracker /\ accepted[i] = Head(queue)
        BY <3>1, <2>1, <2>2, <2>4, <1>5
      <4> QED BY <4>1, <1>1
    <3>2. CASE i # n + 1
      <4>1. i \in 1..n /\ i \in 0..n /\ i - 1 \in 0..n
        BY <3>2, <2>1
      <4> QED BY <4>1, <2>2, <2>4
    <3> QED BY <3>1, <3>2
  <2> QED BY <2>1, <2>3, <2>4, <2>5, <1>1 DEF HealthIsARun
<1> QED BY <1>7, <1>8, <1>9, <1>10 DEF ExecInv

\* The steps that end the task or drop its senders apply nothing: the run of the breaker
\* stays, the channel is empty or its outcomes are counted as lost.
LEMMA ShutdownKeeps ==
    ASSUME ExecInv, TaskEnds \/ DropMonitor \/ Abort
    PROVE  ExecInv'
<1>1. /\ at' = at /\ success' = success /\ tracker' = tracker /\ accepted' = accepted
  BY DEF TaskEnds, DropMonitor, Abort
<1>2. ReportedOnce'
  BY <1>1 DEF ExecInv, ReportedOnce
<1>3. ASSUME AppliedCount' = AppliedCount
      PROVE  HealthIsARun'
  <2>1. PICK run \in [0..AppliedCount -> Tracker] :
              /\ run[0] = NewTracker
              /\ \A i \in 1..AppliedCount :
                    run[i] = AfterResult(run[i - 1], success[accepted[i]], Policy)
              /\ tracker = run[AppliedCount]
    BY DEF ExecInv, HealthIsARun
  <2> QED BY <2>1, <1>1, <1>3 DEF HealthIsARun
<1>4. CASE TaskEnds
  <2>1. queue = << >> /\ queue' = queue /\ lost' = lost /\ lost = 0 /\ task' = "finished"
        /\ senders' = senders
    BY <1>4 DEF TaskEnds, ExecInv, ChannelIsSuffix
  <2>2. TypeOK'
    BY <1>1, <2>1 DEF ExecInv, TypeOK
  <2>3. ChannelIsSuffix'
    BY <1>1, <2>1 DEF ExecInv, ChannelIsSuffix
  <2>4. AppliedCount' = AppliedCount
    BY <1>1, <2>1 DEF AppliedCount
  <2> QED BY <1>2, <1>3, <2>2, <2>3, <2>4 DEF ExecInv
<1>5. CASE DropMonitor
  <2>1. queue' = queue /\ lost' = lost /\ task' = task
    BY <1>5 DEF DropMonitor
  <2>2. senders' \in BOOLEAN
    BY <1>5, Zenon DEF DropMonitor
  <2>3. TypeOK'
    BY <1>1, <2>1, <2>2 DEF ExecInv, TypeOK
  <2>4. ChannelIsSuffix'
    BY <1>1, <2>1 DEF ExecInv, ChannelIsSuffix
  <2>5. AppliedCount' = AppliedCount
    BY <1>1, <2>1 DEF AppliedCount
  <2> QED BY <1>2, <1>3, <2>3, <2>4, <2>5 DEF ExecInv
<1>6. CASE Abort
  <2>1. /\ task = "receiving" /\ task' = "aborted" /\ lost' = Len(queue) /\ queue' = << >>
        /\ senders' = senders /\ lost = 0
    BY <1>6 DEF Abort, ExecInv, ChannelIsSuffix
  <2>2. /\ Len(queue) \in Nat /\ Len(accepted) \in Nat /\ Len(queue) <= Len(accepted)
        /\ Len(queue) <= QueueSize /\ QueueSize \in Nat
    BY <2>1, Lengths DEF ExecInv, TypeOK, ChannelIsSuffix
  <2>3. queue' \in Seq(Caller) /\ Len(queue') = 0
    BY <2>1
  <2>4. TypeOK'
    BY <1>1, <2>1, <2>2, <2>3 DEF ExecInv, TypeOK
  <2>5. ChannelIsSuffix'
    BY <1>1, <2>1, <2>2, <2>3 DEF ExecInv, ChannelIsSuffix
  <2>6. AppliedCount' = AppliedCount
    BY <1>1, <2>1, <2>2, <2>3 DEF AppliedCount
  <2> QED BY <1>2, <1>3, <2>4, <2>5, <2>6 DEF ExecInv
<1> QED BY <1>4, <1>5, <1>6

\* Every step of a call, of the task and of the owner keeps the invariant.
LEMMA ExecStep ==
    ASSUME ExecInv, [Next]_vars
    PROVE  ExecInv'
<1>1. ASSUME NEW c \in Caller, Refuse(c) \/ Malformed(c) \/ SendFails(c) \/ Cancel(c)
      PROVE  ExecInv'
  <2>1. /\ success' = success /\ UNCHANGED monitor
        /\ \/ Move(c, "new", "rejected") \/ Move(c, "sending", "closed")
           \/ Move(c, "sending", "cancelled")
    BY <1>1 DEF Refuse, Malformed, SendFails, Cancel
  <2>2. success' \in [Caller -> BOOLEAN]
    BY <2>1 DEF ExecInv, TypeOK
  <2>3. {"rejected", "closed", "cancelled"} \subseteq {"sending"} \cup (Ended \ {"returned"})
    BY DEF Ended
  <2> QED BY <2>1, <2>2, <2>3, QuietCall
<1>2. ASSUME NEW c \in Caller, NEW ok \in BOOLEAN, RunBackend(c, ok)
      PROVE  ExecInv'
  <2>1. Move(c, "new", "sending") /\ UNCHANGED monitor
        /\ success' = [success EXCEPT ![c] = ok] /\ success \in [Caller -> BOOLEAN]
    BY <1>2 DEF RunBackend, ExecInv, TypeOK
  <2>2. success' \in [Caller -> BOOLEAN] /\ \A d \in Caller \ {c} : success'[d] = success[d]
    BY <2>1, Zenon
  <2> QED BY <2>1, <2>2, QuietCall
<1>3. ASSUME NEW c \in Caller, Send(c)
      PROVE  ExecInv'
  BY <1>3, SendKeeps
<1>4. CASE Receive
  BY <1>4, ReceiveKeeps
<1>5. CASE TaskEnds \/ DropMonitor \/ Abort
  BY <1>5, ShutdownKeeps
<1>6. CASE UNCHANGED vars
  <2>1. /\ at' = at /\ success' = success /\ queue' = queue /\ task' = task
        /\ senders' = senders /\ tracker' = tracker /\ accepted' = accepted /\ lost' = lost
    BY <1>6 DEF vars
  <2>2. TypeOK' /\ ReportedOnce' /\ ChannelIsSuffix'
    BY <2>1 DEF ExecInv, TypeOK, ReportedOnce, ChannelIsSuffix
  <2>3. HealthIsARun'
    BY <2>1 DEF ExecInv, HealthIsARun, AppliedCount
  <2> QED BY <2>2, <2>3 DEF ExecInv
<1> QED BY <1>1, <1>2, <1>3, <1>4, <1>5, <1>6 DEF Next, Call

\* The coordinator and the monitor keep the invariant from their start.
LEMMA ExecCorrect == Spec => []ExecInv
<1>1. ASSUME Init
      PROVE  ExecInv
  <2>1. /\ at = [c \in Caller |-> "new"] /\ queue = << >> /\ accepted = << >> /\ lost = 0
        /\ task = "receiving" /\ tracker = NewTracker
    BY <1>1 DEF Init
  <2>2. NewTracker \in Tracker
    BY CapsAssumption DEF NewTracker, Tracker, NodeState, NotOpened
  <2>3. success \in [Caller -> BOOLEAN] /\ senders \in BOOLEAN
    BY <1>1, Zenon DEF Init
  <2>4. TypeOK
    BY <2>1, <2>2, <2>3, ExecutionAssumption DEF TypeOK, Ended
  <2>5. ReportedOnce
    BY <2>1 DEF ReportedOnce, ToSet, IsInjective
  <2>6. ChannelIsSuffix
    BY <2>1 DEF ChannelIsSuffix
  <2>7. HealthIsARun
    <3>1. AppliedCount = 0
      BY <2>1 DEF AppliedCount
    <3>2. [i \in 0..0 |-> NewTracker] \in [0..0 -> Tracker] /\ 0 \in 0..0 /\ 1..0 = {}
      BY <2>2
    <3> QED BY <2>1, <3>1, <3>2 DEF HealthIsARun
  <2> QED BY <2>4, <2>5, <2>6, <2>7 DEF ExecInv
<1>2. ExecInv /\ [Next]_vars => ExecInv'
  BY ExecStep
<1> QED BY <1>1, <1>2, PTL DEF Spec

\* The channel never holds more than its capacity and the breaker stays well formed, for
\* every number of concurrent calls (HealthMonitor::start, report).
THEOREM ExecutionTypeCorrect == Spec => []TypeOK
<1>1. ExecInv => TypeOK
  BY DEF ExecInv
<1> QED BY <1>1, ExecCorrect, PTL

\* "Records exactly one validated health outcome": the calls that returned a result are
\* those whose outcome entered the channel, each exactly once (ExecutionCoordinator::execute).
THEOREM ExecutionReportsOnce == Spec => []ReportedOnce
<1>1. ExecInv => ReportedOnce
  BY DEF ExecInv
<1> QED BY <1>1, ExecCorrect, PTL

\* A task that ends by itself has applied every accepted outcome, however late the senders
\* were dropped (the loop over recv ends only on an empty, closed channel).
THEOREM ExecutionShutdownDrains == Spec => []ShutdownDrains
<1>1. ExecInv => ShutdownDrains
  <2> SUFFICES ASSUME ExecInv, task = "finished"
               PROVE  Applied = accepted
    BY DEF ShutdownDrains
  <2>1. accepted \in Seq(Caller) /\ queue = << >> /\ lost = 0
    BY DEF ExecInv, TypeOK, ChannelIsSuffix
  <2>2. Applied = SubSeq(accepted, 1, Len(accepted))
    BY <2>1 DEF Applied
  <2> QED BY <2>1, <2>2
<1> QED BY <1>1, ExecCorrect, PTL

--------------------------------------------------------------------------------
(* The health of the node is the fold of the reports: from the run to FoldLeft *)

\* f is the function by which FoldLeft goes over the calls of s: backwards, from each set of
\* positions to the one without its last.
FoldsBack(f, s, n) ==
    f = [S \in SUBSET (1..n) |->
            IF S = {} THEN NewTracker
            ELSE AfterResult(f[S \ {Max(S)}], success[s[Max(S)]], Policy)]

\* The last of the positions up to m is m.
LEMMA LastPosition ==
    ASSUME NEW m \in Nat, NEW S \in SUBSET (1..(m + 1)), m + 1 \in S
    PROVE  Max(S) = m + 1
  <1>1. m + 1 \in S /\ \A y \in S : m + 1 >= y
    OBVIOUS
  <1>2. ASSUME NEW x \in S, \A y \in S : x >= y PROVE x = m + 1
    BY <1>1, <1>2
  <1> QED
    BY <1>1, <1>2 DEF Max

\* There is one for every number of positions.
LEMMA FoldUnfolds == ASSUME NEW s, NEW n \in Nat PROVE \E f : FoldsBack(f, s, n)
  <1> DEFINE T == {m \in Nat : \E f : FoldsBack(f, s, m)}
  <1>1. 0 \in T
    <2> DEFINE g == [S \in SUBSET (1..0) |-> NewTracker]
    <2>1. SUBSET (1..0) = {{}}
      OBVIOUS
    <2>2. FoldsBack(g, s, 0)
      BY <2>1 DEF FoldsBack
    <2> HIDE DEF g
    <2> QED
      BY <2>2
  <1>2. ASSUME NEW m \in Nat, m \in T PROVE m + 1 \in T
    <2>1. PICK f : FoldsBack(f, s, m)
      BY <1>2
    <2> DEFINE Longer(S) == AfterResult(f[S \ {m + 1}], success[s[m + 1]], Policy)
               g == [S \in SUBSET (1..(m + 1)) |-> IF m + 1 \in S THEN Longer(S) ELSE f[S]]
    <2>2. \A S \in SUBSET (1..(m + 1)) : m + 1 \notin S => S \in SUBSET (1..m)
      OBVIOUS
    <2>3. ASSUME NEW S \in SUBSET (1..(m + 1)), S # {}
          PROVE  g[S] = AfterResult(g[S \ {Max(S)}], success[s[Max(S)]], Policy)
      <3>1. CASE m + 1 \in S
        <4>1. Max(S) = m + 1
          BY <3>1, LastPosition
        <4>2. g[S \ {m + 1}] = f[S \ {m + 1}]
          OBVIOUS
        <4>3. g[S] = Longer(S)
          BY <3>1
        <4> HIDE DEF g
        <4> QED
          BY <4>1, <4>2, <4>3
      <3>2. CASE m + 1 \notin S
        <4>1. S \in SUBSET (1..m) /\ S \ {Max(S)} \in SUBSET (1..m)
          BY <2>2, <3>2
        <4>2. f[S] = AfterResult(f[S \ {Max(S)}], success[s[Max(S)]], Policy)
          BY <2>1, <2>3, <4>1 DEF FoldsBack
        <4>3. g[S] = f[S] /\ g[S \ {Max(S)}] = f[S \ {Max(S)}]
          BY <3>2
        <4> HIDE DEF g
        <4> QED
          BY <4>2, <4>3
      <3> QED
        BY <3>1, <3>2
    <2>4. g[{}] = NewTracker
      <3>1. g[{}] = f[{}]
        OBVIOUS
      <3>2. f[{}] = NewTracker
        BY <2>1 DEF FoldsBack
      <3> QED
        BY <3>1, <3>2
    <2>5. g = [S \in SUBSET (1..(m + 1)) |-> g[S]]
      OBVIOUS
    <2> HIDE DEF g
    <2>6. FoldsBack(g, s, m + 1)
      BY <2>3, <2>4, <2>5 DEF FoldsBack
    <2> QED
      BY <2>6
  <1> HIDE DEF T
  <1>3. 0..n \subseteq T
    BY <1>1, <1>2, CountingUp
  <1>4. n \in T
    BY <1>3
  <1> QED
    BY <1>4 DEF T

\* Folding AfterResult over the calls of s ends where a run over them ends.
LEMMA FoldIsRun ==
    ASSUME NEW s \in Seq(Caller), NEW run, run[0] = NewTracker,
           \A i \in 1..Len(s) : run[i] = AfterResult(run[i - 1], success[s[i]], Policy)
    PROVE  FoldLeft(LAMBDA tr, c : AfterResult(tr, success[c], Policy), NewTracker, s)
           = run[Len(s)]
  <1> DEFINE n == Len(s)
             F == CHOOSE f : FoldsBack(f, s, n)
  <1>1. n \in Nat /\ DOMAIN s = 1..n
    OBVIOUS
  <1>2. FoldsBack(F, s, n)
    BY <1>1, FoldUnfolds, Zenon
  <1>3. FoldLeft(LAMBDA tr, c : AfterResult(tr, success[c], Policy), NewTracker, s) = F[1..n]
    BY <1>1 DEF FoldLeft, MapThenFoldSet, FoldsBack
  <1> HIDE DEF F
  <1> DEFINE T == {m \in Nat : m <= n => F[1..m] = run[m]}
  <1>4. 0 \in T
    <2>1. 1..0 = {}
      OBVIOUS
    <2>2. F[{}] = NewTracker
      BY <1>2 DEF FoldsBack
    <2> QED
      BY <2>1, <2>2
  <1>5. ASSUME NEW m \in Nat, m < n, m \in T PROVE m + 1 \in T
    <2> DEFINE U == 1..(m + 1)
    <2>1. U \in SUBSET (1..n) /\ U # {}
      <3>1. m + 1 \in U /\ \A i \in U : i \in 1..n
        BY <1>1, <1>5
      <3> QED
        BY <3>1
    <2>2. Max(1..(m + 1)) = m + 1
      BY LastPosition
    <2>3. (1..(m + 1)) \ {m + 1} = 1..m
      OBVIOUS
    <2>4. F[U] = AfterResult(F[1..m], success[s[m + 1]], Policy)
      <3> HIDE DEF U
      <3>1. F[U] = AfterResult(F[U \ {Max(U)}], success[s[Max(U)]], Policy)
        BY <1>2, <2>1 DEF FoldsBack
      <3> QED
        BY <2>2, <2>3, <3>1 DEF U
    <2>5. F[1..m] = run[m] /\ (m + 1) - 1 = m
      BY <1>1, <1>5
    <2>6. run[m + 1] = AfterResult(run[m], success[s[m + 1]], Policy)
      <3>1. m + 1 \in 1..n
        BY <1>1, <1>5
      <3> QED
        BY <2>5, <3>1
    <2> QED
      BY <1>1, <1>5, <2>4, <2>5, <2>6
  <1> HIDE DEF T
  <1>6. n \in T
    <2>1. 0..n \subseteq T
      BY <1>1, <1>4, <1>5, CountingUp
    <2> QED
      BY <1>1, <2>1
  <1>7. F[1..n] = run[n]
    BY <1>1, <1>6 DEF T
  <1> QED
    BY <1>3, <1>7, Zenon

\* The health of the node is what the applied outcomes make it, in the order in which they
\* entered the channel: the task (recv and record_result, one by one) skips none, repeats
\* none and lets none overtake another, for any number of calls and any capacity.
THEOREM ExecutionHealthFollows == Spec => []HealthFollowsReports
<1>1. ASSUME ExecInv PROVE HealthFollowsReports
  <2> DEFINE n == AppliedCount
             s == SubSeq(accepted, 1, n)
  <2>1. accepted \in Seq(Caller) /\ n \in 0..Len(accepted) /\ Len(accepted) \in Nat
    BY <1>1, Lengths DEF ExecInv, TypeOK
  <2>2. PICK run \in [0..n -> Tracker] :
              /\ run[0] = NewTracker
              /\ \A i \in 1..n : run[i] = AfterResult(run[i - 1], success[accepted[i]], Policy)
              /\ tracker = run[n]
    BY <1>1 DEF ExecInv, HealthIsARun
  <2>3. Applied = s
    BY DEF Applied, AppliedCount
  <2> HIDE DEF n
  <2>4. s \in Seq(Caller) /\ Len(s) = n /\ \A i \in 1..n : s[i] = accepted[i]
    BY <2>1
  <2> HIDE DEF s
  <2>5. \A i \in 1..Len(s) : run[i] = AfterResult(run[i - 1], success[s[i]], Policy)
    BY <2>2, <2>4
  <2>6. FoldLeft(LAMBDA tr, c : AfterResult(tr, success[c], Policy), NewTracker, s)
        = run[Len(s)]
    BY <2>2, <2>4, <2>5, FoldIsRun
  <2>7. tracker = run[Len(s)]
    BY <2>2, <2>4
  <2> QED BY <2>3, <2>6, <2>7, Zenon DEF HealthFollowsReports
<1> QED BY <1>1, ExecCorrect, PTL
==============================================================================
