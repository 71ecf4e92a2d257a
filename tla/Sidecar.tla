------------------------------- MODULE Sidecar -------------------------------
(***************************************************************************)
(* The HTTP sidecar (src/bin/trust-router-sidecar.rs): requests handled    *)
(* concurrently, the shared rate limiter, the in-memory audit ring of the  *)
(* router, the JSONL audit file and the metrics, with I/O errors and       *)
(* crashes.  The router itself is Router; here a decision is the audit     *)
(* event it pushes, and all that matters of the ring is its newest event,  *)
(* which is what last_audit_event hands to the handler.                    *)
(*                                                                         *)
(* The file is a sequence of write calls: writeln! on an unbuffered file   *)
(* writes the line and then its newline.                                   *)
(***************************************************************************)
EXTENDS TokenBucket, Sequences, FiniteSets, SequencesExt, FiniteSetsExt

CONSTANTS
    Request,        \* the requests clients send, each once
    Mixes,          \* bound: the assignments of endpoints to requests tried
    BatchSize,      \* items of a batch
    MaxTime,        \* bound: clock ticks between two starts of the process
    MaxCrashes      \* bound: crashes

Endpoint == {"route", "plan", "batch", "result", "force", "metrics"}

ASSUME SidecarAssumption ==
    /\ Mixes \subseteq [Request -> Endpoint]
    /\ BatchSize \in 1..1024
    /\ {MaxTime, MaxCrashes} \subseteq Nat

VARIABLES
    kind,       \* kind[r]: the endpoint r is for
    phase,      \* phase[r]: how far the handler of r has come
    routed,     \* items of r routed so far
    picked,     \* the events r took from the ring to persist
    written,    \* how many of them are in the file
    newest,     \* the newest event of the audit ring
    file,       \* the audit file
    synced,     \* length of the file that sync_all has made durable
    bucket,     \* the rate limiter
    counted,    \* Metrics: total_routes + total_plans
    granted,    \* history: tokens given out since the start
    time,       \* history: ticks since the start
    crashes     \* history

vars == <<kind, phase, routed, picked, written, newest, file, synced, bucket, counted,
          granted, time, crashes>>

handler == <<kind, phase, routed, picked, written>>
disk == <<file, synced>>
limiter == <<bucket, granted, time>>

NoEvent == [by |-> "none", item |-> 0]
\* The event the router pushes for the item-th decision of r
Decision(r, item) == [by |-> r, item |-> item]
HealthEvent == [by |-> "health", item |-> 0]
Newline == [by |-> "newline", item |-> 0]

Audited == {r \in Request : kind[r] \in {"route", "plan", "batch"}}
Items(r) == IF kind[r] = "batch" THEN BatchSize ELSE 1

\* "Before" is before the last crash: the client has the response, the process forgot.
Answered == {"answered", "answeredBefore"}
Over == Answered \cup {"refused", "limited", "failed", "failedBefore", "lost"}
InFlight == {"admitted", "routed", "line", "newline", "sync", "persisted"}

Init ==
    /\ kind \in Mixes
    /\ phase = [r \in Request |-> "new"]
    /\ routed = [r \in Request |-> 0]
    /\ picked = [r \in Request |-> << >>]
    /\ written = [r \in Request |-> 0]
    /\ newest = NoEvent
    /\ file = << >> /\ synced = 0
    /\ bucket = NewBucket
    /\ counted = 0 /\ granted = 0 /\ time = 0 /\ crashes = 0

Move(r, from, to) == phase[r] = from /\ phase' = [phase EXCEPT ![r] = to]

--------------------------------------------------------------------------------
(* Before any work: validation, API key, tenant allow-list, rate limiter *)

\* An invalid field, a wrong key or a foreign tenant; no token is spent.
Refuse(r) ==
    /\ Move(r, "new", "refused")
    /\ UNCHANGED <<kind, routed, picked, written, newest, disk, limiter, counted, crashes>>

\* The tokens of one request, all of a batch's under one lock; a batch that runs out
\* half-way is refused and its tokens are gone.
Authorize(r) ==
    LET taken == Taken(bucket, Items(r))
    IN  /\ Move(r, "new", IF taken = Items(r) THEN "admitted" ELSE "limited")
        /\ bucket' = AfterAcquire(bucket, Items(r))
        /\ granted' = granted + taken
        /\ UNCHANGED <<kind, routed, picked, written, newest, disk, time, counted, crashes>>

--------------------------------------------------------------------------------
(* /route, /plan, /route/batch *)

\* router.route(), which pushes its audit event
Route(r) ==
    /\ r \in Audited
    /\ Move(r, "admitted", "routed")
    /\ routed' = [routed EXCEPT ![r] = @ + 1]
    /\ newest' = Decision(r, routed[r] + 1)
    /\ UNCHANGED <<kind, picked, written, disk, limiter, counted, crashes>>

\* Planner::execution_plan refuses a route above max_steps, after it was routed.
PlanTooLong(r) ==
    /\ kind[r] = "plan"
    /\ Move(r, "routed", "refused")
    /\ UNCHANGED <<kind, routed, picked, written, newest, disk, limiter, counted, crashes>>

\* Metrics::record_route and record_plan
Recorded == counted + 1

\* router.last_audit_event(), and for a batch its metrics
PickUp(r) ==
    /\ Move(r, "routed", IF routed[r] < Items(r) THEN "admitted" ELSE "line")
    /\ picked' = [picked EXCEPT ![r] = Append(@, newest)]
    /\ counted' = IF kind[r] = "batch" THEN Recorded ELSE counted
    /\ UNCHANGED <<kind, routed, written, newest, disk, limiter, crashes>>

\* append_events_jsonl: every event a line and a newline, then sync_all
WriteLine(r) ==
    /\ Move(r, "line", "newline")
    /\ file' = Append(file, picked[r][written[r] + 1])
    /\ UNCHANGED <<kind, routed, picked, written, newest, synced, limiter, counted, crashes>>

WriteNewline(r) ==
    /\ Move(r, "newline", IF written[r] + 1 < Len(picked[r]) THEN "line" ELSE "sync")
    /\ written' = [written EXCEPT ![r] = @ + 1]
    /\ file' = Append(file, Newline)
    /\ UNCHANGED <<kind, routed, picked, newest, synced, limiter, counted, crashes>>

\* Mutant: the data is flushed, not synced (File::flush does nothing).
SyncFlushes(r) ==
    /\ Move(r, "sync", "persisted")
    /\ UNCHANGED <<kind, routed, picked, written, newest, disk, limiter, counted, crashes>>

Sync(r) ==
    /\ Move(r, "sync", "persisted")
    /\ synced' = Len(file)
    /\ UNCHANGED <<kind, routed, picked, written, newest, file, limiter, counted, crashes>>

\* open, write or sync_all fails: 500, and what was written stays in the file
PersistFails(r) ==
    /\ phase[r] \in {"line", "newline", "sync"}
    /\ phase' = [phase EXCEPT ![r] = "failed"]
    /\ UNCHANGED <<kind, routed, picked, written, newest, disk, limiter, counted, crashes>>

\* Mutant: the batch is counted once more when it is answered.
RespondCountsBatchAgain(r) ==
    /\ Move(r, "persisted", "answered")
    /\ counted' = counted + Items(r)
    /\ UNCHANGED <<kind, routed, picked, written, newest, disk, limiter, crashes>>

\* A single route or plan is counted only now, after it was persisted.
Respond(r) ==
    /\ Move(r, "persisted", "answered")
    /\ counted' = IF kind[r] = "batch" THEN counted ELSE Recorded
    /\ UNCHANGED <<kind, routed, picked, written, newest, disk, limiter, crashes>>

--------------------------------------------------------------------------------
(* /result, /force-half-open, /metrics: nothing is written to the file *)

\* record_result always pushes an event, force_half_open only when it changed the node
Report(r) ==
    /\ kind[r] \in {"result", "force"}
    /\ Move(r, "admitted", "answered")
    /\ newest' \in {HealthEvent} \cup (IF kind[r] = "force" THEN {newest} ELSE {})
    /\ UNCHANGED <<kind, routed, picked, written, disk, limiter, counted, crashes>>

ReadMetrics(r) ==
    /\ kind[r] = "metrics"
    /\ Move(r, "admitted", "answered")
    /\ UNCHANGED <<kind, routed, picked, written, newest, disk, limiter, counted, crashes>>

--------------------------------------------------------------------------------
(* The world around the handlers *)

\* The recovery loop found a node ready and pushed its event.
RecoveryLoop ==
    /\ newest # HealthEvent
    /\ newest' = HealthEvent
    /\ UNCHANGED <<handler, disk, limiter, counted, crashes>>

Tick ==
    /\ time < MaxTime
    /\ time' = time + 1
    /\ bucket' = Waited(bucket)
    /\ UNCHANGED <<handler, newest, disk, counted, granted, crashes>>

\* Process kill or power loss (external): what was not synced may be gone, requests in
\* flight are never answered, memory starts afresh.
Crash ==
    /\ crashes < MaxCrashes
    /\ crashes' = crashes + 1
    /\ phase' = [r \in Request |->
                    CASE phase[r] = "answered" -> "answeredBefore"
                      [] phase[r] = "failed" -> "failedBefore"
                      [] phase[r] \in InFlight -> "lost"
                      [] OTHER -> phase[r]]
    /\ \E n \in synced..Len(file) : file' = SubSeq(file, 1, n) /\ synced' = n
    /\ newest' = NoEvent
    /\ bucket' = NewBucket
    /\ granted' = 0 /\ time' = 0 /\ counted' = 0
    /\ UNCHANGED <<kind, routed, picked, written>>

Handle(r) ==
    \/ Refuse(r) \/ Authorize(r)
    \/ Route(r) \/ PlanTooLong(r) \/ PickUp(r)
    \/ WriteLine(r) \/ WriteNewline(r) \/ Sync(r) \/ PersistFails(r) \/ Respond(r)
    \/ Report(r) \/ ReadMetrics(r)

Next ==
    \/ \E r \in Request : Handle(r)
    \/ RecoveryLoop
    \/ Tick
    \/ Crash

Spec == Init /\ [][Next]_vars

--------------------------------------------------------------------------------
Event == {NoEvent, HealthEvent} \cup [by : Request, item : 1..BatchSize]

\* The state has its shape: in particular the bucket never holds more than its capacity
\* (the cap in refill) and what is synced is part of the file.
TypeOK ==
    /\ kind \in [Request -> Endpoint]
    /\ phase \in [Request -> {"new"} \cup InFlight \cup Over]
    /\ routed \in [Request -> 0..BatchSize]
    /\ picked \in [Request -> Seq(Event)]
    /\ written \in [Request -> 0..BatchSize]
    /\ newest \in Event
    /\ file \in Seq(Event \cup {Newline})
    /\ synced \in 0..Len(file)
    /\ bucket \in Bucket
    /\ {counted, granted, time, crashes} \subseteq Nat

\* Persist before response: whenever a client holds the answer to a route, a plan or
\* a batch, one event per decision was taken from the ring and all of them are
\* in the part of the file no crash can take away, also after crashes, failed
\* writes of other requests and interleaved appends.
AnswersAreDurable ==
    \A r \in Audited : phase[r] \in Answered =>
        /\ Len(picked[r]) = Items(r)
        /\ ToSet(picked[r]) \subseteq ToSet(SubSeq(file, 1, synced))

\* The limiter hands out at most its capacity plus what the time since the start was
\* worth, however calls, batches that fail half-way and refills interleave.
RateIsBounded ==
    granted * Unit <= Full + time * Rate

\* Metrics count every answered route and plan once, and every batch item routed since
\* the start once, whether its batch is answered, fails to persist or is still
\* in flight.
CountedOnce ==
    LET current == {r \in Request : phase[r] \in InFlight \cup {"failed", "answered"}}
        batches == {r \in current : kind[r] = "batch"}
        singles == {r \in current \ batches : r \in Audited /\ phase[r] = "answered"}
    IN  counted = Cardinality(singles) + MapThenSumSet(LAMBDA r : Len(picked[r]), batches)

--------------------------------------------------------------------------------
(* What README.md says of the audit log *)

\* "Every route, reroute, health transition, and escalation is immutably committed": an
\* answered decision is in the audit file itself, not only some event of the ring.
OwnDecisionCommitted ==
    \A r \in Audited : phase[r] \in Answered =>
        \A i \in 1..Items(r) : Decision(r, i) \in ToSet(file)
==============================================================================
