---------------------------- MODULE SidecarProofs ----------------------------
(***************************************************************************)
(* Proofs about the HTTP sidecar (src/bin/trust-router-sidecar.rs) and its *)
(* rate limiter (src/sidecar_security.rs): for every set of requests and   *)
(* endpoints, every size of a batch, every capacity and refill rate, and   *)
(* any number of crashes.                                                  *)
(***************************************************************************)
EXTENDS Sidecar, FiniteSetTheorems, TLAPS

--------------------------------------------------------------------------------
(* The token bucket *)

\* Arithmetic of tokens and units that the solver does not find by itself.
LEMMA Distributes ==
    ASSUME NEW a \in Int, NEW b \in Int, NEW c \in Int
    PROVE  (a + b) * c = a * c + b * c
OBVIOUS

\* A product of naturals is one.
LEMMA NatProduct ==
    ASSUME NEW a \in Nat, NEW b \in Nat
    PROVE  a * b \in Nat
OBVIOUS

\* Fewer tokens are worth fewer units.
LEMMA ProductMonotone ==
    ASSUME NEW a \in Nat, NEW b \in Nat, a <= b, NEW c \in Nat
    PROVE  a * c <= b * c
<1>1. b - a \in Nat /\ b = a + (b - a)
  OBVIOUS
<1>2. b * c = a * c + (b - a) * c
  BY <1>1, Distributes
<1>3. (b - a) * c \in Nat /\ a * c \in Nat
  BY <1>1, NatProduct
<1> QED BY <1>2, <1>3

\* The whole tokens among x units are worth at most x.
LEMMA WholeTokens ==
    ASSUME NEW x \in Nat, NEW u \in Nat \ {0}
    PROVE  x \div u \in Nat /\ (x \div u) * u <= x
OBVIOUS

\* try_acquire, n times in a row: the bucket stays between empty and full, and what it
\* hands out it had before or was refilled with.
LEMMA AcquireFacts ==
    ASSUME NEW b \in Bucket, NEW n \in Nat
    PROVE  /\ AfterAcquire(b, n) \in Bucket /\ AfterAcquire(b, n).elapsed = 0
           /\ Taken(b, n) \in Nat /\ Taken(b, n) <= n
           /\ Taken(b, n) * Unit + AfterAcquire(b, n).tokens <= b.tokens + b.elapsed * Rate
<1>1. /\ Capacity \in Nat /\ Rate \in Nat /\ Unit \in Nat \ {0} /\ Full \in Nat
      /\ b.tokens \in 0..Full /\ b.elapsed \in Nat
  BY BucketAssumption, NatProduct DEF Full, Bucket
<1> DEFINE x == AtMost(b.tokens + b.elapsed * Rate, Full)
           taken == Taken(b, n)
<1>2. b.elapsed * Rate \in Nat
  BY <1>1, NatProduct
<1>3. x \in 0..Full /\ x <= b.tokens + b.elapsed * Rate /\ x \in Nat
  BY <1>1, <1>2 DEF AtMost
<1>4. Refilled(b) = [tokens |-> x, elapsed |-> 0]
  BY DEF Refilled
<1> HIDE DEF x
<1>5. taken = AtMost(n, x \div Unit)
  BY <1>4 DEF Taken
<1>6. x \div Unit \in Nat /\ (x \div Unit) * Unit <= x
  BY <1>1, <1>3, WholeTokens
<1>7. taken \in Nat /\ taken <= n /\ taken <= x \div Unit
  BY <1>5, <1>6 DEF AtMost
<1>8. taken * Unit \in Nat /\ taken * Unit <= x
  <2>1. taken * Unit <= (x \div Unit) * Unit
    BY <1>1, <1>6, <1>7, ProductMonotone
  <2>2. taken * Unit \in Nat /\ (x \div Unit) * Unit \in Nat
    BY <1>1, <1>6, <1>7, NatProduct
  <2> QED BY <2>1, <2>2, <1>3, <1>6
<1>9. AfterAcquire(b, n) = [tokens |-> x - taken * Unit, elapsed |-> 0]
  BY <1>4 DEF AfterAcquire
<1> HIDE DEF taken
<1>10. x - taken * Unit \in 0..Full
  BY <1>1, <1>3, <1>8
<1>11. AfterAcquire(b, n) \in Bucket /\ AfterAcquire(b, n).elapsed = 0
       /\ AfterAcquire(b, n).tokens = x - taken * Unit
  BY <1>9, <1>10 DEF Bucket
<1>12. taken * Unit + (x - taken * Unit) <= b.tokens + b.elapsed * Rate
  BY <1>1, <1>2, <1>3, <1>8
<1> QED BY <1>7, <1>11, <1>12 DEF taken

\* The accounts of the limiter balance: what was handed out, what is left and what the time
\* since the last refill is worth came from the first filling or from the clock.
LimiterInv ==
    /\ bucket \in Bucket /\ granted \in Nat /\ time \in Nat
    /\ granted * Unit + bucket.tokens + bucket.elapsed * Rate <= Full + time * Rate

\* The limiter hands out at most its capacity and what the time since the start was worth,
\* whatever is asked of it and whenever the process is restarted (TokenBucket::try_acquire).
THEOREM SidecarRateIsBounded == Spec => []RateIsBounded
<1> DEFINE Unmetered == bucket' = bucket /\ granted' = granted /\ time' = time
<1>0. /\ Rate \in Nat /\ Unit \in Nat \ {0} /\ Full \in Nat /\ BatchSize \in Nat
  BY BucketAssumption, SidecarAssumption, NatProduct DEF Full
<1>1. Init => LimiterInv
  <2> SUFFICES ASSUME Init PROVE LimiterInv
    OBVIOUS
  <2>1. bucket = NewBucket /\ granted = 0 /\ time = 0
    BY DEF Init
  <2>2. bucket \in Bucket /\ bucket.tokens = Full /\ bucket.elapsed = 0
    BY <1>0, <2>1 DEF NewBucket, Bucket
  <2>3. 0 * Unit = 0 /\ 0 * Rate = 0
    BY <1>0
  <2> QED BY <1>0, <2>1, <2>2, <2>3 DEF LimiterInv
<1>2. ASSUME LimiterInv, [Next]_vars
      PROVE  LimiterInv'
  <2>0. /\ bucket \in Bucket /\ granted \in Nat /\ time \in Nat
        /\ bucket.tokens \in Nat /\ bucket.elapsed \in Nat
        /\ granted * Unit \in Nat /\ bucket.elapsed * Rate \in Nat /\ time * Rate \in Nat
    BY <1>2, <1>0, NatProduct DEF LimiterInv, Bucket
  <2>1. ASSUME NEW r \in Request, Authorize(r)
        PROVE  LimiterInv'
    <3> DEFINE n == Items(r)
               taken == Taken(bucket, n)
    <3>1. n \in Nat
      BY <1>0 DEF Items
    <3>2. bucket' = AfterAcquire(bucket, n) /\ granted' = granted + taken /\ time' = time
      BY <2>1 DEF Authorize
    <3>3. /\ bucket' \in Bucket /\ bucket'.elapsed = 0 /\ taken \in Nat
          /\ taken * Unit + bucket'.tokens <= bucket.tokens + bucket.elapsed * Rate
      BY <2>0, <3>1, <3>2, AcquireFacts
    <3> HIDE DEF taken
    <3>4. granted' * Unit = granted * Unit + taken * Unit /\ taken * Unit \in Nat
      BY <1>0, <2>0, <3>2, <3>3, Distributes, NatProduct
    <3>5. bucket'.elapsed * Rate = 0 /\ bucket'.tokens \in Nat
      BY <1>0, <3>3 DEF Bucket
    <3> QED BY <1>0, <1>2, <2>0, <3>2, <3>3, <3>4, <3>5 DEF LimiterInv
  <2>2. CASE Tick
    <3>1. /\ time' = time + 1 /\ bucket' = Waited(bucket) /\ granted' = granted
      BY <2>2 DEF Tick
    <3>2. bucket' \in Bucket /\ bucket'.tokens = bucket.tokens
          /\ bucket'.elapsed = bucket.elapsed + 1
      BY <2>0, <3>1 DEF Waited, Bucket
    <3>3. /\ (bucket.elapsed + 1) * Rate = bucket.elapsed * Rate + 1 * Rate
          /\ (time + 1) * Rate = time * Rate + 1 * Rate
          /\ 1 * Rate = Rate
      BY <1>0, <2>0, Distributes
    <3> QED BY <1>0, <1>2, <2>0, <3>1, <3>2, <3>3 DEF LimiterInv
  <2>3. CASE Crash
    <3>1. bucket' = NewBucket /\ granted' = 0 /\ time' = 0
      BY <2>3 DEF Crash
    <3>2. NewBucket \in Bucket /\ NewBucket.tokens = Full /\ NewBucket.elapsed = 0
      BY <1>0 DEF NewBucket, Bucket
    <3>3. 0 * Unit = 0 /\ 0 * Rate = 0
      BY <1>0
    <3> QED BY <1>0, <3>1, <3>2, <3>3 DEF LimiterInv
  <2>4. CASE Unmetered
    BY <1>2, <2>4 DEF LimiterInv
  <2>5. \/ \E r \in Request : Authorize(r)
        \/ Tick \/ Crash \/ Unmetered
    BY <1>2 DEF Next, Handle, vars, limiter, Refuse, Route, PlanTooLong, PickUp, WriteLine,
       WriteNewline, Sync, PersistFails, Respond, Report, ReadMetrics, RecoveryLoop
  <2> QED BY <2>1, <2>2, <2>3, <2>4, <2>5
<1>3. LimiterInv => RateIsBounded
  <2> SUFFICES ASSUME LimiterInv PROVE RateIsBounded
    OBVIOUS
  <2>1. /\ bucket.tokens \in Nat /\ granted * Unit \in Nat /\ bucket.elapsed * Rate \in Nat
        /\ time * Rate \in Nat
    BY <1>0, NatProduct DEF LimiterInv, Bucket
  <2> QED BY <1>0, <2>1 DEF LimiterInv, RateIsBounded
<1>4. LimiterInv /\ [Next]_vars => LimiterInv'
  BY <1>2
<1> QED BY <1>1, <1>3, <1>4, PTL DEF Spec

--------------------------------------------------------------------------------
(* Handlers and the audit file *)

\* How far the handler of r has come says what it has routed, taken from the ring and
\* written.
HandlerOK(r) ==
    /\ phase[r] = "new" => routed[r] = 0 /\ picked[r] = << >> /\ written[r] = 0
    /\ phase[r] = "admitted" =>
          routed[r] < Items(r) /\ Len(picked[r]) = routed[r] /\ written[r] = 0
    /\ phase[r] = "routed" =>
          routed[r] \in 1..Items(r) /\ Len(picked[r]) = routed[r] - 1 /\ written[r] = 0
    /\ phase[r] \in {"line", "newline"} =>
          Len(picked[r]) = Items(r) /\ written[r] < Items(r)
    /\ phase[r] \in {"sync", "persisted"} =>
          Len(picked[r]) = Items(r) /\ written[r] = Items(r)
    /\ phase[r] \in Answered /\ r \in Audited => Len(picked[r]) = Items(r)

\* Event e is among the first n entries of the file.
Holds(e, n) == \E k \in 1..n : file[k] = e

\* What a handler has written is in the file while it goes on, and in the durable part of
\* it from the sync on, through crashes.
FileHolds(r) ==
    /\ phase[r] \in {"line", "newline", "sync"} =>
          \A i \in 1..written[r] : Holds(picked[r][i], Len(file))
    /\ phase[r] = "newline" => Holds(picked[r][written[r] + 1], Len(file))
    /\ phase[r] = "persisted" \/ (phase[r] \in Answered /\ r \in Audited) =>
          \A i \in 1..Len(picked[r]) : Holds(picked[r][i], synced)

\* The inductive invariant.
SidecarInv ==
    /\ TypeOK
    /\ \A r \in Request : HandlerOK(r) /\ FileHolds(r)

\* A request has between one item and a full batch.
LEMMA ItemsFacts ==
    ASSUME TypeOK, NEW r \in Request
    PROVE  Items(r) \in 1..BatchSize /\ Items(r) \in Nat /\ BatchSize \in Nat
BY SidecarAssumption DEF Items

\* The file is only appended to and its durable part only extended; nobody else's handler
\* is touched.
Grows(r) ==
    /\ kind' = kind
    /\ Len(file) <= Len(file') /\ synced <= synced'
    /\ \A k \in 1..Len(file) : file'[k] = file[k]
    /\ \A d \in Request \ {r} :
          /\ phase'[d] = phase[d] /\ routed'[d] = routed[d]
          /\ picked'[d] = picked[d] /\ written'[d] = written[d]

\* Appends and syncs of one handler take nothing from the others: interleaved writes to the
\* shared file keep what each of them has written.
LEMMA OthersKeep ==
    ASSUME SidecarInv, NEW r \in Request, Grows(r), TypeOK', HandlerOK(r)', FileHolds(r)'
    PROVE  SidecarInv'
<1> SUFFICES ASSUME NEW d \in Request \ {r}
             PROVE  HandlerOK(d)' /\ FileHolds(d)'
  BY DEF SidecarInv
<1>1. /\ phase'[d] = phase[d] /\ routed'[d] = routed[d]
      /\ picked'[d] = picked[d] /\ written'[d] = written[d]
      /\ Items(d)' = Items(d) /\ (d \in Audited' <=> d \in Audited)
  BY DEF Grows, Items, Audited
<1>2. HandlerOK(d) /\ FileHolds(d)
  BY DEF SidecarInv
<1>3. HandlerOK(d)'
  BY <1>1, <1>2 DEF HandlerOK
<1>4. /\ Len(file) \in Nat /\ Len(file') \in Nat /\ synced \in 0..Len(file)
      /\ Len(file) <= Len(file') /\ synced <= synced' /\ synced' \in 0..Len(file')
  <2>1. file \in Seq(Event \cup {Newline}) /\ synced \in 0..Len(file)
    BY DEF SidecarInv, TypeOK
  <2>2. file' \in Seq(Event \cup {Newline})' /\ synced' \in 0..Len(file')
    BY DEF TypeOK
  <2>3. Len(file) \in Nat /\ Len(file') \in Nat
    BY <2>1, <2>2
  <2> QED BY <2>1, <2>2, <2>3 DEF Grows
<1>5. \A e : Holds(e, Len(file)) => \E k \in 1..Len(file') : file'[k] = e
  BY <1>4 DEF Holds, Grows
<1>6. \A e : Holds(e, synced) => \E k \in 1..synced' : file'[k] = e
  BY <1>4 DEF Holds, Grows
<1>7. FileHolds(d)'
  <2>1. ASSUME phase[d] \in {"line", "newline", "sync"}
        PROVE  \A i \in 1..written[d] : \E k \in 1..Len(file') : file'[k] = picked[d][i]
    BY <2>1, <1>2, <1>5 DEF FileHolds
  <2>2. ASSUME phase[d] = "newline"
        PROVE  \E k \in 1..Len(file') : file'[k] = picked[d][written[d] + 1]
    BY <2>2, <1>2, <1>5 DEF FileHolds
  <2>3. ASSUME phase[d] = "persisted" \/ (phase[d] \in Answered /\ d \in Audited)
        PROVE  \A i \in 1..Len(picked[d]) : \E k \in 1..synced' : file'[k] = picked[d][i]
    BY <2>3, <1>2, <1>6 DEF FileHolds
  <2> QED BY <2>1, <2>2, <2>3, <1>1 DEF FileHolds, Holds
<1> QED BY <1>3, <1>7

\* A step that moves a handler on without routing, taking or writing anything.
LEMMA PhaseStep ==
    ASSUME SidecarInv, NEW r \in Request, NEW to \in {"new"} \cup InFlight \cup Over,
           phase' = [phase EXCEPT ![r] = to],
           UNCHANGED <<kind, routed, picked, written, file, synced>>,
           newest' \in Event, bucket' \in Bucket,
           {counted', granted', time', crashes'} \subseteq Nat,
           HandlerOK(r)', FileHolds(r)'
    PROVE  SidecarInv'
<1>1. /\ phase \in [Request -> {"new"} \cup InFlight \cup Over]
      /\ Len(file) \in Nat /\ synced \in Nat
  BY DEF SidecarInv, TypeOK
<1>2. TypeOK'
  BY <1>1 DEF SidecarInv, TypeOK
<1>3. Grows(r)
  BY <1>1 DEF Grows
<1> QED BY <1>2, <1>3, OthersKeep

\* The phases a request does not come back from without an answer: nothing is asked of the
\* handler any more.
LEMMA DismissedOK ==
    ASSUME NEW r \in Request,
           phase'[r] \in {"refused", "limited", "failed", "failedBefore", "lost"}
    PROVE  HandlerOK(r)' /\ FileHolds(r)'
BY DEF HandlerOK, FileHolds, Answered

\* Refused, turned away by the limiter, too long a plan, or a failed write: the request is
\* dismissed; what it has written stays.
LEMMA DismissKeeps ==
    ASSUME SidecarInv, NEW r \in Request, Refuse(r) \/ PlanTooLong(r) \/ PersistFails(r)
    PROVE  SidecarInv'
<1>1. /\ UNCHANGED <<kind, routed, picked, written, file, synced, newest, bucket, granted, time,
                    counted, crashes>>
      /\ \/ phase' = [phase EXCEPT ![r] = "refused"]
         \/ phase' = [phase EXCEPT ![r] = "failed"]
  BY DEF Refuse, PlanTooLong, PersistFails, Move, disk, limiter
<1>2. /\ newest' \in Event /\ bucket' \in Bucket
      /\ {counted', granted', time', crashes'} \subseteq Nat
      /\ phase \in [Request -> {"new"} \cup InFlight \cup Over]
  BY <1>1 DEF SidecarInv, TypeOK
<1>3. {"refused", "failed"} \subseteq {"new"} \cup InFlight \cup Over
  BY DEF Over
<1>4. HandlerOK(r)' /\ FileHolds(r)'
  BY <1>1, <1>2, DismissedOK
<1> QED BY <1>1, <1>2, <1>3, <1>4, PhaseStep

\* The limiter's answer: admitted with nothing done yet, or turned away.
LEMMA AuthorizeKeeps ==
    ASSUME SidecarInv, NEW r \in Request, Authorize(r)
    PROVE  SidecarInv'
<1> DEFINE taken == Taken(bucket, Items(r))
           to == IF taken = Items(r) THEN "admitted" ELSE "limited"
<1>1. /\ phase[r] = "new" /\ phase' = [phase EXCEPT ![r] = to]
      /\ bucket' = AfterAcquire(bucket, Items(r)) /\ granted' = granted + taken
      /\ UNCHANGED <<kind, routed, picked, written, file, synced, newest, time, counted, crashes>>
  BY DEF Authorize, Move, disk
<1>2. /\ bucket \in Bucket /\ {counted, granted, time, crashes} \subseteq Nat
      /\ newest \in Event /\ phase \in [Request -> {"new"} \cup InFlight \cup Over]
      /\ Items(r) \in 1..BatchSize /\ Items(r) \in Nat
  BY ItemsFacts DEF SidecarInv, TypeOK
<1>3. bucket' \in Bucket /\ taken \in Nat
  BY <1>1, <1>2, AcquireFacts
<1> HIDE DEF taken
<1>4. {counted', granted', time', crashes'} \subseteq Nat
  BY <1>1, <1>2, <1>3
<1>5. phase'[r] = to /\ to \in {"new"} \cup InFlight \cup Over
  BY <1>1, <1>2 DEF InFlight, Over
<1>6. HandlerOK(r)' /\ FileHolds(r)'
  <2>1. CASE to = "admitted"
    <3>1. routed'[r] = 0 /\ picked'[r] = << >> /\ written'[r] = 0 /\ Items(r)' = Items(r)
      BY <1>1 DEF SidecarInv, HandlerOK, Items
    <3> QED BY <2>1, <3>1, <1>2, <1>5 DEF HandlerOK, FileHolds, Answered
  <2>2. CASE to = "limited"
    BY <2>2, <1>5, DismissedOK
  <2> QED BY <2>1, <2>2
<1> QED BY <1>1, <1>2, <1>3, <1>4, <1>5, <1>6, PhaseStep

\* The router decides an item: its event is the newest of the ring.
LEMMA RouteKeeps ==
    ASSUME SidecarInv, NEW r \in Request, Route(r)
    PROVE  SidecarInv'
<1>1. /\ phase[r] = "admitted" /\ phase' = [phase EXCEPT ![r] = "routed"]
      /\ routed' = [routed EXCEPT ![r] = routed[r] + 1]
      /\ newest' = Decision(r, routed[r] + 1)
      /\ UNCHANGED <<kind, picked, written, file, synced, bucket, granted, time, counted, crashes>>
  BY DEF Route, Move, disk, limiter
<1>2. /\ phase \in [Request -> {"new"} \cup InFlight \cup Over]
      /\ routed \in [Request -> 0..BatchSize]
      /\ Items(r) \in 1..BatchSize /\ Items(r) \in Nat /\ BatchSize \in Nat
  BY ItemsFacts DEF SidecarInv, TypeOK
<1>3. routed[r] < Items(r) /\ Len(picked[r]) = routed[r] /\ written[r] = 0
  BY <1>1 DEF SidecarInv, HandlerOK
<1>4. /\ phase'[r] = "routed" /\ routed'[r] = routed[r] + 1 /\ picked'[r] = picked[r]
      /\ written'[r] = written[r] /\ Items(r)' = Items(r)
      /\ routed[r] \in Nat /\ routed[r] + 1 \in 1..BatchSize
  BY <1>1, <1>2, <1>3 DEF Items
<1>5. TypeOK'
  <2>1. newest' \in Event
    BY <1>1, <1>4 DEF Decision, Event
  <2>2. routed' \in [Request -> 0..BatchSize]
    BY <1>1, <1>2, <1>4
  <2>3. phase' \in [Request -> {"new"} \cup InFlight \cup Over]
    BY <1>1, <1>2 DEF InFlight
  <2> QED BY <1>1, <2>1, <2>2, <2>3 DEF SidecarInv, TypeOK
<1>6. HandlerOK(r)'
  BY <1>2, <1>3, <1>4 DEF HandlerOK, Answered
<1>7. FileHolds(r)'
  BY <1>4 DEF FileHolds, Answered
<1>8. Grows(r)
  <2>1. Len(file) \in Nat /\ synced \in Nat
    BY DEF SidecarInv, TypeOK
  <2> QED BY <1>1, <1>2, <2>1 DEF Grows
<1> QED BY <1>5, <1>6, <1>7, <1>8, OthersKeep

\* last_audit_event: the newest event of the ring, whoever's it is, is what the handler
\* will write for its item.
LEMMA PickUpKeeps ==
    ASSUME SidecarInv, NEW r \in Request, PickUp(r)
    PROVE  SidecarInv'
<1> DEFINE to == IF routed[r] < Items(r) THEN "admitted" ELSE "line"
<1>1. /\ phase[r] = "routed" /\ phase' = [phase EXCEPT ![r] = to]
      /\ picked' = [picked EXCEPT ![r] = Append(picked[r], newest)]
      /\ counted' \in {counted + 1, counted}
      /\ UNCHANGED <<kind, routed, written, newest, file, synced, bucket, granted, time, crashes>>
  BY DEF PickUp, Move, disk, limiter, Recorded
<1>2. /\ phase \in [Request -> {"new"} \cup InFlight \cup Over]
      /\ routed \in [Request -> 0..BatchSize] /\ picked \in [Request -> Seq(Event)]
      /\ newest \in Event /\ counted \in Nat
      /\ Items(r) \in 1..BatchSize /\ Items(r) \in Nat /\ BatchSize \in Nat
  BY ItemsFacts DEF SidecarInv, TypeOK
<1>3. routed[r] \in 1..Items(r) /\ Len(picked[r]) = routed[r] - 1 /\ written[r] = 0
  BY <1>1 DEF SidecarInv, HandlerOK
<1>4. /\ picked[r] \in Seq(Event) /\ Append(picked[r], newest) \in Seq(Event)
      /\ Len(Append(picked[r], newest)) = Len(picked[r]) + 1
  BY <1>2
<1>5. /\ phase'[r] = to /\ routed'[r] = routed[r]
      /\ picked'[r] = Append(picked[r], newest) /\ Len(picked'[r]) = routed[r]
      /\ written'[r] = 0 /\ Items(r)' = Items(r) /\ routed[r] \in Nat
  BY <1>1, <1>2, <1>3, <1>4 DEF Items
<1>6. TypeOK'
  <2>1. picked' \in [Request -> Seq(Event)]
    BY <1>1, <1>2, <1>4
  <2>2. phase' \in [Request -> {"new"} \cup InFlight \cup Over]
    BY <1>1, <1>2 DEF InFlight
  <2>3. counted' \in Nat
    BY <1>1, <1>2
  <2> QED BY <1>1, <2>1, <2>2, <2>3 DEF SidecarInv, TypeOK, Event
<1>7. HandlerOK(r)'
  <2>1. CASE routed[r] < Items(r)
    <3>1. phase'[r] = "admitted"
      BY <1>5, <2>1
    <3> QED BY <1>5, <2>1, <3>1 DEF HandlerOK, Answered
  <2>2. CASE ~(routed[r] < Items(r))
    <3>1. phase'[r] = "line" /\ routed[r] = Items(r) /\ 0 < Items(r)
      BY <1>2, <1>3, <1>5, <2>2
    <3> QED BY <1>5, <3>1 DEF HandlerOK, Answered
  <2> QED BY <2>1, <2>2
<1>8. FileHolds(r)'
  <2>1. phase'[r] \in {"admitted", "line"} /\ 1..written'[r] = {}
    BY <1>5
  <2> QED BY <2>1 DEF FileHolds, Answered
<1>9. Grows(r)
  <2>1. Len(file) \in Nat /\ synced \in Nat
    BY DEF SidecarInv, TypeOK
  <2> QED BY <1>1, <1>2, <2>1 DEF Grows
<1> QED BY <1>6, <1>7, <1>8, <1>9, OthersKeep

\* The file after a write: one entry longer, the others in their places.
LEMMA Appended ==
    ASSUME SidecarInv, NEW e \in Event \cup {Newline}, file' = Append(file, e),
           synced' = synced
    PROVE  /\ file' \in Seq(Event \cup {Newline}) /\ synced' \in 0..Len(file')
           /\ Len(file) \in Nat /\ Len(file') = Len(file) + 1 /\ synced \in Nat
           /\ file'[Len(file')] = e
           /\ \A k \in 1..Len(file) : file'[k] = file[k]
           /\ \A x : Holds(x, Len(file)) => \E k \in 1..Len(file') : file'[k] = x
<1>1. file \in Seq(Event \cup {Newline}) /\ synced \in 0..Len(file) /\ Len(file) \in Nat
  BY DEF SidecarInv, TypeOK
<1>2. /\ file' \in Seq(Event \cup {Newline}) /\ Len(file') = Len(file) + 1
      /\ file'[Len(file')] = e /\ \A k \in 1..Len(file) : file'[k] = file[k]
  BY <1>1
<1> QED BY <1>1, <1>2 DEF Holds

\* The line of an event is written; its newline is not.
LEMMA WriteLineKeeps ==
    ASSUME SidecarInv, NEW r \in Request, WriteLine(r)
    PROVE  SidecarInv'
<1> DEFINE e == picked[r][written[r] + 1]
<1>1. /\ phase[r] = "line" /\ phase' = [phase EXCEPT ![r] = "newline"]
      /\ file' = Append(file, e)
      /\ UNCHANGED <<kind, routed, picked, written, newest, synced, bucket, granted, time,
                    counted, crashes>>
  BY DEF WriteLine, Move, limiter
<1>2. /\ phase \in [Request -> {"new"} \cup InFlight \cup Over]
      /\ picked[r] \in Seq(Event) /\ written[r] \in Nat /\ Items(r) \in Nat
  BY ItemsFacts DEF SidecarInv, TypeOK
<1>3. /\ Len(picked[r]) = Items(r) /\ written[r] < Items(r)
      /\ \A i \in 1..written[r] : Holds(picked[r][i], Len(file))
  BY <1>1 DEF SidecarInv, HandlerOK, FileHolds
<1>4. e \in Event \cup {Newline}
  <2>1. written[r] + 1 \in 1..Len(picked[r])
    BY <1>2, <1>3
  <2> QED BY <2>1, <1>2
<1> HIDE DEF e
<1>5. /\ file' \in Seq(Event \cup {Newline}) /\ synced' \in 0..Len(file')
      /\ Len(file) \in Nat /\ Len(file') = Len(file) + 1 /\ synced \in Nat
      /\ file'[Len(file')] = e
      /\ \A k \in 1..Len(file) : file'[k] = file[k]
      /\ \A x : Holds(x, Len(file)) => \E k \in 1..Len(file') : file'[k] = x
  BY <1>1, <1>4, Appended
<1>6. /\ phase'[r] = "newline" /\ picked'[r] = picked[r] /\ written'[r] = written[r]
      /\ Items(r)' = Items(r)
  BY <1>1, <1>2 DEF Items
<1>7. TypeOK'
  <2>1. phase' \in [Request -> {"new"} \cup InFlight \cup Over]
    BY <1>1, <1>2 DEF InFlight
  <2> QED BY <1>1, <1>5, <2>1 DEF SidecarInv, TypeOK, Event
<1>8. HandlerOK(r)'
  BY <1>3, <1>6 DEF HandlerOK, Answered
<1>9. FileHolds(r)'
  <2>1. \A i \in 1..written'[r] : \E k \in 1..Len(file') : file'[k] = picked'[r][i]
    BY <1>3, <1>5, <1>6
  <2>2. \E k \in 1..Len(file') : file'[k] = picked'[r][written'[r] + 1]
    <3>1. Len(file') \in 1..Len(file')
      BY <1>5
    <3> QED BY <3>1, <1>5, <1>6 DEF e
  <2> QED BY <1>6, <2>1, <2>2 DEF FileHolds, Holds, Answered
<1>10. Grows(r)
  BY <1>1, <1>2, <1>5 DEF Grows
<1> QED BY <1>7, <1>8, <1>9, <1>10, OthersKeep

\* The newline makes the event one more that is written.
LEMMA WriteNewlineKeeps ==
    ASSUME SidecarInv, NEW r \in Request, WriteNewline(r)
    PROVE  SidecarInv'
<1> DEFINE to == IF written[r] + 1 < Len(picked[r]) THEN "line" ELSE "sync"
<1>1. /\ phase[r] = "newline" /\ phase' = [phase EXCEPT ![r] = to]
      /\ written' = [written EXCEPT ![r] = written[r] + 1]
      /\ file' = Append(file, Newline)
      /\ UNCHANGED <<kind, routed, picked, newest, synced, bucket, granted, time, counted, crashes>>
  BY DEF WriteNewline, Move, limiter
<1>2. /\ phase \in [Request -> {"new"} \cup InFlight \cup Over]
      /\ written \in [Request -> 0..BatchSize]
      /\ written[r] \in Nat /\ Items(r) \in 1..BatchSize /\ Items(r) \in Nat /\ BatchSize \in Nat
  BY ItemsFacts DEF SidecarInv, TypeOK
<1>3. /\ Len(picked[r]) = Items(r) /\ written[r] < Items(r)
      /\ \A i \in 1..written[r] : Holds(picked[r][i], Len(file))
      /\ Holds(picked[r][written[r] + 1], Len(file))
  BY <1>1 DEF SidecarInv, HandlerOK, FileHolds
<1>4. /\ file' \in Seq(Event \cup {Newline}) /\ synced' \in 0..Len(file')
      /\ Len(file) \in Nat /\ Len(file') = Len(file) + 1 /\ synced \in Nat
      /\ \A k \in 1..Len(file) : file'[k] = file[k]
      /\ \A x : Holds(x, Len(file)) => \E k \in 1..Len(file') : file'[k] = x
  BY <1>1, Appended
<1>5. /\ phase'[r] = to /\ picked'[r] = picked[r] /\ written'[r] = written[r] + 1
      /\ Items(r)' = Items(r)
  BY <1>1, <1>2 DEF Items
<1>6. TypeOK'
  <2>1. phase' \in [Request -> {"new"} \cup InFlight \cup Over]
    BY <1>1, <1>2 DEF InFlight
  <2>2. written[r] + 1 \in 0..BatchSize
    BY <1>2, <1>3
  <2>3. written' \in [Request -> 0..BatchSize]
    BY <1>1, <1>2, <2>2
  <2> QED BY <1>1, <1>4, <2>1, <2>3 DEF SidecarInv, TypeOK, Event
<1>7. HandlerOK(r)'
  <2>1. CASE written[r] + 1 < Len(picked[r])
    <3>1. phase'[r] = "line"
      BY <1>5, <2>1
    <3> QED BY <3>1, <2>1, <1>3, <1>5 DEF HandlerOK, Answered
  <2>2. CASE ~(written[r] + 1 < Len(picked[r]))
    <3>1. phase'[r] = "sync" /\ written[r] + 1 = Items(r)
      BY <1>2, <1>3, <1>5, <2>2
    <3> QED BY <3>1, <1>3, <1>5 DEF HandlerOK, Answered
  <2> QED BY <2>1, <2>2
<1>8. FileHolds(r)'
  <2>1. ASSUME NEW i \in 1..written'[r]
        PROVE  \E k \in 1..Len(file') : file'[k] = picked'[r][i]
    <3>1. i \in 1..written[r] \/ i = written[r] + 1
      BY <1>2, <1>5
    <3> QED BY <3>1, <1>3, <1>4, <1>5
  <2>2. phase'[r] \in {"line", "sync"}
    BY <1>5
  <2> QED BY <2>1, <2>2 DEF FileHolds, Holds, Answered
<1>9. Grows(r)
  BY <1>1, <1>2, <1>4 DEF Grows
<1> QED BY <1>6, <1>7, <1>8, <1>9, OthersKeep

\* sync_all makes everything in the file durable, the events of other handlers too.
LEMMA SyncKeeps ==
    ASSUME SidecarInv, NEW r \in Request, Sync(r)
    PROVE  SidecarInv'
<1>1. /\ phase[r] = "sync" /\ phase' = [phase EXCEPT ![r] = "persisted"]
      /\ synced' = Len(file)
      /\ UNCHANGED <<kind, routed, picked, written, newest, file, bucket, granted, time,
                    counted, crashes>>
  BY DEF Sync, Move, limiter
<1>2. /\ phase \in [Request -> {"new"} \cup InFlight \cup Over]
      /\ Len(file) \in Nat /\ synced \in 0..Len(file)
  BY DEF SidecarInv, TypeOK
<1>3. /\ Len(picked[r]) = Items(r) /\ written[r] = Items(r)
      /\ \A i \in 1..written[r] : Holds(picked[r][i], Len(file))
  BY <1>1 DEF SidecarInv, HandlerOK, FileHolds
<1>4. /\ phase'[r] = "persisted" /\ picked'[r] = picked[r] /\ written'[r] = written[r]
      /\ Items(r)' = Items(r)
  BY <1>1, <1>2 DEF Items
<1>5. TypeOK'
  <2>1. phase' \in [Request -> {"new"} \cup InFlight \cup Over]
    BY <1>1, <1>2 DEF InFlight
  <2> QED BY <1>1, <1>2, <2>1 DEF SidecarInv, TypeOK, Event
<1>6. HandlerOK(r)'
  BY <1>3, <1>4 DEF HandlerOK, Answered
<1>7. FileHolds(r)'
  <2>1. \A i \in 1..Len(picked'[r]) : \E k \in 1..synced' : file'[k] = picked'[r][i]
    BY <1>1, <1>3, <1>4 DEF Holds
  <2> QED BY <1>4, <2>1 DEF FileHolds, Holds, Answered
<1>8. Grows(r)
  BY <1>1, <1>2 DEF Grows
<1> QED BY <1>5, <1>6, <1>7, <1>8, OthersKeep

\* An answer goes out: after the sync for a decision, at once for a report or the metrics.
LEMMA AnswerKeeps ==
    ASSUME SidecarInv, NEW r \in Request, Respond(r) \/ Report(r) \/ ReadMetrics(r)
    PROVE  SidecarInv'
<1>1. /\ phase' = [phase EXCEPT ![r] = "answered"]
      /\ UNCHANGED <<kind, routed, picked, written, file, synced, bucket, granted, time, crashes>>
      /\ phase[r] = "persisted" \/ kind[r] \in {"result", "force", "metrics"}
      /\ newest' \in {HealthEvent, newest} /\ counted' \in {counted, counted + 1}
  <2>1. CASE Respond(r)
    BY <2>1 DEF Respond, Move, Recorded, disk, limiter
  <2>2. CASE Report(r)
    BY <2>2 DEF Report, Move, disk, limiter
  <2>3. CASE ReadMetrics(r)
    BY <2>3 DEF ReadMetrics, Move, disk, limiter
  <2> QED BY <2>1, <2>2, <2>3
<1>2. /\ phase \in [Request -> {"new"} \cup InFlight \cup Over] /\ newest \in Event
      /\ bucket \in Bucket /\ {counted, granted, time, crashes} \subseteq Nat
  BY DEF SidecarInv, TypeOK
<1>3. /\ newest' \in Event /\ bucket' \in Bucket
      /\ {counted', granted', time', crashes'} \subseteq Nat
      /\ "answered" \in {"new"} \cup InFlight \cup Over
  BY <1>1, <1>2 DEF Event, Over, Answered
<1>4. /\ phase'[r] = "answered" /\ picked'[r] = picked[r] /\ Items(r)' = Items(r)
      /\ (r \in Audited' <=> r \in Audited)
  BY <1>1, <1>2 DEF Items, Audited
<1>5. r \in Audited => phase[r] = "persisted"
  BY <1>1 DEF Audited
<1>6. HandlerOK(r)'
  BY <1>4, <1>5 DEF SidecarInv, HandlerOK, Answered
<1>7. FileHolds(r)'
  <2>1. r \in Audited => \A i \in 1..Len(picked[r]) : Holds(picked[r][i], synced)
    BY <1>5 DEF SidecarInv, FileHolds
  <2> QED BY <1>1, <1>4, <2>1 DEF FileHolds, Holds, Answered
<1> QED BY <1>1, <1>3, <1>6, <1>7, PhaseStep

\* Steps that touch no handler and no file: the recovery loop's event, a tick of the clock,
\* stuttering.
LEMMA AsideKeeps ==
    ASSUME SidecarInv, RecoveryLoop \/ Tick \/ UNCHANGED vars
    PROVE  SidecarInv'
<1>1. UNCHANGED <<kind, phase, routed, picked, written, file, synced>>
  BY DEF RecoveryLoop, Tick, vars, handler, disk
<1>2. newest' \in Event /\ bucket' \in Bucket /\ {counted', granted', time', crashes'} \subseteq Nat
  <2>0. newest \in Event /\ bucket \in Bucket /\ {counted, granted, time, crashes} \subseteq Nat
    BY DEF SidecarInv, TypeOK
  <2>1. CASE RecoveryLoop
    BY <2>0, <2>1 DEF RecoveryLoop, limiter, Event
  <2>2. CASE Tick
    <3>1. Waited(bucket) \in Bucket
      BY <2>0 DEF Waited, Bucket
    <3> QED BY <2>0, <2>2, <3>1 DEF Tick
  <2>3. CASE UNCHANGED vars
    BY <2>0, <2>3 DEF vars
  <2> QED BY <2>1, <2>2, <2>3
<1>3. TypeOK'
  BY <1>1, <1>2 DEF SidecarInv, TypeOK, Event
<1>4. \A r \in Request : HandlerOK(r)' /\ FileHolds(r)'
  BY <1>1 DEF SidecarInv, HandlerOK, FileHolds, Holds, Items, Audited
<1> QED BY <1>3, <1>4 DEF SidecarInv

\* A crash takes what was not synced and every request in flight; what was answered is in
\* the durable part and stays.
LEMMA CrashKeeps ==
    ASSUME SidecarInv, Crash
    PROVE  SidecarInv'
<1>1. /\ UNCHANGED <<kind, routed, picked, written>>
      /\ newest' = NoEvent /\ bucket' = NewBucket
      /\ granted' = 0 /\ time' = 0 /\ counted' = 0 /\ crashes' = crashes + 1
  BY DEF Crash
<1>2. PICK n \in synced..Len(file) : file' = SubSeq(file, 1, n) /\ synced' = n
  BY DEF Crash
<1>3. /\ file \in Seq(Event \cup {Newline}) /\ synced \in 0..Len(file) /\ Len(file) \in Nat
      /\ phase \in [Request -> {"new"} \cup InFlight \cup Over] /\ crashes \in Nat
  BY DEF SidecarInv, TypeOK
<1>4. /\ n \in 0..Len(file) /\ file' \in Seq(Event \cup {Newline}) /\ Len(file') = n
      /\ synced' = n /\ synced <= n
      /\ \A k \in 1..n : file'[k] = file[k]
  BY <1>2, <1>3
<1>5. ASSUME NEW r \in Request
      PROVE  /\ phase'[r] \in {"new"} \cup InFlight \cup Over
             /\ phase'[r] \in {"new", "refused", "limited", "failedBefore", "lost", "answeredBefore"}
             /\ phase'[r] = "new" => phase[r] = "new"
             /\ phase'[r] = "answeredBefore" => phase[r] \in Answered
  <2>1. phase'[r] = CASE phase[r] = "answered" -> "answeredBefore"
                      [] phase[r] = "failed" -> "failedBefore"
                      [] phase[r] \in InFlight -> "lost"
                      [] OTHER -> phase[r]
    BY DEF Crash
  <2>2. phase[r] \in {"new"} \cup InFlight \cup Over
    BY <1>3
  <2> QED BY <2>1, <2>2 DEF InFlight, Over, Answered
<1>6. TypeOK'
  <2>1. phase' \in [Request -> {"new"} \cup InFlight \cup Over]
    <3>1. phase' = [r \in Request |-> phase'[r]]
      BY DEF Crash
    <3> QED BY <3>1, <1>5
  <2>2. NewBucket \in Bucket
    BY BucketAssumption, NatProduct DEF NewBucket, Bucket, Full
  <2>3. synced' \in 0..Len(file')
    BY <1>3, <1>4
  <2>4. newest' \in Event /\ {counted', granted', time', crashes'} \subseteq Nat
    BY <1>1, <1>3 DEF Event
  <2> QED BY <1>1, <1>4, <2>1, <2>2, <2>3, <2>4 DEF SidecarInv, TypeOK, Event
<1>7. ASSUME NEW r \in Request
      PROVE  HandlerOK(r)' /\ FileHolds(r)'
  <2>1. /\ Items(r)' = Items(r) /\ (r \in Audited' <=> r \in Audited)
        /\ routed'[r] = routed[r] /\ picked'[r] = picked[r] /\ written'[r] = written[r]
    BY <1>1 DEF Items, Audited
  <2>2. HandlerOK(r) /\ FileHolds(r)
    BY DEF SidecarInv
  <2>3. CASE phase'[r] = "new"
    BY <2>1, <2>2, <2>3, <1>5 DEF HandlerOK, FileHolds, Answered
  <2>4. CASE phase'[r] = "answeredBefore"
    <3>1. phase[r] \in Answered
      BY <2>4, <1>5
    <3>2. r \in Audited => /\ Len(picked[r]) = Items(r)
                           /\ \A i \in 1..Len(picked[r]) : Holds(picked[r][i], synced)
      BY <3>1, <2>2 DEF HandlerOK, FileHolds
    <3>3. \A e : Holds(e, synced) => \E k \in 1..synced' : file'[k] = e
      BY <1>3, <1>4 DEF Holds
    <3>4. HandlerOK(r)'
      BY <2>1, <2>4, <3>2 DEF HandlerOK
    <3>5. r \in Audited => \A i \in 1..Len(picked'[r]) :
                               \E k \in 1..synced' : file'[k] = picked'[r][i]
      BY <2>1, <3>2, <3>3
    <3> QED BY <2>1, <2>4, <3>4, <3>5 DEF FileHolds, Holds
  <2>5. CASE phase'[r] \in {"refused", "limited", "failedBefore", "lost"}
    BY <2>5, DismissedOK
  <2> QED BY <2>3, <2>4, <2>5, <1>5
<1> QED BY <1>6, <1>7 DEF SidecarInv

\* The invariant holds from the start and in every step of the handlers and the world.
LEMMA SidecarCorrect == Spec => []SidecarInv
<1>1. ASSUME Init
      PROVE  SidecarInv
  <2>1. /\ phase = [r \in Request |-> "new"] /\ routed = [r \in Request |-> 0]
        /\ picked = [r \in Request |-> << >>] /\ written = [r \in Request |-> 0]
        /\ newest = NoEvent /\ file = << >> /\ synced = 0 /\ bucket = NewBucket
        /\ counted = 0 /\ granted = 0 /\ time = 0 /\ crashes = 0
        /\ kind \in [Request -> Endpoint]
    BY <1>1, SidecarAssumption DEF Init
  <2>2. NewBucket \in Bucket
    BY BucketAssumption, NatProduct DEF NewBucket, Bucket, Full
  <2>3. 0 \in 0..BatchSize /\ << >> \in Seq(Event) /\ << >> \in Seq(Event \cup {Newline})
        /\ Len(file) = 0
    BY <2>1, SidecarAssumption
  <2>4. TypeOK
    BY <2>1, <2>2, <2>3 DEF TypeOK, Event
  <2>5. \A r \in Request : HandlerOK(r) /\ FileHolds(r)
    BY <2>1 DEF HandlerOK, FileHolds, Answered
  <2> QED BY <2>4, <2>5 DEF SidecarInv
<1>2. ASSUME SidecarInv, [Next]_vars
      PROVE  SidecarInv'
  BY <1>2, DismissKeeps, AuthorizeKeeps, RouteKeeps, PickUpKeeps, WriteLineKeeps,
     WriteNewlineKeeps, SyncKeeps, AnswerKeeps, AsideKeeps, CrashKeeps DEF Next, Handle
<1>3. SidecarInv /\ [Next]_vars => SidecarInv'
  BY <1>2
<1> QED BY <1>1, <1>3, PTL DEF Spec

\* The shape of the sidecar's state: the bucket is never overfull and the durable part is
\* a prefix of the file, for every mix of requests and any number of crashes.
THEOREM SidecarTypeCorrect == Spec => []TypeOK
<1>1. SidecarInv => TypeOK
  BY DEF SidecarInv
<1> QED BY <1>1, SidecarCorrect, PTL

\* Persist before response, for any number of handlers that share the file and any number
\* of crashes: an answered route, plan or batch has one event per decision in the
\* part of the file no crash can take (append_events_jsonl before the response).
THEOREM SidecarAnswersAreDurable == Spec => []AnswersAreDurable
<1>1. SidecarInv => AnswersAreDurable
  <2> SUFFICES ASSUME SidecarInv, NEW r \in Audited, phase[r] \in Answered
               PROVE  /\ Len(picked[r]) = Items(r)
                      /\ ToSet(picked[r]) \subseteq ToSet(SubSeq(file, 1, synced))
    BY DEF AnswersAreDurable
  <2>1. r \in Request /\ HandlerOK(r) /\ FileHolds(r)
    BY DEF Audited, SidecarInv
  <2>2. /\ Len(picked[r]) = Items(r)
        /\ \A i \in 1..Len(picked[r]) : Holds(picked[r][i], synced)
    BY <2>1 DEF HandlerOK, FileHolds
  <2>3. /\ picked[r] \in Seq(Event) /\ file \in Seq(Event \cup {Newline})
        /\ synced \in 0..Len(file)
    BY <2>1 DEF SidecarInv, TypeOK
  <2>4. /\ DOMAIN picked[r] = 1..Len(picked[r])
        /\ DOMAIN SubSeq(file, 1, synced) = 1..synced
        /\ \A k \in 1..synced : SubSeq(file, 1, synced)[k] = file[k]
    BY <2>3
  <2> QED BY <2>2, <2>4 DEF ToSet, Holds
<1> QED BY <1>1, SidecarCorrect, PTL

--------------------------------------------------------------------------------
(* Sums: MapThenSumSet of lengths counts places *)

\* Induction over the parts of a finite set, said of the parts it fails for: there is a
\* smallest one.
LEMMA SmallestPart ==
    ASSUME NEW B, IsFiniteSet(B), NEW bad \in SUBSET SUBSET B, bad # {}
    PROVE  \E S \in bad : \A U \in SUBSET S : U # S => U \notin bad
<1> DEFINE R == StrictSubsetOrdering(B)
<1>1. IsWellFoundedOn(R, SUBSET B)
  BY FS_StrictSubsetOrderingWellFounded, FS_FiniteSubsetsOfFinite
<1> HIDE DEF R
<1>2. PICK S \in bad : \A U \in bad : <<U, S>> \notin R
  BY <1>1, WFMin
<1>3. ASSUME NEW U \in SUBSET S, U # S PROVE U \notin bad
  BY <1>2, <1>3 DEF R, StrictSubsetOrdering
<1> QED BY <1>3

\* The places of the sequences p[r], r \in S: as many as their lengths together.
Places(p, S) == {x \in S \X Nat : x[2] \in 1..Len(p[x[1]])}

\* Places come one sequence at a time.
LEMMA PlacesOfOneMore ==
    ASSUME NEW p, NEW S, NEW x \in S, NEW rest, rest = S \ {x}, Len(p[x]) \in Nat,
           IsFiniteSet(Places(p, rest))
    PROVE  /\ IsFiniteSet(Places(p, S))
           /\ Cardinality(Places(p, S)) = Len(p[x]) + Cardinality(Places(p, rest))
<1> DEFINE theirs == Places(p, rest)
           own == {x} \X (1..Len(p[x]))
<1>1. IsFiniteSet(own) /\ Cardinality(own) = Len(p[x])
  <2>1. IsFiniteSet(1..Len(p[x])) /\ Cardinality(1..Len(p[x])) = Len(p[x])
    BY FS_Interval
  <2>2. IsFiniteSet({x}) /\ Cardinality({x}) = 1
    BY FS_Singleton
  <2>3. IsFiniteSet(own) /\ Cardinality(own) = 1 * Len(p[x])
    <3>1. 1 * Len(p[x]) = Cardinality({x}) * Cardinality(1..Len(p[x]))
      BY <2>1, <2>2
    <3> QED BY <2>1, <2>2, <3>1, FS_Product, Zenon
  <2> QED BY <2>3
<1>2. Places(p, S) = theirs \cup own
  BY DEF Places
<1>3. theirs \cap own = {}
  BY DEF Places
<1>4. Cardinality(theirs) \in Nat /\ IsFiniteSet(theirs)
  BY FS_CardinalityType
<1> HIDE DEF own, theirs
<1>5. /\ IsFiniteSet(theirs \cup own)
      /\ Cardinality(theirs \cup own)
         = Cardinality(theirs) + Cardinality(own) - Cardinality({})
  BY <1>1, <1>3, <1>4, FS_Union
<1>6. /\ IsFiniteSet(Places(p, S))
      /\ Cardinality(Places(p, S)) = Len(p[x]) + Cardinality(theirs)
  BY <1>1, <1>2, <1>4, <1>5, FS_EmptySet
<1> QED BY <1>6 DEF theirs

\* Finitely many sequences have finitely many places.
LEMMA PlacesFinite ==
    ASSUME NEW B, IsFiniteSet(B), NEW p, \A r \in B : Len(p[r]) \in Nat, NEW S \in SUBSET B
    PROVE  IsFiniteSet(Places(p, S))
<1> DEFINE bad == {U \in SUBSET B : ~IsFiniteSet(Places(p, U))}
<1> SUFFICES ASSUME bad # {} PROVE FALSE
  OBVIOUS
<1>1. PICK U \in bad : \A V \in SUBSET U : V # U => V \notin bad
  <2> HIDE DEF bad
  <2>1. bad \in SUBSET SUBSET B
    BY DEF bad
  <2> QED BY <2>1, SmallestPart
<1>2. U # {}
  <2>1. Places(p, {}) = {}
    BY DEF Places
  <2> QED BY <2>1, FS_EmptySet
<1>3. PICK x \in U : TRUE
  BY <1>2
<1>4. IsFiniteSet(Places(p, U \ {x}))
  BY <1>1, <1>3
<1> QED BY <1>1, <1>3, <1>4, PlacesOfOneMore

\* f is the function by which MapThenSumSet goes over the parts of B.
SumsUp(f, p, B) ==
    f = [S \in SUBSET B |->
            IF S = {} THEN 0
            ELSE LET x == CHOOSE y \in S : TRUE IN Len(p[x]) + f[S \ {x}]]

\* A sum of lengths is the number of places.
LEMMA SumIsPlaces ==
    ASSUME NEW B, IsFiniteSet(B), NEW p, \A r \in B : Len(p[r]) \in Nat
    PROVE  MapThenSumSet(LAMBDA r : Len(p[r]), B) = Cardinality(Places(p, B))
<1> DEFINE g == [S \in SUBSET B |-> Cardinality(Places(p, S))]
           F == CHOOSE f : SumsUp(f, p, B)
<1>1. \A S \in SUBSET B : IsFiniteSet(Places(p, S))
  BY PlacesFinite
<1>2. ASSUME NEW S \in SUBSET B, S # {}, NEW x, x = CHOOSE y \in S : TRUE
      PROVE  x \in S /\ Cardinality(Places(p, S)) = Len(p[x]) + Cardinality(Places(p, S \ {x}))
  <2>1. x \in S
    BY <1>2
  <2> DEFINE rest == S \ {x}
  <2>2. rest \in SUBSET B /\ Len(p[x]) \in Nat
    BY <1>2, <2>1
  <2>3. IsFiniteSet(Places(p, rest)) /\ rest = S \ {x}
    BY <1>1, <2>2
  <2> HIDE DEF rest
  <2>4. Cardinality(Places(p, S)) = Len(p[x]) + Cardinality(Places(p, rest))
    BY <2>1, <2>2, <2>3, PlacesOfOneMore
  <2> QED BY <2>1, <2>3, <2>4
<1>3. Cardinality(Places(p, {})) = 0
  <2>1. Places(p, {}) = {}
    BY DEF Places
  <2> QED BY <2>1, FS_EmptySet
<1>4. SumsUp(g, p, B)
  <2>1. ASSUME NEW S \in SUBSET B, S # {}, NEW x, x = CHOOSE y \in S : TRUE
        PROVE  g[S] = Len(p[x]) + g[S \ {x}]
    BY <1>2, <2>1
  <2>2. g[{}] = 0
    BY <1>3
  <2>3. g = [S \in SUBSET B |-> g[S]]
    OBVIOUS
  <2> HIDE DEF g
  <2> QED BY <2>1, <2>2, <2>3 DEF SumsUp
<1>5. SumsUp(F, p, B)
  <2> HIDE DEF g
  <2> QED BY <1>4, Zenon
<1>6. MapThenSumSet(LAMBDA r : Len(p[r]), B) = F[B]
  BY DEF MapThenSumSet, MapThenFoldSet, SumsUp
<1> HIDE DEF F, g
<1>7. F[B] = Cardinality(Places(p, B))
  <2> DEFINE bad == {S \in SUBSET B : F[S] # Cardinality(Places(p, S))}
  <2> SUFFICES ASSUME bad # {} PROVE FALSE
    OBVIOUS
  <2>1. PICK S \in bad : \A U \in SUBSET S : U # S => U \notin bad
    <3> HIDE DEF bad
    <3>1. bad \in SUBSET SUBSET B
      BY DEF bad
    <3> QED BY <3>1, SmallestPart
  <2>2. F[{}] = 0
    BY <1>5 DEF SumsUp
  <2>3. S # {}
    BY <1>3, <2>2
  <2> DEFINE x == CHOOSE y \in S : TRUE
  <2>4. F[S] = Len(p[x]) + F[S \ {x}]
    BY <1>5, <2>3 DEF SumsUp
  <2>5. x \in S /\ Cardinality(Places(p, S)) = Len(p[x]) + Cardinality(Places(p, S \ {x}))
    BY <1>2, <2>3
  <2> HIDE DEF x
  <2>6. S \ {x} \notin bad /\ S \ {x} \in SUBSET B
    BY <2>1, <2>5
  <2> QED BY <2>4, <2>5, <2>6
<1> QED BY <1>6, <1>7, Zenon

--------------------------------------------------------------------------------
(* The metrics *)

\* The requests the metrics know of: what a crash has not made the process forget.
Current == {r \in Request : phase[r] \in InFlight \cup {"failed", "answered"}}

\* What is counted of r by now: every item of a batch that was taken from the ring, the one
\* decision of a route or plan once it is answered.
Share(r) ==
    {i \in Nat :
        /\ r \in Current
        /\ IF kind[r] = "batch" THEN i \in 1..Len(picked[r])
           ELSE i = 1 /\ phase[r] = "answered" /\ r \in Audited}

Shares == {x \in Request \X Nat : x[2] \in Share(x[1])}

\* The inductive invariant of the metrics: the counter is the number of items counted, of the
\* finitely many requests the process knows; only audited ones are routed.
MetricsInv ==
    /\ IsFiniteSet(Current) /\ IsFiniteSet(Shares)
    /\ counted = Cardinality(Shares)
    /\ \A r \in Request : phase[r] \in {"routed", "line", "newline", "sync", "persisted"} =>
                              r \in Audited

\* A step of one handler that adds to the counter what it adds to its share, one item or
\* none, keeps the account.
LEMMA AccountKept ==
    ASSUME SidecarInv, MetricsInv, NEW r \in Request, kind' = kind,
           \A d \in Request \ {r} : phase'[d] = phase[d] /\ picked'[d] = picked[d],
           phase'[r] \in {"routed", "line", "newline", "sync", "persisted"} => r \in Audited,
           \/ Share(r)' = Share(r) /\ counted' = counted
           \/ /\ counted' = counted + 1
              /\ \E i \in Nat \ Share(r) : Share(r)' = Share(r) \cup {i}
    PROVE  MetricsInv'
<1>1. \A d \in Request \ {r} : /\ d \in Current' <=> d \in Current
                               /\ d \in Audited' <=> d \in Audited
  BY DEF Current, Audited
<1>2. ASSUME NEW d \in Request \ {r} PROVE Share(d)' = Share(d)
  BY <1>1 DEF Share
<1>3. IsFiniteSet(Current')
  <2>1. IsFiniteSet(Current \cup {r})
    BY FS_AddElement DEF MetricsInv
  <2>2. Current' \in SUBSET (Current \cup {r})
    BY <1>1 DEF Current
  <2> QED BY <2>1, <2>2, FS_Subset
<1>4. r \in Audited' <=> r \in Audited
  BY DEF Audited
<1>5. \A d \in Request : phase'[d] \in {"routed", "line", "newline", "sync", "persisted"} =>
                             d \in Audited'
  BY <1>1, <1>4 DEF MetricsInv
<1>6. CASE Share(r)' = Share(r) /\ counted' = counted
  <2>1. \A d \in Request : Share(d)' = Share(d)
    BY <1>2, <1>6
  <2>2. Shares' = Shares
    BY <2>1 DEF Shares
  <2> QED BY <1>3, <1>5, <1>6, <2>2 DEF MetricsInv
<1>7. CASE /\ counted' = counted + 1
           /\ \E i \in Nat \ Share(r) : Share(r)' = Share(r) \cup {i}
  <2>1. PICK i \in Nat \ Share(r) : Share(r)' = Share(r) \cup {i}
    BY <1>7
  <2>2. <<r, i>> \notin Shares
    BY <2>1 DEF Shares
  <2>3. Shares' = Shares \cup {<<r, i>>}
    <3>1. ASSUME NEW d \in Request, NEW j \in Nat
          PROVE  j \in Share(d)' <=> (j \in Share(d) \/ (d = r /\ j = i))
      BY <1>2, <2>1
    <3> QED BY <2>1, <3>1 DEF Shares
  <2>4. IsFiniteSet(Shares) /\ counted = Cardinality(Shares)
    BY DEF MetricsInv
  <2>5. IsFiniteSet(Shares') /\ Cardinality(Shares') = Cardinality(Shares) + 1
    BY <2>2, <2>3, <2>4, FS_AddElement
  <2> QED BY <1>3, <1>5, <1>7, <2>4, <2>5 DEF MetricsInv
<1> QED BY <1>6, <1>7

\* A step of r's handler that takes nothing from the ring and counts nothing: a request that
\* starts is not answered at once, a batch on its way stays known to the metrics, and no
\* route or plan is answered.
LEMMA NothingCounted ==
    ASSUME SidecarInv, MetricsInv, NEW r \in Request, NEW to,
           phase' = [phase EXCEPT ![r] = to],
           UNCHANGED <<kind, picked, counted>>,
           to \in {"routed", "line", "newline", "sync", "persisted"} => r \in Audited,
           \/ phase[r] = "new" /\ to # "answered"
           \/ /\ phase[r] \in InFlight
              /\ kind[r] = "batch" => to \in InFlight \cup {"failed", "answered"}
              /\ to = "answered" => kind[r] = "batch" \/ r \notin Audited
    PROVE  MetricsInv'
<1>1. phase \in [Request -> {"new"} \cup InFlight \cup Over]
  BY DEF SidecarInv, TypeOK
<1>2. /\ phase'[r] = to /\ kind'[r] = kind[r] /\ picked'[r] = picked[r]
      /\ r \in Audited' <=> r \in Audited
      /\ \A d \in Request \ {r} : phase'[d] = phase[d] /\ picked'[d] = picked[d]
  BY <1>1 DEF Audited
<1>3. Share(r)' = Share(r)
  <2>1. CASE phase[r] = "new"
    <3>1. Len(picked[r]) = 0
      BY <2>1 DEF SidecarInv, HandlerOK
    <3> QED BY <1>2, <2>1, <3>1 DEF Share, Current, InFlight
  <2>2. CASE phase[r] \in InFlight
    BY <1>2, <2>2 DEF Share, Current, InFlight
  <2> QED BY <2>1, <2>2
<1> QED BY <1>2, <1>3, AccountKept

\* The steps that count nothing.
LEMMA QuietKeeps ==
    ASSUME SidecarInv, MetricsInv, NEW r \in Request,
           \/ Refuse(r) \/ Authorize(r) \/ Route(r) \/ PlanTooLong(r) \/ WriteLine(r)
           \/ WriteNewline(r) \/ Sync(r) \/ PersistFails(r) \/ Report(r) \/ ReadMetrics(r)
    PROVE  MetricsInv'
<1>1. phase[r] \in {"routed", "line", "newline", "sync", "persisted"} => r \in Audited
  BY DEF MetricsInv
<1>2. CASE Refuse(r)
  BY <1>2, NothingCounted DEF Refuse, Move
<1>3. CASE Authorize(r)
  BY <1>3, NothingCounted DEF Authorize, Move
<1>4. CASE Route(r)
  BY <1>4, NothingCounted DEF Route, Move, InFlight
<1>5. CASE PlanTooLong(r)
  BY <1>5, NothingCounted DEF PlanTooLong, Move, InFlight
<1>6. CASE WriteLine(r)
  BY <1>1, <1>6, NothingCounted DEF WriteLine, Move, InFlight
<1>7. CASE WriteNewline(r)
  BY <1>1, <1>7, NothingCounted DEF WriteNewline, Move, InFlight
<1>8. CASE Sync(r)
  BY <1>1, <1>8, NothingCounted DEF Sync, Move, InFlight
<1>9. CASE PersistFails(r)
  BY <1>9, NothingCounted DEF PersistFails, InFlight
<1>10. CASE Report(r) \/ ReadMetrics(r)
  BY <1>10, NothingCounted DEF Report, ReadMetrics, Move, InFlight, Audited
<1> QED BY <1>2, <1>3, <1>4, <1>5, <1>6, <1>7, <1>8, <1>9, <1>10

\* record_plan for an item of a batch, when its event is taken.
LEMMA BatchItemCounted ==
    ASSUME SidecarInv, MetricsInv, NEW r \in Request, PickUp(r)
    PROVE  MetricsInv'
<1> DEFINE to == IF routed[r] < Items(r) THEN "admitted" ELSE "line"
<1>1. /\ phase \in [Request -> {"new"} \cup InFlight \cup Over]
      /\ picked \in [Request -> Seq(Event)] /\ newest \in Event
  BY DEF SidecarInv, TypeOK
<1>2. /\ phase[r] = "routed" /\ phase'[r] = to /\ to \in {"admitted", "line"} /\ kind' = kind
      /\ picked'[r] = Append(picked[r], newest)
      /\ counted' = IF kind[r] = "batch" THEN counted + 1 ELSE counted
      /\ \A d \in Request \ {r} : phase'[d] = phase[d] /\ picked'[d] = picked[d]
  BY <1>1 DEF PickUp, Move, Recorded
<1>3. r \in Audited /\ r \in Current /\ r \in Current'
  BY <1>2 DEF MetricsInv, Current, InFlight
<1>4. Len(picked[r]) \in Nat /\ Len(picked'[r]) = Len(picked[r]) + 1
  BY <1>1, <1>2
<1>5. CASE kind[r] = "batch"
  <2> DEFINE i == Len(picked[r]) + 1
  <2>1. Share(r) = 1..Len(picked[r]) /\ Share(r)' = 1..Len(picked'[r])
    BY <1>2, <1>3, <1>4, <1>5 DEF Share
  <2>2. i \in Nat \ Share(r) /\ Share(r)' = Share(r) \cup {i}
    BY <1>4, <2>1
  <2> QED BY <1>2, <1>3, <1>5, <2>2, AccountKept
<1>6. CASE kind[r] # "batch"
  <2>1. Share(r)' = Share(r)
    BY <1>2, <1>6 DEF Share
  <2> QED BY <1>2, <1>3, <1>6, <2>1, AccountKept
<1> QED BY <1>5, <1>6

\* record_route and record_plan of a single request, when it is answered.
LEMMA AnswerCounted ==
    ASSUME SidecarInv, MetricsInv, NEW r \in Request, Respond(r)
    PROVE  MetricsInv'
<1>1. phase \in [Request -> {"new"} \cup InFlight \cup Over] /\ picked \in [Request -> Seq(Event)]
  BY DEF SidecarInv, TypeOK
<1>2. /\ phase[r] = "persisted" /\ phase'[r] = "answered" /\ kind' = kind /\ picked' = picked
      /\ counted' = IF kind[r] = "batch" THEN counted ELSE counted + 1
      /\ \A d \in Request \ {r} : phase'[d] = phase[d] /\ picked'[d] = picked[d]
  BY <1>1 DEF Respond, Move, Recorded
<1>3. r \in Audited /\ r \in Audited' /\ r \in Current /\ r \in Current'
  BY <1>2 DEF MetricsInv, Audited, Current, InFlight
<1>4. CASE kind[r] = "batch"
  <2>1. Share(r)' = Share(r)
    BY <1>2, <1>3, <1>4 DEF Share
  <2> QED BY <1>2, <1>3, <1>4, <2>1, AccountKept
<1>5. CASE kind[r] # "batch"
  <2>1. Share(r) = {} /\ Share(r)' = {1}
    BY <1>2, <1>3, <1>5 DEF Share
  <2>2. 1 \in Nat \ Share(r) /\ Share(r)' = Share(r) \cup {1}
    BY <2>1
  <2> QED BY <1>2, <1>3, <1>5, <2>2, AccountKept
<1> QED BY <1>4, <1>5

\* A crash: the process starts with nothing known and nothing counted.
LEMMA MetricsForgotten ==
    ASSUME SidecarInv, Crash
    PROVE  MetricsInv'
<1>1. counted' = 0
  BY DEF Crash
<1>2. ASSUME NEW r \in Request
      PROVE  phase'[r] \notin InFlight \cup {"failed", "answered"}
  <2>1. phase'[r] = CASE phase[r] = "answered" -> "answeredBefore"
                      [] phase[r] = "failed" -> "failedBefore"
                      [] phase[r] \in InFlight -> "lost"
                      [] OTHER -> phase[r]
    BY DEF Crash
  <2>2. phase[r] \in {"new"} \cup InFlight \cup Over
    BY DEF SidecarInv, TypeOK
  <2> QED BY <2>1, <2>2 DEF InFlight, Over, Answered
<1>3. Current' = {}
  BY <1>2 DEF Current
<1>4. Shares' = {}
  BY <1>3 DEF Shares, Share
<1>5. \A r \in Request : phase'[r] \in {"routed", "line", "newline", "sync", "persisted"} =>
                             r \in Audited'
  BY <1>2 DEF InFlight
<1> QED BY <1>1, <1>3, <1>4, <1>5, FS_EmptySet DEF MetricsInv

\* The metrics agree with what was routed and answered since the start: every answered route
\* and plan is counted once and every item of a batch once, in whatever order handlers are
\* interleaved, fail to persist or are cut off by a crash (record_route, record_plan).
THEOREM SidecarCountedOnce == Spec => []CountedOnce
<1>1. Init => MetricsInv
  <2> SUFFICES ASSUME Init PROVE MetricsInv
    OBVIOUS
  <2>1. \A r \in Request : phase[r] = "new"
    BY DEF Init
  <2>2. Current = {}
    BY <2>1 DEF Current, InFlight
  <2>3. Shares = {}
    BY <2>2 DEF Shares, Share
  <2>4. counted = 0
    BY DEF Init
  <2> QED BY <2>1, <2>2, <2>3, <2>4, FS_EmptySet DEF MetricsInv
<1>2. ASSUME SidecarInv, MetricsInv, [Next]_vars
      PROVE  MetricsInv'
  <2>1. CASE kind' = kind /\ phase' = phase /\ picked' = picked /\ counted' = counted
    <3>1. Current' = Current /\ Shares' = Shares /\ Audited' = Audited
      BY <2>1 DEF Current, Shares, Share, Audited
    <3> QED BY <1>2, <2>1, <3>1 DEF MetricsInv
  <2>2. CASE RecoveryLoop \/ Tick \/ UNCHANGED vars
    BY <2>1, <2>2 DEF RecoveryLoop, Tick, handler, vars
  <2> QED BY <1>2, <2>2, QuietKeeps, BatchItemCounted, AnswerCounted, MetricsForgotten
          DEF Next, Handle
<1>3. ASSUME SidecarInv, MetricsInv
      PROVE  CountedOnce
  <2> DEFINE batches == {r \in Current : kind[r] = "batch"}
             singles == {r \in Current \ batches : r \in Audited /\ phase[r] = "answered"}
             ofBatches == Places(picked, batches)
             ofSingles == singles \X {1}
  <2>1. IsFiniteSet(batches) /\ IsFiniteSet(singles)
    <3>1. IsFiniteSet(Current)
      BY <1>3 DEF MetricsInv
    <3> QED BY <3>1, FS_Subset
  <2>2. \A r \in batches : Len(picked[r]) \in Nat
    BY <1>3 DEF SidecarInv, TypeOK, Current
  <2>3. MapThenSumSet(LAMBDA r : Len(picked[r]), batches) = Cardinality(ofBatches)
    <3> HIDE DEF batches, singles
    <3> QED BY <2>1, <2>2, SumIsPlaces, Zenon
  <2>4. IsFiniteSet(ofBatches) /\ Cardinality(ofBatches) \in Nat
    BY <2>1, <2>2, PlacesFinite, FS_CardinalityType
  <2>5. IsFiniteSet(ofSingles) /\ Cardinality(ofSingles) = Cardinality(singles)
    <3> HIDE DEF singles
    <3>1. IsFiniteSet({1}) /\ Cardinality({1}) = 1
      BY FS_Singleton
    <3>2. Cardinality(singles) \in Nat
      BY <2>1, FS_CardinalityType
    <3>3. IsFiniteSet(ofSingles) /\ Cardinality(ofSingles) = Cardinality(singles) * 1
      BY <2>1, <3>1, FS_Product
    <3> QED BY <3>2, <3>3
  <2>6. Shares = ofBatches \cup ofSingles /\ ofBatches \cap ofSingles = {}
    BY DEF Shares, Share, Places, Current
  <2>7. Cardinality(Shares) = Cardinality(ofSingles) + Cardinality(ofBatches)
    <3> HIDE DEF ofBatches, ofSingles
    <3>1. Cardinality(ofBatches \cup ofSingles)
          = Cardinality(ofBatches) + Cardinality(ofSingles) - Cardinality({})
      BY <2>4, <2>5, <2>6, FS_Union
    <3>2. Cardinality(ofSingles) \in Nat
      BY <2>5, FS_CardinalityType
    <3> QED BY <2>4, <2>6, <3>1, <3>2, FS_EmptySet
  <2>8. counted = Cardinality(Shares)
    BY <1>3 DEF MetricsInv
  <2>9. counted = Cardinality(singles)
                  + MapThenSumSet(LAMBDA r : Len(picked[r]), batches)
    BY <2>3, <2>5, <2>7, <2>8, Zenon
  <2> QED BY <2>9, Zenon DEF CountedOnce, Current
<1>4. SidecarInv /\ MetricsInv /\ [Next]_vars => MetricsInv'
  BY <1>2
<1>5. SidecarInv /\ MetricsInv => CountedOnce
  BY <1>3
<1> QED BY <1>1, <1>4, <1>5, SidecarCorrect, PTL DEF Spec
==============================================================================
