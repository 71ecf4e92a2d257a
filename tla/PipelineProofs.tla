---------------------------- MODULE PipelineProofs ----------------------------
(***************************************************************************)
(* What Pipeline keeps for every set of requests, tenants, backends and    *)
(* nodes, every admission policy and every capacity of the audit ring: the *)
(* audit chain verifies, the admission counts are those of the requests    *)
(* inside and within the policy, every accepted observation has a revision *)
(* of its own, and a stale world that nobody is about to feed stays stale. *)
(***************************************************************************)
EXTENDS Pipeline, FiniteSetTheorems, TLAPS

--------------------------------------------------------------------------------
(* The audit chain *)

\* AuditChain::append keeps a ring that verify_integrity accepts acceptable: the new
\* record links to the newest one, which stays when a full ring drops its oldest.
LEMMA AppendKeepsIntegrity ==
    ASSUME NEW S, NEW ring \in Seq(S), VerifiesIntegrity(ring),
           NEW event, NEW actor, Linked(event, actor, PreviousHash(ring)) \in S
    PROVE  /\ VerifiesIntegrity(Appended(ring, event, actor))
           /\ Appended(ring, event, actor) \in Seq(S)
  <1> DEFINE rec == Linked(event, actor, PreviousHash(ring))
             kept == IF Len(ring) >= MaxRecords THEN Tail(ring) ELSE ring
             new == Append(kept, rec)
  <1>1. /\ rec.current = Hash(rec.event, rec.previous, rec.actor)
        /\ rec.previous = PreviousHash(ring)
    BY DEF Linked
  <1>2. /\ kept \in Seq(S)
        /\ \A i \in 1..Len(kept) :
             kept[i].current = Hash(kept[i].event, kept[i].previous, kept[i].actor)
        /\ \A i \in 1..(Len(kept) - 1) : kept[i + 1].previous = kept[i].current
        /\ kept # << >> => PreviousHash(ring) = kept[Len(kept)].current
    <2>1. CASE Len(ring) >= MaxRecords
      <3>1. ring # << >> /\ Len(ring) \in Nat /\ Len(ring) > 0
        BY <2>1, ChainAssumption
      <3>2. /\ kept \in Seq(S) /\ Len(kept) = Len(ring) - 1
            /\ \A i \in 1..Len(kept) : kept[i] = ring[i + 1]
        BY <2>1, <3>1
      <3>3. \A i \in 1..Len(kept) : i + 1 \in 1..Len(ring)
        BY <3>1, <3>2
      <3>4. \A i \in 1..(Len(kept) - 1) :
              /\ i \in 1..Len(kept) /\ i + 1 \in 1..Len(kept)
              /\ i + 1 \in 1..(Len(ring) - 1)
        BY <3>1, <3>2
      <3>5. kept # << >> => Len(kept) \in 1..Len(kept) /\ Len(kept) + 1 = Len(ring)
        BY <3>1, <3>2
      <3> HIDE DEF kept
      <3> QED
        BY <3>1, <3>2, <3>3, <3>4, <3>5 DEF VerifiesIntegrity, PreviousHash
    <2>2. CASE ~(Len(ring) >= MaxRecords)
      BY <2>2 DEF VerifiesIntegrity, PreviousHash
    <2> QED
      BY <2>1, <2>2
  <1> HIDE DEF kept, rec
  <1>3. /\ new \in Seq(S) /\ Len(new) = Len(kept) + 1 /\ Len(kept) \in Nat
        /\ \A i \in 1..Len(kept) : new[i] = kept[i]
        /\ new[Len(kept) + 1] = rec
    BY <1>2 DEF rec
  <1> HIDE DEF new
  <1>4. \A i \in 1..Len(new) : i \in 1..Len(kept) \/ i = Len(kept) + 1
    BY <1>3
  <1>5. \A i \in 1..(Len(new) - 1) :
          /\ i \in 1..Len(kept)
          /\ \/ i \in 1..(Len(kept) - 1) /\ i + 1 \in 1..Len(kept)
             \/ i = Len(kept) /\ i + 1 = Len(kept) + 1 /\ kept # << >>
    BY <1>2, <1>3
  <1>6. VerifiesIntegrity(new)
    BY <1>1, <1>2, <1>3, <1>4, <1>5 DEF VerifiesIntegrity
  <1> QED
    BY <1>3, <1>6 DEF Appended, new, kept, rec

\* The chain is a sequence; of what it holds only the links matter.
IsRing == \E S : chain \in Seq(S)

\* The audit step of process_request keeps the chain a ring that verifies.
LEMMA AppendAuditKeeps ==
    ASSUME IsRing, AuditChainVerifies, NEW r \in Request, AppendAudit(r)
    PROVE  IsRing' /\ AuditChainVerifies'
  <1>1. PICK S : chain \in Seq(S)
    BY DEF IsRing
  <1> DEFINE rec == Linked(r, chosen[r][1], PreviousHash(chain))
             T == S \cup {rec}
  <1>2. chain \in Seq(T)
    BY <1>1
  <1>3. rec \in T
    OBVIOUS
  <1> HIDE DEF T
  <1>4. /\ VerifiesIntegrity(Appended(chain, r, chosen[r][1]))
        /\ Appended(chain, r, chosen[r][1]) \in Seq(T)
    BY <1>2, <1>3, AppendKeepsIntegrity DEF AuditChainVerifies
  <1>5. chain' = Appended(chain, r, chosen[r][1])
    BY DEF AppendAudit
  <1> QED
    BY <1>4, <1>5 DEF IsRing, AuditChainVerifies

\* verify_integrity accepts the audit chain in every reachable state: requests append
\* one at a time under the write lock, in any order, and the eviction of old records
\* never breaks a link.
THEOREM ChainAlwaysVerifies == Spec => []AuditChainVerifies
  <1> DEFINE CInv == IsRing /\ AuditChainVerifies
  <1>1. Init => CInv
    <2> SUFFICES ASSUME Init PROVE CInv
      OBVIOUS
    <2>1. chain = << >>
      BY DEF Init
    <2>2. chain \in Seq({})
      BY <2>1
    <2>3. VerifiesIntegrity(chain)
      BY <2>1 DEF VerifiesIntegrity
    <2> QED
      BY <2>2, <2>3 DEF IsRing, AuditChainVerifies
  <1>2. CInv /\ [Next]_vars => CInv'
    <2> SUFFICES ASSUME CInv, [Next]_vars PROVE CInv'
      OBVIOUS
    <2>1. CASE \E r \in Request : AppendAudit(r)
      BY <2>1, AppendAuditKeeps
    <2>2. CASE UNCHANGED chain
      BY <2>2 DEF IsRing, AuditChainVerifies
    <2>3. (\E r \in Request : AppendAudit(r)) \/ UNCHANGED chain
      BY DEF Next, vars, Process, CredentialsFail, Admit, AdmissionRejects, TakeSnapshot,
         SnapshotFails, ForcedStale, FetchRegistry, Select, NoCandidate, TransferKv, Execute,
         TransportFails, Ingest, IngestRejected, RecordError, Release, RegisterBackend,
         RegisterNode, Tick
    <2> QED
      BY <2>1, <2>2, <2>3
  <1>3. CInv => AuditChainVerifies
    OBVIOUS
  <1> QED
    BY <1>1, <1>2, <1>3, PTL DEF Spec

--------------------------------------------------------------------------------
(* The admission permits *)

\* What of the types the counting argument needs
Shaped ==
    /\ tenant \in [Request -> Tenant]
    /\ DOMAIN phase = Request /\ phase = [r \in Request |-> phase[r]]
    /\ slots = [policy |-> slots.policy, total |-> slots.total,
                perTenant |-> slots.perTenant]

\* The inductive invariant
PInv == Shaped /\ SlotsMatchPermits

\* The requests of tenant t that hold a permit
HoldersOf(t) == {r \in Holders : tenant[r] = t}

\* The requests inside can be counted, all of them and those of each tenant.
LEMMA HoldersFinite ==
    /\ IsFiniteSet(Holders) /\ Cardinality(Holders) \in Nat
    /\ \A t : IsFiniteSet(HoldersOf(t)) /\ Cardinality(HoldersOf(t)) \in Nat
  <1>1. Holders \subseteq Request /\ \A t : HoldersOf(t) \subseteq Request
    BY DEF Holders, HoldersOf
  <1>2. IsFiniteSet(Request)
    BY PipelineAssumption
  <1>3. IsFiniteSet(Holders) /\ \A t : IsFiniteSet(HoldersOf(t))
    BY <1>1, <1>2, FS_Subset
  <1> QED
    BY <1>3, FS_CardinalityType

\* AdmissionController's counts match as long as they and the requests inside stay the same.
LEMMA SameCounts ==
    ASSUME SlotsMatchPermits, Holders' = Holders, slots' = slots, tenant' = tenant
    PROVE  SlotsMatchPermits'
  <1>1. {tenant'[r] : r \in Holders'} = {tenant[r] : r \in Holders}
    OBVIOUS
  <1>2. \A t : HoldersOf(t)' = HoldersOf(t)
    BY DEF HoldersOf
  <1>3. \A t \in DOMAIN slots'.perTenant : slots'.perTenant[t] = Cardinality(HoldersOf(t)')
    BY <1>2 DEF SlotsMatchPermits, HoldersOf
  <1> QED
    BY <1>1, <1>3 DEF SlotsMatchPermits, HoldersOf

\* A stage of process_request that leaves the counts alone and neither lets a request in
\* nor lets one go keeps the invariant.
LEMMA QuietStep ==
    ASSUME PInv, UNCHANGED <<slots, tenant>>,
           \/ UNCHANGED phase
           \/ \E r \in Request, to \in Holding \cup {"turned away"} :
                /\ phase' = [phase EXCEPT ![r] = to]
                /\ phase[r] \in Holding <=> to \in Holding
    PROVE  PInv'
  <1>1. /\ Holders' = Holders
        /\ DOMAIN phase' = Request /\ phase' = [r \in Request |-> phase'[r]]
    BY DEF PInv, Shaped, Holders
  <1>2. slots' = slots /\ tenant' = tenant
    OBVIOUS
  <1>3. Shaped'
    BY <1>1, <1>2 DEF PInv, Shaped
  <1>4. SlotsMatchPermits'
    BY <1>1, <1>2, SameCounts DEF PInv
  <1> QED
    BY <1>3, <1>4 DEF PInv

\* AdmissionController::admit adds the request to both counts, as it adds it to the
\* requests inside.
LEMMA AdmitKeeps == ASSUME PInv, NEW r \in Request, Admit(r) PROVE PInv'
  <1>0. PICK t : t = tenant[r]
    OBVIOUS
  <1>1. /\ phase' = [phase EXCEPT ![r] = "admitted"] /\ tenant' = tenant
        /\ phase[r] = "new" /\ slots' = AfterAdmit(slots, t)
    BY <1>0 DEF Admit, Move, inputs
  <1>2. Holders' = Holders \cup {r} /\ r \notin Holders
    BY <1>1 DEF PInv, Shaped, Holders, Holding
  <1>3. Cardinality(Holders') = Cardinality(Holders) + 1
    BY <1>2, HoldersFinite, FS_AddElement
  <1>4. \A u : HoldersOf(u)' = IF u = t THEN HoldersOf(u) \cup {r} ELSE HoldersOf(u)
    BY <1>0, <1>1, <1>2 DEF HoldersOf
  <1>5. r \notin HoldersOf(t)
    BY <1>2 DEF HoldersOf
  <1>6. Cardinality(HoldersOf(t)') = Cardinality(HoldersOf(t)) + 1
    BY <1>4, <1>5, HoldersFinite, FS_AddElement
  <1>7. /\ slots'.total = slots.total + 1 /\ slots'.policy = slots.policy
        /\ slots'.perTenant = WithCount(slots, t, TenantCount(slots, t) + 1)
        /\ slots' = [policy |-> slots'.policy, total |-> slots'.total,
                     perTenant |-> slots'.perTenant]
    BY <1>1 DEF PInv, Shaped, AfterAdmit
  <1>8. TenantCount(slots, t) = Cardinality(HoldersOf(t))
    <2>1. CASE t \in DOMAIN slots.perTenant
      BY <2>1 DEF PInv, SlotsMatchPermits, TenantCount, HoldersOf
    <2>2. CASE t \notin DOMAIN slots.perTenant
      <3>1. HoldersOf(t) = {}
        BY <2>2 DEF PInv, SlotsMatchPermits, HoldersOf
      <3> QED
        BY <2>2, <3>1, FS_EmptySet DEF TenantCount
    <2> QED
      BY <2>1, <2>2
  <1>9. DOMAIN slots'.perTenant = {tenant'[q] : q \in Holders'}
    BY <1>0, <1>1, <1>2, <1>7 DEF WithCount, PInv, SlotsMatchPermits
  <1>10. ASSUME NEW u \in DOMAIN slots'.perTenant
         PROVE  slots'.perTenant[u] = Cardinality(HoldersOf(u)')
    <2>1. CASE u = t
      BY <1>6, <1>7, <1>8, <2>1 DEF WithCount
    <2>2. CASE u # t
      <3>1. u \in DOMAIN slots.perTenant /\ slots'.perTenant[u] = slots.perTenant[u]
        BY <1>7, <2>2 DEF WithCount
      <3>2. HoldersOf(u)' = HoldersOf(u)
        BY <1>4, <2>2
      <3> QED
        BY <3>1, <3>2 DEF PInv, SlotsMatchPermits, HoldersOf
    <2> QED
      BY <2>1, <2>2
  <1>11. SlotsMatchPermits'
    BY <1>3, <1>7, <1>9, <1>10 DEF PInv, SlotsMatchPermits, HoldersOf
  <1>12. Shaped'
    BY <1>1, <1>7 DEF PInv, Shaped
  <1> QED
    BY <1>11, <1>12 DEF PInv

\* Drop for AdmissionPermit takes the request out of both counts, and forgets a tenant
\* exactly when its last request leaves.
LEMMA ReleaseKeeps == ASSUME PInv, NEW r \in Request, Release(r) PROVE PInv'
  <1>0. PICK t : t = tenant[r]
    OBVIOUS
  <1>1. /\ phase' = [phase EXCEPT ![r] = "done"] /\ tenant' = tenant
        /\ phase[r] = "leaving" /\ slots' = AfterRelease(slots, t)
    BY <1>0 DEF Release, Move, inputs
  <1>2. Holders' = Holders \ {r} /\ r \in Holders
    BY <1>1 DEF PInv, Shaped, Holders, Holding
  <1>3. Cardinality(Holders') = Cardinality(Holders) - 1
    BY <1>2, HoldersFinite, FS_RemoveElement
  <1>4. \A u : HoldersOf(u)' = IF u = t THEN HoldersOf(u) \ {r} ELSE HoldersOf(u)
    BY <1>0, <1>1, <1>2 DEF HoldersOf
  <1>5. r \in HoldersOf(t)
    BY <1>0, <1>2 DEF HoldersOf
  <1>6. Cardinality(HoldersOf(t)') = Cardinality(HoldersOf(t)) - 1
    BY <1>4, <1>5, HoldersFinite, FS_RemoveElement
  <1>7. t \in DOMAIN slots.perTenant
    BY <1>0, <1>2 DEF PInv, SlotsMatchPermits
  <1>8. /\ slots'.total = slots.total - 1
        /\ slots'.perTenant = OneLess(slots, t)
        /\ slots' = [policy |-> slots'.policy, total |-> slots'.total,
                     perTenant |-> slots'.perTenant]
    BY <1>1, <1>7 DEF PInv, Shaped, AfterRelease
  <1>9. TenantCount(slots, t) = Cardinality(HoldersOf(t))
    BY <1>7 DEF PInv, SlotsMatchPermits, TenantCount, HoldersOf
  <1>10. TenantCount(slots, t) = 1 <=> HoldersOf(t)' = {}
    <2>1. IsFiniteSet(HoldersOf(t)') /\ Cardinality(HoldersOf(t)) \in Nat
      BY <1>4, HoldersFinite, FS_RemoveElement
    <2>2. Cardinality(HoldersOf(t)') = 0 <=> HoldersOf(t)' = {}
      BY <2>1, FS_EmptySet
    <2> QED
      BY <1>6, <1>9, <2>1, <2>2
  <1>11. DOMAIN slots'.perTenant = IF HoldersOf(t)' = {} THEN DOMAIN slots.perTenant \ {t}
                                                       ELSE DOMAIN slots.perTenant
    BY <1>7, <1>8, <1>10 DEF OneLess, WithCount, Restrict
  <1>12. DOMAIN slots'.perTenant = {tenant'[q] : q \in Holders'}
    <2>1. {tenant'[q] : q \in Holders'} = {tenant[q] : q \in Holders \ {r}}
      BY <1>1, <1>2
    <2>2. DOMAIN slots.perTenant = {tenant[q] : q \in Holders}
      BY DEF PInv, SlotsMatchPermits
    <2>3. HoldersOf(t)' = {q \in Holders \ {r} : tenant[q] = t}
      BY <1>1, <1>2 DEF HoldersOf
    <2> QED
      BY <1>0, <1>11, <2>1, <2>2, <2>3
  <1>13. ASSUME NEW u \in DOMAIN slots'.perTenant
         PROVE  slots'.perTenant[u] = Cardinality(HoldersOf(u)')
    <2>1. CASE u = t
      <3>1. TenantCount(slots, t) # 1
        BY <1>7, <1>8, <2>1 DEF OneLess, Restrict
      <3>2. slots'.perTenant[t] = TenantCount(slots, t) - 1
        BY <1>7, <1>8, <3>1 DEF OneLess, WithCount
      <3> QED
        BY <1>6, <1>9, <2>1, <3>2
    <2>2. CASE u # t
      <3>1. u \in DOMAIN slots.perTenant /\ slots'.perTenant[u] = slots.perTenant[u]
        BY <1>7, <1>8, <2>2 DEF OneLess, WithCount, Restrict
      <3>2. HoldersOf(u)' = HoldersOf(u)
        BY <1>4, <2>2
      <3> QED
        BY <3>1, <3>2 DEF PInv, SlotsMatchPermits, HoldersOf
    <2> QED
      BY <2>1, <2>2
  <1>14. SlotsMatchPermits'
    BY <1>3, <1>8, <1>12, <1>13 DEF PInv, SlotsMatchPermits, HoldersOf
  <1>15. Shaped'
    BY <1>1, <1>8 DEF PInv, Shaped
  <1> QED
    BY <1>14, <1>15 DEF PInv

\* A new AdmissionController counts nobody.
LEMMA InitPermits == Init => PInv
  <1> SUFFICES ASSUME Init PROVE PInv
    OBVIOUS
  <1>1. Holders = {}
    BY DEF Init, Holders, Holding
  <1>2. PICK policy \in AdmissionPolicies : slots = NoneInFlight(policy)
    BY DEF Init
  <1>3. SlotsMatchPermits
    BY <1>1, <1>2, FS_EmptySet DEF SlotsMatchPermits, NoneInFlight
  <1>4. Shaped
    BY <1>2 DEF Init, Shaped, NoneInFlight
  <1> QED
    BY <1>3, <1>4 DEF PInv

\* Every step keeps the counts: only admit and the drop of a permit touch them, and every
\* other way through process_request is quiet.
LEMMA NextPermits == PInv /\ [Next]_vars => PInv'
  <1> SUFFICES ASSUME PInv, [Next]_vars PROVE PInv'
    OBVIOUS
  <1>1. CASE \E r \in Request : Admit(r)
    BY <1>1, AdmitKeeps
  <1>2. CASE \E r \in Request : Release(r)
    BY <1>2, ReleaseKeeps
  <1>3. CASE UNCHANGED <<slots, tenant, phase>>
    BY <1>3, QuietStep
  <1> DEFINE Quiet(r) ==
        /\ UNCHANGED <<slots, tenant>>
        /\ \E to \in Holding \cup {"turned away"} :
             /\ phase' = [phase EXCEPT ![r] = to]
             /\ phase[r] \in Holding <=> to \in Holding
  <1>4. ASSUME NEW r \in Request, Process(r), ~Admit(r), ~Release(r)
        PROVE  Quiet(r)
    BY <1>4 DEF Process, Move, inputs, Holding, KvSteps, CredentialsFail, AdmissionRejects,
       TakeSnapshot, SnapshotFails, ForcedStale, FetchRegistry, Select, NoCandidate,
       TransferKv, Execute, TransportFails, AppendAudit, Ingest, IngestRejected, RecordError
  <1>5. CASE \E r \in Request : Process(r) /\ ~Admit(r) /\ ~Release(r)
    <2>1. PICK r \in Request : Quiet(r)
      BY <1>4, <1>5
    <2> QED
      BY <2>1, QuietStep
  <1>6. \/ \E r \in Request : Process(r)
        \/ UNCHANGED <<slots, tenant, phase>>
    BY DEF Next, vars, RegisterBackend, RegisterNode, Tick, inputs
  <1> QED
    BY <1>1, <1>2, <1>3, <1>5, <1>6

\* No early return of process_request leaks an admission permit and none gives one back
\* twice, for any number of requests and any policy.
THEOREM PermitsMatch == Spec => []SlotsMatchPermits
  <1>1. PInv => SlotsMatchPermits
    BY DEF PInv
  <1> QED
    BY InitPermits, NextPermits, <1>1, PTL DEF Spec

--------------------------------------------------------------------------------
(* The world state and its staleness *)

\* A stale world stays stale while nobody feeds it: the clock only moves on, only ingest
\* resets observed_at, and only a request past its snapshot gets there, which snapshot()
\* lets nobody be once the world is stale.
THEOREM StaleIdleIsFinal == Spec => StaleWhenIdleIsFinal
  <1> DEFINE Whole == /\ world = [revision |-> world.revision, age |-> world.age,
                                  known |-> world.known]
                      /\ world.age \in Nat
                      /\ DOMAIN phase = Request
  <1>0. AgeCap \in Nat /\ MaxAge \in Nat /\ AgeCap > MaxAge
    BY PipelineAssumption
  <1>1. Init => Whole
    BY DEF Init
  <1>2. Whole /\ [Next]_vars => Whole'
    <2> SUFFICES ASSUME Whole, [Next]_vars PROVE Whole'
      OBVIOUS
    <2>1. CASE \E r \in Request : Ingest(r)
      <3>1. PICK r \in Request : Ingest(r)
        BY <2>1
      <3>2. /\ world' = [revision |-> world.revision + 1, age |-> 0,
                         known |-> world.known \cup {Observation(r)}]
            /\ DOMAIN phase' = DOMAIN phase
        BY <3>1 DEF Ingest, Move
      <3> QED
        BY <3>2
    <2>2. CASE Tick
      <3>1. world' = [world EXCEPT !.age = Older(@)] /\ phase' = phase
        BY <2>2 DEF Tick
      <3>2. Older(world.age) \in Nat
        BY DEF Older
      <3> QED
        BY <3>1, <3>2
    <2>3. CASE world' = world /\ DOMAIN phase' = DOMAIN phase
      BY <2>3
    <2>4. \/ \E r \in Request : Ingest(r)
          \/ Tick
          \/ world' = world /\ DOMAIN phase' = DOMAIN phase
      BY DEF Next, vars, Process, Move, CredentialsFail, Admit, AdmissionRejects,
         TakeSnapshot, SnapshotFails, ForcedStale, FetchRegistry, Select, NoCandidate,
         TransferKv, Execute, TransportFails, AppendAudit, IngestRejected, RecordError,
         Release, RegisterBackend, RegisterNode
    <2> QED
      BY <2>1, <2>2, <2>3, <2>4
  <1>3. Whole /\ [Next]_vars => (StaleAndIdle => StaleAndIdle')
    <2> SUFFICES ASSUME Whole, [Next]_vars, StaleAndIdle PROVE StaleAndIdle'
      OBVIOUS
    <2>1. ASSUME NEW r \in Request, Process(r)
          PROVE  /\ world' = world
                 /\ \A q \in Request : phase'[q] \notin PastSnapshot
      <3>1. phase[r] \notin PastSnapshot /\ WorldIsStale
        BY DEF StaleAndIdle
      <3>2. \/ CredentialsFail(r) \/ Admit(r) \/ AdmissionRejects(r) \/ SnapshotFails(r)
            \/ RecordError(r) \/ Release(r)
        BY <2>1, <3>1 DEF Process, Move, PastSnapshot, KvSteps, TakeSnapshot, ForcedStale,
           FetchRegistry, Select, NoCandidate, TransferKv, Execute, TransportFails,
           AppendAudit, Ingest, IngestRejected
      <3>3. /\ world' = world
            /\ \E to \in {"turned away", "admitted", "leaving", "done"} :
                 phase' = [phase EXCEPT ![r] = to]
        BY <3>2 DEF CredentialsFail, Admit, AdmissionRejects, SnapshotFails, RecordError,
           Release, Move
      <3> QED
        BY <3>3 DEF StaleAndIdle, PastSnapshot
    <2>2. CASE \E r \in Request : Process(r)
      BY <2>1, <2>2 DEF StaleAndIdle, WorldIsStale
    <2>3. CASE Tick
      <3>1. world'.age = Older(world.age) /\ phase' = phase
        BY <2>3 DEF Tick
      <3>2. Older(world.age) > MaxAge
        BY <1>0 DEF Older, StaleAndIdle, WorldIsStale
      <3> QED
        BY <3>1, <3>2 DEF StaleAndIdle, WorldIsStale
    <2>4. CASE UNCHANGED <<world, phase>>
      BY <2>4 DEF StaleAndIdle, WorldIsStale
    <2> QED
      BY <2>2, <2>3, <2>4 DEF Next, vars, RegisterBackend, RegisterNode
  <1>4. Spec => []Whole
    BY <1>1, <1>2, PTL DEF Spec
  <1> QED
    BY <1>3, <1>4, PTL DEF Spec, StaleWhenIdleIsFinal

--------------------------------------------------------------------------------
(* Revisions *)

Phase == Holding \cup {"new", "turned away", "done"}

\* Requests that have been given a backend and a node; ones that may have been observed
Placed == {"transfer", "execute", "executed", "audited"}
AfterIngest == {"ingested", "leaving", "done"}

Declared == [Backend -> {"absent", "declared", "supporting"}]

\* The typed state of the requests and of what they share, but for slots and chain
Typed ==
    /\ tenant \in [Request -> Tenant]
    /\ phase \in [Request -> Phase]
    /\ world \in [revision : Nat, age : 0..AgeCap, known : SUBSET (Backend \X Node)]
    /\ registry \in Declared
    /\ capacity \in [Node -> {"absent", "unfit", "fit"}]
    /\ seen \in [Request -> [revision : Nat, age : 0..AgeCap]]
    /\ backends \in [Request -> Declared]
    /\ chosen \in [Request -> (Backend \X Node) \cup {None}]
    /\ errors \in 0..MaxErrors
    /\ reported \in [Request -> Nat]
    /\ observed \subseteq Request

\* No request knows a revision the world has not had, and none reports one more than a
\* step ahead of it.
NotAhead == \A r \in Request : /\ seen[r].revision <= world.revision
                               /\ reported[r] <= world.revision + 1

\* A request acts on a choice it has made, and is observed at most once: it has left the
\* stage where ingest is called.
InOrder == /\ \A r \in Request : phase[r] \in Placed => chosen[r] \in Backend \X Node
           /\ \A r \in observed : phase[r] \in AfterIngest

\* The inductive invariant
WInv == Typed /\ NotAhead /\ InOrder /\ RevisionsAreExact

\* PipelineEngine::new: nothing is observed and nothing is known.
LEMMA InitWorld == Init => WInv
  <1> SUFFICES ASSUME Init PROVE WInv
    OBVIOUS
  <1>1. AgeCap \in Nat /\ MaxErrors \in Nat
    BY PipelineAssumption
  <1>2. Typed
    BY <1>1 DEF Init, Typed, Phase, Holding, Declared, NothingDeclared, Unset
  <1>3. NotAhead
    BY DEF Init, NotAhead, Unset
  <1>4. InOrder
    BY DEF Init, InOrder, Placed
  <1>5. RevisionsAreExact
    <2>1. observed = {} /\ world.revision = 0
      BY DEF Init
    <2>2. Cardinality({}) = 0
      BY FS_EmptySet
    <2> QED
      BY <2>1, <2>2 DEF RevisionsAreExact
  <1> QED
    BY <1>2, <1>3, <1>4, <1>5 DEF WInv

\* The age of a snapshot stays within its bound.
LEMMA OlderType == ASSUME NEW age \in 0..AgeCap PROVE Older(age) \in 0..AgeCap
  BY PipelineAssumption DEF Older

\* Every stage of process_request leaves the shared state and its own locals well formed;
\* an observation is that of the backend and the node the request was given.
LEMMA NextTyped == ASSUME Typed, InOrder, [Next]_vars PROVE Typed'
  <1>0. AgeCap \in Nat /\ MaxErrors \in Nat
    BY PipelineAssumption
  <1>1. CASE UNCHANGED vars
    BY <1>1 DEF vars, Typed
  <1>2. ASSUME NEW r \in Request, Process(r) PROVE Typed'
    <2>1. CASE CredentialsFail(r) \/ Admit(r) \/ AdmissionRejects(r) \/ SnapshotFails(r)
               \/ TransferKv(r) \/ Execute(r) \/ AppendAudit(r)
      <3>1. UNCHANGED <<tenant, world, registry, capacity, local, errors>>
        BY <2>1 DEF CredentialsFail, Admit, AdmissionRejects, SnapshotFails, TransferKv,
           Execute, AppendAudit, inputs
      <3>2. phase' \in [Request -> Phase]
        BY <2>1 DEF CredentialsFail, Admit, AdmissionRejects, SnapshotFails, TransferKv,
           Execute, AppendAudit, Move, Typed, Phase, Holding
      <3> QED
        BY <3>1, <3>2 DEF Typed, local
    <2>2. CASE TakeSnapshot(r)
      <3>1. UNCHANGED <<tenant, world, registry, capacity, backends, chosen, reported,
                        observed, errors>>
        BY <2>2 DEF TakeSnapshot, inputs
      <3>2. phase' \in [Request -> Phase]
        BY <2>2 DEF TakeSnapshot, Move, Typed, Phase, Holding
      <3>3. seen' \in [Request -> [revision : Nat, age : 0..AgeCap]]
        BY <2>2 DEF TakeSnapshot, Typed
      <3> QED
        BY <3>1, <3>2, <3>3 DEF Typed
    <2>3. CASE ForcedStale(r) \/ NoCandidate(r) \/ TransportFails(r) \/ IngestRejected(r)
      <3>1. UNCHANGED <<tenant, world, registry, capacity, seen, backends, chosen,
                        observed, errors>>
        BY <2>3 DEF ForcedStale, NoCandidate, TransportFails, IngestRejected, inputs
      <3>2. phase' \in [Request -> Phase]
        BY <2>3 DEF ForcedStale, NoCandidate, TransportFails, IngestRejected, Move, Typed,
           Phase, Holding
      <3>3. reported' \in [Request -> Nat]
        BY <2>3 DEF ForcedStale, NoCandidate, TransportFails, IngestRejected, Typed
      <3> QED
        BY <3>1, <3>2, <3>3 DEF Typed
    <2>4. CASE FetchRegistry(r)
      <3>1. UNCHANGED <<tenant, world, registry, capacity, seen, chosen, reported, observed,
                        errors>>
        BY <2>4 DEF FetchRegistry, inputs
      <3>2. phase' \in [Request -> Phase]
        BY <2>4 DEF FetchRegistry, Move, Typed, Phase, Holding
      <3>3. backends' \in [Request -> Declared]
        BY <2>4 DEF FetchRegistry, NothingDeclared, Typed, Declared
      <3> QED
        BY <3>1, <3>2, <3>3 DEF Typed
    <2>5. CASE Select(r)
      <3>1. UNCHANGED <<tenant, world, registry, capacity, seen, reported, observed, errors>>
        BY <2>5 DEF Select, inputs
      <3>2. phase' \in [Request -> Phase]
        BY <2>5 DEF Select, KvSteps, Typed, Phase, Holding
      <3>3. backends' \in [Request -> Declared]
        BY <2>5 DEF Select, NothingDeclared, Typed, Declared
      <3>4. Approved(r) \subseteq Backend \X Node
        BY DEF Approved, Candidates, Supports, EligibleNodes
      <3>5. chosen' \in [Request -> (Backend \X Node) \cup {None}]
        BY <2>5, <3>4 DEF Select, Typed
      <3> QED
        BY <3>1, <3>2, <3>3, <3>5 DEF Typed
    <2>6. CASE Ingest(r)
      <3>1. UNCHANGED <<tenant, registry, capacity, seen, backends, chosen, errors>>
        BY <2>6 DEF Ingest, inputs
      <3>2. phase' \in [Request -> Phase]
        BY <2>6 DEF Ingest, Move, Typed, Phase, Holding
      <3>3. chosen[r] \in Backend \X Node
        BY <2>6 DEF Ingest, Move, InOrder, Placed
      <3>4. world.revision \in Nat /\ world.known \subseteq Backend \X Node
        BY DEF Typed
      <3>5. world' \in [revision : Nat, age : 0..AgeCap, known : SUBSET (Backend \X Node)]
        BY <1>0, <2>6, <3>3, <3>4 DEF Ingest, Observation
      <3>6. reported' \in [Request -> Nat] /\ observed' \subseteq Request
        BY <2>6, <3>4 DEF Ingest, Typed
      <3> QED
        BY <3>1, <3>2, <3>5, <3>6 DEF Typed
    <2>7. CASE RecordError(r)
      <3>1. UNCHANGED <<tenant, world, registry, capacity, local>>
        BY <2>7 DEF RecordError, inputs
      <3>2. phase' \in [Request -> Phase]
        BY <2>7 DEF RecordError, Typed, Phase, Holding
      <3>3. errors' \in 0..MaxErrors
        BY <1>0, <2>7 DEF RecordError, OneMoreError, Typed
      <3> QED
        BY <3>1, <3>2, <3>3 DEF Typed, local
    <2>8. CASE Release(r)
      <3>1. UNCHANGED <<tenant, world, registry, capacity, reported, observed, errors>>
        BY <2>8 DEF Release, inputs
      <3>2. phase' \in [Request -> Phase]
        BY <2>8 DEF Release, Move, Typed, Phase
      <3>3. seen' \in [Request -> [revision : Nat, age : 0..AgeCap]]
        BY <1>0, <2>8 DEF Release, Unset, Typed
      <3>4. backends' \in [Request -> Declared]
        BY <2>8 DEF Release, NothingDeclared, Typed, Declared
      <3>5. chosen' \in [Request -> (Backend \X Node) \cup {None}]
        BY <2>8 DEF Release, Typed
      <3> QED
        BY <3>1, <3>2, <3>3, <3>4, <3>5 DEF Typed
    <2> QED
      BY <1>2, <2>1, <2>2, <2>3, <2>4, <2>5, <2>6, <2>7, <2>8 DEF Process
  <1>3. ASSUME NEW b \in Backend, NEW declares \in {"declared", "supporting"},
               RegisterBackend(b, declares)
        PROVE  Typed'
    <2>1. registry' \in Declared
      BY <1>3 DEF RegisterBackend, Typed, Declared
    <2> QED
      BY <1>3, <2>1 DEF RegisterBackend, Typed, local
  <1>4. ASSUME NEW n \in Node, NEW meets \in {"unfit", "fit"}, RegisterNode(n, meets)
        PROVE  Typed'
    <2>1. capacity' \in [Node -> {"absent", "unfit", "fit"}]
      BY <1>4 DEF RegisterNode, Typed
    <2> QED
      BY <1>4, <2>1 DEF RegisterNode, Typed, local
  <1>5. CASE Tick
    <2>1. world' \in [revision : Nat, age : 0..AgeCap, known : SUBSET (Backend \X Node)]
      <3>1. Older(world.age) \in 0..AgeCap
        BY OlderType DEF Typed
      <3> QED
        BY <1>5, <3>1 DEF Tick, Typed
    <2>2. seen' \in [Request -> [revision : Nat, age : 0..AgeCap]]
      <3>1. \A q \in Request : /\ seen[q] \in [revision : Nat, age : 0..AgeCap]
                               /\ Older(seen[q].age) \in 0..AgeCap
        BY OlderType DEF Typed
      <3> QED
        BY <1>5, <3>1 DEF Tick
    <2> QED
      BY <1>5, <2>1, <2>2 DEF Tick, Typed, inputs
  <1> QED
    BY <1>1, <1>2, <1>3, <1>4, <1>5 DEF Next

\* process_request takes its stages in order: a request that is executed was given a
\* backend and a node, and one that was observed does not come back to ingest.
LEMMA NextInOrder == ASSUME Typed, InOrder, [Next]_vars PROVE InOrder'
  <1>1. CASE UNCHANGED <<phase, chosen, observed>>
    BY <1>1 DEF InOrder
  <1>2. ASSUME NEW r \in Request, Process(r) PROVE InOrder'
    <2>1. CASE Select(r)
      <3>1. Approved(r) \subseteq Backend \X Node
        BY DEF Approved, Candidates, Supports, EligibleNodes
      <3>2. PICK c \in Approved(r) : chosen' = [chosen EXCEPT ![r] = c]
        BY <2>1 DEF Select
      <3>3. r \notin observed
        BY <2>1 DEF Select, InOrder, AfterIngest
      <3>4. PICK next \in KvSteps : phase' = [phase EXCEPT ![r] = next]
        BY <2>1 DEF Select
      <3>5. observed' = observed
        BY <2>1 DEF Select
      <3> QED
        BY <3>1, <3>2, <3>3, <3>4, <3>5 DEF InOrder, Typed
    <2>2. CASE Release(r)
      BY <2>2 DEF Release, Move, InOrder, Typed, Placed, AfterIngest
    <2>3. CASE Ingest(r)
      BY <2>3 DEF Ingest, Move, InOrder, Typed, Placed, AfterIngest
    <2>4. CASE ~Select(r) /\ ~Release(r) /\ ~Ingest(r)
      <3>1. /\ UNCHANGED <<chosen, observed>>
            /\ \E to \in Phase : /\ phase' = [phase EXCEPT ![r] = to]
                                 /\ to \in Placed => phase[r] \in Placed
                                 /\ phase[r] \in AfterIngest => to \in AfterIngest
        BY <1>2, <2>4 DEF Process, Move, Phase, Holding, Placed, AfterIngest, KvSteps, local,
           CredentialsFail, Admit, AdmissionRejects, TakeSnapshot, SnapshotFails,
           ForcedStale, FetchRegistry, NoCandidate, TransferKv, Execute, TransportFails,
           AppendAudit, IngestRejected, RecordError
      <3> QED
        BY <3>1 DEF InOrder, Typed
    <2> QED
      BY <2>1, <2>2, <2>3, <2>4
  <1> QED
    BY <1>1, <1>2 DEF Next, vars, RegisterBackend, RegisterNode, Tick, local

\* A stage that ingests nothing keeps the revisions exact: the outcomes already observed
\* keep their revision, and a request may only forget its snapshot.
LEMMA QuietRevisions ==
    ASSUME WInv, Typed', observed' = observed, world'.revision = world.revision,
           \A q \in observed : /\ reported'[q] = reported[q]
                               /\ seen'[q].revision \in {0, seen[q].revision},
           \A q \in Request : /\ seen'[q].revision <= world.revision
                              /\ reported'[q] <= world.revision + 1
    PROVE  NotAhead' /\ RevisionsAreExact'
  <1>1. NotAhead'
    BY DEF NotAhead
  <1>2. {reported'[q] : q \in observed'} = {reported[q] : q \in observed}
    OBVIOUS
  <1>3. ASSUME NEW q \in observed PROVE reported'[q] > seen'[q].revision
    <2>1. reported[q] \in 1..world.revision /\ reported[q] > seen[q].revision
      BY DEF WInv, RevisionsAreExact
    <2>2. world.revision \in Nat
      BY DEF WInv, Typed
    <2> QED
      BY <2>1, <2>2
  <1> QED
    BY <1>1, <1>2, <1>3 DEF WInv, RevisionsAreExact

\* WorldStateManager::ingest hands out the next revision, which no other outcome has, and
\* which is later than every snapshot taken so far.
LEMMA IngestRevisions ==
    ASSUME WInv, NEW r \in Request, Ingest(r)
    PROVE  NotAhead' /\ RevisionsAreExact'
  <1>1. /\ world.revision \in Nat /\ world'.revision = world.revision + 1
        /\ seen' = seen /\ observed' = observed \cup {r}
        /\ reported' = [reported EXCEPT ![r] = world.revision + 1]
        /\ DOMAIN reported = Request
    BY DEF WInv, Typed, Ingest
  <1>2. r \notin observed
    BY DEF Ingest, Move, WInv, InOrder, AfterIngest
  <1>3. observed \subseteq Request /\ \A q \in observed : q \in Request /\ q # r
    BY <1>2 DEF WInv, Typed
  <1>4. /\ \A q \in Request : seen[q].revision \in Nat /\ reported[q] \in Nat
        /\ \A q \in Request : seen[q].revision <= world.revision
                              /\ reported[q] <= world.revision + 1
    BY DEF WInv, Typed, NotAhead
  <1>5. /\ reported'[r] = world.revision + 1
        /\ \A q \in Request : q # r => reported'[q] = reported[q]
    BY <1>1
  <1>6. NotAhead'
    BY <1>1, <1>4, <1>5 DEF NotAhead
  <1>7. {reported'[q] : q \in observed'} = {reported[q] : q \in observed}
                                           \cup {world.revision + 1}
    BY <1>1, <1>3, <1>5
  <1>8. {reported'[q] : q \in observed'} = 1..world'.revision
    <2>1. {reported[q] : q \in observed} = 1..world.revision
      BY DEF WInv, RevisionsAreExact
    <2>2. (1..world.revision) \cup {world.revision + 1} = 1..(world.revision + 1)
      BY <1>1
    <2> QED
      BY <1>1, <1>7, <2>1, <2>2
  <1>9. Cardinality(observed') = world'.revision
    <2>1. IsFiniteSet(observed)
      BY <1>3, PipelineAssumption, FS_Subset
    <2>2. Cardinality(observed \cup {r}) = Cardinality(observed) + 1
      BY <1>2, <2>1, FS_AddElement
    <2> QED
      BY <1>1, <2>2 DEF WInv, RevisionsAreExact
  <1>10. \A q \in observed' : reported'[q] > seen'[q].revision
    <2>1. \A q \in observed : reported[q] > seen[q].revision
      BY DEF WInv, RevisionsAreExact
    <2> QED
      BY <1>1, <1>3, <1>4, <1>5, <2>1
  <1> QED
    BY <1>6, <1>8, <1>9, <1>10 DEF RevisionsAreExact

\* Every step keeps the invariant: besides ingest, a step that writes an outcome's revision
\* or a snapshot does so for a request that was not observed.
LEMMA NextWorld == WInv /\ [Next]_vars => WInv'
  <1> SUFFICES ASSUME WInv, [Next]_vars PROVE WInv'
    OBVIOUS
  <1>1. Typed' /\ InOrder'
    BY NextTyped, NextInOrder DEF WInv
  <1> DEFINE Exact == NotAhead' /\ RevisionsAreExact'
  <1>2. /\ world.revision \in Nat /\ observed \subseteq Request
        /\ DOMAIN seen = Request /\ DOMAIN reported = Request
        /\ \A q \in Request : seen[q].revision \in Nat /\ reported[q] \in Nat
        /\ \A q \in Request : seen[q].revision <= world.revision
                              /\ reported[q] <= world.revision + 1
    BY DEF WInv, Typed, NotAhead
  <1>3. CASE UNCHANGED <<observed, world, reported, seen>>
    <2>1. Exact
      BY <1>1, <1>2, <1>3, QuietRevisions
    <2> QED
      BY <1>1, <2>1 DEF WInv
  <1>4. ASSUME NEW r \in Request, Process(r) PROVE Exact
    <2>1. CASE Ingest(r)
      BY <2>1, IngestRevisions
    <2>2. CASE TakeSnapshot(r)
      <3>1. /\ UNCHANGED <<world, reported, observed>>
            /\ seen' = [seen EXCEPT ![r] = [revision |-> world.revision, age |-> world.age]]
        BY <2>2 DEF TakeSnapshot
      <3>2. r \notin observed
        BY <2>2 DEF TakeSnapshot, Move, WInv, InOrder, AfterIngest
      <3>3. /\ seen'[r].revision = world.revision
            /\ \A q \in Request : q # r => seen'[q] = seen[q]
        BY <1>2, <3>1
      <3> QED
        BY <1>1, <1>2, <3>1, <3>2, <3>3, QuietRevisions
    <2>3. CASE Release(r)
      <3>1. /\ UNCHANGED <<world, reported, observed>>
            /\ seen' = [seen EXCEPT ![r] = Unset]
        BY <2>3 DEF Release
      <3>2. seen'[r].revision = 0 /\ \A q \in Request : q # r => seen'[q] = seen[q]
        BY <1>2, <3>1 DEF Unset
      <3> QED
        BY <1>1, <1>2, <3>1, <3>2, QuietRevisions
    <2>4. CASE ForcedStale(r) \/ NoCandidate(r) \/ TransportFails(r) \/ IngestRejected(r)
      <3>1. UNCHANGED <<world, seen, observed>>
        BY <2>4 DEF ForcedStale, NoCandidate, TransportFails, IngestRejected
      <3>2. r \notin observed
        BY <2>4 DEF ForcedStale, NoCandidate, TransportFails, IngestRejected, KvSteps, Move,
           WInv, InOrder, AfterIngest
      <3>3. PICK n \in {world.revision, seen[r].revision, seen[r].revision + 1} :
              reported' = [reported EXCEPT ![r] = n]
        BY <2>4 DEF ForcedStale, NoCandidate, TransportFails, IngestRejected
      <3>4. reported'[r] = n /\ \A q \in Request : q # r => reported'[q] = reported[q]
        BY <1>2, <3>3
      <3>5. n <= world.revision + 1
        BY <1>2, <3>3
      <3> QED
        BY <1>1, <1>2, <3>1, <3>2, <3>4, <3>5, QuietRevisions
    <2>5. CASE UNCHANGED <<observed, world, reported, seen>>
      BY <1>1, <1>2, <2>5, QuietRevisions
    <2> QED
      BY <1>4, <2>1, <2>2, <2>3, <2>4, <2>5 DEF Process, local, CredentialsFail, Admit,
         AdmissionRejects, SnapshotFails, FetchRegistry, Select, TransferKv, Execute,
         AppendAudit, RecordError
  <1>5. CASE Tick
    <2>1. UNCHANGED <<observed, reported>> /\ world'.revision = world.revision
      BY <1>5 DEF Tick, WInv, Typed
    <2>2. \A q \in Request : seen'[q].revision = seen[q].revision
      <3>1. \A q \in Request : seen[q] \in [revision : Nat, age : 0..AgeCap]
        BY DEF WInv, Typed
      <3> QED
        BY <1>5, <3>1 DEF Tick
    <2>3. Exact
      BY <1>1, <1>2, <2>1, <2>2, QuietRevisions
    <2> QED
      BY <1>1, <2>3 DEF WInv
  <1>6. \/ \E r \in Request : Process(r)
        \/ Tick
        \/ UNCHANGED <<observed, world, reported, seen>>
    BY DEF Next, vars, RegisterBackend, RegisterNode, local
  <1> QED
    BY <1>1, <1>3, <1>4, <1>5, <1>6 DEF WInv

\* Revisions are the world's own, for any number of requests however they overlap: the
\* outcomes ingest accepted report each revision once, and a later one than their snapshot.
THEOREM RevisionsExact == Spec => []RevisionsAreExact
  <1>1. WInv => RevisionsAreExact
    BY DEF WInv
  <1> QED
    BY InitWorld, NextWorld, <1>1, PTL DEF Spec

--------------------------------------------------------------------------------
(* Type correctness: the limits of the admission policy and of the ring *)

\* The counts are within the limits of the policy.
SlotsFit ==
    /\ slots.policy \in AdmissionPolicies
    /\ slots.total <= slots.policy.global
    /\ slots.perTenant \in [DOMAIN slots.perTenant -> Nat]
    /\ \A t \in DOMAIN slots.perTenant : slots.perTenant[t] <= slots.policy.tenant

\* The chain is within the capacity of the ring.
RingFits == IsRing /\ Len(chain) <= MaxRecords

\* The policies a controller is built with are validated.
LEMMA PolicyType ==
    ASSUME NEW policy \in AdmissionPolicies
    PROVE  policy.global \in Nat /\ policy.tenant \in Nat
  BY AdmissionAssumption

\* admit tests both limits before it adds, under one lock, so neither is overrun.
LEMMA AdmitFits ==
    ASSUME PInv, SlotsFit, NEW r \in Request, Admit(r)
    PROVE  SlotsFit'
  <1>0. PICK t : t = tenant[r]
    OBVIOUS
  <1>1. HasRoom(slots, t) /\ slots' = AfterAdmit(slots, t)
    BY <1>0 DEF Admit
  <1>2. /\ slots'.total = slots.total + 1 /\ slots'.policy = slots.policy
        /\ slots'.perTenant = WithCount(slots, t, TenantCount(slots, t) + 1)
    BY <1>1 DEF PInv, Shaped, AfterAdmit
  <1>3. slots.policy.global \in Nat /\ slots.policy.tenant \in Nat /\ slots.total \in Nat
    BY PolicyType, HoldersFinite DEF SlotsFit, PInv, SlotsMatchPermits
  <1>4. slots.total + 1 <= slots.policy.global
    BY <1>1, <1>3 DEF HasRoom
  <1>5. TenantCount(slots, t) \in Nat
    BY DEF TenantCount, SlotsFit
  <1>6. TenantCount(slots, t) + 1 <= slots.policy.tenant
    BY <1>1, <1>3, <1>5 DEF HasRoom
  <1>7. TenantCount(slots, t) + 1 \in Nat
    BY <1>5
  <1> DEFINE n == TenantCount(slots, t) + 1
  <1> HIDE DEF n
  <1>8. n \in Nat /\ n <= slots.policy.tenant /\ slots'.perTenant = WithCount(slots, t, n)
    BY <1>2, <1>6, <1>7 DEF n
  <1>9. /\ slots'.perTenant \in [DOMAIN slots'.perTenant -> Nat]
        /\ \A u \in DOMAIN slots'.perTenant : slots'.perTenant[u] <= slots.policy.tenant
    BY <1>8 DEF WithCount, SlotsFit
  <1> QED
    BY <1>2, <1>4, <1>9 DEF SlotsFit

\* Drop for AdmissionPermit only lowers the counts.
LEMMA ReleaseFits ==
    ASSUME PInv, SlotsFit, NEW r \in Request, Release(r)
    PROVE  SlotsFit'
  <1>0. PICK t : t = tenant[r]
    OBVIOUS
  <1>1. slots' = AfterRelease(slots, t) /\ phase[r] = "leaving"
    BY <1>0 DEF Release, Move
  <1>2. r \in Holders /\ t \in DOMAIN slots.perTenant
    BY <1>0, <1>1 DEF Holders, Holding, PInv, SlotsMatchPermits
  <1>3. /\ slots'.total = slots.total - 1 /\ slots'.policy = slots.policy
        /\ slots'.perTenant = OneLess(slots, t)
    BY <1>1, <1>2 DEF PInv, Shaped, AfterRelease
  <1>4. slots.policy.global \in Nat /\ slots.policy.tenant \in Nat /\ slots.total \in Nat
    BY PolicyType, HoldersFinite DEF SlotsFit, PInv, SlotsMatchPermits
  <1>5. TenantCount(slots, t) \in Nat /\ TenantCount(slots, t) <= slots.policy.tenant
    BY <1>2 DEF TenantCount, SlotsFit
  <1>6. TenantCount(slots, t) # 0
    <2>1. r \in HoldersOf(t)
      BY <1>0, <1>2 DEF HoldersOf
    <2>2. Cardinality(HoldersOf(t)) # 0
      BY <2>1, HoldersFinite, FS_EmptySet
    <2> QED
      BY <1>2, <2>2 DEF TenantCount, PInv, SlotsMatchPermits, HoldersOf
  <1>7. CASE TenantCount(slots, t) = 1
    <2>1. slots'.perTenant = [u \in DOMAIN slots.perTenant \ {t} |-> slots.perTenant[u]]
      BY <1>3, <1>7 DEF OneLess, Restrict
    <2> QED
      BY <1>3, <1>4, <2>1 DEF SlotsFit
  <1>8. CASE TenantCount(slots, t) # 1
    <2> DEFINE n == TenantCount(slots, t) - 1
    <2>1. n \in Nat /\ n <= slots.policy.tenant
      BY <1>4, <1>5, <1>6
    <2>2. slots'.perTenant = WithCount(slots, t, n)
      BY <1>3, <1>8 DEF OneLess
    <2> HIDE DEF n
    <2>3. /\ slots'.perTenant \in [DOMAIN slots'.perTenant -> Nat]
          /\ \A u \in DOMAIN slots'.perTenant : slots'.perTenant[u] <= slots.policy.tenant
      BY <2>1, <2>2 DEF WithCount, SlotsFit
    <2> QED
      BY <1>3, <1>4, <2>3 DEF SlotsFit
  <1> QED
    BY <1>7, <1>8

\* AuditChain::append makes room before a full ring takes one more.
LEMMA AppendFits ==
    ASSUME RingFits, NEW r \in Request, AppendAudit(r)
    PROVE  Len(chain') <= MaxRecords
  <1>1. PICK S : chain \in Seq(S)
    BY DEF RingFits, IsRing
  <1> DEFINE rec == Linked(r, chosen[r][1], PreviousHash(chain))
             kept == IF Len(chain) >= MaxRecords THEN Tail(chain) ELSE chain
  <1>2. MaxRecords \in Nat /\ MaxRecords > 0 /\ Len(chain) \in Nat /\ Len(chain) <= MaxRecords
    BY <1>1, ChainAssumption DEF RingFits
  <1>3. kept \in Seq(S) /\ Len(kept) < MaxRecords
    <2>1. CASE Len(chain) >= MaxRecords
      <3>1. chain # << >>
        BY <1>2, <2>1
      <3>2. Tail(chain) \in Seq(S) /\ Len(Tail(chain)) = Len(chain) - 1
        BY <1>1, <3>1
      <3> QED
        BY <1>2, <2>1, <3>2
    <2>2. CASE ~(Len(chain) >= MaxRecords)
      BY <1>1, <1>2, <2>2
    <2> QED
      BY <2>1, <2>2
  <1>4. chain' = Append(kept, rec)
    BY DEF AppendAudit, Appended
  <1> HIDE DEF kept, rec
  <1>5. kept \in Seq(S \cup {rec})
    BY <1>3
  <1>6. Len(Append(kept, rec)) = Len(kept) + 1 /\ Len(kept) \in Nat
    BY <1>5
  <1> QED
    BY <1>2, <1>3, <1>4, <1>6

\* The whole invariant of the pipeline
TInv == PInv /\ SlotsFit /\ RingFits /\ AuditChainVerifies /\ WInv

\* A new pipeline is well formed.
LEMMA InitTyped == Init => TInv
  <1> SUFFICES ASSUME Init PROVE TInv
    OBVIOUS
  <1>1. PICK policy \in AdmissionPolicies : slots = NoneInFlight(policy)
    BY DEF Init
  <1>2. /\ slots.policy = policy /\ slots.total = 0 /\ DOMAIN slots.perTenant = {}
        /\ slots.perTenant \in [{} -> Nat]
    BY <1>1 DEF NoneInFlight
  <1>3. SlotsFit
    BY <1>2, PolicyType DEF SlotsFit
  <1>4. chain = << >> /\ chain \in Seq({})
    BY DEF Init
  <1>5. RingFits /\ AuditChainVerifies
    BY <1>4, ChainAssumption DEF RingFits, IsRing, AuditChainVerifies, VerifiesIntegrity
  <1> QED
    BY <1>3, <1>5, InitPermits, InitWorld DEF TInv

\* Every step keeps the invariant: only admit and the drop of a permit touch the counts,
\* and only the audit stage touches the ring.
LEMMA NextWhole == TInv /\ [Next]_vars => TInv'
  <1> SUFFICES ASSUME TInv, [Next]_vars PROVE TInv'
    OBVIOUS
  <1>1. PInv' /\ WInv'
    BY NextPermits, NextWorld DEF TInv
  <1>2. SlotsFit'
    <2>1. CASE \E r \in Request : Admit(r)
      BY <2>1, AdmitFits DEF TInv
    <2>2. CASE \E r \in Request : Release(r)
      BY <2>2, ReleaseFits DEF TInv
    <2>3. CASE UNCHANGED slots
      BY <2>3 DEF TInv, SlotsFit
    <2>4. \/ \E r \in Request : Admit(r) \/ Release(r)
          \/ UNCHANGED slots
      BY DEF Next, vars, Process, CredentialsFail, AdmissionRejects, TakeSnapshot,
         SnapshotFails, ForcedStale, FetchRegistry, Select, NoCandidate, TransferKv, Execute,
         TransportFails, AppendAudit, Ingest, IngestRejected, RecordError, RegisterBackend,
         RegisterNode, Tick
    <2> QED
      BY <2>1, <2>2, <2>3, <2>4
  <1>3. RingFits' /\ AuditChainVerifies'
    <2>1. CASE \E r \in Request : AppendAudit(r)
      <3>1. PICK r \in Request : AppendAudit(r)
        BY <2>1
      <3>2. IsRing' /\ AuditChainVerifies'
        BY <3>1, AppendAuditKeeps DEF TInv, RingFits
      <3>3. Len(chain') <= MaxRecords
        BY <3>1, AppendFits DEF TInv
      <3> QED
        BY <3>2, <3>3 DEF RingFits
    <2>2. CASE UNCHANGED chain
      BY <2>2 DEF TInv, RingFits, IsRing, AuditChainVerifies
    <2>3. (\E r \in Request : AppendAudit(r)) \/ UNCHANGED chain
      BY DEF Next, vars, Process, CredentialsFail, Admit, AdmissionRejects, TakeSnapshot,
         SnapshotFails, ForcedStale, FetchRegistry, Select, NoCandidate, TransferKv, Execute,
         TransportFails, Ingest, IngestRejected, RecordError, Release, RegisterBackend,
         RegisterNode, Tick
    <2> QED
      BY <2>1, <2>2, <2>3
  <1> QED
    BY <1>1, <1>2, <1>3 DEF TInv

\* The pipeline keeps its shape and its limits: admit never overruns the policy, ingest
\* never counts past the requests there are, and the ring never exceeds its capacity.
THEOREM PipelineTypeCorrect == Spec => []TypeOK
  <1>1. ASSUME TInv PROVE TypeOK
    <2>1. slots.policy \in AdmissionPolicies /\ slots.total \in 0..slots.policy.global
      BY <1>1, PolicyType, HoldersFinite DEF TInv, SlotsFit, PInv, SlotsMatchPermits
    <2>2. slots.perTenant \in UNION {[S -> 1..slots.policy.tenant] : S \in SUBSET Tenant}
      <3>1. DOMAIN slots.perTenant \in SUBSET Tenant
        BY <1>1 DEF TInv, PInv, Shaped, SlotsMatchPermits, Holders
      <3>2. ASSUME NEW t \in DOMAIN slots.perTenant
            PROVE  slots.perTenant[t] \in 1..slots.policy.tenant
        <4>1. /\ slots.perTenant[t] \in Nat /\ slots.perTenant[t] <= slots.policy.tenant
              /\ slots.policy.tenant \in Nat
          BY <1>1, PolicyType DEF TInv, SlotsFit
        <4>2. PICK r \in Holders : tenant[r] = t
          BY <1>1 DEF TInv, PInv, SlotsMatchPermits
        <4>3. r \in HoldersOf(t)
          BY <4>2 DEF HoldersOf
        <4>4. Cardinality(HoldersOf(t)) # 0
          BY <4>3, HoldersFinite, FS_EmptySet
        <4>5. slots.perTenant[t] = Cardinality(HoldersOf(t))
          BY <1>1 DEF TInv, PInv, SlotsMatchPermits, HoldersOf
        <4> QED
          BY <4>1, <4>4, <4>5
      <3>3. slots.perTenant \in [DOMAIN slots.perTenant -> 1..slots.policy.tenant]
        BY <1>1, <3>2 DEF TInv, SlotsFit
      <3> QED
        BY <3>1, <3>3
    <2>3. Typed /\ NotAhead /\ RevisionsAreExact
      BY <1>1 DEF TInv, WInv
    <2>4. world.revision \in 0..Cardinality(Request)
      <3>1. /\ IsFiniteSet(Request) /\ Cardinality(Request) \in Nat
            /\ Cardinality(observed) <= Cardinality(Request)
        BY <2>3, PipelineAssumption, FS_Subset, FS_CardinalityType DEF Typed
      <3> QED
        BY <2>3, <3>1 DEF Typed, RevisionsAreExact
    <2>5. seen \in [Request -> [revision : 0..world.revision, age : 0..AgeCap]]
      <3>1. ASSUME NEW r \in Request
            PROVE  seen[r] \in [revision : 0..world.revision, age : 0..AgeCap]
        <4>1. seen[r] \in [revision : Nat, age : 0..AgeCap] /\ world.revision \in Nat
              /\ seen[r].revision <= world.revision
          BY <2>3 DEF Typed, NotAhead
        <4>2. seen[r].revision \in 0..world.revision
          BY <4>1
        <4> QED
          BY <4>1, <4>2
      <3> QED
        BY <2>3, <3>1 DEF Typed
    <2>6. reported \in [Request -> 0..(world.revision + 1)]
      <3>1. ASSUME NEW r \in Request PROVE reported[r] \in 0..(world.revision + 1)
        BY <2>3 DEF Typed, NotAhead
      <3> QED
        BY <2>3, <3>1 DEF Typed
    <2>7. Len(chain) <= MaxRecords
      BY <1>1 DEF TInv, RingFits
    <2>8. world.age \in 0..AgeCap /\ world.known \subseteq Backend \X Node
      BY <2>3 DEF Typed
    <2> QED
      BY <2>1, <2>2, <2>3, <2>4, <2>5, <2>6, <2>7, <2>8 DEF TypeOK, Typed, Phase, Declared
  <1> QED
    BY InitTyped, NextWhole, <1>1, PTL DEF Spec
==============================================================================
