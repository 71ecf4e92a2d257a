------------------------------ MODULE LeaseStore ------------------------------
(***************************************************************************)
(* The in-memory lease store (src/fabric.rs, InMemoryLeaseStore and        *)
(* Lease): owners acquire a lease with an epoch and an expiry against the  *)
(* wall clock, keep a copy, and ask the store to verify its epoch or test  *)
(* the copy by themselves.  SystemTime may step back.                      *)
(***************************************************************************)
EXTENDS Integers

CONSTANTS
    Owner,
    Ttls,     \* bound: the durations asked for
    MaxTime,  \* bound: the clock
    MaxEpoch  \* bound: leases handed out

ASSUME LeaseAssumption == Ttls \subseteq Nat /\ MaxTime \in Nat /\ MaxEpoch \in Nat

VARIABLES
    now,      \* SystemTime::now()
    epoch,    \* InMemoryLeaseStore.epoch
    current,  \* InMemoryLeaseStore.current_lease
    held,     \* per owner: the newest lease it was handed
    wentBack  \* history: the clock has stepped back

leaseVars == <<now, epoch, current, held, wentBack>>

NoLease == [epoch |-> 0, owner |-> "none", expiresAt |-> 0]
Lease == [epoch : Nat, owner : Owner, expiresAt : Nat] \cup {NoLease}

LeaseInit ==
    /\ now = 0 /\ wentBack = FALSE
    /\ epoch = 0 /\ current = NoLease
    /\ held = [o \in Owner |-> NoLease]

\* Lease::is_valid
IsValid(lease) == lease # NoLease /\ now < lease.expiresAt

\* InMemoryLeaseStore::verify
Verify(e) == current.epoch = e /\ IsValid(current)

Granted(o, ttl, e) ==
    LET lease == [epoch |-> e, owner |-> o, expiresAt |-> now + ttl]
    IN  /\ epoch' = e
        /\ current' = lease
        /\ held' = [held EXCEPT ![o] = lease]
        /\ UNCHANGED <<now, wentBack>>

\* Mutant: taking over an expired lease goes on with its epoch.
AcquireSameEpoch(o, ttl) ==
    /\ epoch < MaxEpoch
    /\ ~(IsValid(current) /\ current.owner # o)
    /\ Granted(o, ttl, IF current = NoLease THEN 1 ELSE epoch)

\* Mutant: the owner of the valid lease is not looked at.
AcquireAnyOwner(o, ttl) ==
    /\ epoch < MaxEpoch
    /\ Granted(o, ttl, epoch + 1)

\* InMemoryLeaseStore::acquire that answers Some; None changes nothing.  An owner may
\* acquire again while its lease is valid: the new epoch supersedes the old one.
Acquire(o, ttl) ==
    /\ epoch < MaxEpoch
    /\ ~(IsValid(current) /\ current.owner # o)
    /\ Granted(o, ttl, epoch + 1)

\* The wall clock (external)
ClockAdvances ==
    /\ now < MaxTime
    /\ now' = now + 1
    /\ UNCHANGED <<epoch, current, held, wentBack>>

ClockStepsBack ==
    /\ now > 0
    /\ now' = now - 1 /\ wentBack' = TRUE
    /\ UNCHANGED <<epoch, current, held>>

LeaseNext ==
    \/ \E o \in Owner, ttl \in Ttls : Acquire(o, ttl)
    \/ ClockAdvances
    \/ ClockStepsBack

LeaseSpec == LeaseInit /\ [][LeaseNext]_leaseVars

--------------------------------------------------------------------------------
\* At most one owner's lease verifies at the store, however the clock moves, and it is the
\* newest one: an epoch that was superseded is fenced off for good.  The test of the
\* owner's own copy (Lease::is_valid) excludes others only while the clock has not
\* stepped back, since an expired lease becomes valid again when it does.
OneHolder ==
    /\ \A o, p \in Owner : Verify(held[o].epoch) /\ Verify(held[p].epoch) => o = p
    /\ \A o \in Owner : Verify(held[o].epoch) => held[o] = current /\ current.epoch = epoch
    /\ ~wentBack => \A o, p \in Owner : IsValid(held[o]) /\ IsValid(held[p]) => o = p
==============================================================================
