----------------------------- MODULE TokenBucket -----------------------------
(***************************************************************************)
(* The rate limiter of src/sidecar_security.rs as operators on a record.   *)
(* The code counts fractional tokens and refills lazily: a call first adds *)
(* what the time since last_refill is worth, then takes one token.  Here   *)
(* a token is Unit units and a clock tick is worth Rate of them; the time  *)
(* since last_refill is kept as a number of ticks.                         *)
(***************************************************************************)
EXTENDS Integers

CONSTANTS
    Capacity,   \* tokens the bucket holds
    Rate,       \* units refilled per tick
    Unit        \* units of one token

ASSUME BucketAssumption == {Capacity, Rate, Unit} \subseteq Nat \ {0}

Full == Capacity * Unit

Bucket == [tokens : 0..Full, elapsed : Nat]

NewBucket == [tokens |-> Full, elapsed |-> 0]

AtMost(x, limit) == IF x <= limit THEN x ELSE limit

\* Mutant: the refill is not capped.
RefilledUncapped(b) == [tokens |-> b.tokens + b.elapsed * Rate, elapsed |-> 0]

\* Mutant: last_refill is left alone, so the same time is credited again.
RefilledTwice(b) ==
    [tokens |-> AtMost(b.tokens + b.elapsed * Rate, Full), elapsed |-> b.elapsed]

\* refill
Refilled(b) ==
    [tokens |-> AtMost(b.tokens + b.elapsed * Rate, Full), elapsed |-> 0]

\* n calls of try_acquire in a row under one lock take this many tokens: the first
\* call that finds none ends the row, and nothing is given back.
Taken(b, n) == AtMost(n, Refilled(b).tokens \div Unit)

AfterAcquire(b, n) ==
    [Refilled(b) EXCEPT !.tokens = @ - Taken(b, n) * Unit]

\* The monotonic clock, seen from the bucket (external)
Waited(b) == [b EXCEPT !.elapsed = @ + 1]
==============================================================================
