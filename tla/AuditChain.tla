------------------------------ MODULE AuditChain ------------------------------
(***************************************************************************)
(* The hash-linked audit ring of src/fabric.rs, as operators on a sequence *)
(* of records, oldest first.  The digest is a parameter: all that is used  *)
(* of it is that equal inputs have equal digests.                          *)
(***************************************************************************)
EXTENDS Integers, Sequences

CONSTANTS
    Hash(_, _, _),  \* AuditRecord::compute_hash(event_id, previous_hash, actor)
    Genesis,        \* "genesis"
    MaxRecords      \* the ring's capacity, clamped to at least one

ASSUME ChainAssumption == MaxRecords \in Nat \ {0}

PreviousHash(chain) == IF chain = << >> THEN Genesis ELSE chain[Len(chain)].current

Linked(event, actor, previous) ==
    [event |-> event, actor |-> actor, previous |-> previous,
     current |-> Hash(event, previous, actor)]

\* Mutant: a full ring drops its newest record instead of its oldest.
AppendedDropsNewest(chain, event, actor) ==
    Append(IF Len(chain) >= MaxRecords THEN SubSeq(chain, 1, Len(chain) - 1) ELSE chain,
           Linked(event, actor, PreviousHash(chain)))

\* AuditChain::append: the link is made before the oldest record is dropped
Appended(chain, event, actor) ==
    Append(IF Len(chain) >= MaxRecords THEN Tail(chain) ELSE chain,
           Linked(event, actor, PreviousHash(chain)))

\* AuditChain::verify_integrity: neither TAMPERED_RECORD nor BROKEN_CHAIN
VerifiesIntegrity(chain) ==
    /\ \A i \in 1..Len(chain) :
        chain[i].current = Hash(chain[i].event, chain[i].previous, chain[i].actor)
    /\ \A i \in 1..(Len(chain) - 1) : chain[i + 1].previous = chain[i].current
==============================================================================
