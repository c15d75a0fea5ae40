---------------------------- MODULE KVDirectory ----------------------------
(***************************************************************************)
(* The directory of cached prefixes (cache.py, class KVDirectory).         *)
(*                                                                         *)
(* Its lock makes each method's locked section one step.  The clock is     *)
(* read by register and lookup before they take the lock, so the actions   *)
(* are given the time their caller has read.  order is the iteration order *)
(* of the dict, which breaks the ties of the sort for eviction.            *)
(***************************************************************************)
EXTENDS Weights, Models, Integers, Functions

CONSTANT Capacities     \* bytes per tier; a tier that is missing has none

ASSUME CapacitiesAssumption ==
    /\ DOMAIN Capacities \subseteq Tiers
    /\ Capacities \in [DOMAIN Capacities -> Nat]

VARIABLES entries,      \* key -> entry, a key being [prefix, location, tier]
          order         \* key -> number of the keys before it in the dict

directory == <<entries, order>>

DirectoryInit ==
    /\ entries = << >>
    /\ order = << >>

Key(prefix, location, tier) ==
    [prefix |-> prefix, location |-> location, tier |-> tier]

\* The entry register builds: no lease, whatever it may replace.
NewEntry(layout, tokens, now, ttl) ==
    [layout |-> layout, token_count |-> tokens,
     size_bytes |-> tokens * layout.kv_bytes_per_token,
     created_at |-> now, last_access |-> now, expires_at |-> now + ttl,
     lease_count |-> 0]

CapacityOf(tier) == IF tier \in DOMAIN Capacities THEN Capacities[tier] ELSE 0

\* The bytes the keys of S take in es.
Bytes(es, S) == Weight(S, [k \in S |-> es[k].size_bytes])

OfTier(es, tier) == {k \in DOMAIN es : k.tier = tier}

\* Mutant of Unleased: leases are ignored.
LeasedOrNot(es) == DOMAIN es

Unleased(es) == {k \in DOMAIN es : es[k].lease_count = 0}

\* Mutant of LessRecent: the sort key is the age.
Older(es, ord, k, j) ==
    \/ es[k].created_at < es[j].created_at
    \/ /\ es[k].created_at = es[j].created_at
       /\ ord[k] < ord[j]

\* k comes before j in the sort by (last_access, created_at), which is stable.
LessRecent(es, ord, k, j) ==
    \/ es[k].last_access < es[j].last_access
    \/ /\ es[k].last_access = es[j].last_access
       /\ \/ es[k].created_at < es[j].created_at
          \/ /\ es[k].created_at = es[j].created_at
             /\ ord[k] < ord[j]

\* Mutant of Victims: an entry is spared when evicting it would make room.
VictimsButLast(es, ord, tier) ==
    LET candidates == OfTier(es, tier) \cap Unleased(es)
        used == Bytes(es, OfTier(es, tier))
        reached(k) == {j \in candidates : j = k \/ LessRecent(es, ord, j, k)}
    IN  {k \in candidates : used - Bytes(es, reached(k)) > CapacityOf(tier)}

\* _evict_to_capacity goes through the unleased entries of the tier, least
\* recent first, and evicts each one it reaches while more is used than fits.
Victims(es, ord, tier) ==
    LET candidates == OfTier(es, tier) \cap Unleased(es)
        used == Bytes(es, OfTier(es, tier))
        reached(k) == {j \in candidates : LessRecent(es, ord, j, k)}
    IN  {k \in candidates : used - Bytes(es, reached(k)) > CapacityOf(tier)}

\* The directory holds es, in order ord, without the keys of gone.
Become(es, ord, gone) ==
    LET kept == DOMAIN es \ gone
    IN  /\ entries' = Restrict(es, kept)
        /\ order' = [k \in kept |-> Cardinality({j \in kept : ord[j] < ord[k]})]

-----------------------------------------------------------------------------
\* register, under the lock: insert, replacing any entry of the same key in
\* its place, then evict to capacity; the new entry may be a victim itself.
Insert(k, entry) ==
    LET es == Put(entries, k, entry)
        ord == IF k \in DOMAIN entries THEN order
               ELSE Put(order, k, Cardinality(DOMAIN entries))
    IN  Become(es, ord, Victims(es, ord, k.tier))

\* Mutant of Expired: leases are ignored.
ExpiredLeasedOrNot(now) == {k \in DOMAIN entries : entries[k].expires_at <= now}

\* _evict_expired: what lookup and entries do first.
Expired(now) == {k \in Unleased(entries) : entries[k].expires_at <= now}

EvictExpired(now) == Become(entries, order, Expired(now))

\* The keys lookup returns once the expired entries are gone.
Matches(now, prefix, layout) ==
    {k \in DOMAIN entries \ Expired(now) :
        k.prefix = prefix /\ CompatibleWith(entries[k].layout, layout)}

\* acquire and release raise KeyError for a key that is not there.
AcquireLease(k, now) ==
    /\ k \in DOMAIN entries
    /\ entries' = [entries EXCEPT ![k].lease_count = @ + 1, ![k].last_access = now]
    /\ UNCHANGED order

\* Mutants of ReleaseLease: the count stops at one; it may fall below zero.
ReleaseLeaseToOne(k) ==
    /\ k \in DOMAIN entries
    /\ entries' = [entries EXCEPT ![k].lease_count = IF @ > 1 THEN @ - 1 ELSE @]
    /\ UNCHANGED order

ReleaseLeaseUnclamped(k) ==
    /\ k \in DOMAIN entries
    /\ entries' = [entries EXCEPT ![k].lease_count = @ - 1]
    /\ UNCHANGED order

ReleaseLease(k) ==
    /\ k \in DOMAIN entries
    /\ entries' = [entries EXCEPT ![k].lease_count = IF @ > 0 THEN @ - 1 ELSE 0]
    /\ UNCHANGED order

\* remove_location deletes leased entries too.
LocatedAt(location) == {k \in DOMAIN entries : k.location = location}

RemoveLocation(location) == Become(entries, order, LocatedAt(location))

-----------------------------------------------------------------------------
\* What usage() reports for a tier.
Usage(tier) == Bytes(entries, OfTier(entries, tier))

\* No tier holds more than its capacity, also while leases protect entries
\* from eviction: what is leased fitted when it was registered, and a new
\* entry that does not fit beside it is evicted itself.
WithinCapacity == \A tier \in Tiers : Usage(tier) <= CapacityOf(tier)

\* order numbers the keys of entries, each once.
OrderNumbersKeys ==
    /\ order \in [DOMAIN entries -> 0 .. (Cardinality(DOMAIN entries) - 1)]
    /\ \A j, k \in DOMAIN entries : order[j] = order[k] => j = k
=============================================================================
