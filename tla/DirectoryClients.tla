-------------------------- MODULE DirectoryClients --------------------------
(***************************************************************************)
(* The users of the KV directory: threads that register entries and look   *)
(* prefixes up (the handlers of POST /v1/cache and of the routes), that    *)
(* hold leases, list the entries (GET /metrics) and drop a worker's        *)
(* entries (fencing).  register and lookup read the clock in one step and  *)
(* take the lock in another, so they commit in any order.                  *)
(*                                                                         *)
(* The repository calls acquire and release from its tests only; a lease   *)
(* holder here does what those tests do, acquires an entry it has looked   *)
(* up and releases it once.                                                *)
(***************************************************************************)
EXTENDS KVDirectory

CONSTANTS Clients,      \* threads
          Prefixes, Locations, Layouts,
          TokenCounts,  \* token_count values
          TTLs,         \* ttl_seconds values
          MaxTime,      \* bound of the clock
          MaxHeld       \* bound of the leases a client holds at once

ASSUME InputsAssumption ==
    /\ \A layout \in Layouts : layout.kv_bytes_per_token \in Nat
    /\ TokenCounts \subseteq Nat
    /\ TTLs \subseteq Nat

VARIABLES clock,        \* time.time()
          pending,      \* pending[c]: the call c is in, after its clock read
          found,        \* found[c]: the keys its last lookup returned
          held,         \* held[c]: the keys c has a lease on
          disturbed     \* a leased entry has been registered again or fenced

vars == <<directory, clock, pending, found, held, disturbed>>

Keys == {Key(p, l, t) : p \in Prefixes, l \in Locations, t \in DOMAIN Capacities}

NoCall == [op |-> "none"]

Holders(k) == {c \in Clients : k \in held[c]}

Init ==
    /\ DirectoryInit
    /\ clock = 0
    /\ pending = [c \in Clients |-> NoCall]
    /\ found = [c \in Clients |-> {}]
    /\ held = [c \in Clients |-> {}]
    /\ disturbed = FALSE

Tick ==
    /\ clock < MaxTime
    /\ clock' = clock + 1
    /\ UNCHANGED <<directory, pending, found, held, disturbed>>

\* register reads the clock and builds the entry.
StartRegister(c) ==
    /\ pending[c] = NoCall
    /\ \E k \in Keys, layout \in Layouts, tokens \in TokenCounts, ttl \in TTLs :
         pending' = [pending EXCEPT ![c] =
                       [op |-> "register", key |-> k,
                        entry |-> NewEntry(layout, tokens, clock, ttl)]]
    /\ UNCHANGED <<directory, clock, found, held, disturbed>>

Register(c) ==
    /\ pending[c].op = "register"
    /\ Insert(pending[c].key, pending[c].entry)
    /\ disturbed' = (disturbed \/ Holders(pending[c].key) # {})
    /\ pending' = [pending EXCEPT ![c] = NoCall]
    /\ UNCHANGED <<clock, found, held>>

StartLookup(c) ==
    /\ pending[c] = NoCall
    /\ \E p \in Prefixes, layout \in Layouts :
         pending' = [pending EXCEPT ![c] =
                       [op |-> "lookup", prefix |-> p, layout |-> layout, now |-> clock]]
    /\ UNCHANGED <<directory, clock, found, held, disturbed>>

Lookup(c) ==
    /\ pending[c].op = "lookup"
    /\ found' = [found EXCEPT ![c] =
                   Matches(pending[c].now, pending[c].prefix, pending[c].layout)]
    /\ EvictExpired(pending[c].now)
    /\ pending' = [pending EXCEPT ![c] = NoCall]
    /\ UNCHANGED <<clock, held, disturbed>>

\* The client takes a lease on one of the entries it found; it gets a
\* KeyError when the entry has been evicted in the meantime.
Lease(c, k) ==
    /\ k \in found[c]
    /\ k \notin held[c]
    /\ Cardinality(held[c]) < MaxHeld
    /\ found' = [found EXCEPT ![c] = {}]
    /\ IF k \in DOMAIN entries
       THEN AcquireLease(k, clock) /\ held' = [held EXCEPT ![c] = @ \cup {k}]
       ELSE UNCHANGED <<directory, held>>
    /\ UNCHANGED <<clock, pending, disturbed>>

\* The client gives a lease back, or gets a KeyError.
Unlease(c, k) ==
    /\ k \in held[c]
    /\ held' = [held EXCEPT ![c] = @ \ {k}]
    /\ IF k \in DOMAIN entries THEN ReleaseLease(k) ELSE UNCHANGED directory
    /\ UNCHANGED <<clock, pending, found, disturbed>>

\* entries() reads the clock under the lock.
ListEntries ==
    /\ EvictExpired(clock)
    /\ UNCHANGED <<clock, pending, found, held, disturbed>>

Fence(location) ==
    /\ RemoveLocation(location)
    /\ disturbed' = (disturbed \/ \E k \in LocatedAt(location) : Holders(k) # {})
    /\ UNCHANGED <<clock, pending, found, held>>

Next ==
    \/ Tick
    \/ ListEntries
    \/ \E c \in Clients :
         \/ StartRegister(c) \/ Register(c)
         \/ StartLookup(c) \/ Lookup(c)
         \/ \E k \in Keys : Lease(c, k) \/ Unlease(c, k)
    \/ \E l \in Locations : Fence(l)

Spec == Init /\ [][Next]_vars

-----------------------------------------------------------------------------
(* Properties                                                              *)

Entries == [layout : Layouts, token_count : Nat, size_bytes : Nat,
            created_at : Int, last_access : Int, expires_at : Int,
            lease_count : Nat]

\* The variables have the shape the code gives them.
TypeOK ==
    /\ DOMAIN entries \subseteq Keys
    /\ entries \in [DOMAIN entries -> Entries]
    /\ OrderNumbersKeys
    /\ clock \in Nat
    /\ DOMAIN pending = Clients
    /\ \A c \in Clients :
         \/ pending[c] = NoCall
         \/ /\ pending[c].op = "register"
            /\ pending[c].key \in Keys /\ pending[c].entry \in Entries
            /\ pending[c].entry.lease_count = 0
         \/ /\ pending[c].op = "lookup"
            /\ pending[c].layout \in Layouts /\ pending[c].now \in Nat
    /\ found \in [Clients -> SUBSET Keys]
    /\ held \in [Clients -> SUBSET Keys]
    /\ disturbed \in BOOLEAN

\* No entry is pinned by a lease nobody holds: whatever is registered again,
\* fenced or released late, an entry counts at most as many leases as it has
\* holders, so it becomes evictable when the last of them lets go.
NoOrphanLease ==
    \A k \in DOMAIN entries : entries[k].lease_count <= Cardinality(Holders(k))

\* As long as no leased entry is registered again or fenced, a lease protects
\* its entry: it stays in the directory and counts every holder.
LeaseProtects ==
    ~ disturbed => \A k \in Keys : Holders(k) # {} =>
        k \in DOMAIN entries /\ entries[k].lease_count = Cardinality(Holders(k))

Removed == DOMAIN entries \ DOMAIN entries'

\* A step that takes an entry away with a lease on it is a fencing, or the
\* registration of that very key.
LeasedRemovedOnlyOnPurpose ==
    [][ \A k \in Removed :
          entries[k].lease_count > 0 =>
            \/ \E l \in Locations : Fence(l)
            \/ \E c \in Clients : Register(c) /\ pending[c].key = k ]_vars

\* An entry with a lease on it is not reclaimed by expiry or LRU eviction.
HeldNotReclaimed ==
    [][ \A k \in Removed :
          Holders(k) # {} =>
            \/ \E l \in Locations : Fence(l)
            \/ \E c \in Clients : Register(c) /\ pending[c].key = k ]_vars

Survives(k) == k \in DOMAIN entries' /\ entries'[k].lease_count = 0

\* Registration evicts in LRU order and no more than it must: no unleased
\* entry of the tier that stays is less recently used than one that goes,
\* and putting the most recently used of those that go back would exceed the
\* capacity.
EvictionIsLRU ==
    [][ \A c \in Clients : pending[c].op = "register" /\ pending'[c] = NoCall =>
          LET new == pending[c].key
              gone == {k \in Removed : k # new}
              recency(k) == entries[k].last_access
          IN  \A v \in gone :
                /\ \A k \in DOMAIN entries \ {new} :
                     k.tier = new.tier /\ Survives(k) => recency(v) <= recency(k)
                /\ (\A k \in gone : recency(k) <= recency(v)) /\ new \in DOMAIN entries'
                     => \E k \in gone :
                          /\ recency(k) = recency(v)
                          /\ Bytes(entries', OfTier(entries', new.tier)) + entries[k].size_bytes
                               > CapacityOf(new.tier) ]_vars
=============================================================================
