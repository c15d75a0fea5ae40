----------------------- MODULE DirectoryClientsProofs -----------------------
(***************************************************************************)
(* Proofs about the users of the KV directory, for any clients, entries,   *)
(* capacities and times.                                                   *)
(***************************************************************************)
EXTENDS DirectoryClients, KVDirectoryProofs

-----------------------------------------------------------------------------
(* Types                                                                   *)

\* The types, with what the lemmas about the directory want to know.
TypeInv == TypeOK /\ IsFiniteSet(DOMAIN entries)

LEMMA TypeInvDirectory == TypeInv => DirectoryOK(entries, order)
<1> SUFFICES ASSUME TypeInv PROVE DirectoryOK(entries, order)
  OBVIOUS
<1>1. Numbers(DOMAIN entries, order)
  BY DEF TypeInv, TypeOK, OrderNumbersKeys, Numbers
<1>2. \A k \in DOMAIN entries : entries[k] \in Entries
  BY DEF TypeInv, TypeOK
<1>3. entries = [k \in DOMAIN entries |-> entries[k]]
  BY DEF TypeInv, TypeOK
<1> QED
  BY <1>1, <1>2, <1>3 DEF DirectoryOK, Entries

\* A directory in which nothing but what was there is left keeps its types.
LEMMA DirectoryTypes ==
    ASSUME DirectoryOK(entries', order'), DOMAIN entries' \subseteq Keys,
           \A k \in DOMAIN entries' : entries'[k] \in Entries
    PROVE  /\ entries' \in [DOMAIN entries' -> Entries]
           /\ OrderNumbersKeys' /\ IsFiniteSet(DOMAIN entries')
<1>1. /\ entries' = [k \in DOMAIN entries' |-> entries'[k]]
      /\ Numbers(DOMAIN entries', order')
  BY DEF DirectoryOK
<1> QED
  BY <1>1 DEF Numbers, OrderNumbersKeys

LEMMA BecomeTypes ==
    ASSUME TypeInv, NEW gone, Become(entries, order, gone)
    PROVE  /\ DOMAIN entries' = DOMAIN entries \ gone
           /\ \A k \in DOMAIN entries \ gone : entries'[k] = entries[k]
           /\ DOMAIN entries' \subseteq Keys /\ entries' \in [DOMAIN entries' -> Entries]
           /\ OrderNumbersKeys' /\ IsFiniteSet(DOMAIN entries')
<1>1. /\ DOMAIN entries' = DOMAIN entries \ gone
      /\ \A k \in DOMAIN entries \ gone : entries'[k] = entries[k]
      /\ DirectoryOK(entries', order')
  BY TypeInvDirectory, BecomeKeeps
<1>2. /\ DOMAIN entries' \subseteq Keys
      /\ \A k \in DOMAIN entries' : entries'[k] \in Entries
  BY <1>1 DEF TypeInv, TypeOK
<1> QED
  BY <1>1, <1>2, DirectoryTypes

\* What a registration does to the entries.
LEMMA InsertTypes ==
    ASSUME TypeInv, NEW k \in Keys, NEW entry \in Entries, Insert(k, entry)
    PROVE  LET es == Inserted(k, entry)
               V == Victims(es, InsertedOrder(k), k.tier)
           IN  /\ DirectoryOK(es, InsertedOrder(k))
               /\ DOMAIN es = DOMAIN entries \cup {k} /\ es[k] = entry
               /\ \A j \in DOMAIN entries \ {k} : es[j] = entries[j]
               /\ DOMAIN entries' = DOMAIN es \ V
               /\ \A j \in DOMAIN es \ V : entries'[j] = es[j]
               /\ DOMAIN entries' \subseteq Keys /\ entries' \in [DOMAIN entries' -> Entries]
               /\ OrderNumbersKeys' /\ IsFiniteSet(DOMAIN entries')
<1> DEFINE es == Inserted(k, entry)
           V == Victims(es, InsertedOrder(k), k.tier)
<1>1. entry.size_bytes \in Nat /\ entry.last_access \in Int /\ entry.created_at \in Int
  BY DEF Entries
<1>2. /\ DirectoryOK(es, InsertedOrder(k))
      /\ DOMAIN es = DOMAIN entries \cup {k} /\ es[k] = entry
      /\ \A j \in DOMAIN entries \ {k} : es[j] = entries[j]
  BY <1>1, TypeInvDirectory, InsertKeeps, ZenonT(60)
<1>3. Become(es, InsertedOrder(k), V)
  BY DEF Insert, Inserted, InsertedOrder
<1> HIDE DEF es, V
<1>4. /\ DOMAIN entries' = DOMAIN es \ V
      /\ \A j \in DOMAIN es \ V : entries'[j] = es[j]
      /\ DirectoryOK(entries', order')
  BY <1>2, <1>3, BecomeKeeps
<1>5. /\ DOMAIN entries' \subseteq Keys
      /\ \A j \in DOMAIN entries' : entries'[j] \in Entries
  BY <1>2, <1>4 DEF TypeInv, TypeOK
<1>6. entries' \in [DOMAIN entries' -> Entries] /\ OrderNumbersKeys' /\ IsFiniteSet(DOMAIN entries')
  BY <1>4, <1>5, DirectoryTypes
<1> QED
  BY <1>2, <1>4, <1>5, <1>6 DEF es, V

LEMMA InitTypes == Init => TypeInv
<1> SUFFICES ASSUME Init PROVE TypeInv
  OBVIOUS
<1>1. DOMAIN entries = {} /\ DOMAIN order = {}
  BY DEF Init, DirectoryInit
<1>2. IsFiniteSet({}) /\ Cardinality({}) = 0
  BY FS_EmptySet
<1>3. /\ entries \in [DOMAIN entries -> Entries]
      /\ order \in [DOMAIN entries -> 0 .. (Cardinality(DOMAIN entries) - 1)]
  BY <1>1 DEF Init, DirectoryInit
<1> QED
  BY <1>1, <1>2, <1>3 DEF TypeInv, TypeOK, OrderNumbersKeys, Init

\* The entry a registration is about to insert.
LEMMA NewEntryType ==
    ASSUME NEW layout \in Layouts, NEW tokens \in TokenCounts, NEW now \in Nat,
           NEW ttl \in TTLs
    PROVE  /\ NewEntry(layout, tokens, now, ttl) \in Entries
           /\ NewEntry(layout, tokens, now, ttl).lease_count = 0
<1>1. tokens \in Nat /\ layout.kv_bytes_per_token \in Nat /\ ttl \in Nat
  BY InputsAssumption
<1>2. tokens * layout.kv_bytes_per_token \in Nat /\ now + ttl \in Int
  BY <1>1
<1> QED
  BY <1>1, <1>2 DEF NewEntry, Entries

LEMMA NextTypes == TypeInv /\ [Next]_vars => TypeInv'
<1> SUFFICES ASSUME TypeInv, [Next]_vars PROVE TypeInv'
  OBVIOUS
<1> USE DEF TypeInv, TypeOK
<1>1. CASE UNCHANGED vars
  BY <1>1 DEF vars, directory, OrderNumbersKeys
<1>2. CASE Tick
  BY <1>2 DEF Tick, directory, OrderNumbersKeys
<1>3. CASE ListEntries
  <2>1. Become(entries, order, Expired(clock))
    BY <1>3 DEF ListEntries, EvictExpired
  <2> QED
    BY <1>3, <2>1, BecomeTypes DEF ListEntries
<1>4. ASSUME NEW c \in Clients, StartRegister(c) PROVE TypeInv'
  BY <1>4, NewEntryType DEF StartRegister, directory, OrderNumbersKeys
<1>5. ASSUME NEW c \in Clients, Register(c) PROVE TypeInv'
  <2>1. /\ pending[c].key \in Keys /\ pending[c].entry \in Entries
        /\ Insert(pending[c].key, pending[c].entry)
    BY <1>5 DEF Register, NoCall
  <2>2. /\ DOMAIN entries' \subseteq Keys /\ entries' \in [DOMAIN entries' -> Entries]
        /\ OrderNumbersKeys' /\ IsFiniteSet(DOMAIN entries')
    BY <2>1, InsertTypes
  <2> QED
    BY <1>5, <2>2 DEF Register
<1>6. ASSUME NEW c \in Clients, StartLookup(c) PROVE TypeInv'
  BY <1>6 DEF StartLookup, directory, OrderNumbersKeys
<1>7. ASSUME NEW c \in Clients, Lookup(c) PROVE TypeInv'
  <2>1. Become(entries, order, Expired(pending[c].now))
    BY <1>7 DEF Lookup, EvictExpired
  <2>2. found' \in [Clients -> SUBSET Keys]
    BY <1>7 DEF Lookup, Matches
  <2> QED
    BY <1>7, <2>1, <2>2, BecomeTypes DEF Lookup
<1>8. ASSUME NEW c \in Clients, NEW k \in Keys, Lease(c, k) PROVE TypeInv'
  <2>1. CASE k \in DOMAIN entries
    <3> DEFINE e == [entries[k] EXCEPT !.lease_count = @ + 1, !.last_access = clock]
    <3>1. /\ entries' = [entries EXCEPT ![k] = e]
          /\ order' = order
      <4>1. entries' = [entries EXCEPT ![k].lease_count = @ + 1, ![k].last_access = clock]
        BY <1>8, <2>1 DEF Lease, AcquireLease
      <4>2. [entries EXCEPT ![k].lease_count = @ + 1, ![k].last_access = clock]
              = [entries EXCEPT ![k] = e]
        BY <2>1
      <4> QED
        BY <1>8, <2>1, <4>1, <4>2 DEF Lease, AcquireLease
    <3>2. DOMAIN entries' = DOMAIN entries /\ entries' \in [DOMAIN entries -> Entries]
      <4>1. [entries[k] EXCEPT !.lease_count = @ + 1] \in Entries
        BY <2>1 DEF Entries
      <4>2. \A f \in Entries : [f EXCEPT !.last_access = clock] \in Entries
        BY DEF Entries
      <4>3. e \in Entries
        BY <4>1, <4>2, Zenon
      <4> QED
        BY <2>1, <3>1, <4>3
    <3>3. OrderNumbersKeys' /\ found' \in [Clients -> SUBSET Keys] /\ held' \in [Clients -> SUBSET Keys]
      BY <1>8, <2>1, <3>1, <3>2 DEF Lease, OrderNumbersKeys
    <3> QED
      BY <1>8, <2>1, <3>1, <3>2, <3>3 DEF Lease
  <2>2. CASE k \notin DOMAIN entries
    BY <1>8, <2>2 DEF Lease, directory, OrderNumbersKeys
  <2> QED
    BY <2>1, <2>2
<1>9. ASSUME NEW c \in Clients, NEW k \in Keys, Unlease(c, k) PROVE TypeInv'
  <2>1. CASE k \in DOMAIN entries
    <3> DEFINE e == [entries[k] EXCEPT !.lease_count = IF @ > 0 THEN @ - 1 ELSE 0]
    <3>1. /\ entries' = [entries EXCEPT ![k] = e]
          /\ order' = order
      BY <1>9, <2>1 DEF Unlease, ReleaseLease
    <3>2. DOMAIN entries' = DOMAIN entries /\ entries' \in [DOMAIN entries -> Entries]
      <4>1. e \in Entries
        BY <2>1 DEF Entries
      <4> QED
        BY <2>1, <3>1, <4>1
    <3>3. OrderNumbersKeys' /\ found' \in [Clients -> SUBSET Keys] /\ held' \in [Clients -> SUBSET Keys]
      BY <1>9, <2>1, <3>1, <3>2 DEF Unlease, OrderNumbersKeys
    <3> QED
      BY <1>9, <2>1, <3>1, <3>2, <3>3 DEF Unlease
  <2>2. CASE k \notin DOMAIN entries
    BY <1>9, <2>2 DEF Unlease, directory, OrderNumbersKeys
  <2> QED
    BY <2>1, <2>2
<1>10. ASSUME NEW l \in Locations, Fence(l) PROVE TypeInv'
  <2>1. Become(entries, order, LocatedAt(l))
    BY <1>10 DEF Fence, RemoveLocation
  <2> QED
    BY <1>10, <2>1, BecomeTypes DEF Fence
<1> QED
  BY <1>1, <1>2, <1>3, <1>4, <1>5, <1>6, <1>7, <1>8, <1>9, <1>10 DEF Next

LEMMA TypeInvariant == Spec => []TypeInv
BY InitTypes, NextTypes, PTL DEF Spec

\* The directory's variables keep the shape the code gives them, and the dict
\* its order (cache.py:42-147).
THEOREM DirectoryTypeCorrect == Spec => []TypeOK
<1>1. TypeInv => TypeOK
  BY DEF TypeInv
<1> QED
  BY <1>1, TypeInvariant, PTL

-----------------------------------------------------------------------------
(* Leases.  Both invariants are about the number of holders, so they need   *)
(* it to be a number; and LeaseProtects needs NoOrphanLease, for the first  *)
(* lease on an entry must find no count on it.                              *)

HoldersFinite == \A k \in Keys : IsFiniteSet(Holders(k))

LeaseInv == TypeInv /\ HoldersFinite /\ NoOrphanLease /\ LeaseProtects

LEMMA HoldersNumber ==
    ASSUME HoldersFinite, NEW k \in Keys
    PROVE  /\ Cardinality(Holders(k)) \in Nat
           /\ Cardinality(Holders(k)) = 0 <=> Holders(k) = {}
BY FS_CardinalityType, FS_EmptySet DEF HoldersFinite

LEMMA LeaseCountType ==
    ASSUME TypeInv, NEW k \in DOMAIN entries
    PROVE  k \in Keys /\ entries[k].lease_count \in Nat /\ entries[k].size_bytes \in Nat
BY DEF TypeInv, TypeOK, Entries

\* A step that leaves the holders alone, gives no entry a lease, and takes
\* none from an entry with holders unless it says so.
LEMMA LeasesLeft ==
    ASSUME LeaseInv, TypeInv', held' = held,
           \A k \in DOMAIN entries' :
             \/ entries'[k].lease_count = 0
             \/ k \in DOMAIN entries /\ entries'[k].lease_count = entries[k].lease_count,
           disturbed => disturbed',
           ~ disturbed' => \A k \in DOMAIN entries :
             entries[k].lease_count > 0 /\ Holders(k) # {} =>
               k \in DOMAIN entries' /\ entries'[k].lease_count = entries[k].lease_count
    PROVE  LeaseInv'
<1>1. \A k : Holders(k)' = Holders(k)
  BY DEF Holders
<1>2. HoldersFinite'
  BY <1>1 DEF LeaseInv, HoldersFinite
<1>3. ASSUME NEW k \in DOMAIN entries' PROVE entries'[k].lease_count <= Cardinality(Holders(k))
  <2>1. k \in Keys
    BY DEF TypeInv, TypeOK
  <2>2. Cardinality(Holders(k)) \in Nat
    BY <2>1, HoldersNumber DEF LeaseInv
  <2>3. CASE entries'[k].lease_count = 0
    BY <2>2, <2>3
  <2>4. CASE k \in DOMAIN entries /\ entries'[k].lease_count = entries[k].lease_count
    BY <2>4 DEF LeaseInv, NoOrphanLease
  <2> QED
    BY <2>3, <2>4
<1>4. NoOrphanLease'
  BY <1>1, <1>3 DEF NoOrphanLease
<1>5. ASSUME ~ disturbed', NEW k \in Keys, Holders(k) # {}
      PROVE  k \in DOMAIN entries' /\ entries'[k].lease_count = Cardinality(Holders(k))
  <2>1. k \in DOMAIN entries /\ entries[k].lease_count = Cardinality(Holders(k))
    BY <1>5 DEF LeaseInv, LeaseProtects
  <2>2. entries[k].lease_count > 0
    BY <1>5, <2>1, HoldersNumber DEF LeaseInv
  <2> QED
    BY <1>5, <2>1, <2>2
<1>6. LeaseProtects'
  BY <1>1, <1>5 DEF LeaseProtects
<1> QED
  BY <1>2, <1>4, <1>6 DEF LeaseInv

LEMMA InitLeases == Init => LeaseInv
<1> SUFFICES ASSUME Init PROVE LeaseInv
  OBVIOUS
<1>1. \A k : Holders(k) = {}
  BY DEF Init, Holders
<1>2. DOMAIN entries = {}
  BY DEF Init, DirectoryInit
<1> QED
  BY <1>1, <1>2, InitTypes, FS_EmptySet
  DEF LeaseInv, HoldersFinite, NoOrphanLease, LeaseProtects

\* A new lease: one holder more, and one more in the count.
LEMMA LeaseTaken ==
    ASSUME LeaseInv, TypeInv', NEW c \in Clients, NEW k \in Keys, Lease(c, k)
    PROVE  LeaseInv'
<1>1. CASE k \notin DOMAIN entries
  BY <1>1, LeasesLeft DEF Lease, directory
<1>2. CASE k \in DOMAIN entries
  <2>1. /\ k \notin held[c] /\ held' = [held EXCEPT ![c] = @ \cup {k}]
        /\ disturbed' = disturbed
        /\ entries' = [entries EXCEPT ![k].lease_count = @ + 1, ![k].last_access = clock]
    BY <1>2 DEF Lease, AcquireLease
  <2>2. /\ c \notin Holders(k) /\ Holders(k)' = Holders(k) \cup {c}
        /\ \A j \in Keys \ {k} : Holders(j)' = Holders(j)
    BY <2>1 DEF Holders, LeaseInv, TypeInv, TypeOK
  <2>3. /\ DOMAIN entries' = DOMAIN entries
        /\ entries'[k].lease_count = entries[k].lease_count + 1
        /\ \A j \in DOMAIN entries \ {k} : entries'[j] = entries[j]
    BY <1>2, <2>1 DEF LeaseInv, TypeInv, TypeOK, Entries
  <2>4. /\ IsFiniteSet(Holders(k)')
        /\ Cardinality(Holders(k)') = Cardinality(Holders(k)) + 1
    BY <2>2, FS_AddElement DEF LeaseInv, HoldersFinite
  <2>5. /\ Cardinality(Holders(k)) \in Nat /\ entries[k].lease_count \in Nat
        /\ Cardinality(Holders(k)) = 0 <=> Holders(k) = {}
    BY <1>2, HoldersNumber, LeaseCountType DEF LeaseInv
  <2>6. entries[k].lease_count <= Cardinality(Holders(k))
    BY <1>2 DEF LeaseInv, NoOrphanLease
  <2>7. ~ disturbed => entries[k].lease_count = Cardinality(Holders(k))
    BY <2>5, <2>6 DEF LeaseInv, LeaseProtects
  <2>8. HoldersFinite'
    BY <2>2, <2>4 DEF LeaseInv, HoldersFinite
  <2>9. NoOrphanLease'
    <3> SUFFICES ASSUME NEW j \in DOMAIN entries
                 PROVE  entries'[j].lease_count <= Cardinality(Holders(j)')
      BY <2>3 DEF NoOrphanLease
    <3>1. CASE j = k
      BY <2>3, <2>4, <2>5, <2>6, <3>1
    <3>2. CASE j # k
      BY <2>2, <2>3, <3>2, LeaseCountType DEF LeaseInv, NoOrphanLease
    <3> QED
      BY <3>1, <3>2
  <2>10. LeaseProtects'
    <3> SUFFICES ASSUME ~ disturbed, NEW j \in Keys, Holders(j)' # {}
                 PROVE  /\ j \in DOMAIN entries
                        /\ entries'[j].lease_count = Cardinality(Holders(j)')
      BY <2>1, <2>3 DEF LeaseProtects
    <3>1. CASE j = k
      BY <1>2, <2>3, <2>4, <2>7, <3>1
    <3>2. CASE j # k
      BY <2>2, <2>3, <3>2 DEF LeaseInv, LeaseProtects
    <3> QED
      BY <3>1, <3>2
  <2> QED
    BY <2>8, <2>9, <2>10 DEF LeaseInv
<1> QED
  BY <1>1, <1>2

\* A lease given back: one holder less, and one less in the count if any.
LEMMA LeaseGivenBack ==
    ASSUME LeaseInv, TypeInv', NEW c \in Clients, NEW k \in Keys, Unlease(c, k)
    PROVE  LeaseInv'
<1> DEFINE n == entries[k].lease_count
<1>1. /\ k \in held[c] /\ held' = [held EXCEPT ![c] = @ \ {k}]
      /\ disturbed' = disturbed
      /\ IF k \in DOMAIN entries
         THEN entries' = [entries EXCEPT ![k].lease_count = IF @ > 0 THEN @ - 1 ELSE 0]
         ELSE entries' = entries
  BY DEF Unlease, ReleaseLease, directory
<1>2. /\ c \in Holders(k) /\ Holders(k)' = Holders(k) \ {c}
      /\ \A j \in Keys \ {k} : Holders(j)' = Holders(j)
  BY <1>1 DEF Holders, LeaseInv, TypeInv, TypeOK
<1>3. /\ DOMAIN entries' = DOMAIN entries
      /\ \A j \in DOMAIN entries \ {k} : entries'[j] = entries[j]
      /\ k \in DOMAIN entries => entries'[k].lease_count = IF n > 0 THEN n - 1 ELSE 0
  BY <1>1 DEF LeaseInv, TypeInv, TypeOK, Entries
<1>4. /\ IsFiniteSet(Holders(k)')
      /\ Cardinality(Holders(k)') = Cardinality(Holders(k)) - 1
  BY <1>2, FS_RemoveElement DEF LeaseInv, HoldersFinite
<1>5. HoldersFinite'
  BY <1>2, <1>4 DEF LeaseInv, HoldersFinite
<1>6. /\ Cardinality(Holders(k)) \in Nat /\ Cardinality(Holders(k)) # 0
      /\ Cardinality(Holders(k)') \in Nat
      /\ Cardinality(Holders(k)') = 0 <=> Holders(k)' = {}
  BY <1>2, <1>4, HoldersNumber, FS_CardinalityType, FS_EmptySet DEF LeaseInv
<1>7. k \in DOMAIN entries => n \in Nat /\ n <= Cardinality(Holders(k))
  BY LeaseCountType DEF LeaseInv, NoOrphanLease
<1>8. NoOrphanLease'
  <2> SUFFICES ASSUME NEW j \in DOMAIN entries
               PROVE  entries'[j].lease_count <= Cardinality(Holders(j)')
    BY <1>3 DEF NoOrphanLease
  <2>1. CASE j = k
    BY <1>3, <1>4, <1>6, <1>7, <2>1
  <2>2. CASE j # k
    BY <1>2, <1>3, <2>2, LeaseCountType DEF LeaseInv, NoOrphanLease
  <2> QED
    BY <2>1, <2>2
<1>9. LeaseProtects'
  <2> SUFFICES ASSUME ~ disturbed, NEW j \in Keys, Holders(j)' # {}
               PROVE  /\ j \in DOMAIN entries
                      /\ entries'[j].lease_count = Cardinality(Holders(j)')
    BY <1>1, <1>3 DEF LeaseProtects
  <2>1. CASE j = k
    <3>1. k \in DOMAIN entries /\ n = Cardinality(Holders(k))
      BY <1>2 DEF LeaseInv, LeaseProtects
    <3> QED
      BY <1>3, <1>4, <1>6, <2>1, <3>1
  <2>2. CASE j # k
    BY <1>2, <1>3, <2>2 DEF LeaseInv, LeaseProtects
  <2> QED
    BY <2>1, <2>2
<1> QED
  BY <1>5, <1>8, <1>9 DEF LeaseInv

LEMMA NextLeases == LeaseInv /\ [Next]_vars => LeaseInv'
<1> SUFFICES ASSUME LeaseInv, [Next]_vars PROVE LeaseInv'
  OBVIOUS
<1>1. TypeInv /\ TypeInv'
  BY NextTypes DEF LeaseInv
<1>2. ASSUME held' = held, entries' = entries, disturbed' = disturbed PROVE LeaseInv'
  BY <1>1, <1>2, LeasesLeft
<1>3. ASSUME NEW gone, Become(entries, order, gone), held' = held,
             disturbed => disturbed',
             ~ disturbed' => \A k \in DOMAIN entries \cap gone :
                               entries[k].lease_count > 0 => Holders(k) = {}
      PROVE  LeaseInv'
  <2>1. /\ DOMAIN entries' = DOMAIN entries \ gone
        /\ \A k \in DOMAIN entries \ gone : entries'[k] = entries[k]
    BY <1>1, <1>3, BecomeTypes
  <2> QED
    BY <1>1, <1>3, <2>1, LeasesLeft
<1>4. CASE UNCHANGED vars \/ Tick
  BY <1>2, <1>4 DEF vars, directory, Tick
<1>5. CASE ListEntries
  BY <1>3, <1>5 DEF ListEntries, EvictExpired, Expired, Unleased
<1>6. ASSUME NEW c \in Clients, StartRegister(c) \/ StartLookup(c) PROVE LeaseInv'
  BY <1>2, <1>6 DEF StartRegister, StartLookup, directory
<1>7. ASSUME NEW c \in Clients, Register(c) PROVE LeaseInv'
  <2> DEFINE k == pending[c].key
             entry == pending[c].entry
             es == Inserted(k, entry)
             V == Victims(es, InsertedOrder(k), k.tier)
  <2>1. /\ k \in Keys /\ entry \in Entries /\ entry.lease_count = 0
        /\ Insert(k, entry) /\ held' = held
        /\ disturbed' = (disturbed \/ Holders(k) # {})
    BY <1>1, <1>7 DEF Register, NoCall, TypeInv, TypeOK
  <2>2. /\ DOMAIN es = DOMAIN entries \cup {k} /\ es[k] = entry
        /\ \A j \in DOMAIN entries \ {k} : es[j] = entries[j]
        /\ DOMAIN entries' = DOMAIN es \ V
        /\ \A j \in DOMAIN es \ V : entries'[j] = es[j]
    BY <1>1, <2>1, InsertTypes, ZenonT(60)
  <2>3. \A j \in V : j \in DOMAIN es /\ es[j].lease_count = 0
    BY DEF Victims, Unleased
  <2> HIDE DEF es, V, k, entry
  <2>4. ASSUME NEW j \in DOMAIN entries'
        PROVE  \/ entries'[j].lease_count = 0
               \/ j \in DOMAIN entries /\ entries'[j].lease_count = entries[j].lease_count
    BY <2>1, <2>2
  <2>5. ASSUME ~ disturbed', NEW j \in DOMAIN entries,
               entries[j].lease_count > 0, Holders(j) # {}
        PROVE  j \in DOMAIN entries' /\ entries'[j].lease_count = entries[j].lease_count
    <3>1. j # k
      BY <2>1, <2>5
    <3>2. entries[j].lease_count # 0
      BY <1>1, <2>5, LeaseCountType
    <3> QED
      BY <2>2, <2>3, <3>1, <3>2
  <2> QED
    BY <1>1, <2>1, <2>4, <2>5, LeasesLeft
<1>8. ASSUME NEW c \in Clients, Lookup(c) PROVE LeaseInv'
  BY <1>3, <1>8 DEF Lookup, EvictExpired, Expired, Unleased
<1>9. ASSUME NEW c \in Clients, NEW k \in Keys, Lease(c, k) PROVE LeaseInv'
  BY <1>1, <1>9, LeaseTaken
<1>10. ASSUME NEW c \in Clients, NEW k \in Keys, Unlease(c, k) PROVE LeaseInv'
  BY <1>1, <1>10, LeaseGivenBack
<1>11. ASSUME NEW l \in Locations, Fence(l) PROVE LeaseInv'
  BY <1>3, <1>11 DEF Fence, RemoveLocation
<1> QED
  BY <1>4, <1>5, <1>6, <1>7, <1>8, <1>9, <1>10, <1>11 DEF Next

LEMMA LeaseInvariant == Spec => []LeaseInv
BY InitLeases, NextLeases, PTL DEF Spec

\* However entries are registered again, fenced, expired and released late, no
\* entry counts more leases than it has holders (cache.py:69-72, 92-111).
THEOREM NoLeaseOrphaned == Spec => []NoOrphanLease
<1>1. LeaseInv => NoOrphanLease
  BY DEF LeaseInv
<1> QED
  BY <1>1, LeaseInvariant, PTL

\* As long as nobody registers a leased entry again or fences it, a lease
\* keeps its entry in the directory and is counted (cache.py:92-97, 127-147).
THEOREM LeasesProtect == Spec => []LeaseProtects
<1>1. LeaseInv => LeaseProtects
  BY DEF LeaseInv
<1> QED
  BY <1>1, LeaseInvariant, PTL

-----------------------------------------------------------------------------
(* Capacity                                                                *)

CapacityInv == TypeInv /\ WithinCapacity

LEMMA InitCapacity == Init => CapacityInv
<1> SUFFICES ASSUME Init PROVE WithinCapacity
  BY InitTypes DEF CapacityInv
<1> SUFFICES ASSUME NEW tier \in Tiers PROVE Usage(tier) <= CapacityOf(tier)
  BY DEF WithinCapacity
<1>1. OfTier(entries, tier) = {}
  BY DEF Init, DirectoryInit, OfTier
<1>2. Usage(tier) = 0
  BY <1>1, FS_EmptySet DEF Usage, Bytes, Weight, UnitsOf
<1>3. CapacityOf(tier) \in Nat
  BY CapacitiesAssumption DEF CapacityOf
<1> QED
  BY <1>2, <1>3

LEMMA NextCapacity == CapacityInv /\ [Next]_vars => CapacityInv'
<1> SUFFICES ASSUME CapacityInv, [Next]_vars PROVE WithinCapacity'
  BY NextTypes DEF CapacityInv
<1>1. TypeInv /\ WithinCapacity /\ DirectoryOK(entries, order)
  BY TypeInvDirectory DEF CapacityInv
<1>2. ASSUME entries' = entries PROVE WithinCapacity'
  BY <1>1, <1>2 DEF WithinCapacity, Usage
<1>3. ASSUME NEW gone, Become(entries, order, gone) PROVE WithinCapacity'
  BY <1>1, <1>3, BecomeKeeps, RestFits, ZenonT(60)
<1>4. CASE UNCHANGED vars \/ Tick
  BY <1>2, <1>4 DEF vars, directory, Tick
<1>5. CASE ListEntries
  BY <1>3, <1>5 DEF ListEntries, EvictExpired
<1>6. ASSUME NEW c \in Clients, StartRegister(c) \/ StartLookup(c) PROVE WithinCapacity'
  BY <1>2, <1>6 DEF StartRegister, StartLookup, directory
<1>7. ASSUME NEW c \in Clients, Register(c) PROVE WithinCapacity'
  <2>1. /\ pending[c].entry \in Entries /\ pending[c].entry.lease_count = 0
        /\ Insert(pending[c].key, pending[c].entry)
    BY <1>1, <1>7 DEF Register, NoCall, TypeInv, TypeOK
  <2>2. /\ pending[c].entry.size_bytes \in Nat /\ pending[c].entry.last_access \in Int
        /\ pending[c].entry.created_at \in Int
    BY <2>1 DEF Entries
  <2> QED
    BY <1>1, <2>1, <2>2, InsertFits
<1>8. ASSUME NEW c \in Clients, Lookup(c) PROVE WithinCapacity'
  BY <1>3, <1>8 DEF Lookup, EvictExpired
<1>9. ASSUME NEW c \in Clients, NEW k \in Keys, Lease(c, k) \/ Unlease(c, k)
      PROVE  WithinCapacity'
  <2>1. CASE k \notin DOMAIN entries
    BY <1>2, <1>9, <2>1 DEF Lease, Unlease, directory
  <2>2. CASE k \in DOMAIN entries
    <3>1. AcquireLease(k, clock) \/ ReleaseLease(k)
      BY <1>9, <2>2 DEF Lease, Unlease
    <3>2. /\ DOMAIN entries' = DOMAIN entries
          /\ \A j \in DOMAIN entries : entries'[j].size_bytes = entries[j].size_bytes
      BY <1>1, <3>1, SMTT(60) DEF AcquireLease, ReleaseLease, TypeInv, TypeOK, Entries
    <3> QED
      BY <1>1, <3>2, RestFits
  <2> QED
    BY <2>1, <2>2
<1>10. ASSUME NEW l \in Locations, Fence(l) PROVE WithinCapacity'
  BY <1>3, <1>10 DEF Fence, RemoveLocation
<1> QED
  BY <1>4, <1>5, <1>6, <1>7, <1>8, <1>9, <1>10 DEF Next

\* No tier ever holds more than its capacity, whatever leases pin
\* (cache.py:132-147).
THEOREM CapacityKept == Spec => []WithinCapacity
<1>1. CapacityInv => WithinCapacity
  BY DEF CapacityInv
<1> QED
  BY <1>1, InitCapacity, NextCapacity, PTL DEF Spec

-----------------------------------------------------------------------------
(* What a step may remove                                                  *)

\* Expiry and eviction take no leased entry (cache.py:127-147); only fencing
\* and the registration of the same key do.
THEOREM LeasedRemovedOnPurpose == Spec => LeasedRemovedOnlyOnPurpose
<1>1. TypeInv /\ [Next]_vars =>
        [ \A k \in Removed :
            entries[k].lease_count > 0 =>
              \/ \E l \in Locations : Fence(l)
              \/ \E c \in Clients : Register(c) /\ pending[c].key = k ]_vars
  <2> SUFFICES ASSUME TypeInv, Next, NEW k \in Removed, entries[k].lease_count > 0,
                      ~ \E l \in Locations : Fence(l)
               PROVE  \E c \in Clients : Register(c) /\ pending[c].key = k
    OBVIOUS
  <2>1. k \in DOMAIN entries /\ k \notin DOMAIN entries' /\ entries[k].lease_count # 0
    BY LeaseCountType DEF Removed
  <2>2. ASSUME NEW now, EvictExpired(now) PROVE FALSE
    <3>1. k \notin Expired(now)
      BY <2>1 DEF Expired, Unleased
    <3> QED
      BY <2>1, <2>2, <3>1, BecomeTypes DEF EvictExpired
  <2>3. CASE Tick
    BY <2>1, <2>3 DEF Tick, directory
  <2>4. CASE ListEntries
    BY <2>2, <2>4 DEF ListEntries
  <2>5. ASSUME NEW c \in Clients, StartRegister(c) \/ StartLookup(c) PROVE FALSE
    BY <2>1, <2>5 DEF StartRegister, StartLookup, directory
  <2>6. ASSUME NEW c \in Clients, Register(c) PROVE pending[c].key = k
    <3> DEFINE new == pending[c].key
               es == Inserted(new, pending[c].entry)
               V == Victims(es, InsertedOrder(new), new.tier)
    <3>1. new \in Keys /\ pending[c].entry \in Entries /\ Insert(new, pending[c].entry)
      BY <2>6 DEF Register, NoCall, TypeInv, TypeOK
    <3>2. /\ DOMAIN es = DOMAIN entries \cup {new}
          /\ \A j \in DOMAIN entries \ {new} : es[j] = entries[j]
          /\ DOMAIN entries' = DOMAIN es \ V
      BY <3>1, InsertTypes, ZenonT(60)
    <3>3. \A j \in V : es[j].lease_count = 0
      BY DEF Victims, Unleased
    <3> HIDE DEF es, V, new
    <3>4. k = new
      BY <2>1, <3>2, <3>3
    <3> QED
      BY <3>4 DEF new
  <2>7. ASSUME NEW c \in Clients, Lookup(c) PROVE FALSE
    BY <2>2, <2>7 DEF Lookup
  <2>8. ASSUME NEW c \in Clients, NEW j \in Keys, Lease(c, j) \/ Unlease(c, j) PROVE FALSE
    <3>1. DOMAIN entries' = DOMAIN entries
      BY <2>8 DEF Lease, Unlease, AcquireLease, ReleaseLease, directory
    <3> QED
      BY <2>1, <3>1
  <2> QED
    BY <2>3, <2>4, <2>5, <2>6, <2>7, <2>8 DEF Next
<1> QED
  BY <1>1, TypeInvariant, PTL DEF Spec, LeasedRemovedOnlyOnPurpose

\* What the property says, of the step that registers.
LEMMA RegisterEvictsLRU ==
    ASSUME TypeInv, NEW c \in Clients, Register(c)
    PROVE  LET new == pending[c].key
               gone == {k \in Removed : k # new}
               recency(k) == entries[k].last_access
           IN  \A v \in gone :
                 /\ \A k \in DOMAIN entries \ {new} :
                      k.tier = new.tier /\ Survives(k) => recency(v) <= recency(k)
                 /\ (\A k \in gone : recency(k) <= recency(v)) /\ new \in DOMAIN entries'
                      => \E k \in gone :
                           /\ recency(k) = recency(v)
                           /\ Bytes(entries', OfTier(entries', new.tier)) + entries[k].size_bytes
                                > CapacityOf(new.tier)
<1> DEFINE new == pending[c].key
           gone == {k \in Removed : k # new}
           recency(k) == entries[k].last_access
           ord == InsertedOrder(new)
           es == Inserted(new, pending[c].entry)
           tier == new.tier
           V == Victims(es, ord, tier)
           all == OfTier(es, tier)
<1>1. new \in Keys /\ pending[c].entry \in Entries /\ Insert(new, pending[c].entry)
  BY DEF Register, NoCall, TypeInv, TypeOK
<1>2. /\ DirectoryOK(es, ord)
      /\ DOMAIN es = DOMAIN entries \cup {new}
      /\ \A j \in DOMAIN entries \ {new} : es[j] = entries[j]
      /\ DOMAIN entries' = DOMAIN es \ V
      /\ \A j \in DOMAIN es \ V : entries'[j] = es[j]
  BY <1>1, InsertTypes, SMTT(60)
<1>3. V \subseteq DOMAIN es
  BY DEF Victims, OfTier
<1> HIDE DEF V, es, ord, new
<1>4. gone = V \ {new}
  BY <1>2, <1>3 DEF Removed
<1> SUFFICES ASSUME NEW v \in gone
             PROVE  /\ \A k \in DOMAIN entries \ {new} :
                         k.tier = new.tier /\ Survives(k) => recency(v) <= recency(k)
                    /\ (\A k \in gone : recency(k) <= recency(v)) /\ new \in DOMAIN entries'
                         => \E k \in gone :
                              /\ recency(k) = recency(v)
                              /\ Bytes(entries', OfTier(entries', tier)) + entries[k].size_bytes
                                   > CapacityOf(tier)
  BY DEF new
<1>5. v \in V /\ v \in DOMAIN entries \ {new} /\ es[v] = entries[v]
  BY <1>2, <1>3, <1>4
<1>6. /\ \A k \in Candidates(es, tier) \ V : es[v].last_access <= es[k].last_access
      /\ \E m \in V :
           /\ \A k \in V : es[k].last_access <= es[m].last_access
           /\ Bytes(es, all \ V) + es[m].size_bytes > CapacityOf(tier)
  BY <1>2, <1>5, VictimsAreLeastRecent DEF V
<1>7. ASSUME NEW k \in DOMAIN entries \ {new}, k.tier = tier, Survives(k)
      PROVE  recency(v) <= recency(k)
  <2>1. k \in DOMAIN es \ V /\ entries'[k] = es[k] /\ es[k] = entries[k]
    BY <1>2, <1>7 DEF Survives
  <2>2. k \in Candidates(es, tier)
    BY <1>7, <2>1 DEF Survives, Candidates, OfTier, Unleased
  <2> QED
    BY <1>5, <1>6, <2>1, <2>2
<1>8. ASSUME \A k \in gone : recency(k) <= recency(v), new \in DOMAIN entries'
      PROVE  \E k \in gone :
               /\ recency(k) = recency(v)
               /\ Bytes(entries', OfTier(entries', tier)) + entries[k].size_bytes
                    > CapacityOf(tier)
  <2>1. PICK m \in V : /\ \A k \in V : es[k].last_access <= es[m].last_access
                       /\ Bytes(es, all \ V) + es[m].size_bytes > CapacityOf(tier)
    BY <1>6
  <2>2. gone = V
    BY <1>2, <1>4, <1>8
  <2>3. m \in gone /\ m \in DOMAIN entries /\ es[m] = entries[m]
    BY <1>2, <1>3, <1>4, <2>2
  <2>4. recency(m) = recency(v)
    <3>1. recency(m) <= recency(v) /\ recency(v) <= recency(m)
      BY <1>5, <1>8, <2>1, <2>3
    <3>2. recency(m) \in Int /\ recency(v) \in Int
      BY <1>5, <2>3 DEF TypeInv, TypeOK, Entries
    <3> QED
      BY <3>1, <3>2
  <2>5. Bytes(entries', OfTier(entries', tier)) = Bytes(es, all \ V)
    <3>1. OfTier(entries', tier) = all \ V
      BY <1>2 DEF OfTier
    <3>2. \A k \in all \ V : entries'[k].size_bytes = es[k].size_bytes
      BY <1>2 DEF OfTier
    <3> QED
      BY <3>1, <3>2, SameBytes
  <2> QED
    BY <2>1, <2>3, <2>4, <2>5
<1> QED
  BY <1>7, <1>8

\* A registration evicts in LRU order, and the last entry it evicts would not
\* fit beside those that stay (cache.py:132-147).
THEOREM EvictsLRU == Spec => EvictionIsLRU
<1>1. TypeInv /\ [Next]_vars =>
        [ \A c \in Clients : pending[c].op = "register" /\ pending'[c] = NoCall =>
            LET new == pending[c].key
                gone == {k \in Removed : k # new}
                recency(k) == entries[k].last_access
            IN  \A v \in gone :
                  /\ \A k \in DOMAIN entries \ {new} :
                       k.tier = new.tier /\ Survives(k) => recency(v) <= recency(k)
                  /\ (\A k \in gone : recency(k) <= recency(v)) /\ new \in DOMAIN entries'
                       => \E k \in gone :
                            /\ recency(k) = recency(v)
                            /\ Bytes(entries', OfTier(entries', new.tier)) + entries[k].size_bytes
                                 > CapacityOf(new.tier) ]_vars
  <2> SUFFICES ASSUME TypeInv, Next, NEW c \in Clients,
                      pending[c].op = "register", pending'[c] = NoCall
               PROVE  Register(c)
    BY RegisterEvictsLRU
  <2> USE DEF TypeInv, TypeOK, NoCall
  <2>1. pending' # pending
    OBVIOUS
  <2>2. ASSUME NEW d \in Clients, StartRegister(d) PROVE FALSE
    BY <2>2 DEF StartRegister
  <2>3. ASSUME NEW d \in Clients, StartLookup(d) PROVE FALSE
    BY <2>3 DEF StartLookup
  <2>4. ASSUME NEW d \in Clients, Lookup(d) PROVE FALSE
    BY <2>4 DEF Lookup
  <2>5. ASSUME NEW d \in Clients, Register(d) PROVE d = c
    BY <2>5 DEF Register
  <2> QED
    BY <2>1, <2>2, <2>3, <2>4, <2>5 DEF Next, Tick, ListEntries, Lease, Unlease, Fence
<1> QED
  BY <1>1, TypeInvariant, PTL DEF Spec, EvictionIsLRU
=============================================================================
