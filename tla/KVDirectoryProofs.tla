-------------------------- MODULE KVDirectoryProofs --------------------------
(***************************************************************************)
(* Lemmas about the operations of the KV directory, for any capacities and *)
(* any entries: the numbering of the dict, and what eviction leaves.       *)
(***************************************************************************)
EXTENDS KVDirectory, WeightsProofs

-----------------------------------------------------------------------------
(* The numbering of the dict                                               *)

\* ord numbers the finitely many keys of D.
Numbers(D, ord) ==
    /\ IsFiniteSet(D)
    /\ ord \in [D -> 0 .. (Cardinality(D) - 1)]
    /\ \A j, k \in D : ord[j] = ord[k] => j = k

\* The number of a key in what is kept.
Rank(kept, ord, k) == Cardinality({j \in kept : ord[j] < ord[k]})

\* A key that comes before another keeps doing so.
LEMMA RankGrows ==
    ASSUME NEW kept, IsFiniteSet(kept), NEW ord, \A k \in kept : ord[k] \in Int,
           NEW j \in kept, NEW k \in kept, ord[j] < ord[k]
    PROVE  Rank(kept, ord, j) \in Nat /\ Rank(kept, ord, j) < Rank(kept, ord, k)
<1> DEFINE A == {i \in kept : ord[i] < ord[j]}
           B == {i \in kept : ord[i] < ord[k]}
<1>1. A \subseteq B \ {j} /\ j \in B
  OBVIOUS
<1>2. IsFiniteSet(A) /\ IsFiniteSet(B)
  BY FS_Subset
<1>3. /\ IsFiniteSet(B \ {j})
      /\ Cardinality(B \ {j}) = Cardinality(B) - 1
  BY <1>1, <1>2, FS_RemoveElement
<1>4. Cardinality(A) <= Cardinality(B \ {j})
  BY <1>1, <1>3, FS_Subset
<1>5. Cardinality(A) \in Nat /\ Cardinality(B) \in Nat
  BY <1>2, FS_CardinalityType
<1> QED
  BY <1>3, <1>4, <1>5 DEF Rank

\* Taking keys away and renumbering the rest numbers the rest.
LEMMA RestNumbered ==
    ASSUME NEW D, NEW ord, Numbers(D, ord), NEW kept \in SUBSET D
    PROVE  Numbers(kept, [k \in kept |-> Rank(kept, ord, k)])
<1> DEFINE rank == [k \in kept |-> Rank(kept, ord, k)]
<1>1. IsFiniteSet(kept) /\ \A k \in kept : ord[k] \in Int
  BY FS_Subset DEF Numbers
<1>2. ASSUME NEW k \in kept PROVE Rank(kept, ord, k) \in 0 .. (Cardinality(kept) - 1)
  <2> DEFINE B == {j \in kept : ord[j] < ord[k]}
  <2>1. B \subseteq kept \ {k}
    BY <1>1
  <2>2. IsFiniteSet(kept \ {k}) /\ Cardinality(kept \ {k}) = Cardinality(kept) - 1
    BY <1>1, FS_RemoveElement
  <2>3. IsFiniteSet(B) /\ Cardinality(B) <= Cardinality(kept \ {k})
    BY <2>1, <2>2, FS_Subset
  <2>4. Cardinality(B) \in Nat /\ Cardinality(kept) \in Nat
    BY <1>1, <2>3, FS_CardinalityType
  <2> QED
    BY <2>2, <2>3, <2>4 DEF Rank
<1>3. ASSUME NEW j \in kept, NEW k \in kept, rank[j] = rank[k] PROVE j = k
  <2>1. ~ (ord[j] < ord[k])
    BY <1>1, <1>2, <1>3, RankGrows
  <2>2. ~ (ord[k] < ord[j])
    BY <1>1, <1>2, <1>3, RankGrows
  <2>3. ord[j] = ord[k]
    BY <1>1, <2>1, <2>2
  <2> QED
    BY <2>3 DEF Numbers
<1> QED
  BY <1>1, <1>2, <1>3 DEF Numbers

\* A key that is new comes last.
LEMMA OneMoreNumbered ==
    ASSUME NEW D, NEW ord, Numbers(D, ord), NEW k, k \notin D
    PROVE  Numbers(D \cup {k}, Put(ord, k, Cardinality(D)))
<1> DEFINE n == Cardinality(D)
           num == Put(ord, k, n)
<1>1. n \in Nat /\ IsFiniteSet(D \cup {k}) /\ Cardinality(D \cup {k}) = n + 1
  BY FS_CardinalityType, FS_AddElement DEF Numbers
<1>2. /\ DOMAIN num = D \cup {k} /\ num[k] = n
      /\ \A j \in D : num[j] = ord[j] /\ num[j] \in 0 .. (n - 1)
  BY DEF Put, Numbers
<1>3. num \in [D \cup {k} -> 0 .. n]
  <2>1. \A j \in D \cup {k} : num[j] \in 0 .. n
    BY <1>1, <1>2
  <2> QED
    BY <1>2, <2>1 DEF Put
<1>4. ASSUME NEW i \in D \cup {k}, NEW j \in D \cup {k}, num[i] = num[j] PROVE i = j
  BY <1>1, <1>2, <1>4 DEF Numbers
<1>5. (n + 1) - 1 = n
  BY <1>1
<1> QED
  BY <1>1, <1>3, <1>4, <1>5 DEF Numbers

-----------------------------------------------------------------------------
(* What an operation leaves in the dict                                    *)

\* The dict is finite and its entries have numbers where the code has them.
DirectoryOK(es, ord) ==
    /\ Numbers(DOMAIN es, ord)
    /\ es = [k \in DOMAIN es |-> es[k]]
    /\ \A k \in DOMAIN es :
         /\ es[k].size_bytes \in Nat
         /\ es[k].last_access \in Int /\ es[k].created_at \in Int

LEMMA BecomeKeeps ==
    ASSUME NEW es, NEW ord, DirectoryOK(es, ord), NEW gone, Become(es, ord, gone)
    PROVE  /\ DOMAIN entries' = DOMAIN es \ gone
           /\ \A k \in DOMAIN es \ gone : entries'[k] = es[k]
           /\ DirectoryOK(entries', order')
<1> DEFINE kept == DOMAIN es \ gone
<1>1. /\ entries' = [k \in kept |-> es[k]]
      /\ order' = [k \in kept |-> Rank(kept, ord, k)]
  BY DEF Become, Restrict, Rank
<1>2. Numbers(DOMAIN es, ord) /\ kept \in SUBSET DOMAIN es
  BY DEF DirectoryOK
<1>3. Numbers(kept, order')
  <2> HIDE DEF kept
  <2>1. Numbers(kept, [k \in kept |-> Rank(kept, ord, k)])
    BY <1>2, RestNumbered
  <2> QED
    BY <1>1, <2>1
<1> QED
  BY <1>1, <1>3 DEF DirectoryOK

\* The dict Insert evicts from.
Inserted(k, entry) == Put(entries, k, entry)

InsertedOrder(k) ==
    IF k \in DOMAIN entries THEN order ELSE Put(order, k, Cardinality(DOMAIN entries))

LEMMA InsertKeeps ==
    ASSUME DirectoryOK(entries, order), NEW k, NEW entry,
           entry.size_bytes \in Nat, entry.last_access \in Int, entry.created_at \in Int
    PROVE  /\ DirectoryOK(Inserted(k, entry), InsertedOrder(k))
           /\ DOMAIN Inserted(k, entry) = DOMAIN entries \cup {k}
           /\ Inserted(k, entry)[k] = entry
           /\ \A j \in DOMAIN entries \ {k} : Inserted(k, entry)[j] = entries[j]
<1> DEFINE es == Inserted(k, entry)
<1>1. /\ es = [j \in DOMAIN entries \cup {k} |-> IF j = k THEN entry ELSE entries[j]]
      /\ DOMAIN es = DOMAIN entries \cup {k} /\ es[k] = entry
      /\ \A j \in DOMAIN entries \ {k} : es[j] = entries[j]
  BY DEF Inserted, Put
<1>2. Numbers(DOMAIN entries \cup {k}, InsertedOrder(k))
  <2>1. CASE k \in DOMAIN entries
    <3>1. DOMAIN entries \cup {k} = DOMAIN entries
      BY <2>1
    <3> QED
      BY <2>1, <3>1 DEF DirectoryOK, InsertedOrder
  <2>2. CASE k \notin DOMAIN entries
    BY <2>2, OneMoreNumbered DEF DirectoryOK, InsertedOrder
  <2> QED
    BY <2>1, <2>2
<1> HIDE DEF es
<1> QED
  BY <1>1, <1>2 DEF DirectoryOK, es

-----------------------------------------------------------------------------
(* Eviction                                                                *)

Candidates(es, tier) == OfTier(es, tier) \cap Unleased(es)

\* The candidates the loop of _evict_to_capacity reaches before k.
Reached(es, ord, tier, k) == {j \in Candidates(es, tier) : LessRecent(es, ord, j, k)}

\* The loop's order is strict and total, on any entries with numbers.
LEMMA LessRecentOrders ==
    ASSUME NEW es, NEW ord, DirectoryOK(es, ord),
           NEW i \in DOMAIN es, NEW j \in DOMAIN es, NEW k \in DOMAIN es
    PROVE  /\ ~ LessRecent(es, ord, i, i)
           /\ LessRecent(es, ord, i, j) /\ LessRecent(es, ord, j, k) => LessRecent(es, ord, i, k)
           /\ i # j => LessRecent(es, ord, i, j) \/ LessRecent(es, ord, j, i)
<1>1. /\ \A x \in {i, j, k} : /\ es[x].last_access \in Int /\ es[x].created_at \in Int
                             /\ ord[x] \in Int
      /\ ord[i] = ord[j] => i = j
  BY DEF DirectoryOK, Numbers
<1> QED
  BY <1>1 DEF LessRecent

\* A candidate that comes first has fewer reached before it.
LEMMA ReachedGrows ==
    ASSUME NEW es, NEW ord, DirectoryOK(es, ord), NEW tier,
           NEW j \in Candidates(es, tier), NEW k \in Candidates(es, tier),
           LessRecent(es, ord, j, k)
    PROVE  /\ Reached(es, ord, tier, j) \subseteq Reached(es, ord, tier, k)
           /\ Cardinality(Reached(es, ord, tier, j)) < Cardinality(Reached(es, ord, tier, k))
           /\ Cardinality(Reached(es, ord, tier, j)) \in Nat
           /\ Cardinality(Reached(es, ord, tier, k)) \in Nat
<1> DEFINE A == Reached(es, ord, tier, j)
           B == Reached(es, ord, tier, k)
<1>1. Candidates(es, tier) \subseteq DOMAIN es
  BY DEF Candidates, OfTier
<1>2. A \subseteq B \ {j} /\ j \in B
  BY <1>1, LessRecentOrders DEF Reached
<1>3. IsFiniteSet(A) /\ IsFiniteSet(B)
  <2>1. IsFiniteSet(DOMAIN es) /\ A \subseteq DOMAIN es /\ B \subseteq DOMAIN es
    BY <1>1 DEF DirectoryOK, Numbers, Reached
  <2> QED
    BY <2>1, FS_Subset
<1> HIDE DEF A, B
<1>4. IsFiniteSet(B \ {j}) /\ Cardinality(B \ {j}) = Cardinality(B) - 1
  BY <1>2, <1>3, FS_RemoveElement
<1>5. Cardinality(A) <= Cardinality(B \ {j})
  BY <1>2, <1>4, FS_Subset
<1>6. Cardinality(A) \in Nat /\ Cardinality(B) \in Nat
  BY <1>3, FS_CardinalityType
<1> QED
  BY <1>2, <1>4, <1>5, <1>6 DEF A, B

LEMMA ReachedNumber ==
    ASSUME NEW es, NEW ord, DirectoryOK(es, ord), NEW tier, NEW k
    PROVE  /\ IsFiniteSet(Candidates(es, tier))
           /\ Cardinality(Candidates(es, tier)) \in Nat
           /\ Cardinality(Reached(es, ord, tier, k)) \in 0 .. Cardinality(Candidates(es, tier))
<1>1. Candidates(es, tier) \subseteq DOMAIN es /\ IsFiniteSet(DOMAIN es)
  BY DEF Candidates, OfTier, DirectoryOK, Numbers
<1>2. Reached(es, ord, tier, k) \subseteq Candidates(es, tier)
  BY DEF Reached
<1>3. IsFiniteSet(Candidates(es, tier))
  BY <1>1, FS_Subset
<1>4. /\ IsFiniteSet(Reached(es, ord, tier, k))
      /\ Cardinality(Reached(es, ord, tier, k)) <= Cardinality(Candidates(es, tier))
  BY <1>2, <1>3, FS_Subset
<1> QED
  BY <1>3, <1>4, FS_CardinalityType

\* Of some candidates one is first, and one is last.
LEMMA OneIsFirst ==
    ASSUME NEW es, NEW ord, DirectoryOK(es, ord), NEW tier,
           NEW T \in SUBSET Candidates(es, tier), T # {}
    PROVE  \E k \in T : \A j \in T : ~ LessRecent(es, ord, j, k)
<1> DEFINE count(k) == Cardinality(Reached(es, ord, tier, k))
           counts == {count(k) : k \in T}
<1>1. \A k \in T : count(k) \in Nat
  BY ReachedNumber
<1>2. PICK n \in counts : \A m \in counts : n <= m
  <2>1. counts \subseteq Nat /\ counts # {}
    BY <1>1
  <2> HIDE DEF counts
  <2> QED
    BY <2>1, LeastNumber
<1>3. PICK k \in T : n = count(k)
  OBVIOUS
<1>4. ASSUME NEW j \in T, LessRecent(es, ord, j, k) PROVE FALSE
  <2>1. count(j) < count(k)
    BY <1>4, ReachedGrows
  <2> QED
    BY <1>1, <1>2, <1>3, <2>1
<1> QED
  BY <1>4

LEMMA OneIsLast ==
    ASSUME NEW es, NEW ord, DirectoryOK(es, ord), NEW tier,
           NEW T \in SUBSET Candidates(es, tier), T # {}
    PROVE  \E k \in T : \A j \in T : ~ LessRecent(es, ord, k, j)
<1> DEFINE total == Cardinality(Candidates(es, tier))
           count(k) == Cardinality(Reached(es, ord, tier, k))
           counts == {total - count(k) : k \in T}
<1>1. total \in Nat /\ \A k \in T : count(k) \in 0 .. total
  BY ReachedNumber
<1>2. PICK n \in counts : \A m \in counts : n <= m
  <2> HIDE DEF total, count
  <2>1. counts \subseteq Nat /\ counts # {}
    BY <1>1
  <2> HIDE DEF counts
  <2> QED
    BY <2>1, LeastNumber
<1>3. PICK k \in T : n = total - count(k)
  OBVIOUS
<1>4. ASSUME NEW j \in T, LessRecent(es, ord, k, j) PROVE FALSE
  <2>1. count(k) < count(j)
    BY <1>4, ReachedGrows
  <2>2. total - count(k) <= total - count(j)
    BY <1>2, <1>3
  <2> HIDE DEF total, count
  <2> QED
    BY <1>1, <2>1, <2>2
<1> QED
  BY <1>4

\* The sizes of the entries are weights.
LEMMA TierBytes ==
    ASSUME NEW es, NEW ord, DirectoryOK(es, ord), NEW S \in SUBSET DOMAIN es,
           NEW T \in SUBSET S
    PROVE  /\ Bytes(es, S) = Bytes(es, T) + Bytes(es, S \ T)
           /\ Bytes(es, S) \in Nat /\ Bytes(es, T) \in Nat /\ Bytes(es, S \ T) \in Nat
<1> DEFINE size(U) == [k \in U |-> es[k].size_bytes]
<1>1. IsFiniteSet(S) /\ \A k \in S : size(S)[k] \in Nat
  BY FS_Subset DEF DirectoryOK, Numbers
<1>2. Weight(T, size(S)) = Weight(T, size(T))
  <2>1. \A k \in T : size(S)[k] = size(T)[k]
    OBVIOUS
  <2> HIDE DEF size
  <2> QED
    BY <2>1, SameWeight
<1>3. Weight(S \ T, size(S)) = Weight(S \ T, size(S \ T))
  <2>1. \A k \in S \ T : size(S)[k] = size(S \ T)[k]
    OBVIOUS
  <2> HIDE DEF size
  <2> QED
    BY <2>1, SameWeight
<1>4. /\ Weight(S, size(S)) = Weight(T, size(S)) + Weight(S \ T, size(S))
      /\ Weight(S, size(S)) \in Nat /\ Weight(T, size(S)) \in Nat
      /\ Weight(S \ T, size(S)) \in Nat
  <2> HIDE DEF size
  <2> QED
    BY <1>1, SplitWeight
<1> QED
  BY <1>2, <1>3, <1>4 DEF Bytes

LEMMA PartBytes ==
    ASSUME NEW es, NEW ord, DirectoryOK(es, ord), NEW S, S \subseteq DOMAIN es,
           NEW T, T \subseteq S
    PROVE  Bytes(es, T) <= Bytes(es, S) /\ Bytes(es, T) \in Nat /\ Bytes(es, S) \in Nat
<1>1. /\ Bytes(es, S) = Bytes(es, T) + Bytes(es, S \ T)
      /\ Bytes(es, S) \in Nat /\ Bytes(es, T) \in Nat /\ Bytes(es, S \ T) \in Nat
  BY TierBytes
<1> QED
  BY <1>1

\* Entries of the same sizes take as many bytes.
LEMMA SameBytes ==
    ASSUME NEW es, NEW fs, NEW S, \A k \in S : es[k].size_bytes = fs[k].size_bytes
    PROVE  Bytes(es, S) = Bytes(fs, S)
BY SameWeight DEF Bytes

\* The victims are an initial segment: what comes before one is one.
LEMMA VictimsComeFirst ==
    ASSUME NEW es, NEW ord, DirectoryOK(es, ord), NEW tier,
           NEW v \in Victims(es, ord, tier), NEW k \in Candidates(es, tier),
           LessRecent(es, ord, k, v)
    PROVE  k \in Victims(es, ord, tier)
<1> DEFINE A == Reached(es, ord, tier, k)
           B == Reached(es, ord, tier, v)
           used == Bytes(es, OfTier(es, tier))
<1>1. v \in Candidates(es, tier) /\ used - Bytes(es, B) > CapacityOf(tier)
  BY DEF Victims, Candidates, Reached
<1>2. A \subseteq B /\ B \subseteq DOMAIN es
  BY <1>1, ReachedGrows DEF Reached, Candidates, OfTier
<1>3. Bytes(es, A) <= Bytes(es, B) /\ Bytes(es, A) \in Nat /\ Bytes(es, B) \in Nat
  <2> HIDE DEF A, B
  <2>1. /\ Bytes(es, B) = Bytes(es, A) + Bytes(es, B \ A)
        /\ Bytes(es, B) \in Nat /\ Bytes(es, A) \in Nat /\ Bytes(es, B \ A) \in Nat
    BY <1>2, TierBytes
  <2> QED
    BY <2>1
<1>4. used \in Nat /\ CapacityOf(tier) \in Nat
  BY TierBytes, CapacitiesAssumption DEF OfTier, CapacityOf
<1>5. used - Bytes(es, A) > CapacityOf(tier)
  <2> HIDE DEF A, B, used
  <2> QED
    BY <1>1, <1>3, <1>4
<1> QED
  BY <1>5 DEF Victims, Candidates, Reached

\* Eviction makes room for what stays, or takes every candidate.
LEMMA EvictionMakesRoom ==
    ASSUME NEW es, NEW ord, DirectoryOK(es, ord), NEW tier
    PROVE  \/ Victims(es, ord, tier) = Candidates(es, tier)
           \/ Bytes(es, OfTier(es, tier) \ Victims(es, ord, tier)) <= CapacityOf(tier)
<1> DEFINE V == Victims(es, ord, tier)
           C == Candidates(es, tier)
           all == OfTier(es, tier)
<1>1. V \subseteq C /\ C \subseteq all /\ all \subseteq DOMAIN es
  BY DEF Victims, Candidates, OfTier
<1>2. SUFFICES ASSUME C \ V # {} PROVE Bytes(es, all \ V) <= CapacityOf(tier)
  BY <1>1
<1>3. PICK k \in C \ V : \A j \in C \ V : ~ LessRecent(es, ord, j, k)
  BY <1>2, OneIsFirst
<1> DEFINE R == Reached(es, ord, tier, k)
<1>4. R \subseteq V
  BY <1>3 DEF Reached
<1>5. ~ (Bytes(es, all) - Bytes(es, R) > CapacityOf(tier))
  BY <1>3 DEF Victims, Candidates, Reached
<1>6. CapacityOf(tier) \in Nat
  BY CapacitiesAssumption DEF CapacityOf
<1> HIDE DEF V, C, all, R
<1>7. /\ Bytes(es, all) = Bytes(es, V) + Bytes(es, all \ V)
      /\ Bytes(es, all) \in Nat /\ Bytes(es, V) \in Nat /\ Bytes(es, all \ V) \in Nat
  BY <1>1, TierBytes
<1>8. /\ Bytes(es, V) = Bytes(es, R) + Bytes(es, V \ R)
      /\ Bytes(es, R) \in Nat /\ Bytes(es, V \ R) \in Nat
  <2>1. V \in SUBSET DOMAIN es /\ R \in SUBSET V
    BY <1>1, <1>4
  <2> QED
    BY <2>1, TierBytes
<1> QED
  BY <1>5, <1>6, <1>7, <1>8

\* Entries that only leave, or keep their size, take no more than before.
LEMMA RestFits ==
    ASSUME DirectoryOK(entries, order), WithinCapacity,
           DOMAIN entries' \subseteq DOMAIN entries,
           \A k \in DOMAIN entries' : entries'[k].size_bytes = entries[k].size_bytes
    PROVE  WithinCapacity'
<1> SUFFICES ASSUME NEW tier \in Tiers
             PROVE  Bytes(entries', OfTier(entries', tier)) <= CapacityOf(tier)
  BY DEF WithinCapacity, Usage
<1> DEFINE S == OfTier(entries, tier)
           T == OfTier(entries', tier)
<1>1. T \subseteq S /\ S \subseteq DOMAIN entries
  BY DEF OfTier
<1>2. Bytes(entries', T) = Bytes(entries, T)
  BY SameBytes DEF OfTier
<1>3. Bytes(entries, S) <= CapacityOf(tier) /\ CapacityOf(tier) \in Nat
  BY CapacitiesAssumption DEF WithinCapacity, Usage, CapacityOf
<1> HIDE DEF S, T
<1>4. /\ Bytes(entries, S) = Bytes(entries, T) + Bytes(entries, S \ T)
      /\ Bytes(entries, S) \in Nat /\ Bytes(entries, T) \in Nat
      /\ Bytes(entries, S \ T) \in Nat
  BY <1>1, TierBytes
<1> QED
  BY <1>2, <1>3, <1>4 DEF S, T

\* A registration keeps every tier within its capacity: its own tier because
\* what is left after taking every candidate was there before.
LEMMA InsertFits ==
    ASSUME DirectoryOK(entries, order), WithinCapacity, NEW k, NEW entry,
           entry.size_bytes \in Nat, entry.last_access \in Int,
           entry.created_at \in Int, entry.lease_count = 0,
           Insert(k, entry)
    PROVE  WithinCapacity'
<1> DEFINE es == Inserted(k, entry)
           V == Victims(es, InsertedOrder(k), k.tier)
<1>1. /\ DirectoryOK(es, InsertedOrder(k))
      /\ DOMAIN es = DOMAIN entries \cup {k} /\ es[k] = entry
      /\ \A j \in DOMAIN entries \ {k} : es[j] = entries[j]
  BY InsertKeeps, ZenonT(60)
<1>2. Become(es, InsertedOrder(k), V)
  BY DEF Insert, Inserted, InsertedOrder
<1>3. /\ DOMAIN entries' = DOMAIN es \ V
      /\ \A j \in DOMAIN es \ V : entries'[j] = es[j]
  <2> HIDE DEF es, V
  <2>1. DirectoryOK(es, InsertedOrder(k))
    BY <1>1
  <2> QED
    BY <1>2, <2>1, BecomeKeeps
<1> SUFFICES ASSUME NEW tier \in Tiers
             PROVE  Bytes(entries', OfTier(entries', tier)) <= CapacityOf(tier)
  BY DEF WithinCapacity, Usage
<1>4. OfTier(entries', tier) = OfTier(es, tier) \ V
  BY <1>3 DEF OfTier
<1>5. Bytes(entries', OfTier(entries', tier)) = Bytes(es, OfTier(es, tier) \ V)
  <2>1. \A j \in OfTier(entries', tier) : entries'[j].size_bytes = es[j].size_bytes
    BY <1>3 DEF OfTier
  <2> QED
    BY <1>4, <2>1, SameBytes
<1>6. ASSUME NEW T, T \subseteq OfTier(entries, tier), k \notin T
      PROVE  Bytes(es, T) <= CapacityOf(tier)
  <2>1. \A j \in T : es[j].size_bytes = entries[j].size_bytes
    BY <1>1, <1>6 DEF OfTier
  <2>2. Bytes(es, T) = Bytes(entries, T)
    BY <2>1, SameBytes
  <2> DEFINE S == OfTier(entries, tier)
  <2>3. S \subseteq DOMAIN entries /\ Bytes(entries, S) <= CapacityOf(tier)
    BY DEF WithinCapacity, Usage, OfTier
  <2>4. CapacityOf(tier) \in Nat
    BY CapacitiesAssumption DEF CapacityOf
  <2>5. /\ Bytes(entries, S) = Bytes(entries, T) + Bytes(entries, S \ T)
        /\ Bytes(entries, S) \in Nat /\ Bytes(entries, T) \in Nat
        /\ Bytes(entries, S \ T) \in Nat
    <3> HIDE DEF S
    <3> QED
      BY <1>6, <2>3, TierBytes DEF S
  <2> QED
    BY <2>2, <2>3, <2>4, <2>5
<1>7. CASE tier # k.tier
  <2>1. OfTier(es, tier) \ V = OfTier(entries, tier) /\ k \notin OfTier(entries, tier)
    BY <1>1, <1>7 DEF OfTier, Victims
  <2> QED
    BY <1>5, <1>6, <2>1
<1>8. CASE tier = k.tier /\ V = Candidates(es, tier)
  <2>1. /\ OfTier(es, tier) \ V \subseteq OfTier(entries, tier)
        /\ k \notin OfTier(es, tier) \ V
    BY <1>1, <1>8 DEF OfTier, Candidates, Unleased
  <2> QED
    BY <1>5, <1>6, <2>1
<1>9. CASE tier = k.tier /\ V # Candidates(es, tier)
  <2> HIDE DEF es
  <2> QED
    BY <1>1, <1>5, <1>9, EvictionMakesRoom
<1> QED
  BY <1>7, <1>8, <1>9

\* No candidate that stays is less recent than a victim, and the most recent
\* of the victims would not fit any more.
LEMMA VictimsAreLeastRecent ==
    ASSUME NEW es, NEW ord, DirectoryOK(es, ord), NEW tier,
           NEW v \in Victims(es, ord, tier)
    PROVE  LET V == Victims(es, ord, tier)
               all == OfTier(es, tier)
           IN  /\ \A k \in Candidates(es, tier) \ V : es[v].last_access <= es[k].last_access
               /\ \E m \in V :
                    /\ \A k \in V : es[k].last_access <= es[m].last_access
                    /\ Bytes(es, all \ V) + es[m].size_bytes > CapacityOf(tier)
<1> DEFINE V == Victims(es, ord, tier)
           all == OfTier(es, tier)
<1>1. /\ V \subseteq Candidates(es, tier) /\ V \subseteq all /\ all \subseteq DOMAIN es
      /\ \A k \in DOMAIN es : es[k].last_access \in Int /\ es[k].size_bytes \in Nat
  BY DEF Victims, Candidates, OfTier, DirectoryOK
<1>2. ASSUME NEW k \in Candidates(es, tier) \ V PROVE es[v].last_access <= es[k].last_access
  <2>1. ~ LessRecent(es, ord, k, v)
    BY <1>2, VictimsComeFirst
  <2>2. es[v].last_access \in Int /\ es[k].last_access \in Int
    BY <1>1 DEF Candidates, OfTier
  <2> QED
    BY <2>1, <2>2 DEF LessRecent
<1>3. PICK m \in V : \A k \in V : ~ LessRecent(es, ord, m, k)
  BY <1>1, OneIsLast
<1>4. ASSUME NEW k \in V PROVE es[k].last_access <= es[m].last_access
  <2>1. ~ LessRecent(es, ord, m, k)
    BY <1>3
  <2>2. es[m].last_access \in Int /\ es[k].last_access \in Int
    BY <1>1
  <2> QED
    BY <2>1, <2>2 DEF LessRecent
<1> DEFINE R == Reached(es, ord, tier, m)
           size == [k \in V |-> es[k].size_bytes]
<1>5. R \subseteq DOMAIN es /\ V \ {m} \subseteq R
  <2>1. R \subseteq DOMAIN es
    BY DEF Reached, Candidates, OfTier
  <2>2. ASSUME NEW k \in V, k # m PROVE k \in R
    <3>1. LessRecent(es, ord, k, m)
      BY <1>1, <1>3, <2>2, LessRecentOrders
    <3> QED
      BY <1>1, <3>1 DEF Reached
  <2> QED
    BY <2>1, <2>2
<1>6. /\ Bytes(es, V) = Bytes(es, V \ {m}) + es[m].size_bytes
      /\ Bytes(es, V) \in Nat /\ Bytes(es, V \ {m}) \in Nat /\ es[m].size_bytes \in Nat
  <2>1. IsFiniteSet(V) /\ \A k \in V : size[k] \in Nat
    BY <1>1, FS_Subset DEF DirectoryOK, Numbers
  <2>2. IsFiniteSet(UnitsOf(V, size))
    <3> HIDE DEF V, size
    <3> QED
      BY <2>1, FiniteUnits
  <2>3. Weight(V, size) = Weight(V \ {m}, size) + size[m]
    <3> HIDE DEF V, size
    <3> QED
      BY <2>1, <2>2, RemoveUnits DEF Weight
  <2>4. Bytes(es, V \ {m}) = Weight(V \ {m}, size)
    <3> DEFINE rest == [k \in V \ {m} |-> es[k].size_bytes]
    <3>1. \A k \in V \ {m} : rest[k] = size[k]
      OBVIOUS
    <3>2. Bytes(es, V \ {m}) = Weight(V \ {m}, rest)
      BY DEF Bytes
    <3> HIDE DEF V, size, rest
    <3> QED
      BY <3>1, <3>2, SameWeight
  <2>5. Bytes(es, V) = Weight(V, size)
    BY DEF Bytes
  <2>6. size[m] = es[m].size_bytes
    OBVIOUS
  <2>7. Bytes(es, V) \in Nat /\ Bytes(es, V \ {m}) \in Nat
    <3> HIDE DEF V
    <3>1. V \in SUBSET DOMAIN es /\ V \ {m} \in SUBSET V
      BY <1>1
    <3> QED
      BY <3>1, TierBytes
  <2> HIDE DEF V, size
  <2> QED
    BY <1>1, <2>3, <2>4, <2>5, <2>6, <2>7
<1>7. Bytes(es, all) - Bytes(es, R) > CapacityOf(tier)
  BY DEF Victims, Candidates, Reached
<1>8. CapacityOf(tier) \in Nat
  BY CapacitiesAssumption DEF CapacityOf
<1>9. Bytes(es, all \ V) + es[m].size_bytes > CapacityOf(tier)
  <2> HIDE DEF V, all, R, size
  <2>1. /\ Bytes(es, all) = Bytes(es, V) + Bytes(es, all \ V)
        /\ Bytes(es, all) \in Nat /\ Bytes(es, all \ V) \in Nat
    <3>1. all \in SUBSET DOMAIN es /\ V \in SUBSET all
      BY <1>1
    <3> QED
      BY <3>1, TierBytes
  <2>2. /\ Bytes(es, V \ {m}) <= Bytes(es, R)
        /\ Bytes(es, R) \in Nat
    BY <1>5, PartBytes
  <2> QED
    BY <1>6, <1>7, <1>8, <2>1, <2>2
<1> QED
  BY <1>2, <1>4, <1>9
=============================================================================
