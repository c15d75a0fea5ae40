---------------------------- MODULE WeightsProofs ----------------------------
(***************************************************************************)
(* Facts about the weight of finite sets (Weights), which the proofs about *)
(* the slots of a proxy and the bytes of a tier rest on, and about the     *)
(* order of tuples, which those about the router rest on.                  *)
(***************************************************************************)
EXTENDS Weights, TLAPS, FiniteSetTheorems, WellFoundedInduction

\* A set of natural numbers that has a member has a least one.
LEMMA LeastNumber ==
    ASSUME NEW N \in SUBSET Nat, N # {}
    PROVE  \E n \in N : \A m \in N : n <= m
<1>1. PICK n \in N : \A m \in N : ~ (<<m, n>> \in OpToRel(<, Nat))
  BY WFMin, NatLessThanWellFounded
<1>2. ASSUME NEW m \in N PROVE n <= m
  <2>1. m < n => <<m, n>> \in OpToRel(<, Nat)
    BY DEF OpToRel
  <2>2. ~ (m < n)
    BY <1>1, <2>1, Zenon
  <2> QED
    BY <2>2
<1> QED
  BY <1>2

\* One thing of weight n has n pieces.
LEMMA TaskUnits ==
    ASSUME NEW r, NEW n \in Nat
    PROVE  /\ IsFiniteSet({r} \X (1 .. n))
           /\ Cardinality({r} \X (1 .. n)) = n
<1>1. IsFiniteSet({r}) /\ Cardinality({r}) = 1
  BY FS_Singleton
<1>2. IsFiniteSet(1 .. n) /\ Cardinality(1 .. n) = n
  <2>1. IsFiniteSet(1 .. n) /\ Cardinality(1 .. n) = IF 1 > n THEN 0 ELSE n - 1 + 1
    BY FS_Interval
  <2> QED
    BY <2>1
<1>3. /\ IsFiniteSet({r} \X (1 .. n))
      /\ Cardinality({r} \X (1 .. n)) = Cardinality({r}) * Cardinality(1 .. n)
  BY <1>1, <1>2, FS_Product
<1> QED
  BY <1>1, <1>2, <1>3

\* The weight of one thing more.
LEMMA AddUnits ==
    ASSUME NEW S, NEW n, NEW r, r \notin S, n[r] \in Nat,
           IsFiniteSet(UnitsOf(S, n))
    PROVE  /\ IsFiniteSet(UnitsOf(S \cup {r}, n))
           /\ Cardinality(UnitsOf(S \cup {r}, n)) = Cardinality(UnitsOf(S, n)) + n[r]
<1> DEFINE U == UnitsOf(S, n)
           V == {r} \X (1 .. n[r])
<1>1. UnitsOf(S \cup {r}, n) = U \cup V
  BY DEF UnitsOf
<1>2. U \cap V = {}
  BY DEF UnitsOf
<1>3. IsFiniteSet(V) /\ Cardinality(V) = n[r]
  BY TaskUnits
<1>4. /\ IsFiniteSet(U \cup V)
      /\ Cardinality(U \cup V) = Cardinality(U) + Cardinality(V) - Cardinality(U \cap V)
  BY <1>3, FS_Union
<1>5. Cardinality(U) \in Nat /\ Cardinality(U \cap V) = 0
  BY <1>2, FS_CardinalityType, FS_EmptySet
<1>6. Cardinality(U \cup V) = Cardinality(U) + n[r]
  BY <1>3, <1>4, <1>5
<1> QED
  BY <1>1, <1>4, <1>6

\* The weight of one thing less.
LEMMA RemoveUnits ==
    ASSUME NEW S, NEW n, NEW r \in S, n[r] \in Nat, IsFiniteSet(UnitsOf(S, n))
    PROVE  /\ IsFiniteSet(UnitsOf(S \ {r}, n))
           /\ Cardinality(UnitsOf(S, n)) = Cardinality(UnitsOf(S \ {r}, n)) + n[r]
<1>1. UnitsOf(S \ {r}, n) \subseteq UnitsOf(S, n)
  BY DEF UnitsOf
<1>2. IsFiniteSet(UnitsOf(S \ {r}, n))
  BY <1>1, FS_Subset
<1>3. r \notin S \ {r} /\ (S \ {r}) \cup {r} = S
  OBVIOUS
<1> QED
  BY <1>2, <1>3, AddUnits

\* A finite set of things of finite weight has a finite weight.
LEMMA FiniteUnits ==
    ASSUME NEW S, NEW n, IsFiniteSet(S), \A x \in S : n[x] \in Nat
    PROVE  IsFiniteSet(UnitsOf(S, n)) /\ Weight(S, n) \in Nat
<1> DEFINE pieces == {{x} \X (1 .. n[x]) : x \in S}
           of == [x \in S |-> {x} \X (1 .. n[x])]
<1>1. IsFiniteSet(pieces)
  <2>1. of \in Surjection(S, pieces)
    BY DEF Surjection
  <2> HIDE DEF of, pieces
  <2> QED
    BY <2>1, FS_Surjection
<1>2. ASSUME NEW T \in pieces PROVE IsFiniteSet(T)
  <2>1. PICK x \in S : T = {x} \X (1 .. n[x])
    OBVIOUS
  <2> QED
    BY <2>1, TaskUnits
<1>3. IsFiniteSet(UnitsOf(S, n))
  BY <1>1, <1>2, FS_UNION DEF UnitsOf
<1> QED
  BY <1>3, FS_CardinalityType DEF Weight

\* A set weighs what two parts of it weigh together.
LEMMA SplitWeight ==
    ASSUME NEW S, NEW n, IsFiniteSet(S), \A x \in S : n[x] \in Nat,
           NEW T \in SUBSET S
    PROVE  /\ Weight(S, n) = Weight(T, n) + Weight(S \ T, n)
           /\ Weight(S, n) \in Nat /\ Weight(T, n) \in Nat
           /\ Weight(S \ T, n) \in Nat
<1> DEFINE U == UnitsOf(T, n)
           V == UnitsOf(S \ T, n)
<1>1. UnitsOf(S, n) = U \cup V /\ U \cap V = {}
  BY DEF UnitsOf
<1>2. IsFiniteSet(T) /\ IsFiniteSet(S \ T)
  BY FS_Subset
<1>3. /\ IsFiniteSet(U) /\ IsFiniteSet(V)
      /\ Weight(S, n) \in Nat /\ Weight(T, n) \in Nat /\ Weight(S \ T, n) \in Nat
  BY <1>2, FiniteUnits
<1>4. Cardinality(U \cup V) = Cardinality(U) + Cardinality(V) - Cardinality(U \cap V)
  BY <1>3, FS_Union
<1>5. Cardinality(U \cap V) = 0
  BY <1>1, FS_EmptySet
<1> QED
  BY <1>1, <1>3, <1>4, <1>5 DEF Weight

\* A part weighs no more than the whole.
LEMMA PartWeight ==
    ASSUME NEW S, NEW n, IsFiniteSet(S), \A x \in S : n[x] \in Nat,
           NEW T \in SUBSET S
    PROVE  Weight(T, n) <= Weight(S, n)
<1>1. /\ Weight(S, n) = Weight(T, n) + Weight(S \ T, n)
      /\ Weight(S, n) \in Nat /\ Weight(T, n) \in Nat /\ Weight(S \ T, n) \in Nat
  BY SplitWeight
<1> QED
  BY <1>1

\* The weight of a set depends on the weights of its members only.
LEMMA SameWeight ==
    ASSUME NEW S, NEW n, NEW m, \A x \in S : n[x] = m[x]
    PROVE  Weight(S, n) = Weight(S, m)
<1>1. \A x \in S : {x} \X (1 .. n[x]) = {x} \X (1 .. m[x])
  OBVIOUS
<1>2. UnitsOf(S, n) = UnitsOf(S, m)
  BY <1>1 DEF UnitsOf
<1> QED
  BY <1>2 DEF Weight

-----------------------------------------------------------------------------
(* The order of tuples, and the least of some                              *)

\* Two tuples of integers are ordered, one way or the other, unless equal.
LEMMA LexTotal ==
    ASSUME NEW n \in Nat, NEW a \in [1 .. n -> Int], NEW b \in [1 .. n -> Int], a # b
    PROVE  LexLess(a, b) \/ LexLess(b, a)
<1> DEFINE apart == {i \in 1 .. n : a[i] # b[i]}
<1>1. PICK i \in apart : \A j \in apart : i <= j
  <2>1. apart \in SUBSET Nat /\ apart # {}
    <3>1. \E i \in 1 .. n : a[i] # b[i]
      OBVIOUS
    <3> QED
      BY <3>1
  <2> HIDE DEF apart
  <2> QED
    BY <2>1, LeastNumber
<1>2. i \in 1 .. n /\ a[i] # b[i] /\ a[i] \in Int /\ b[i] \in Int
  OBVIOUS
<1>3. \A j \in 1 .. (i - 1) : a[j] = b[j]
  <2> SUFFICES ASSUME NEW j \in 1 .. (i - 1) PROVE a[j] = b[j]
    OBVIOUS
  <2>1. j \in 1 .. n /\ ~ (i <= j)
    BY <1>2
  <2> QED
    BY <1>1, <2>1
<1>4. a[i] < b[i] \/ b[i] < a[i]
  BY <1>2
<1>5. i \in DOMAIN a /\ i \in DOMAIN b
  BY <1>2
<1> QED
  BY <1>3, <1>4, <1>5 DEF LexLess

\* No tuple comes before itself.
LEMMA LexIrreflexive ==
    ASSUME NEW n \in Nat, NEW a \in [1 .. n -> Int]
    PROVE  ~ LexLess(a, a)
<1>1. \A i \in 1 .. n : a[i] \in Int
  OBVIOUS
<1> QED
  BY <1>1 DEF LexLess

LEMMA LexTransitive ==
    ASSUME NEW n \in Nat, NEW a \in [1 .. n -> Int], NEW b \in [1 .. n -> Int],
           NEW c \in [1 .. n -> Int], LexLess(a, b), LexLess(b, c)
    PROVE  LexLess(a, c)
<1>1. PICK i \in 1 .. n : a[i] < b[i] /\ \A m \in 1 .. (i - 1) : a[m] = b[m]
  BY DEF LexLess
<1>2. PICK j \in 1 .. n : b[j] < c[j] /\ \A m \in 1 .. (j - 1) : b[m] = c[m]
  BY DEF LexLess
<1>3. \A m \in 1 .. n : a[m] \in Int /\ b[m] \in Int /\ c[m] \in Int /\ m \in Int
  OBVIOUS
<1>4. CASE i <= j
  <2>1. a[i] < c[i]
    <3>1. CASE i = j
      BY <1>1, <1>2, <1>3, <3>1
    <3>2. CASE i # j
      <4>1. i \in 1 .. (j - 1)
        BY <1>3, <1>4, <3>2
      <4> QED
        BY <1>1, <1>2, <4>1
    <3> QED
      BY <3>1, <3>2
  <2>2. \A m \in 1 .. (i - 1) : a[m] = c[m]
    <3>1. \A m \in 1 .. (i - 1) : m \in 1 .. (j - 1)
      BY <1>3, <1>4
    <3> QED
      BY <1>1, <1>2, <3>1
  <2> QED
    BY <2>1, <2>2 DEF LexLess
<1>5. CASE j < i
  <2>1. a[j] < c[j]
    <3>1. j \in 1 .. (i - 1)
      BY <1>3, <1>5
    <3> QED
      BY <1>1, <1>2, <3>1
  <2>2. \A m \in 1 .. (j - 1) : a[m] = c[m]
    <3>1. \A m \in 1 .. (j - 1) : m \in 1 .. (i - 1)
      BY <1>3, <1>5
    <3> QED
      BY <1>1, <1>2, <3>1
  <2> QED
    BY <2>1, <2>2 DEF LexLess
<1> QED
  BY <1>3, <1>4, <1>5

\* Of finitely many things that have tuples of one length for keys, no two of
\* them the same, one is least.
LEMMA OneIsLeast ==
    ASSUME NEW S, IsFiniteSet(S), S # {}, NEW n \in Nat, NEW keys \in [S -> [1 .. n -> Int]],
           \A x, y \in S : keys[x] = keys[y] => x = y
    PROVE  Least(keys) \in S /\ IsLeast(Least(keys), keys)
<1> DEFINE less(x) == {y \in S : LexLess(keys[y], keys[x])}
           counts == {Cardinality(less(x)) : x \in S}
<1>1. \A x \in S : IsFiniteSet(less(x)) /\ Cardinality(less(x)) \in Nat
  BY FS_Subset, FS_CardinalityType
<1>2. PICK m \in counts : \A k \in counts : m <= k
  <2> HIDE DEF less
  <2>1. counts \in SUBSET Nat /\ counts # {}
    BY <1>1
  <2> HIDE DEF counts
  <2> QED
    BY <2>1, LeastNumber
<1>3. PICK x \in S : m = Cardinality(less(x))
  OBVIOUS
<1>4. \A y \in S : keys[y] \in [1 .. n -> Int]
  OBVIOUS
<1>5. ASSUME NEW y \in S, LexLess(keys[y], keys[x]) PROVE FALSE
  <2>1. less(y) \subseteq less(x) /\ y \in less(x) /\ y \notin less(y)
    <3>1. ASSUME NEW z \in S, LexLess(keys[z], keys[y]) PROVE LexLess(keys[z], keys[x])
      BY <1>4, <1>5, <3>1, LexTransitive
    <3>2. ~ LexLess(keys[y], keys[y])
      BY <1>4, LexIrreflexive
    <3> QED
      BY <1>5, <3>1, <3>2
  <2> HIDE DEF less
  <2>2. Cardinality(less(x)) <= Cardinality(less(y))
    BY <1>2, <1>3
  <2>3. /\ IsFiniteSet(less(x) \ {y})
        /\ Cardinality(less(x) \ {y}) = Cardinality(less(x)) - 1
    BY <1>1, <2>1, FS_RemoveElement
  <2>4. Cardinality(less(y)) <= Cardinality(less(x) \ {y})
    BY <2>1, <2>3, FS_Subset
  <2> QED
    BY <1>1, <2>2, <2>3, <2>4
<1>6. DOMAIN keys = S
  OBVIOUS
<1>7. ASSUME NEW y \in S \ {x} PROVE LexLess(keys[x], keys[y])
  <2>1. keys[x] # keys[y]
    OBVIOUS
  <2> QED
    BY <1>4, <1>5, <2>1, LexTotal
<1>8. \E z \in DOMAIN keys : IsLeast(z, keys)
  BY <1>6, <1>7 DEF IsLeast
<1> QED
  BY <1>6, <1>8 DEF Least
=============================================================================
