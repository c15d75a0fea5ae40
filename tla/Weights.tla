------------------------------ MODULE Weights ------------------------------
(***************************************************************************)
(* Notions the models of this project share: the total weight of a set of  *)
(* things, counted as the number of unit pieces it consists of, and from   *)
(* Python the update of a dict, the order of tuples and min().             *)
(***************************************************************************)
EXTENDS Integers, FiniteSets

\* The pieces of the members of S, when n[x] is the weight of x.
UnitsOf(S, n) == UNION {{x} \X (1 .. n[x]) : x \in S}

\* The sum of n[x] over S.
Weight(S, n) == Cardinality(UnitsOf(S, n))

\* The dict f with key i set to v.
Put(f, i, v) == [j \in DOMAIN f \cup {i} |-> IF j = i THEN v ELSE f[j]]

\* Tuple a of numbers comes before tuple b.
LexLess(a, b) ==
    \E i \in DOMAIN a : a[i] < b[i] /\ \A j \in 1 .. (i - 1) : a[j] = b[j]

\* x is what min() returns when keys[y] is the key of y, no two keys being equal.
IsLeast(x, keys) == \A y \in DOMAIN keys \ {x} : LexLess(keys[x], keys[y])

Least(keys) == CHOOSE x \in DOMAIN keys : IsLeast(x, keys)
=============================================================================
