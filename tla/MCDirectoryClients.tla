------------------------- MODULE MCDirectoryClients -------------------------
(***************************************************************************)
(* Instances of DirectoryClients for TLC.                                  *)
(***************************************************************************)
EXTENDS DirectoryClients, TLC

CONSTANTS c1, c2, p1, p2, p3, w1

TwoClients == {c1, c2}
TwoPrefixes == {p1, p2}
ThreePrefixes == {p1, p2, p3}
OneLocation == {w1}

\* One layout whose tokens take one byte.
OneLayout == {[model_id |-> "m", format |-> "f", kv_bytes_per_token |-> 1]}

\* A GPU tier of two bytes.
SmallGpu == [gpu |-> 2]

Permute == Permutations(Clients) \cup Permutations(Prefixes)
=============================================================================
