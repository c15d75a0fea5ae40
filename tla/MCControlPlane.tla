--------------------------- MODULE MCControlPlane ---------------------------
(***************************************************************************)
(* Instances of ControlPlane for TLC.                                      *)
(***************************************************************************)
EXTENDS ControlPlane, TLC

CONSTANTS t1, t2, prefiller, decoder, p1

TwoThreads == {t1, t2}
OnePrefix == {p1}

Layout(format) == [model_id |-> "m", format |-> format, kv_bytes_per_token |-> 1]

\* One prefiller, one decoder.
Pair == prefiller :> [role |-> "prefill", layout |-> Layout("f")]
        @@ decoder :> [role |-> "decode", layout |-> Layout("f")]

\* A GPU tier with room for every entry.
WideGpu == [gpu |-> 9]

Permute == Permutations(Threads)
=============================================================================
