---------------------------- MODULE PDHandshake ----------------------------
(***************************************************************************)
(* What both proxies promise of a disaggregated request, without saying    *)
(* how: it is prefilled, its KV cache is handed over to the decoder, and   *)
(* only then is it decoded.  A request may end at any moment, with or      *)
(* without an answer, and its KV cache may be handed over even so.         *)
(***************************************************************************)
CONSTANT Requests

VARIABLES phase,        \* phase[r]: "new", "prefill", "decode" or "ended"
          delivered     \* the requests whose KV cache the decoder can use

Init ==
    /\ phase = [r \in Requests |-> "new"]
    /\ delivered = {}

Prefill(r) ==
    /\ phase[r] = "new"
    /\ phase' = [phase EXCEPT ![r] = "prefill"]
    /\ UNCHANGED delivered

\* Only what the prefiller was asked for is handed over.
Deliver(r) ==
    /\ phase[r] \in {"prefill", "ended"}
    /\ delivered' = delivered \cup {r}
    /\ UNCHANGED phase

\* The KV cache may also be handed over by the decode call itself.
Decode(r) ==
    /\ phase[r] = "prefill"
    /\ phase' = [phase EXCEPT ![r] = "decode"]
    /\ delivered' \in {delivered, delivered \cup {r}}
    /\ r \in delivered'

\* A request that ends while it is prefilled may leave its KV cache behind.
End(r) ==
    /\ phase[r] # "ended"
    /\ phase' = [phase EXCEPT ![r] = "ended"]
    /\ \/ UNCHANGED delivered
       \/ phase[r] = "prefill" /\ delivered' = delivered \cup {r}

Next == \E r \in Requests : Prefill(r) \/ Deliver(r) \/ Decode(r) \/ End(r)

Spec == Init /\ [][Next]_<<phase, delivered>>
=============================================================================
