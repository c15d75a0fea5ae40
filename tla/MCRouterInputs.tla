--------------------------- MODULE MCRouterInputs ---------------------------
(***************************************************************************)
(* The snapshots RouterInputs is checked on: two prefillers and two        *)
(* decoders at most, in two zones, with and without load, and directories  *)
(* of up to three entries.                                                 *)
(***************************************************************************)
EXTENDS RouterInputs, FiniteSets

L(format, bytes) == [model_id |-> "m", format |-> format, kv_bytes_per_token |-> bytes]

SomeLayouts == {L(format, 131072) : format \in {"f", "g"}}

Worker(id, role, format, zone, queue, active) ==
    [id |-> id, role |-> role, layout |-> L(format, 131072), zone |-> zone,
     queue_depth |-> queue, active_sequences |-> active, gpu_utilization |-> 0,
     prefill_us |-> 80, decode_us |-> 12000, bandwidth |-> 2400]

Prefillers ==
    {Worker(1, "prefill", "f", "z1", q, 0) : q \in {0, 1}}
Prefillers2 == {Worker(2, "prefill", f, "z2", 0, 0) : f \in {"f", "g"}}
Decoders == {Worker(3, "decode", "f", "z1", 0, a) : a \in {0, 2}}
Decoders2 == {Worker(4, "decode", "f", z, 0, 0) : z \in {"z1", "z2"}}

AllPools ==
    {{p, d} : p \in Prefillers, d \in Decoders}
    \cup {{p, q, d, e} : p \in Prefillers, q \in Prefillers2,
                         d \in Decoders, e \in Decoders2}
    \cup {{p} : p \in Prefillers} \cup {{q, d} : q \in Prefillers2, d \in Decoders}

AllRequests ==
    {[model_id |-> "m", input_tokens |-> 100, prefix_hash |-> h,
      prefix_tokens |-> 60, ttft_slo |-> slo, tpot_slo |-> 80000] :
        h \in {"", "x"}, slo \in {20000, 2000000}}

Entry(tokens, tier, location, format, access) ==
    [prefix_hash |-> "x", layout |-> L(format, 131072), token_count |-> tokens,
     tier |-> tier, location |-> location, last_access |-> access]

SomeEntries ==
    {Entry(n, t, w, "f", a) : n \in {30, 60}, t \in {"gpu", "ssd"}, w \in {1, 3}, a \in {7}}
    \cup {Entry(60, "cpu", 9, "f", 8), Entry(60, "gpu", 3, "g", 8), Entry(30, "gpu", 4, "f", 8)}

AllListings ==
    {<< >>} \cup {<<e>> : e \in SomeEntries}
    \cup {SetToSeq(S) : S \in kSubset(2, SomeEntries) \cup kSubset(3, SomeEntries)}
=============================================================================
