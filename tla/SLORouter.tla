----------------------------- MODULE SLORouter -----------------------------
(***************************************************************************)
(* The router's choice of a prefill and a decode worker (router.py, class  *)
(* SLORouter) as operators on one snapshot of the registry and of the      *)
(* directory.                                                              *)
(*                                                                         *)
(* Times are integers in microseconds, the precision the code rounds to,   *)
(* scores in thousandths, utilization in percent, bandwidth in hundredths  *)
(* of Gbit/s.  Divisions round down where the code rounds to nearest.      *)
(* Worker ids are numbers, ordered as the code orders strings.             *)
(***************************************************************************)
EXTENDS Weights, Models, Integers, Sequences, FiniteSetsExt

TierRank(tier) == CASE tier = "gpu" -> 0 [] tier = "cpu" -> 1 [] tier = "ssd" -> 2

Truth(b) == IF b THEN 1 ELSE 0

OnGpuOf(entry, w) == entry.location = w.id /\ entry.tier = "gpu"

None == [token_count |-> 0, tier |-> "none", location |-> -1]

-----------------------------------------------------------------------------
\* Mutant of Preference: the tier is no criterion.
PreferenceWithoutTier(e, i, p, d) ==
    << Truth(~ OnGpuOf(e, d)), Truth(~ OnGpuOf(e, p)), -e.token_count,
       -e.last_access, i >>

\* What _best_cache and lookup order entry e, number i of the dict, by.
Preference(e, i, p, d) ==
    << Truth(~ OnGpuOf(e, d)), Truth(~ OnGpuOf(e, p)), -e.token_count,
       TierRank(e.tier), -e.last_access, i >>

\* _best_cache on a directory listed in the order of its dict: lookup sorts
\* the compatible entries by tokens, tier and recency, min then takes the
\* first one of the best locality.
BestCache(entries, request, p, d) ==
    LET matches == {i \in DOMAIN entries :
                      /\ request.prefix_hash # ""
                      /\ entries[i].prefix_hash = request.prefix_hash
                      /\ CompatibleWith(entries[i].layout, p.layout)}
    IN  IF matches = {} THEN None
        ELSE entries[Least([i \in matches |-> Preference(entries[i], i, p, d)])]

\* _transfer_ms; a link of no bandwidth counts as one bit per second.
Transfer(p, d, entry, request, cached) ==
    LET size == Max({cached, request.input_tokens}) * p.layout.kv_bytes_per_token
        narrow == Min({p.bandwidth, d.bandwidth})
        link == IF p.zone # d.zone THEN (narrow * 55) \div 100 ELSE narrow
        bandwidth == CASE entry.tier = "ssd" -> Min({link, 600})
                       [] entry.tier = "cpu" -> Min({link, 1800})
                       [] OTHER -> link
    IN  IF OnGpuOf(entry, d) THEN 50
        ELSE 150 + (IF bandwidth > 0 THEN (size * 8) \div (bandwidth * 10)
                    ELSE size * 8000000)

\* Mutant of Score: load counts in favour of a pair.
ScoreForBusy(p, d, ttft, tpot, transfer, cached) ==
    ttft + 12 * tpot + (8 * transfer) \div 10 - 250 * cached
      - 2500 * (p.gpu_utilization + d.gpu_utilization)
      - 1000 * (p.queue_depth + d.active_sequences)

\* The score of a pair, less being better.
Score(p, d, ttft, tpot, transfer, cached) ==
    ttft + 12 * tpot + (8 * transfer) \div 10 - 250 * cached
      + 2500 * (p.gpu_utilization + d.gpu_utilization)
      + 1000 * (p.queue_depth + d.active_sequences)

\* _candidate: the predictions for one pair, and its score.
Candidate(request, p, d, entry) ==
    LET cached == Min({request.prefix_tokens, entry.token_count, request.input_tokens})
        uncached == Max({1, request.input_tokens - cached})
        queue == p.queue_depth * Max({5000, request.input_tokens * p.prefill_us})
        transfer == Transfer(p, d, entry, request, cached)
        ttft == queue + uncached * p.prefill_us + transfer + d.decode_us
        tpot == (d.decode_us * (10000 + 1000 * d.active_sequences
                                  + 35 * d.gpu_utilization)) \div 10000
    IN  [prefill |-> p.id, decode |-> d.id, cached_tokens |-> cached,
         cache_tier |-> entry.tier, ttft |-> ttft, tpot |-> tpot,
         score |-> Score(p, d, ttft, tpot, transfer, cached)]

\* The pairs that can serve the request.
Pairs(request, pool) ==
    {pd \in {w \in pool : w.role = "prefill"} \X {w \in pool : w.role = "decode"} :
        /\ CompatibleWith(pd[1].layout, pd[2].layout)
        /\ pd[1].layout.model_id = request.model_id}

Candidates(request, pool, entries) ==
    {Candidate(request, pd[1], pd[2], BestCache(entries, request, pd[1], pd[2])) :
        pd \in Pairs(request, pool)}

Rejected(reason) == [admitted |-> FALSE, reason |-> reason]

\* route: the candidate of the least score, if it meets the SLO.
Route(request, pool, entries) ==
    LET candidates == Candidates(request, pool, entries)
        best == Least([c \in candidates |-> <<c.score, c.prefill, c.decode>>])
    IN  IF ~ \E p, d \in pool : p.role = "prefill" /\ d.role = "decode"
        THEN Rejected("no_healthy_pd_pair")
        ELSE IF candidates = {} THEN Rejected("no_compatible_pd_pair")
        ELSE IF best.ttft <= request.ttft_slo /\ best.tpot <= request.tpot_slo
        THEN [admitted |-> TRUE, reason |-> "admitted", candidate |-> best]
        ELSE [admitted |-> FALSE, reason |-> "predicted_slo_miss", candidate |-> best]
=============================================================================
