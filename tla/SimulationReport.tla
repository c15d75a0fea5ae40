-------------------------- MODULE SimulationReport --------------------------
(***************************************************************************)
(* What the simulator reports of a trace (simulator.py, summarize), and    *)
(* its percentiles beside those of the GPU benchmark.                      *)
(***************************************************************************)
EXTENDS Simulator, Percentiles, FiniteSetsExt

MetSLO(b) == b.ttft <= b.shape.ttft_slo /\ b.tpot <= b.shape.tpot_slo

Met == Cardinality({i \in DOMAIN results : MetSLO(results[i])})

Column(field(_)) == [i \in DOMAIN results |-> field(results[i])]

Total(field(_)) == SumFunction(Column(field))

Ttft == Column(LAMBDA b : b.ttft)
E2e == Column(LAMBDA b : b.e2e)

\* Mutant of Horizon: the end of the last request.
HorizonOfLast == results[Len(results)].arrival + results[Len(results)].e2e

\* horizon_ms, also the end of the duration the rates refer to.
Horizon == Max({results[i].arrival + results[i].e2e : i \in DOMAIN results} \cup {1000})

\* The summary, ratios as pairs of numerator and denominator.
Summary ==
    IF results = << >> THEN [policy |-> policy, request_count |-> 0]
    ELSE [policy |-> policy,
          request_count |-> Len(results),
          slo_attainment |-> <<Met, Len(results)>>,
          goodput |-> <<Met, Horizon - results[1].arrival>>,
          throughput |-> <<Len(results), Horizon - results[1].arrival>>,
          p50_ttft |-> NearestRank(Ttft, 50),
          p95_ttft |-> NearestRank(Ttft, 95),
          p95_tpot |-> NearestRank(Column(LAMBDA b : b.tpot), 95),
          p95_e2e |-> NearestRank(E2e, 95),
          cache_hits |-> <<Total(LAMBDA b : b.cached),
                           Larger(1, Total(LAMBDA b : b.shape.prefix_tokens))>>,
          transfer |-> <<Total(LAMBDA b : b.transfer), Len(results)>>,
          utilization |-> [w \in Gpus |-> <<Smaller(busy[w], Horizon), Horizon>>]]

-----------------------------------------------------------------------------
(* Properties                                                              *)

AtMost(values, v) == Cardinality({i \in DOMAIN values : values[i] <= v})

\* The simulator's percentile is the nearest-rank percentile: the least value
\* of the list that so many percent of the values do not exceed.
IsNearestRank(v, values, quantile) ==
    /\ \E i \in DOMAIN values : values[i] = v
    /\ 100 * AtMost(values, v) >= quantile * Len(values)
    /\ 100 * AtMost(values, v - 1) < quantile * Len(values)

\* The percentiles of both reports, for lists from one value on: the
\* simulator's is the nearest-rank percentile, and no value of the list lies
\* between it and the interpolated one of the GPU benchmark, so the two agree
\* up to one rank.
PercentilesAgree ==
    \A values \in {Ttft, E2e}, quantile \in {50, 95} :
        values # << >> =>
            LET nearest == NearestRank(values, quantile)
                between == Interpolated(values, quantile)
            IN  /\ IsNearestRank(nearest, values, quantile)
                /\ \A i \in DOMAIN values :
                     /\ ~ (100 * nearest < 100 * values[i] /\ 100 * values[i] < between)
                     /\ ~ (between < 100 * values[i] /\ 100 * values[i] < 100 * nearest)

\* The summary is sound whatever the trace: the percentiles are ordered, no
\* more tokens are hit than prefixes have, and cutting the utilization off at
\* one changes nothing, although no GPU is asked when it ends its work.
ReportSound ==
    results # << >> =>
        /\ Summary.p50_ttft <= Summary.p95_ttft
        /\ Summary.p95_ttft <= Summary.p95_e2e
        /\ Summary.cache_hits[1] <= Summary.cache_hits[2]
        /\ \A w \in Gpus : Summary.utilization[w][1] = busy[w]
=============================================================================
