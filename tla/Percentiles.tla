---------------------------- MODULE Percentiles ----------------------------
(***************************************************************************)
(* The percentiles of the two reports: the simulator takes a value of the  *)
(* list (simulator.py), the GPU benchmark interpolates between two of them *)
(* (gpu_benchmark.py).  Quantiles are in percent.                          *)
(***************************************************************************)
EXTENDS Integers, Sequences, FiniteSets

\* The places of what sorted() puts before the value at place i: the smaller
\* values and, the sort being stable, the equal ones further ahead.
Before(values, i) ==
    {j \in DOMAIN values :
        values[j] < values[i] \/ (values[j] = values[i] /\ j < i)}

\* The list sorted: its value number k has k - 1 values before it.
Ascending(values) ==
    [k \in DOMAIN values |->
        values[CHOOSE i \in DOMAIN values : Cardinality(Before(values, i)) = k - 1]]

\* Mutant of NearestRank: the rank is rounded down.
NearestRankDown(values, quantile) ==
    LET n == Len(values)
        rank == (n * quantile) \div 100
    IN  IF n = 0 THEN 0 ELSE Ascending(values)[IF rank = 0 THEN 1 ELSE rank]

\* simulator.percentile
NearestRank(values, quantile) ==
    LET n == Len(values)
        rank == (n * quantile + 99) \div 100
    IN  IF n = 0 THEN 0 ELSE Ascending(values)[IF rank = 0 THEN 1 ELSE rank]

\* gpu_benchmark.percentile of a list that is not empty, in hundredths.
Interpolated(values, quantile) ==
    LET ordered == Ascending(values)
        index == (Len(values) - 1) * quantile
        lower == index \div 100
        upper == (index + 99) \div 100
    IN  IF lower = upper THEN 100 * ordered[lower + 1]
        ELSE ordered[lower + 1] * (100 * upper - index)
               + ordered[upper + 1] * (index - 100 * lower)

=============================================================================
