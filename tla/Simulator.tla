----------------------------- MODULE Simulator -----------------------------
(***************************************************************************)
(* The offline simulator of placement policies (simulator.py).             *)
(*                                                                         *)
(* A trace is played request by request: a policy chooses the GPUs, the    *)
(* request is booked behind what is booked there already, and its times    *)
(* are recorded.  One action is one turn of the loop.  GPUs are numbered   *)
(* as in gpu_models, which is the order of their ids (of up to ten).       *)
(*                                                                         *)
(* Times are integers in microseconds, bandwidth is in Gbit/s, factors are *)
(* in ten-thousandths; quotients are rounded down where the code keeps     *)
(* floats.                                                                 *)
(***************************************************************************)
EXTENDS Weights, Sequences

CONSTANTS GpuModels,            \* gpu_models
          KvBytesPerToken,      \* kv_bytes_per_token
          Prefixes,             \* the shared prefixes of generate_trace
          Own,                  \* a prefix no other request has
          Shapes,               \* the requests of the trace, but for arrival
          Gaps,                 \* times between two arrivals
          MaxRequests           \* bound of the length of a trace

ASSUME OwnAssumption == Own \notin Prefixes

Larger(a, b) == IF a >= b THEN a ELSE b
Smaller(a, b) == IF a <= b THEN a ELSE b

Policies == {"aggregated", "pd-round-robin", "pd-load-aware", "pd-kv-aware"}

\* GPU_PROFILES
Profile ==
    [A100 |-> [prefill |-> 30, decode |-> 6800, bandwidth |-> 160, capacity |-> 14],
     RTX4090 |-> [prefill |-> 47, decode |-> 8600, bandwidth |-> 24, capacity |-> 10],
     RTX3090 |-> [prefill |-> 80, decode |-> 13200, bandwidth |-> 20, capacity |-> 7]]

\* simulate raises ValueError for fewer than two GPUs.
ASSUME GpusAssumption ==
    GpuModels \in Seq(DOMAIN Profile) /\ Len(GpuModels) >= 2

Gpus == DOMAIN GpuModels

Of(w) == Profile[GpuModels[w]]

\* simulate gives the first half to prefill.
Split == Larger(1, Len(GpuModels) \div 2)
Prefillers == 1 .. Split
Decoders == (Split + 1) .. Len(GpuModels)

\* The kinds of requests of the three workloads; "mixed" has two.
Kinds ==
    {[inputs |-> 128 .. 512, outputs |-> 64 .. 192, ttft_slo |-> 150000],
     [inputs |-> 4096 .. 8192, outputs |-> 64 .. 256, ttft_slo |-> 700000],
     [inputs |-> 256 .. 1024, outputs |-> 64 .. 256, ttft_slo |-> 600000],
     [inputs |-> 2048 .. 8192, outputs |-> 128 .. 512, ttft_slo |-> 600000]}

\* The prefix lengths drawn for an input: 45 to 80 percent of it are shared,
\* or 20 percent are the request's own.
PrefixTokens(prefix, input) ==
    LET part(percent) == Larger(16, (input * percent) \div 100)
    IN  IF prefix = Own THEN part(20) .. part(20) ELSE part(45) .. part(80)

\* What generate_trace can make of a request.
ASSUME ShapesAssumption ==
    \A s \in Shapes :
        /\ \E k \in Kinds : /\ s.input_tokens \in k.inputs
                            /\ s.output_tokens \in k.outputs
                            /\ s.ttft_slo = k.ttft_slo
        /\ s.tpot_slo = 20000
        /\ s.prefix \in Prefixes \cup {Own}
        /\ s.prefix_tokens \in PrefixTokens(s.prefix, s.input_tokens)

ASSUME BoundsAssumption ==
    Gaps \subseteq Nat /\ KvBytesPerToken \in Nat /\ MaxRequests \in Nat

VARIABLES policy,       \* the policy simulated
          clock,        \* the last arrival
          available,    \* available[w]: available_ms of GPU w
          busy,         \* busy[w]: its busy_ms
          cache,        \* cache[w][x]: tokens of prefix x in its cache
          results       \* the requests so far, with their bookings

vars == <<policy, clock, available, busy, cache, results>>

Init ==
    /\ policy \in Policies
    /\ clock = 0
    /\ available = [w \in Gpus |-> 0]
    /\ busy = [w \in Gpus |-> 0]
    /\ cache = [w \in Gpus |-> [x \in Prefixes |-> 0]]
    /\ results = << >>

-----------------------------------------------------------------------------
(* The times of a request of shape s that arrives at t                     *)

\* The tokens of the prefix of s that GPU w need not compute.
Cached(w, s) ==
    IF s.prefix = Own THEN 0 ELSE Smaller(cache[w][s.prefix], s.prefix_tokens)

PrefillTime(w, tokens) == Larger(1, tokens) * Of(w).prefill

\* Mutants of Start: work begins when it is ready, whatever is booked, or when
\* the GPU is free, whatever has arrived.
StartWhenReady(w, t) == t
StartWhenFree(w, t) == available[w]

\* Work that is ready at t starts once what is booked on GPU w is done.
Start(w, t) == Larger(available[w], t)

\* The KV cache of so many tokens over the narrower of two links.
TransferTime(p, d, tokens) ==
    150 + ((tokens * KvBytesPerToken) \div 125) \div Smaller(Of(p).bandwidth, Of(d).bandwidth)

\* Both phases on the GPUs p and d: what the request records and books.  The
\* decoding occupies its GPU for service, less than the request sees.
Booking(p, d, s, t, cached, p_start, transfer, d_start, tpot) ==
    LET ttft == d_start + tpot - t
        service == (s.output_tokens * tpot) \div Of(d).capacity
    IN  [prefill |-> p, decode |-> d, shape |-> s, arrival |-> t,
         cached |-> cached, transfer |-> transfer,
         p_start |-> p_start,
         p_finish |-> p_start + PrefillTime(p, s.input_tokens - cached),
         d_start |-> d_start, d_finish |-> d_start + service,
         ttft |-> ttft, tpot |-> tpot,
         e2e |-> ttft + Larger(0, s.output_tokens - 1) * tpot]

\* One GPU does both.  Long prefills and queueing slow the decoding down, by
\* at most three quarters.
AggregatedBooking(w, s, t) ==
    LET cached == Cached(w, s)
        start == Start(w, t)
        slowdown == Smaller(7500, (s.input_tokens * 5500) \div 8192 + (start - t) \div 500)
    IN  Booking(w, w, s, t, cached, start, 0,
                start + PrefillTime(w, s.input_tokens - cached),
                (Of(w).decode * (10000 + slowdown)) \div 10000)

\* Prefill on p, transfer, decoding on d.
PDBooking(p, d, s, t) ==
    LET cached == Cached(d, s)
        transfer == IF cached > 0 THEN 50 ELSE TransferTime(p, d, s.input_tokens)
        p_finish == Start(p, t) + PrefillTime(p, s.input_tokens - cached)
    IN  Booking(p, d, s, t, cached, Start(p, t), transfer,
                Start(d, p_finish + transfer), Of(d).decode)

-----------------------------------------------------------------------------
(* The policies                                                            *)

\* The GPU that is done with the prefill first; projected, unlike the
\* booking, may count no token at all.
AggregatedChoice(w, s, t) ==
    IsLeast(w, [v \in Gpus |->
        << Start(v, t) + (s.input_tokens - Cached(v, s)) * Of(v).prefill, v >>])

RoundRobin(p, d) ==
    /\ p = 1 + (Len(results) % Split)
    /\ d = Split + 1 + (Len(results) % (Len(GpuModels) - Split))

\* The prefiller done first if nothing is cached, and the least booked decoder.
LoadAware(p, d, s, t) ==
    /\ IsLeast(p, [v \in Prefillers |->
                     << Start(v, t) + s.input_tokens * Of(v).prefill, v >>])
    /\ IsLeast(d, [v \in Decoders |-> << available[v], v >>])

\* Mutant of PairScore: decoders are taken to be idle.
PairScoreIdle(p, d, s, t) ==
    LET hit == Cached(d, s)
        transfer == IF hit > 0 THEN 50 ELSE TransferTime(p, d, s.input_tokens)
    IN  Start(p, t) + PrefillTime(p, s.input_tokens - hit) + transfer + Of(d).decode - t

\* pair_score: the time to first token predicted for a pair.
PairScore(p, d, s, t) ==
    LET hit == Cached(d, s)
        transfer == IF hit > 0 THEN 50 ELSE TransferTime(p, d, s.input_tokens)
        p_finish == Start(p, t) + PrefillTime(p, s.input_tokens - hit)
    IN  Larger(available[d], p_finish + transfer) + Of(d).decode - t

KVAware(p, d, s, t) ==
    IsLeast(<<p, d>>, [pd \in Prefillers \X Decoders |->
                         << PairScore(pd[1], pd[2], s, t), pd[1], pd[2] >>])

PDChoice(p, d, s, t) ==
    CASE policy = "pd-round-robin" -> RoundRobin(p, d)
      [] policy = "pd-load-aware" -> LoadAware(p, d, s, t)
      [] policy = "pd-kv-aware" -> KVAware(p, d, s, t)

-----------------------------------------------------------------------------
(* The loop over the trace                                                 *)

\* Mutant of Service: the decoding counts undivided by the capacity.
ServiceUndivided(b, w) ==
    (IF w = b.prefill THEN b.p_finish - b.p_start ELSE 0)
      + (IF w = b.decode THEN b.shape.output_tokens * b.tpot ELSE 0)

\* What a booking adds to the busy time of GPU w.
Service(b, w) ==
    (IF w = b.prefill THEN b.p_finish - b.p_start ELSE 0)
      + (IF w = b.decode THEN b.d_finish - b.d_start ELSE 0)

\* Mutant of Book: every GPU gets the prefix.
BookForAll(b) ==
    /\ available' = [available EXCEPT ![b.prefill] = b.p_finish, ![b.decode] = b.d_finish]
    /\ busy' = [w \in Gpus |-> busy[w] + Service(b, w)]
    /\ cache' = IF b.shape.prefix = Own THEN cache
                ELSE [w \in Gpus |-> [cache[w] EXCEPT ![b.shape.prefix] =
                                        Larger(@, b.shape.prefix_tokens)]]
    /\ results' = Append(results, b)
    /\ clock' = b.arrival
    /\ UNCHANGED policy

\* The end of a turn: the GPUs are taken, the prefix is cached where the
\* request is decoded, and the result is recorded.
Book(b) ==
    /\ available' = [available EXCEPT ![b.prefill] = b.p_finish, ![b.decode] = b.d_finish]
    /\ busy' = [w \in Gpus |-> busy[w] + Service(b, w)]
    /\ cache' = IF b.shape.prefix = Own THEN cache
                ELSE [cache EXCEPT ![b.decode][b.shape.prefix] =
                        Larger(@, b.shape.prefix_tokens)]
    /\ results' = Append(results, b)
    /\ clock' = b.arrival
    /\ UNCHANGED policy

\* A turn of _simulate_aggregated.
PlaceAggregated(s, t) ==
    /\ policy = "aggregated"
    /\ \E w \in Gpus : AggregatedChoice(w, s, t) /\ Book(AggregatedBooking(w, s, t))

\* A turn of _simulate_pd.
PlacePD(s, t) ==
    /\ policy # "aggregated"
    /\ \E p \in Prefillers, d \in Decoders :
         PDChoice(p, d, s, t) /\ Book(PDBooking(p, d, s, t))

\* Arrivals never go back: generate_trace adds the gaps up.
Turn ==
    /\ Len(results) < MaxRequests
    /\ \E s \in Shapes, gap \in Gaps :
         PlaceAggregated(s, clock + gap) \/ PlacePD(s, clock + gap)

TraceEnds == Len(results) = MaxRequests /\ UNCHANGED vars

Next == Turn \/ TraceEnds

Spec == Init /\ [][Next]_vars

-----------------------------------------------------------------------------
(* Properties                                                              *)

\* The variables have the shape the code gives them.
TypeOK ==
    /\ policy \in Policies
    /\ clock \in Nat
    /\ available \in [Gpus -> Nat]
    /\ busy \in [Gpus -> Nat]
    /\ cache \in [Gpus -> [Prefixes -> Nat]]
    /\ results \in Seq([prefill : Gpus, decode : Gpus, shape : Shapes, arrival : Nat,
                        cached : Nat, transfer : Nat, p_start : Nat, p_finish : Nat,
                        d_start : Nat, d_finish : Nat, ttft : Nat, tpot : Nat, e2e : Nat])

\* The two spells a result books.
Booked(b) == {[gpu |-> b.prefill, from |-> b.p_start, until |-> b.p_finish],
              [gpu |-> b.decode, from |-> b.d_start, until |-> b.d_finish]}

\* No GPU works on two requests at once, whichever phases they are in: what a
\* later request of the trace books lies behind all that is booked already.
NoDoubleBooking ==
    \A j \in DOMAIN results : \A i \in 1 .. (j - 1) :
        \A u \in Booked(results[i]), v \in Booked(results[j]) :
            u.gpu = v.gpu => u.until <= v.from

\* The utilization the report computes is never above one before it is cut off
\* there: no GPU is busy for longer than until the end of some request.
BusyWithinTrace ==
    \A w \in Gpus : busy[w] > 0 =>
        \E i \in DOMAIN results : busy[w] <= results[i].arrival + results[i].e2e

\* From when on the GPU of a hit works on the request that has it.
UseOfHit(b) == IF policy = "aggregated" THEN b.p_start ELSE b.d_start

\* What a request finds in a cache was brought there by an earlier request of
\* the trace that was decoded on the same GPU.  Where one GPU does both phases
\* that request is done before the hit shortens the prefill of this one; with
\* separate GPUs it is only done before this one is decoded, and the prefill
\* that the hit shortens may come first.
HitsWereBrought ==
    \A j \in DOMAIN results : results[j].cached > 0 =>
        \E i \in 1 .. (j - 1) :
            /\ results[i].decode = results[j].decode
            /\ results[i].shape.prefix = results[j].shape.prefix
            /\ results[i].shape.prefix_tokens >= results[j].cached
            /\ results[i].d_finish <= UseOfHit(results[j])

\* What a policy minimizes is computed apart from what is booked, and agrees
\* with it: on no other GPU would a request that is placed for an early
\* prefill, or on no other pair one placed for an early token, fare better.
ChoiceIsBooked ==
    [][ results' # results =>
          LET b == results'[Len(results')]
          IN  /\ policy = "aggregated" =>
                   \A w \in Gpus :
                     b.p_finish <= AggregatedBooking(w, b.shape, b.arrival).p_finish
              /\ policy = "pd-kv-aware" =>
                   \A p \in Prefillers, d \in Decoders :
                     b.ttft <= PDBooking(p, d, b.shape, b.arrival).ttft ]_vars
=============================================================================
