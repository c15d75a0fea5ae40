-------------------------- MODULE SimulatorProofs --------------------------
(***************************************************************************)
(* Theorems about the offline simulator, for every fleet of known GPUs and *)
(* every trace that generate_trace can make.                               *)
(***************************************************************************)
EXTENDS SimulationReport, WeightsProofs

ResultSet == [prefill : Gpus, decode : Gpus, shape : Shapes, arrival : Nat,
              cached : Nat, transfer : Nat, p_start : Nat, p_finish : Nat,
              d_start : Nat, d_finish : Nat, ttft : Nat, tpot : Nat, e2e : Nat]

-----------------------------------------------------------------------------
(* Arithmetic                                                              *)

LEMMA ProductNat == ASSUME NEW a \in Nat, NEW b \in Nat PROVE a * b \in Nat
OBVIOUS

LEMMA ShareOf ==
    ASSUME NEW n \in Nat, NEW c \in {7, 10, 14}
    PROVE  n \div c \in Nat /\ n \div c <= n
OBVIOUS

LEMMA LinkTime ==
    ASSUME NEW n \in Nat, NEW a \in {160, 24, 20}, NEW b \in {160, 24, 20}
    PROVE  (n \div 125) \div Smaller(a, b) \in Nat
<1>1. n \div 125 \in Nat
  OBVIOUS
<1>2. Smaller(a, b) \in {160, 24, 20}
  BY DEF Smaller
<1>3. \A m \in Nat : \A c \in {160, 24, 20} : m \div c \in Nat
  OBVIOUS
<1> QED
  BY <1>1, <1>2, <1>3

\* What generate_trace makes of the numbers of a request.
LEMMA ShapeFacts ==
    ASSUME NEW s \in Shapes
    PROVE  /\ s.input_tokens \in Nat /\ s.input_tokens >= 128
           /\ s.output_tokens \in Nat /\ s.output_tokens >= 1
           /\ s.prefix_tokens \in Nat /\ s.prefix_tokens < s.input_tokens
           /\ s.prefix \in Prefixes \cup {Own}
<1>1. PICK k \in Kinds : s.input_tokens \in k.inputs /\ s.output_tokens \in k.outputs
  BY ShapesAssumption
<1>2. /\ s.input_tokens \in Nat /\ s.input_tokens >= 128
      /\ s.output_tokens \in Nat /\ s.output_tokens >= 1
  <2> DEFINE Bounded(ins, outs) == /\ \A n \in ins : n \in Nat /\ n >= 128
                                   /\ \A n \in outs : n \in Nat /\ n >= 1
             chat == 128 .. 512
             long == 4096 .. 8192
             short == 256 .. 1024
             wide == 2048 .. 8192
             few == 64 .. 192
             some == 64 .. 256
             many == 128 .. 512
  <2>1. /\ Bounded(chat, few) /\ Bounded(long, some)
        /\ Bounded(short, some) /\ Bounded(wide, many)
    BY SMTT(30)
  <2>2. \/ k.inputs = chat /\ k.outputs = few
        \/ k.inputs = long /\ k.outputs = some
        \/ k.inputs = short /\ k.outputs = some
        \/ k.inputs = wide /\ k.outputs = many
    BY SMTT(30) DEF Kinds
  <2> HIDE DEF Bounded, chat, long, short, wide, few, some, many
  <2>3. Bounded(k.inputs, k.outputs)
    BY <2>1, <2>2
  <2> QED
    BY <1>1, <2>3 DEF Bounded
<1>3. s.prefix_tokens \in PrefixTokens(s.prefix, s.input_tokens)
  BY ShapesAssumption
<1> DEFINE part(percent) == Larger(16, (s.input_tokens * percent) \div 100)
<1>4. /\ part(20) \in Nat /\ part(45) \in Nat /\ part(80) \in Nat
      /\ part(20) < s.input_tokens /\ part(80) < s.input_tokens
  <2>1. \A n \in Nat : n >= 128 =>
          /\ (n * 20) \div 100 \in Nat /\ (n * 20) \div 100 < n
          /\ (n * 45) \div 100 \in Nat
          /\ (n * 80) \div 100 \in Nat /\ (n * 80) \div 100 < n
    OBVIOUS
  <2> QED
    BY <1>2, <2>1 DEF Larger
<1>5. s.prefix_tokens \in part(20) .. part(20) \/ s.prefix_tokens \in part(45) .. part(80)
  BY <1>3 DEF PrefixTokens
<1> HIDE DEF part
<1> QED
  BY <1>2, <1>4, <1>5, ShapesAssumption

LEMMA GpuFacts ==
    ASSUME NEW w \in Gpus
    PROVE  /\ Of(w).prefill \in Nat /\ Of(w).prefill >= 1
           /\ Of(w).decode \in Nat /\ Of(w).decode >= 1
           /\ Of(w).bandwidth \in {160, 24, 20}
           /\ Of(w).capacity \in {7, 10, 14}
<1>1. GpuModels[w] \in DOMAIN Profile
  BY GpusAssumption DEF Gpus
<1>2. GpuModels[w] \in {"A100", "RTX4090", "RTX3090"}
  BY <1>1 DEF Profile
<1> QED
  BY <1>2 DEF Of, Profile

LEMMA Halves == Prefillers \subseteq Gpus /\ Decoders \subseteq Gpus /\ Prefillers \cap Decoders = {}
<1>1. Gpus = 1 .. Len(GpuModels) /\ Len(GpuModels) \in Nat /\ Len(GpuModels) >= 2
  BY GpusAssumption DEF Gpus
<1>2. Split \in Nat /\ 1 <= Split /\ Split < Len(GpuModels)
  BY <1>1 DEF Split, Larger
<1> QED
  BY <1>1, <1>2 DEF Prefillers, Decoders

-----------------------------------------------------------------------------
(* What a booking is                                                       *)

\* Both spells lie behind what is booked already, and the second behind the
\* first; the client is done after both; what is hit is in the cache.
Sound(b) ==
    /\ b \in ResultSet
    /\ available[b.prefill] <= b.p_start /\ available[b.decode] <= b.d_start
    /\ b.p_start <= b.p_finish /\ b.p_finish <= b.d_start /\ b.d_start <= b.d_finish
    /\ b.d_finish <= b.arrival + b.e2e
    /\ b.ttft <= b.e2e /\ b.cached <= b.shape.prefix_tokens
    /\ b.cached > 0 =>
         /\ b.shape.prefix \in Prefixes
         /\ b.cached <= cache[b.decode][b.shape.prefix]

LEMMA CachedFacts ==
    ASSUME TypeOK, NEW w \in Gpus, NEW s \in Shapes
    PROVE  /\ Cached(w, s) \in Nat /\ Cached(w, s) < s.input_tokens
           /\ Cached(w, s) <= s.prefix_tokens
           /\ Cached(w, s) > 0 =>
                s.prefix \in Prefixes /\ Cached(w, s) <= cache[w][s.prefix]
<1>1. /\ s.input_tokens \in Nat /\ s.input_tokens >= 128
      /\ s.prefix_tokens \in Nat /\ s.prefix_tokens < s.input_tokens
      /\ s.prefix \in Prefixes \cup {Own}
  BY ShapeFacts
<1>2. s.prefix # Own => cache[w][s.prefix] \in Nat
  BY <1>1 DEF TypeOK
<1> QED
  BY <1>1, <1>2 DEF Cached, Smaller

LEMMA PrefillFacts ==
    ASSUME NEW w \in Gpus, NEW n \in Nat PROVE PrefillTime(w, n) \in Nat
<1>1. Larger(1, n) \in Nat /\ Of(w).prefill \in Nat
  BY GpuFacts DEF Larger
<1> QED
  BY <1>1, ProductNat DEF PrefillTime

LEMMA TransferFacts ==
    ASSUME NEW p \in Gpus, NEW d \in Gpus, NEW n \in Nat
    PROVE  TransferTime(p, d, n) \in Nat
<1>1. n * KvBytesPerToken \in Nat
  BY BoundsAssumption, ProductNat
<1>2. Of(p).bandwidth \in {160, 24, 20} /\ Of(d).bandwidth \in {160, 24, 20}
  BY GpuFacts
<1> DEFINE m == n * KvBytesPerToken
           q == (m \div 125) \div Smaller(Of(p).bandwidth, Of(d).bandwidth)
<1> HIDE DEF m
<1>3. q \in Nat
  BY <1>1, <1>2, LinkTime DEF m
<1>4. TransferTime(p, d, n) = 150 + q
  BY DEF TransferTime, m
<1> HIDE DEF q
<1> QED
  BY <1>3, <1>4

\* The fields of a booking of ordinary times.
LEMMA BookingFacts ==
    ASSUME NEW p, NEW d, NEW s, NEW t, NEW cached, NEW p_start, NEW transfer,
           NEW d_start, NEW tpot,
           p \in Gpus, d \in Gpus, s \in Shapes, t \in Nat, cached \in Nat,
           p_start \in Nat, transfer \in Nat, d_start \in Nat, tpot \in Nat,
           cached < s.input_tokens, t <= d_start,
           NEW b, b = Booking(p, d, s, t, cached, p_start, transfer, d_start, tpot)
    PROVE  /\ b \in ResultSet
           /\ b.prefill = p /\ b.decode = d /\ b.shape = s /\ b.arrival = t
           /\ b.cached = cached /\ b.p_start = p_start /\ b.d_start = d_start
           /\ b.p_finish = p_start + PrefillTime(p, s.input_tokens - cached)
           /\ b.p_start <= b.p_finish /\ b.d_start <= b.d_finish
           /\ b.ttft = d_start + tpot - t
           /\ b.d_finish <= b.arrival + b.e2e /\ b.ttft <= b.e2e
<1>1. /\ s.input_tokens \in Nat /\ s.output_tokens \in Nat /\ s.output_tokens >= 1
  BY ShapeFacts
<1> DEFINE prefill == PrefillTime(p, s.input_tokens - cached)
           all == s.output_tokens * tpot
           rest == Larger(0, s.output_tokens - 1) * tpot
           service == (s.output_tokens * tpot) \div Of(d).capacity
           ttft == d_start + tpot - t
<1>2. prefill \in Nat
  BY <1>1, PrefillFacts
<1>3. all \in Nat /\ rest \in Nat /\ all = tpot + rest
  <2>1. Larger(0, s.output_tokens - 1) = s.output_tokens - 1
    BY <1>1 DEF Larger
  <2>2. \A n \in Nat : n >= 1 => n * tpot = tpot + (n - 1) * tpot
    OBVIOUS
  <2>3. all \in Nat /\ (s.output_tokens - 1) * tpot \in Nat
    BY <1>1, ProductNat
  <2> QED
    BY <1>1, <2>1, <2>2, <2>3
<1>4. service \in Nat /\ service <= all
  <2> HIDE DEF all
  <2>1. Of(d).capacity \in {7, 10, 14}
    BY GpuFacts
  <2>2. service = all \div Of(d).capacity
    BY DEF all
  <2> HIDE DEF service
  <2> QED
    BY <1>3, <2>1, <2>2, ShareOf
<1>5. ttft \in Nat
  OBVIOUS
<1>6. b = [prefill |-> p, decode |-> d, shape |-> s, arrival |-> t,
           cached |-> cached, transfer |-> transfer,
           p_start |-> p_start, p_finish |-> p_start + prefill,
           d_start |-> d_start, d_finish |-> d_start + service,
           ttft |-> ttft, tpot |-> tpot, e2e |-> ttft + rest]
  BY DEF Booking
<1> HIDE DEF prefill, all, rest, service
<1>7. /\ b.p_start <= b.p_finish /\ b.d_start <= b.d_finish
      /\ b.d_finish <= b.arrival + b.e2e /\ b.ttft <= b.e2e
  BY <1>2, <1>3, <1>4, <1>5, <1>6
<1> HIDE DEF ttft
<1>8. b \in ResultSet
  BY <1>2, <1>3, <1>4, <1>5, <1>6 DEF ResultSet
<1> QED
  BY <1>6, <1>7, <1>8 DEF prefill, ttft

LEMMA StartFacts ==
    ASSUME TypeOK, NEW w \in Gpus, NEW t \in Nat
    PROVE  Start(w, t) \in Nat /\ t <= Start(w, t) /\ available[w] <= Start(w, t)
BY DEF TypeOK, Start, Larger

LEMMA AggregatedSound ==
    ASSUME TypeOK, NEW w \in Gpus, NEW s \in Shapes, NEW t \in Nat
    PROVE  LET b == AggregatedBooking(w, s, t)
           IN  /\ Sound(b) /\ b.arrival = t /\ b.shape = s
               /\ b.p_finish = Start(w, t) + PrefillTime(w, s.input_tokens - Cached(w, s))
<1> DEFINE cached == Cached(w, s)
           start == Start(w, t)
           slowdown == Smaller(7500, (s.input_tokens * 5500) \div 8192 + (start - t) \div 500)
           d_start == start + PrefillTime(w, s.input_tokens - cached)
           tpot == (Of(w).decode * (10000 + slowdown)) \div 10000
           b == Booking(w, w, s, t, cached, start, 0, d_start, tpot)
<1>1. /\ cached \in Nat /\ cached < s.input_tokens /\ cached <= s.prefix_tokens
      /\ cached > 0 => s.prefix \in Prefixes /\ cached <= cache[w][s.prefix]
      /\ s.input_tokens \in Nat
  BY CachedFacts, ShapeFacts
<1>2. start \in Nat /\ t <= start /\ available[w] <= start /\ available[w] \in Nat
  BY StartFacts DEF TypeOK
<1>3. AggregatedBooking(w, s, t) = b
  BY DEF AggregatedBooking
<1> HIDE DEF cached, start
<1>4. slowdown \in Nat
  BY <1>1, <1>2 DEF Smaller
<1> HIDE DEF slowdown
<1>5. tpot \in Nat
  <2>1. Of(w).decode * (10000 + slowdown) \in Nat
    BY <1>4, GpuFacts, ProductNat
  <2>2. \A n \in Nat : n \div 10000 \in Nat
    OBVIOUS
  <2> QED
    BY <2>1, <2>2
<1>6. d_start \in Nat /\ start <= d_start
  BY <1>1, <1>2, PrefillFacts
<1> HIDE DEF tpot
<1>7. /\ b \in ResultSet /\ b.prefill = w /\ b.decode = w /\ b.shape = s /\ b.arrival = t
      /\ b.cached = cached /\ b.p_start = start /\ b.d_start = d_start
      /\ b.p_finish = d_start
      /\ b.p_start <= b.p_finish /\ b.d_start <= b.d_finish
      /\ b.d_finish <= b.arrival + b.e2e /\ b.ttft <= b.e2e
  <2>1. t <= d_start
    BY <1>2, <1>6
  <2>2. d_start = start + PrefillTime(w, s.input_tokens - cached)
    OBVIOUS
  <2>3. b = Booking(w, w, s, t, cached, start, 0, d_start, tpot)
    OBVIOUS
  <2> HIDE DEF b, d_start
  <2> QED
    BY <1>1, <1>2, <1>5, <1>6, <2>1, <2>2, <2>3, BookingFacts
<1> HIDE DEF b, d_start
<1>8. Sound(b)
  BY <1>1, <1>2, <1>6, <1>7 DEF Sound
<1> QED
  BY <1>3, <1>7, <1>8 DEF d_start, start, cached

LEMMA PDSound ==
    ASSUME TypeOK, NEW p \in Gpus, NEW d \in Gpus, NEW s \in Shapes, NEW t \in Nat
    PROVE  LET b == PDBooking(p, d, s, t)
           IN  /\ Sound(b) /\ b.arrival = t /\ b.shape = s
               /\ b.ttft = PairScore(p, d, s, t)
<1> DEFINE cached == Cached(d, s)
           transfer == IF cached > 0 THEN 50 ELSE TransferTime(p, d, s.input_tokens)
           start == Start(p, t)
           p_finish == start + PrefillTime(p, s.input_tokens - cached)
           d_start == Start(d, p_finish + transfer)
           b == Booking(p, d, s, t, cached, start, transfer, d_start, Of(d).decode)
<1>1. /\ cached \in Nat /\ cached < s.input_tokens /\ cached <= s.prefix_tokens
      /\ cached > 0 => s.prefix \in Prefixes /\ cached <= cache[d][s.prefix]
      /\ s.input_tokens \in Nat
  BY CachedFacts, ShapeFacts
<1>2. start \in Nat /\ t <= start /\ available[p] <= start /\ available[p] \in Nat
  BY StartFacts DEF TypeOK
<1>3. PDBooking(p, d, s, t) = b
  BY DEF PDBooking
<1>4. PairScore(p, d, s, t) = d_start + Of(d).decode - t
  BY DEF PairScore, Start
<1> HIDE DEF cached, start
<1>5. transfer \in Nat
  BY <1>1, TransferFacts
<1> HIDE DEF transfer
<1>6. p_finish \in Nat /\ start <= p_finish
  BY <1>1, <1>2, PrefillFacts
<1>7. /\ d_start \in Nat /\ p_finish + transfer <= d_start
      /\ available[d] <= d_start /\ available[d] \in Nat
  <2> HIDE DEF p_finish
  <2>1. p_finish + transfer \in Nat
    BY <1>5, <1>6
  <2> QED
    BY <2>1, StartFacts DEF TypeOK
<1>8. p_finish <= d_start /\ t <= d_start
  <2> HIDE DEF p_finish, d_start
  <2> QED
    BY <1>2, <1>5, <1>6, <1>7
<1> HIDE DEF d_start
<1>9. Of(d).decode \in Nat
  BY GpuFacts
<1>10. /\ b \in ResultSet /\ b.prefill = p /\ b.decode = d /\ b.shape = s /\ b.arrival = t
       /\ b.cached = cached /\ b.p_start = start /\ b.d_start = d_start
       /\ b.p_finish = p_finish
       /\ b.p_start <= b.p_finish /\ b.d_start <= b.d_finish
       /\ b.ttft = d_start + Of(d).decode - t
       /\ b.d_finish <= b.arrival + b.e2e /\ b.ttft <= b.e2e
  <2>1. p_finish = start + PrefillTime(p, s.input_tokens - cached)
    OBVIOUS
  <2>2. b = Booking(p, d, s, t, cached, start, transfer, d_start, Of(d).decode)
    OBVIOUS
  <2> HIDE DEF b, p_finish
  <2> QED
    BY <1>1, <1>2, <1>5, <1>7, <1>8, <1>9, <2>1, <2>2, BookingFacts
<1> HIDE DEF b, p_finish
<1>11. Sound(b)
  BY <1>1, <1>2, <1>6, <1>7, <1>8, <1>10 DEF Sound
<1> QED
  BY <1>3, <1>4, <1>10, <1>11

-----------------------------------------------------------------------------
(* The inductive invariant                                                 *)

\* What is booked on a GPU ends by available, and what is cached there was
\* brought by a request decoded there.  A result has its first token no later
\* than its last, and hits no more than its prefix.
SimulatorInv ==
    /\ TypeOK
    /\ \A w \in Gpus : busy[w] <= available[w]
    /\ \A w \in Gpus : available[w] > 0 =>
         \E i \in DOMAIN results : available[w] <= results[i].arrival + results[i].e2e
    /\ \A i \in DOMAIN results :
         /\ results[i].p_finish <= available[results[i].prefill]
         /\ results[i].d_finish <= available[results[i].decode]
    /\ \A w \in Gpus, x \in Prefixes : cache[w][x] > 0 =>
         \E i \in DOMAIN results :
           /\ results[i].decode = w /\ results[i].shape.prefix = x
           /\ cache[w][x] <= results[i].shape.prefix_tokens
    /\ \A i \in DOMAIN results : /\ results[i].ttft <= results[i].e2e
                                /\ results[i].cached <= results[i].shape.prefix_tokens
    /\ NoDoubleBooking
    /\ HitsWereBrought

LEMMA InitSimulator == Init => SimulatorInv
<1> SUFFICES ASSUME Init PROVE SimulatorInv
  OBVIOUS
<1>1. TypeOK
  BY DEF Init, TypeOK
<1> QED
  BY <1>1 DEF Init, SimulatorInv, NoDoubleBooking, HitsWereBrought

\* The steps of the loop book what is sound, and the aggregated policy uses one
\* GPU for both phases.
LEMMA StepsBook ==
    ASSUME TypeOK, Next, UNCHANGED vars => FALSE
    PROVE  \E b : /\ Sound(b) /\ Book(b)
                  /\ policy = "aggregated" => b.decode = b.prefill
<1>1. PICK s \in Shapes, gap \in Gaps :
        PlaceAggregated(s, clock + gap) \/ PlacePD(s, clock + gap)
  BY DEF Next, Turn, TraceEnds
<1>2. clock + gap \in Nat
  BY BoundsAssumption DEF TypeOK
<1> DEFINE t == clock + gap
<1> HIDE DEF t
<1>3. CASE PlaceAggregated(s, t)
  <2>1. PICK w \in Gpus : Book(AggregatedBooking(w, s, t))
    BY <1>3 DEF PlaceAggregated
  <2>2. /\ AggregatedBooking(w, s, t).prefill = w
        /\ AggregatedBooking(w, s, t).decode = w
    BY DEF AggregatedBooking, Booking
  <2> QED
    BY <1>2, <2>1, <2>2, AggregatedSound DEF t
<1>4. CASE PlacePD(s, t)
  <2>1. PICK p \in Prefillers, d \in Decoders : Book(PDBooking(p, d, s, t))
    BY <1>4 DEF PlacePD
  <2>2. policy # "aggregated"
    BY <1>4 DEF PlacePD
  <2> QED
    BY <1>2, <2>1, <2>2, PDSound, Halves DEF t
<1> QED
  BY <1>1, <1>3, <1>4 DEF t

LEMMA BookKeeps ==
    ASSUME SimulatorInv, NEW b, Sound(b), Book(b),
           policy = "aggregated" => b.decode = b.prefill
    PROVE  SimulatorInv'
<1> DEFINE n == Len(results)
<1>1. /\ TypeOK /\ n \in Nat /\ results \in Seq(ResultSet) /\ DOMAIN results = 1 .. n
      /\ b \in ResultSet /\ b.prefill \in Gpus /\ b.decode \in Gpus /\ b.shape \in Shapes
      /\ b.p_start \in Nat /\ b.p_finish \in Nat /\ b.d_start \in Nat /\ b.d_finish \in Nat
      /\ b.arrival \in Nat /\ b.e2e \in Nat /\ b.cached \in Nat
  BY SMTT(30) DEF SimulatorInv, TypeOK, Sound, ResultSet
<1>2. /\ results' = Append(results, b) /\ DOMAIN results' = 1 .. (n + 1)
      /\ results'[n + 1] = b /\ \A i \in 1 .. n : results'[i] = results[i]
      /\ results' \in Seq(ResultSet)
  BY <1>1 DEF Book
<1>3. /\ available[b.prefill] <= b.p_start /\ available[b.decode] <= b.d_start
      /\ b.p_start <= b.p_finish /\ b.p_finish <= b.d_start /\ b.d_start <= b.d_finish
      /\ b.d_finish <= b.arrival + b.e2e
  BY DEF Sound
<1>4. /\ available \in [Gpus -> Nat] /\ busy \in [Gpus -> Nat]
      /\ cache \in [Gpus -> [Prefixes -> Nat]]
  BY <1>1 DEF TypeOK
<1>5. /\ available' = [available EXCEPT ![b.prefill] = b.p_finish, ![b.decode] = b.d_finish]
      /\ busy' = [w \in Gpus |-> busy[w] + Service(b, w)]
  BY DEF Book
<1> HIDE DEF n
<1>6. /\ available' \in [Gpus -> Nat]
      /\ \A w \in Gpus : available[w] <= available'[w]
      /\ b.p_finish <= available'[b.prefill] /\ available'[b.decode] = b.d_finish
      /\ \A w \in Gpus : \/ available'[w] = available[w]
                         \/ available'[w] <= b.d_finish
  <2>1. /\ DOMAIN available' = Gpus
        /\ \A w \in Gpus : available'[w] = IF w = b.decode THEN b.d_finish
                                          ELSE IF w = b.prefill THEN b.p_finish
                                          ELSE available[w]
        /\ available' = [w \in Gpus |-> available'[w]]
    BY <1>1, <1>4, <1>5
  <2>2. ASSUME NEW w \in Gpus
        PROVE  /\ available'[w] \in Nat /\ available[w] <= available'[w]
               /\ available'[w] = available[w] \/ available'[w] <= b.d_finish
    <3>1. available[w] \in Nat
      BY <1>4
    <3>2. CASE w = b.decode
      BY <1>1, <1>3, <2>1, <3>1, <3>2
    <3>3. CASE w # b.decode /\ w = b.prefill
      BY <1>1, <1>3, <2>1, <3>1, <3>3
    <3>4. CASE w # b.decode /\ w # b.prefill
      BY <2>1, <3>1, <3>4
    <3> QED
      BY <3>2, <3>3, <3>4
  <2>3. b.p_finish <= available'[b.prefill] /\ available'[b.decode] = b.d_finish
    BY <1>1, <1>3, <2>1
  <2> QED
    BY <2>1, <2>2, <2>3
<1>7. /\ busy' \in [Gpus -> Nat]
      /\ \A w \in Gpus : busy'[w] <= available'[w]
  <2>1. \A w \in Gpus : busy[w] <= available[w]
    BY DEF SimulatorInv
  <2>2. b.p_finish - b.p_start \in Nat /\ b.d_finish - b.d_start \in Nat
    BY <1>1, <1>3
  <2> DEFINE first == b.p_finish - b.p_start
             second == b.d_finish - b.d_start
  <2>3. \A w \in Gpus :
          busy'[w] = busy[w] + ((IF w = b.prefill THEN first ELSE 0)
                                  + (IF w = b.decode THEN second ELSE 0))
    BY <1>5 DEF Service
  <2>4. \A w \in Gpus : available'[w] = IF w = b.decode THEN b.d_finish
                                       ELSE IF w = b.prefill THEN b.p_finish
                                       ELSE available[w]
    BY <1>1, <1>4, <1>5
  <2>5. ASSUME NEW w \in Gpus PROVE busy'[w] \in Nat /\ busy'[w] <= available'[w]
    <3>1. busy[w] \in Nat /\ available[w] \in Nat /\ busy[w] <= available[w]
      BY <1>4, <2>1
    <3> HIDE DEF first, second
    <3>2. CASE w = b.decode /\ w = b.prefill
      <4>1. busy'[w] = busy[w] + first + second /\ available'[w] = b.d_finish
        BY <2>2, <2>3, <2>4, <3>1, <3>2 DEF first, second
      <4>2. available[w] <= b.p_start
        BY <1>3, <3>2
      <4>3. busy[w] + first + second <= b.d_finish
        <5>1. busy[w] + first <= b.p_finish
          BY <1>1, <3>1, <4>2 DEF first
        <5>2. b.p_finish + second <= b.d_finish
          BY <1>1, <1>3 DEF second
        <5>3. first \in Nat /\ second \in Nat
          BY <2>2 DEF first, second
        <5> QED
          BY <1>1, <3>1, <5>1, <5>2, <5>3, SMTT(30)
      <4>4. busy[w] + first + second \in Nat
        BY <2>2, <3>1 DEF first, second
      <4> QED
        BY <4>1, <4>3, <4>4
    <3>3. CASE w = b.decode /\ w # b.prefill
      <4>1. busy'[w] = busy[w] + second /\ available'[w] = b.d_finish
        BY <2>2, <2>3, <2>4, <3>1, <3>3 DEF first, second
      <4>2. available[w] <= b.d_start
        BY <1>3, <3>3
      <4> QED
        BY <1>1, <1>3, <3>1, <4>1, <4>2, SMTT(30) DEF first, second
    <3>4. CASE w # b.decode /\ w = b.prefill
      <4>1. busy'[w] = busy[w] + first /\ available'[w] = b.p_finish
        BY <2>2, <2>3, <2>4, <3>1, <3>4 DEF first, second
      <4>2. available[w] <= b.p_start
        BY <1>3, <3>4
      <4> QED
        BY <1>1, <1>3, <3>1, <4>1, <4>2, SMTT(30) DEF first, second
    <3>5. CASE w # b.decode /\ w # b.prefill
      BY <2>3, <2>4, <3>1, <3>5
    <3> QED
      BY <3>2, <3>3, <3>4, <3>5
  <2> QED
    BY <1>5, <2>5
<1>8. \A w \in Gpus : available'[w] > 0 =>
        \E i \in DOMAIN results' : available'[w] <= results'[i].arrival + results'[i].e2e
  <2> SUFFICES ASSUME NEW w \in Gpus, available'[w] > 0
               PROVE  \E i \in 1 .. (n + 1) :
                        available'[w] <= results'[i].arrival + results'[i].e2e
    BY <1>2
  <2>1. CASE available'[w] = available[w]
    <3>1. PICK i \in 1 .. n : available[w] <= results[i].arrival + results[i].e2e
      BY <1>1, <2>1 DEF SimulatorInv
    <3> QED
      BY <1>1, <1>2, <2>1, <3>1
  <2>2. CASE available'[w] <= b.d_finish
    <3>1. available'[w] <= b.arrival + b.e2e
      BY <1>1, <1>3, <1>6, <2>2
    <3> QED
      BY <1>1, <1>2, <3>1, SMTT(30)
  <2> QED
    BY <1>6, <2>1, <2>2
<1>9. \A i \in 1 .. n :
        /\ results[i] \in ResultSet
        /\ results[i].p_finish <= available[results[i].prefill]
        /\ results[i].d_finish <= available[results[i].decode]
  BY <1>1, SMTT(30) DEF SimulatorInv
<1>10. \A i \in DOMAIN results' :
         /\ results'[i].p_finish <= available'[results'[i].prefill]
         /\ results'[i].d_finish <= available'[results'[i].decode]
  <2> SUFFICES ASSUME NEW i \in 1 .. (n + 1)
               PROVE  /\ results'[i].p_finish <= available'[results'[i].prefill]
                      /\ results'[i].d_finish <= available'[results'[i].decode]
    BY <1>2
  <2>1. CASE i \in 1 .. n
    <3>1. /\ results[i].prefill \in Gpus /\ results[i].decode \in Gpus
          /\ results[i].p_finish \in Nat /\ results[i].d_finish \in Nat
      BY <1>9, <2>1 DEF ResultSet
    <3>2. ASSUME NEW w \in Gpus, NEW e \in Nat, e <= available[w]
          PROVE  e <= available'[w]
      BY <1>4, <1>6, <3>2
    <3>3. results'[i] = results[i]
      BY <1>2, <2>1
    <3> QED
      BY <1>9, <2>1, <3>1, <3>2, <3>3
  <2>2. CASE i = n + 1
    BY <1>1, <1>2, <1>6, <2>2
  <2> QED
    BY <1>1, <2>1, <2>2
<1>11. NoDoubleBooking'
  <2>0. NoDoubleBooking' <=>
          \A j \in DOMAIN results' : \A i \in 1 .. (j - 1) :
            \A u \in Booked(results'[i]), v \in Booked(results'[j]) :
              u.gpu = v.gpu => u.until <= v.from
    BY DEF NoDoubleBooking, Booked
  <2> SUFFICES ASSUME NEW j \in 1 .. (n + 1), NEW i \in 1 .. (j - 1),
                      NEW u \in Booked(results'[i]), NEW v \in Booked(results'[j]),
                      u.gpu = v.gpu
               PROVE  u.until <= v.from
    BY <1>2, <2>0
  <2>1. i \in 1 .. n /\ results'[i] = results[i]
    BY <1>1, <1>2
  <2>2. CASE j \in 1 .. n
    BY <1>1, <1>2, <2>1, <2>2 DEF SimulatorInv, NoDoubleBooking
  <2>3. CASE j = n + 1
    <3>1. u.until <= available[u.gpu] /\ u.gpu \in Gpus /\ u.until \in Nat
      BY <1>9, <2>1 DEF Booked, ResultSet
    <3>2. available[v.gpu] <= v.from /\ v.from \in Nat
      BY <1>1, <1>2, <1>3, <2>3, SMTT(30) DEF Booked
    <3> QED
      BY <1>4, <3>1, <3>2
  <2> QED
    BY <1>1, <2>2, <2>3
<1>12. HitsWereBrought'
  <2> SUFFICES ASSUME NEW j \in 1 .. (n + 1), results'[j].cached > 0
               PROVE  \E i \in 1 .. (j - 1) :
                        /\ results'[i].decode = results'[j].decode
                        /\ results'[i].shape.prefix = results'[j].shape.prefix
                        /\ results'[i].shape.prefix_tokens >= results'[j].cached
                        /\ results'[i].d_finish <= UseOfHit(results'[j])
    BY <1>2 DEF HitsWereBrought, UseOfHit, Book
  <2>1. CASE j \in 1 .. n
    <3>1. PICK i \in 1 .. (j - 1) :
            /\ results[i].decode = results[j].decode
            /\ results[i].shape.prefix = results[j].shape.prefix
            /\ results[i].shape.prefix_tokens >= results[j].cached
            /\ results[i].d_finish <= UseOfHit(results[j])
      BY <1>1, <1>2, <2>1 DEF SimulatorInv, HitsWereBrought
    <3>2. i \in 1 .. n
      BY <1>1, <2>1
    <3> QED
      BY <1>2, <2>1, <3>1, <3>2
  <2>2. CASE j = n + 1
    <3>1. b.shape.prefix \in Prefixes /\ b.cached <= cache[b.decode][b.shape.prefix]
      BY <1>2, <2>2 DEF Sound
    <3>2. cache[b.decode][b.shape.prefix] \in Nat /\ cache[b.decode][b.shape.prefix] > 0
      <4>1. cache[b.decode][b.shape.prefix] \in Nat
        BY <1>1, <1>4, <3>1
      <4>2. b.cached > 0
        BY <1>2, <2>2
      <4> QED
        BY <1>1, <3>1, <4>1, <4>2
    <3>3. PICK i \in 1 .. n :
            /\ results[i].decode = b.decode /\ results[i].shape.prefix = b.shape.prefix
            /\ cache[b.decode][b.shape.prefix] <= results[i].shape.prefix_tokens
      <4>1. \A w \in Gpus, x \in Prefixes : cache[w][x] > 0 =>
              \E i \in DOMAIN results :
                /\ results[i].decode = w /\ results[i].shape.prefix = x
                /\ cache[w][x] <= results[i].shape.prefix_tokens
        BY DEF SimulatorInv
      <4> QED
        BY <1>1, <3>1, <3>2, <4>1
    <3>4. results[i].shape \in Shapes /\ results[i].d_finish \in Nat
      BY <1>9, <3>3 DEF ResultSet
    <3>5. results[i].shape.prefix_tokens \in Nat
      BY <3>4, ShapeFacts
    <3>6. /\ results[i].shape.prefix_tokens >= b.cached
          /\ results[i].d_finish <= UseOfHit(b)
      <4>1. results[i].shape.prefix_tokens >= b.cached
        BY <1>1, <3>1, <3>2, <3>3, <3>5, SMTT(30)
      <4>2. results[i].d_finish <= available[b.decode] /\ available[b.decode] \in Nat
        BY <1>1, <1>4, <1>9, <3>3
      <4>3. available[b.decode] <= UseOfHit(b) /\ UseOfHit(b) \in Nat
        BY <1>1, <1>3 DEF UseOfHit
      <4> QED
        BY <3>4, <4>1, <4>2, <4>3
    <3>7. i \in 1 .. (j - 1) /\ results'[i] = results[i] /\ results'[j] = b
      BY <1>1, <1>2, <2>2
    <3> QED
      BY <3>3, <3>6, <3>7
  <2> QED
    BY <1>1, <2>1, <2>2
<1>13. cache' \in [Gpus -> [Prefixes -> Nat]]
  <2>1. b.shape.prefix_tokens \in Nat /\ b.shape.prefix \in Prefixes \cup {Own}
    BY <1>1, ShapeFacts
  <2>2. CASE b.shape.prefix = Own
    BY <1>4, <2>2 DEF Book
  <2>3. CASE b.shape.prefix \in Prefixes
    <3>1. Larger(cache[b.decode][b.shape.prefix], b.shape.prefix_tokens) \in Nat
      BY <1>1, <1>4, <2>1, <2>3 DEF Larger
    <3>2. b.shape.prefix # Own
      BY <2>3, OwnAssumption
    <3>3. cache' = [cache EXCEPT ![b.decode][b.shape.prefix] =
                      Larger(cache[b.decode][b.shape.prefix], b.shape.prefix_tokens)]
      BY <1>1, <1>4, <2>3, <3>2 DEF Book
    <3> QED
      BY <1>1, <1>4, <2>3, <3>1, <3>3
  <2> QED
    BY <2>1, <2>2, <2>3
<1>14. ASSUME NEW w \in Gpus, NEW x \in Prefixes
       PROVE  \/ cache'[w][x] = cache[w][x]
              \/ /\ b.decode = w /\ b.shape.prefix = x
                 /\ cache'[w][x] = b.shape.prefix_tokens
  <2>1. b.shape.prefix_tokens \in Nat
    BY <1>1, ShapeFacts
  <2>2. CASE b.shape.prefix = Own
    BY <2>2 DEF Book
  <2>3. CASE b.shape.prefix # Own
    <3> DEFINE most == Larger(cache[b.decode][b.shape.prefix], b.shape.prefix_tokens)
    <3>1. b.shape.prefix \in Prefixes
      BY <1>1, <2>3, ShapeFacts
    <3>2. cache' = [cache EXCEPT ![b.decode][b.shape.prefix] = most]
      BY <1>1, <1>4, <2>3, <3>1 DEF Book
    <3>3. most = cache[b.decode][b.shape.prefix] \/ most = b.shape.prefix_tokens
      BY DEF Larger
    <3> HIDE DEF most
    <3>4. CASE w = b.decode /\ x = b.shape.prefix
      <4>1. cache'[w][x] = most
        BY <1>1, <1>4, <3>1, <3>2, <3>4
      <4> QED
        BY <3>3, <3>4, <4>1
    <3>5. CASE ~ (w = b.decode /\ x = b.shape.prefix)
      BY <1>1, <1>4, <3>1, <3>2, <3>5
    <3> QED
      BY <3>4, <3>5
  <2> QED
    BY <2>2, <2>3
<1>15. ASSUME NEW w \in Gpus, NEW x \in Prefixes, cache'[w][x] > 0
       PROVE  \E i \in DOMAIN results' :
                /\ results'[i].decode = w /\ results'[i].shape.prefix = x
                /\ cache'[w][x] <= results'[i].shape.prefix_tokens
  <2>1. CASE cache'[w][x] = cache[w][x]
    <3>1. PICK i \in 1 .. n : /\ results[i].decode = w /\ results[i].shape.prefix = x
                              /\ cache[w][x] <= results[i].shape.prefix_tokens
      BY <1>1, <1>15, <2>1 DEF SimulatorInv
    <3>2. i \in DOMAIN results' /\ results'[i] = results[i]
      BY <1>1, <1>2
    <3> QED
      BY <2>1, <3>1, <3>2
  <2>2. CASE /\ b.decode = w /\ b.shape.prefix = x
             /\ cache'[w][x] = b.shape.prefix_tokens
    <3>1. cache'[w][x] <= b.shape.prefix_tokens
      <4>1. b.shape.prefix_tokens \in Nat
        BY <1>1, ShapeFacts
      <4> QED
        BY <2>2, <4>1
    <3>2. n + 1 \in DOMAIN results' /\ results'[n + 1] = b
      BY <1>1, <1>2
    <3> QED
      BY <2>2, <3>1, <3>2
  <2> QED
    BY <1>14, <2>1, <2>2
<1>16. TypeOK'
  <2>1. policy' = policy /\ clock' \in Nat
    BY <1>1 DEF Book
  <2> QED
    BY <1>1, <1>2, <1>6, <1>7, <1>13, <2>1 DEF TypeOK, ResultSet
<1>17. \A i \in DOMAIN results' :
         /\ results'[i].ttft <= results'[i].e2e
         /\ results'[i].cached <= results'[i].shape.prefix_tokens
  <2> SUFFICES ASSUME NEW i \in 1 .. (n + 1)
               PROVE  /\ results'[i].ttft <= results'[i].e2e
                      /\ results'[i].cached <= results'[i].shape.prefix_tokens
    BY <1>2
  <2>1. CASE i \in 1 .. n
    BY <1>1, <1>2, <2>1 DEF SimulatorInv
  <2>2. CASE i = n + 1
    BY <1>2, <2>2 DEF Sound
  <2> QED
    BY <1>1, <2>1, <2>2
<1> QED
  BY <1>7, <1>8, <1>10, <1>11, <1>12, <1>15, <1>16, <1>17 DEF SimulatorInv

LEMMA NextSimulator == SimulatorInv /\ [Next]_vars => SimulatorInv'
<1> SUFFICES ASSUME SimulatorInv, [Next]_vars PROVE SimulatorInv'
  OBVIOUS
<1>1. CASE UNCHANGED vars
  BY <1>1 DEF vars, SimulatorInv, TypeOK, NoDoubleBooking, HitsWereBrought,
              UseOfHit, Booked
<1>2. CASE Next /\ ~ UNCHANGED vars
  <2>1. PICK b : /\ Sound(b) /\ Book(b)
                 /\ policy = "aggregated" => b.decode = b.prefill
    BY <1>2, StepsBook DEF SimulatorInv
  <2> QED
    BY <2>1, BookKeeps
<1> QED
  BY <1>1, <1>2

LEMMA SimulatorInvariant == Spec => []SimulatorInv
BY InitSimulator, NextSimulator, PTL DEF Spec

-----------------------------------------------------------------------------
(* Theorems                                                                *)

\* Type correctness: for traces of the kinds generate_trace makes no time is
\* negative and every request is placed on GPUs of the fleet.
THEOREM SimulatorTypeCorrect == Spec => []TypeOK
<1>1. SimulatorInv => TypeOK
  BY DEF SimulatorInv
<1> QED
  BY <1>1, SimulatorInvariant, PTL

\* Two requests never occupy the same GPU at the same time, whichever phases
\* and policy place them there (simulator.py:149-280).
THEOREM GpusNotDoubleBooked == Spec => []NoDoubleBooking
<1>1. SimulatorInv => NoDoubleBooking
  BY DEF SimulatorInv
<1> QED
  BY <1>1, SimulatorInvariant, PTL

\* What has been booked on a GPU ends before some request does.
LEMMA InvBoundsBusy == SimulatorInv => BusyWithinTrace
<1> SUFFICES ASSUME SimulatorInv, NEW w \in Gpus, busy[w] > 0
             PROVE  \E i \in DOMAIN results :
                      busy[w] <= results[i].arrival + results[i].e2e
  BY DEF BusyWithinTrace
<1>1. /\ busy[w] \in Nat /\ available[w] \in Nat /\ busy[w] <= available[w]
      /\ results \in Seq(ResultSet)
  BY DEF SimulatorInv, TypeOK, ResultSet
<1>2. PICK i \in DOMAIN results : available[w] <= results[i].arrival + results[i].e2e
  <2>1. available[w] > 0
    BY <1>1
  <2> QED
    BY <2>1 DEF SimulatorInv
<1>3. results[i].arrival \in Nat /\ results[i].e2e \in Nat
  <2>1. results[i] \in ResultSet
    BY <1>1
  <2> QED
    BY <2>1 DEF ResultSet
<1> QED
  BY <1>1, <1>2, <1>3

\* The cut of the utilization at one never hides a GPU that is busy for longer
\* than the trace takes (simulator.py:303-318): what is booked on a GPU ends
\* before some request does.
THEOREM UtilizationAtMostOne == Spec => []BusyWithinTrace
BY InvBoundsBusy, SimulatorInvariant, PTL

\* A cache hit is backed by an earlier request of the trace with the same
\* prefix and enough of its tokens, decoded on the same GPU.  Under the
\* aggregated policy that request is done there before the prefill that the
\* hit shortens starts; under the other policies it is only shown to be done
\* before the request with the hit is decoded, whose prefill may start sooner
\* (simulator.py:156-190 and 240-268).
THEOREM HitsAreBacked == Spec => []HitsWereBrought
<1>1. SimulatorInv => HitsWereBrought
  BY DEF SimulatorInv
<1> QED
  BY <1>1, SimulatorInvariant, PTL

\* The least of a set of tuples is least in the first place.
LEMMA LeastIsFirst ==
    ASSUME NEW keys, NEW x \in DOMAIN keys, IsLeast(x, keys), NEW y \in DOMAIN keys,
           \A z \in DOMAIN keys : keys[z][1] \in Int /\ DOMAIN keys[z] \subseteq Nat \ {0}
    PROVE  keys[x][1] <= keys[y][1]
<1>1. CASE x = y
  BY <1>1
<1>2. CASE x # y
  <2>1. PICK i \in DOMAIN keys[x] :
          keys[x][i] < keys[y][i] /\ \A j \in 1 .. (i - 1) : keys[x][j] = keys[y][j]
    BY <1>2 DEF IsLeast, LexLess
  <2>2. i \in Nat /\ i >= 1
    BY <2>1
  <2>3. CASE i = 1
    BY <2>1, <2>3
  <2>4. CASE i # 1
    <3>1. 1 \in 1 .. (i - 1)
      BY <2>2, <2>4
    <3>2. keys[x][1] = keys[y][1]
      BY <2>1, <3>1
    <3> QED
      BY <3>2
  <2> QED
    BY <2>3, <2>4
<1> QED
  BY <1>1, <1>2

\* An aggregated request is placed where its prefill is done first, and a
\* KV-aware one on the pair that has its first token first: what the two
\* policies minimize, computed apart from the booking, is what is booked
\* (simulator.py:150-162 and 216-259).
THEOREM ChoicesAreBooked == Spec => ChoiceIsBooked
<1> DEFINE Best(b) ==
             /\ policy = "aggregated" =>
                  \A w \in Gpus :
                    b.p_finish <= AggregatedBooking(w, b.shape, b.arrival).p_finish
             /\ policy = "pd-kv-aware" =>
                  \A p \in Prefillers, d \in Decoders :
                    b.ttft <= PDBooking(p, d, b.shape, b.arrival).ttft
<1>1. ASSUME TypeOK, NEW b, Book(b), Best(b) PROVE Best(results'[Len(results')])
  <2>1. results \in Seq(ResultSet) /\ results' = Append(results, b)
    BY <1>1 DEF TypeOK, ResultSet, Book
  <2>2. results'[Len(results')] = b
    BY <2>1
  <2> HIDE DEF Best
  <2> QED
    BY <1>1, <2>2
<1>2. ASSUME TypeOK, NEW s \in Shapes, NEW t \in Nat, PlaceAggregated(s, t)
      PROVE  \E b : Book(b) /\ Best(b)
  <2>1. PICK w \in Gpus : AggregatedChoice(w, s, t) /\ Book(AggregatedBooking(w, s, t))
    BY <1>2 DEF PlaceAggregated
  <2> DEFINE keys == [v \in Gpus |->
               << Start(v, t) + (s.input_tokens - Cached(v, s)) * Of(v).prefill, v >>]
  <2>2. ASSUME NEW v \in Gpus
        PROVE  /\ keys[v][1] = AggregatedBooking(v, s, t).p_finish
               /\ keys[v][1] \in Int /\ DOMAIN keys[v] \subseteq Nat \ {0}
    <3> DEFINE rest == s.input_tokens - Cached(v, s)
    <3>1. Cached(v, s) \in Nat /\ Cached(v, s) < s.input_tokens /\ s.input_tokens \in Nat
      BY <1>2, CachedFacts, ShapeFacts
    <3>2. rest \in Nat /\ Larger(1, rest) = rest
      BY <3>1 DEF Larger
    <3>3. PrefillTime(v, rest) = rest * Of(v).prefill
      BY <3>2 DEF PrefillTime
    <3>4. keys[v] = << Start(v, t) + rest * Of(v).prefill, v >>
      OBVIOUS
    <3>5. Start(v, t) \in Nat
      BY <1>2, StartFacts
    <3>6. PrefillTime(v, rest) \in Nat
      BY <3>2, PrefillFacts
    <3>7. AggregatedBooking(v, s, t).p_finish = Start(v, t) + PrefillTime(v, rest)
      BY <1>2, AggregatedSound
    <3> HIDE DEF keys, rest
    <3> QED
      BY <3>3, <3>4, <3>5, <3>6, <3>7
  <2>3. IsLeast(w, keys) /\ DOMAIN keys = Gpus
    BY <2>1 DEF AggregatedChoice
  <2> HIDE DEF keys
  <2>4. \A v \in Gpus :
          AggregatedBooking(w, s, t).p_finish <= AggregatedBooking(v, s, t).p_finish
    BY <2>2, <2>3, LeastIsFirst
  <2>5. AggregatedBooking(w, s, t).shape = s /\ AggregatedBooking(w, s, t).arrival = t
    BY <1>2, AggregatedSound
  <2>6. policy = "aggregated"
    BY <1>2 DEF PlaceAggregated
  <2> QED
    BY <2>1, <2>4, <2>5, <2>6
<1>3. ASSUME TypeOK, NEW s \in Shapes, NEW t \in Nat, PlacePD(s, t)
      PROVE  \E b : Book(b) /\ Best(b)
  <2>1. PICK p \in Prefillers, d \in Decoders :
          PDChoice(p, d, s, t) /\ Book(PDBooking(p, d, s, t))
    BY <1>3 DEF PlacePD
  <2>2. p \in Gpus /\ d \in Gpus /\ policy # "aggregated"
    BY <1>3, Halves DEF PlacePD
  <2>3. PDBooking(p, d, s, t).shape = s /\ PDBooking(p, d, s, t).arrival = t
    BY <1>3, <2>2, PDSound
  <2>4. CASE policy # "pd-kv-aware"
    BY <2>1, <2>2, <2>4
  <2>5. CASE policy = "pd-kv-aware"
    <3> DEFINE keys == [pd \in Prefillers \X Decoders |->
                 << PairScore(pd[1], pd[2], s, t), pd[1], pd[2] >>]
    <3>1. KVAware(p, d, s, t)
      BY <2>1, <2>5 DEF PDChoice
    <3>2. IsLeast(<<p, d>>, keys) /\ DOMAIN keys = Prefillers \X Decoders
      BY <3>1 DEF KVAware
    <3>3. ASSUME NEW q \in Prefillers, NEW e \in Decoders
          PROVE  /\ keys[<<q, e>>][1] = PDBooking(q, e, s, t).ttft
                 /\ keys[<<q, e>>][1] \in Int
                 /\ DOMAIN keys[<<q, e>>] \subseteq Nat \ {0}
      <4>1. q \in Gpus /\ e \in Gpus
        BY Halves
      <4>2. /\ PDBooking(q, e, s, t).ttft = PairScore(q, e, s, t)
            /\ PDBooking(q, e, s, t) \in ResultSet
        BY <1>3, <4>1, PDSound DEF Sound
      <4>3. keys[<<q, e>>] = << PairScore(q, e, s, t), q, e >>
        OBVIOUS
      <4>4. PDBooking(q, e, s, t).ttft \in Nat
        BY <4>2 DEF ResultSet
      <4> HIDE DEF keys
      <4> QED
        BY <4>2, <4>3, <4>4
    <3> HIDE DEF keys
    <3>4. \A z \in DOMAIN keys : keys[z][1] \in Int /\ DOMAIN keys[z] \subseteq Nat \ {0}
      BY <3>2, <3>3
    <3>5. \A q \in Prefillers, e \in Decoders :
            PDBooking(p, d, s, t).ttft <= PDBooking(q, e, s, t).ttft
      <4> SUFFICES ASSUME NEW q \in Prefillers, NEW e \in Decoders
                   PROVE  PDBooking(p, d, s, t).ttft <= PDBooking(q, e, s, t).ttft
        OBVIOUS
      <4>1. <<p, d>> \in DOMAIN keys /\ <<q, e>> \in DOMAIN keys
        BY <3>2
      <4>2. keys[<<p, d>>][1] <= keys[<<q, e>>][1]
        BY <3>2, <3>4, <4>1, LeastIsFirst
      <4> QED
        BY <3>3, <4>2
    <3> QED
      BY <2>1, <2>2, <2>3, <3>5
  <2> QED
    BY <2>4, <2>5
<1>4. TypeOK /\ [Next]_vars => (results' # results => Best(results'[Len(results')]))
  <2> SUFFICES ASSUME TypeOK, Next, results' # results
               PROVE  Best(results'[Len(results')])
    BY DEF vars
  <2>1. PICK s \in Shapes, gap \in Gaps :
          PlaceAggregated(s, clock + gap) \/ PlacePD(s, clock + gap)
    BY DEF Next, Turn, TraceEnds, vars
  <2>2. clock + gap \in Nat
    BY BoundsAssumption DEF TypeOK
  <2> HIDE DEF Best
  <2>3. PICK b : Book(b) /\ Best(b)
    BY <1>2, <1>3, <2>1, <2>2
  <2> QED
    BY <1>1, <2>3
<1>5. TypeOK /\ [Next]_vars =>
        [ results' # results =>
            LET b == results'[Len(results')]
            IN  /\ policy = "aggregated" =>
                     \A w \in Gpus :
                       b.p_finish <= AggregatedBooking(w, b.shape, b.arrival).p_finish
                /\ policy = "pd-kv-aware" =>
                     \A p \in Prefillers, d \in Decoders :
                       b.ttft <= PDBooking(p, d, b.shape, b.arrival).ttft ]_vars
  BY <1>4
<1> QED
  BY <1>5, SimulatorTypeCorrect, PTL DEF Spec, ChoiceIsBooked

-----------------------------------------------------------------------------
(* Sums and maxima                                                         *)

\* The members of a set that are summed up before its chosen one.
Rest(s) == s \ {CHOOSE x \in s : TRUE}

\* What the recursion of MapThenFoldSet makes of a set, sum being what it
\* makes of a smaller one.
SumStep(f, sum, s) == IF s = {} THEN 0 ELSE f[CHOOSE x \in s : TRUE] + sum[Rest(s)]

LEMMA RestSmaller ==
    ASSUME NEW s, IsFiniteSet(s), s # {}
    PROVE  /\ Rest(s) \subseteq s /\ IsFiniteSet(Rest(s)) /\ (CHOOSE x \in s : TRUE) \in s
           /\ Cardinality(s) \in Nat /\ Cardinality(Rest(s)) \in Nat
           /\ Cardinality(Rest(s)) = Cardinality(s) - 1
<1>1. (CHOOSE x \in s : TRUE) \in s
  OBVIOUS
<1> DEFINE first == CHOOSE x \in s : TRUE
<1> HIDE DEF first
<1>2. /\ IsFiniteSet(s \ {first}) /\ Cardinality(s \ {first}) = Cardinality(s) - 1
  BY <1>1, FS_RemoveElement DEF first
<1>3. Cardinality(s) \in Nat /\ Cardinality(s \ {first}) \in Nat
  BY <1>2, FS_CardinalityType
<1>4. Rest(s) = s \ {first}
  BY DEF Rest, first
<1> QED
  BY <1>1, <1>2, <1>3, <1>4

\* The recursion is defined on a finite set.
LEMMA SumExists ==
    ASSUME NEW D, IsFiniteSet(D), NEW f
    PROVE  \E sum : sum = [s \in SUBSET D |-> SumStep(f, sum, s)]
<1> DEFINE UpTo(n, sum) ==
             \A s \in SUBSET D : Cardinality(s) <= n => sum[s] = SumStep(f, sum, s)
           missing == {n \in Nat : ~ \E sum : UpTo(n, sum)}
<1>1. \A s \in SUBSET D : IsFiniteSet(s) /\ Cardinality(s) \in Nat
  BY FS_Subset, FS_CardinalityType
<1>2. ASSUME missing # {} PROVE FALSE
  <2>1. PICK n \in missing : \A m \in missing : n <= m
    <3>1. missing \in SUBSET Nat
      OBVIOUS
    <3> HIDE DEF missing
    <3> QED
      BY <1>2, <3>1, LeastNumber
  <2>2. n \in Nat
    OBVIOUS
  <2>3. CASE n = 0
    <3> DEFINE zero == [s \in SUBSET D |-> 0]
    <3>1. ASSUME NEW s \in SUBSET D, Cardinality(s) <= 0
          PROVE  zero[s] = SumStep(f, zero, s)
      <4>1. s = {}
        BY <1>1, <3>1, FS_EmptySet
      <4> QED
        BY <4>1 DEF SumStep
    <3>2. UpTo(n, zero)
      BY <2>3, <3>1
    <3> HIDE DEF zero, UpTo
    <3> QED
      BY <3>2
  <2>4. CASE n # 0
    <3>1. n - 1 \in Nat /\ n - 1 \notin missing
      <4>1. n - 1 \in Nat /\ n - 1 < n
        BY <2>2, <2>4
      <4> HIDE DEF missing
      <4> QED
        BY <2>1, <2>2, <4>1
    <3>2. PICK sum : UpTo(n - 1, sum)
      BY <3>1
    <3> DEFINE more == [s \in SUBSET D |-> SumStep(f, sum, s)]
    <3>3. ASSUME NEW s \in SUBSET D, Cardinality(s) <= n
          PROVE  more[s] = SumStep(f, more, s)
      <4>1. CASE s = {}
        BY <4>1 DEF SumStep
      <4>2. CASE s # {}
        <5>1. /\ Rest(s) \in SUBSET D /\ Cardinality(Rest(s)) \in Nat
              /\ Cardinality(s) \in Nat /\ Cardinality(Rest(s)) <= n - 1
          <6>1. /\ Rest(s) \subseteq s /\ Cardinality(Rest(s)) \in Nat
                /\ Cardinality(s) \in Nat
                /\ Cardinality(Rest(s)) = Cardinality(s) - 1
            BY <1>1, <4>2, RestSmaller
          <6> QED
            BY <2>2, <3>3, <6>1
        <5>2. sum[Rest(s)] = SumStep(f, sum, Rest(s))
          BY <3>2, <5>1
        <5>3. more[Rest(s)] = sum[Rest(s)]
          BY <5>1, <5>2
        <5>4. more[s] = SumStep(f, sum, s)
          OBVIOUS
        <5> HIDE DEF more
        <5> QED
          BY <5>3, <5>4 DEF SumStep
      <4> QED
        BY <4>1, <4>2
    <3>4. UpTo(n, more)
      BY <3>3
    <3> HIDE DEF more, UpTo
    <3> QED
      BY <3>4
  <2> QED
    BY <2>3, <2>4
<1> DEFINE n == Cardinality(D)
<1>3. n \in Nat
  BY FS_CardinalityType
<1>4. PICK sum : UpTo(n, sum)
  <2> HIDE DEF UpTo, n
  <2> QED
    BY <1>2, <1>3
<1>5. ASSUME NEW s \in SUBSET D PROVE sum[s] = SumStep(f, sum, s)
  BY <1>4, FS_Subset
<1> DEFINE whole == [s \in SUBSET D |-> sum[s]]
<1>6. ASSUME NEW s \in SUBSET D PROVE SumStep(f, whole, s) = SumStep(f, sum, s)
  BY DEF SumStep, Rest
<1>7. whole = [s \in SUBSET D |-> SumStep(f, whole, s)]
  BY <1>5, <1>6
<1> HIDE DEF whole
<1> QED
  BY <1>7

\* SumFunction is what the recursion makes of the whole domain.
LEMMA SumUnfolds ==
    ASSUME NEW D, IsFiniteSet(D), NEW f, DOMAIN f = D
    PROVE  \E sum : /\ \A s \in SUBSET D : sum[s] = SumStep(f, sum, s)
                    /\ SumFunction(f) = sum[D]
<1> DEFINE sum == CHOOSE sum : sum = [s \in SUBSET D |-> SumStep(f, sum, s)]
<1>1. sum = [s \in SUBSET D |-> SumStep(f, sum, s)]
  BY SumExists
<1>2. SumFunction(f) =
        (CHOOSE iter :
           iter = [s \in SUBSET D |->
                     IF s = {} THEN 0
                     ELSE f[CHOOSE x \in s : TRUE] + iter[s \ {CHOOSE x \in s : TRUE}]])[D]
  BY DEF SumFunction, SumFunctionOnSet, FoldFunctionOnSet, MapThenFoldSet
<1>3. SumFunction(f) = sum[D]
  BY <1>2 DEF SumStep, Rest
<1> HIDE DEF sum
<1> QED
  BY <1>1, <1>3

\* A sum is no greater than one of greater terms.
LEMMA SumMonotone ==
    ASSUME NEW D, IsFiniteSet(D), NEW f \in [D -> Nat], NEW g \in [D -> Nat],
           \A i \in D : f[i] <= g[i]
    PROVE  /\ SumFunction(f) \in Nat /\ SumFunction(g) \in Nat
           /\ SumFunction(f) <= SumFunction(g)
<1>1. PICK F : /\ \A s \in SUBSET D : F[s] = SumStep(f, F, s)
               /\ SumFunction(f) = F[D]
  BY SumUnfolds
<1>2. PICK G : /\ \A s \in SUBSET D : G[s] = SumStep(g, G, s)
               /\ SumFunction(g) = G[D]
  BY SumUnfolds
<1> DEFINE Good(s) == F[s] \in Nat /\ G[s] \in Nat /\ F[s] <= G[s]
           bad == {Cardinality(s) : s \in {t \in SUBSET D : ~ Good(t)}}
<1>3. \A s \in SUBSET D : IsFiniteSet(s) /\ Cardinality(s) \in Nat
  BY FS_Subset, FS_CardinalityType
<1>4. ASSUME bad # {} PROVE FALSE
  <2>1. PICK n \in bad : \A m \in bad : n <= m
    <3>1. bad \in SUBSET Nat
      BY <1>3
    <3> HIDE DEF bad
    <3> QED
      BY <1>4, <3>1, LeastNumber
  <2>2. PICK s \in SUBSET D : ~ Good(s) /\ n = Cardinality(s)
    OBVIOUS
  <2>3. CASE s = {}
    BY <1>1, <1>2, <2>2, <2>3 DEF SumStep
  <2>4. CASE s # {}
    <3> DEFINE x == CHOOSE x \in s : TRUE
    <3>1. /\ Rest(s) \in SUBSET D /\ x \in D
          /\ Cardinality(Rest(s)) < n /\ Cardinality(Rest(s)) \in Nat /\ n \in Nat
      BY <1>3, <2>2, <2>4, RestSmaller
    <3>2. Good(Rest(s))
      <4>1. Cardinality(Rest(s)) \notin bad
        <5> HIDE DEF bad
        <5> QED
          BY <2>1, <3>1
      <4> HIDE DEF Good
      <4> QED
        BY <3>1, <4>1
    <3>3. F[s] = f[x] + F[Rest(s)] /\ G[s] = g[x] + G[Rest(s)]
      BY <1>1, <1>2, <2>4 DEF SumStep
    <3>4. f[x] \in Nat /\ g[x] \in Nat /\ f[x] <= g[x]
      BY <3>1
    <3> HIDE DEF x
    <3> QED
      BY <2>2, <3>2, <3>3, <3>4
  <2> QED
    BY <2>3, <2>4
<1>5. Good(D)
  <2> HIDE DEF Good
  <2> QED
    BY <1>4
<1> QED
  BY <1>1, <1>2, <1>5

\* A finite set of integers with a member has a greatest one.
LEMMA MaxFacts ==
    ASSUME NEW S \in SUBSET Int, IsFiniteSet(S), S # {}
    PROVE  Max(S) \in S /\ \A x \in S : x <= Max(S)
<1> DEFINE above(x) == {y \in S : y > x}
           counts == {Cardinality(above(x)) : x \in S}
<1>1. \A x \in S : IsFiniteSet(above(x)) /\ Cardinality(above(x)) \in Nat
  BY FS_Subset, FS_CardinalityType
<1>2. PICK n \in counts : \A m \in counts : n <= m
  <2>1. counts \in SUBSET Nat /\ counts # {}
    BY <1>1
  <2> HIDE DEF counts
  <2> QED
    BY <2>1, LeastNumber
<1>3. PICK x \in S : n = Cardinality(above(x))
  OBVIOUS
<1>4. ASSUME NEW y \in S, y > x PROVE FALSE
  <2>1. above(y) \subseteq above(x) \ {y} /\ y \in above(x)
    <3>1. \A a, b, c \in Int : c > b /\ b > a => c > a /\ c # b
      OBVIOUS
    <3>2. ASSUME NEW z \in above(y) PROVE z \in above(x) /\ z # y
      <4>1. z \in S /\ z > y /\ x \in Int /\ y \in Int /\ z \in Int
        OBVIOUS
      <4>2. z > x /\ z # y
        BY <1>4, <3>1, <4>1
      <4> QED
        BY <4>1, <4>2
    <3> QED
      BY <1>4, <3>2
  <2>2. Cardinality(above(x)) <= Cardinality(above(y))
    BY <1>2, <1>3
  <2> HIDE DEF above
  <2>3. /\ IsFiniteSet(above(x) \ {y})
        /\ Cardinality(above(x) \ {y}) = Cardinality(above(x)) - 1
    BY <1>1, <2>1, FS_RemoveElement
  <2>4. Cardinality(above(y)) <= Cardinality(above(x) \ {y})
    BY <2>1, <2>3, FS_Subset
  <2> QED
    BY <1>1, <2>2, <2>3, <2>4
<1>5. \A y \in S : x >= y
  BY <1>4
<1>6. Max(S) \in S /\ \A y \in S : Max(S) >= y
  BY <1>5 DEF Max
<1> QED
  BY <1>6

-----------------------------------------------------------------------------
(* Percentiles                                                             *)

\* What comes before a place is among the other places.
LEMMA BeforeCount ==
    ASSUME NEW values \in Seq(Int), NEW i \in DOMAIN values
    PROVE  /\ IsFiniteSet(Before(values, i))
           /\ Cardinality(Before(values, i)) \in 0 .. (Len(values) - 1)
<1> DEFINE n == Len(values)
<1>1. n \in Nat /\ DOMAIN values = 1 .. n /\ i \in 1 .. n
  OBVIOUS
<1>2. Before(values, i) \subseteq (1 .. n) \ {i}
  BY <1>1 DEF Before
<1> HIDE DEF n
<1>3. IsFiniteSet(1 .. n) /\ Cardinality(1 .. n) = n
  BY <1>1, FS_Interval
<1>4. IsFiniteSet((1 .. n) \ {i}) /\ Cardinality((1 .. n) \ {i}) = n - 1
  BY <1>1, <1>3, FS_RemoveElement
<1>5. /\ IsFiniteSet(Before(values, i))
      /\ Cardinality(Before(values, i)) <= n - 1
  BY <1>2, <1>4, FS_Subset
<1> QED
  BY <1>1, <1>5, FS_CardinalityType DEF n

\* A place that comes before another has less before it.
LEMMA BeforeGrows ==
    ASSUME NEW values \in Seq(Int), NEW i \in DOMAIN values, NEW j \in DOMAIN values,
           j \in Before(values, i)
    PROVE  Cardinality(Before(values, j)) < Cardinality(Before(values, i))
<1> DEFINE A == Before(values, i)
           B == Before(values, j)
<1>1. \A k \in DOMAIN values : values[k] \in Int /\ k \in Int
  OBVIOUS
<1>2. B \subseteq A \ {j} /\ j \in A
  BY <1>1 DEF Before
<1>3. /\ IsFiniteSet(A) /\ Cardinality(A) \in Nat /\ Cardinality(B) \in Nat
  BY BeforeCount
<1> HIDE DEF A, B
<1>4. IsFiniteSet(A \ {j}) /\ Cardinality(A \ {j}) = Cardinality(A) - 1
  BY <1>2, <1>3, FS_RemoveElement
<1>5. Cardinality(B) <= Cardinality(A \ {j})
  BY <1>2, <1>4, FS_Subset
<1> QED
  BY <1>3, <1>4, <1>5 DEF A, B

\* Every number below the length is the number of values before some place.
LEMMA EveryRankTaken ==
    ASSUME NEW values \in Seq(Int), NEW k \in DOMAIN values
    PROVE  \E i \in DOMAIN values : Cardinality(Before(values, i)) = k - 1
<1> DEFINE n == Len(values)
           rank == [i \in 1 .. n |-> Cardinality(Before(values, i))]
<1>1. n \in Nat /\ DOMAIN values = 1 .. n /\ k \in 1 .. n
  OBVIOUS
<1>2. ASSUME NEW i \in 1 .. n, NEW j \in 1 .. n, rank[i] = rank[j] PROVE i = j
  <2>1. /\ Cardinality(Before(values, i)) = Cardinality(Before(values, j))
        /\ Cardinality(Before(values, i)) \in Int
    BY <1>1, <1>2, BeforeCount
  <2>2. i \notin Before(values, j) /\ j \notin Before(values, i)
    BY <1>1, <2>1, BeforeGrows
  <2>3. values[i] \in Int /\ values[j] \in Int /\ i \in Int /\ j \in Int
    BY <1>1
  <2> QED
    BY <1>1, <2>2, <2>3 DEF Before
<1>3. rank \in Injection(1 .. n, 0 .. (n - 1))
  <2>1. \A i \in 1 .. n : Cardinality(Before(values, i)) \in 0 .. (n - 1)
    BY <1>1, BeforeCount
  <2> HIDE DEF n
  <2> QED
    BY <1>2, <2>1 DEF Injection, IsInjective
<1> HIDE DEF n
<1>4. /\ IsFiniteSet(1 .. n) /\ Cardinality(1 .. n) = n
      /\ IsFiniteSet(0 .. (n - 1)) /\ Cardinality(0 .. (n - 1)) = n
  BY <1>1, FS_Interval
<1> HIDE DEF rank
<1>5. rank \in Surjection(1 .. n, 0 .. (n - 1))
  BY <1>3, <1>4, FS_Injection
<1>6. PICK i \in 1 .. n : rank[i] = k - 1
  <2>1. k - 1 \in 0 .. (n - 1)
    BY <1>1
  <2> QED
    BY <1>5, <2>1 DEF Surjection
<1> QED
  BY <1>1, <1>6 DEF rank

\* The sorted list has the values of the list, each as far back as values come
\* before it.
LEMMA AscendingAt ==
    ASSUME NEW values \in Seq(Int), NEW k \in DOMAIN values
    PROVE  \E i \in DOMAIN values : /\ Ascending(values)[k] = values[i]
                                    /\ Cardinality(Before(values, i)) = k - 1
BY EveryRankTaken DEF Ascending

LEMMA AscendingHasAll ==
    ASSUME NEW values \in Seq(Int), NEW i \in DOMAIN values
    PROVE  \E k \in DOMAIN values : Ascending(values)[k] = values[i]
<1> DEFINE k == Cardinality(Before(values, i)) + 1
<1>1. k \in DOMAIN values /\ k \in Int
  <2>1. /\ Cardinality(Before(values, i)) \in 0 .. (Len(values) - 1)
        /\ DOMAIN values = 1 .. Len(values) /\ Len(values) \in Nat
    BY BeforeCount
  <2> QED
    BY <2>1
<1>2. PICK j \in DOMAIN values : /\ Ascending(values)[k] = values[j]
                                 /\ Cardinality(Before(values, j)) = k - 1
  BY <1>1, AscendingAt
<1>3. Cardinality(Before(values, j)) = Cardinality(Before(values, i))
      /\ Cardinality(Before(values, i)) \in Int
  BY <1>2, BeforeCount
<1>4. i \notin Before(values, j) /\ j \notin Before(values, i)
  BY <1>3, BeforeGrows
<1>5. values[i] = values[j]
  BY <1>4 DEF Before
<1> HIDE DEF k
<1> QED
  BY <1>1, <1>2, <1>5

\* Its values never descend.
LEMMA AscendingAscends ==
    ASSUME NEW values \in Seq(Int), NEW j \in DOMAIN values, NEW k \in DOMAIN values,
           j <= k
    PROVE  /\ Ascending(values)[j] \in Int /\ Ascending(values)[k] \in Int
           /\ Ascending(values)[j] <= Ascending(values)[k]
<1>1. PICK a \in DOMAIN values : /\ Ascending(values)[j] = values[a]
                                 /\ Cardinality(Before(values, a)) = j - 1
  BY AscendingAt
<1>2. PICK b \in DOMAIN values : /\ Ascending(values)[k] = values[b]
                                 /\ Cardinality(Before(values, b)) = k - 1
  BY AscendingAt
<1>3. values[a] \in Int /\ values[b] \in Int /\ j \in Int /\ k \in Int
  OBVIOUS
<1>4. ASSUME values[b] < values[a] PROVE FALSE
  <2>1. b \in Before(values, a)
    BY <1>4 DEF Before
  <2> QED
    BY <1>1, <1>2, <1>3, <2>1, BeforeGrows
<1> QED
  BY <1>1, <1>2, <1>3, <1>4

\* At least k values do not exceed the one that is sorted to place k, and less
\* than k are smaller.
LEMMA CountsAround ==
    ASSUME NEW values \in Seq(Int), NEW k \in DOMAIN values
    PROVE  LET v == Ascending(values)[k]
           IN  /\ v \in Int
               /\ AtMost(values, v) \in Nat /\ AtMost(values, v) >= k
               /\ AtMost(values, v - 1) \in Nat /\ AtMost(values, v - 1) <= k - 1
<1> DEFINE n == Len(values)
           v == Ascending(values)[k]
           some == {i \in DOMAIN values : values[i] <= v}
           less == {i \in DOMAIN values : values[i] <= v - 1}
<1>1. PICK i \in DOMAIN values : v = values[i] /\ Cardinality(Before(values, i)) = k - 1
  BY AscendingAt
<1>2. /\ v \in Int /\ k \in Int /\ DOMAIN values = 1 .. n /\ n \in Nat
      /\ \A j \in DOMAIN values : values[j] \in Int /\ j \in Int
  BY <1>1
<1> HIDE DEF v, n
<1>3. IsFiniteSet(DOMAIN values)
  BY <1>2, FS_Interval
<1>4. IsFiniteSet(some) /\ IsFiniteSet(less) /\ IsFiniteSet(Before(values, i))
  <2>1. some \subseteq DOMAIN values /\ less \subseteq DOMAIN values
    OBVIOUS
  <2> QED
    BY <1>3, <2>1, FS_Subset, BeforeCount
<1>5. less \subseteq Before(values, i)
  BY <1>1, <1>2 DEF Before
<1>6. Before(values, i) \cup {i} \subseteq some /\ i \notin Before(values, i)
  BY <1>1, <1>2 DEF Before
<1> HIDE DEF some, less
<1>7. Cardinality(less) <= k - 1
  BY <1>1, <1>4, <1>5, FS_Subset
<1>8. Cardinality(some) >= k
  <2>1. /\ IsFiniteSet(Before(values, i) \cup {i})
        /\ Cardinality(Before(values, i) \cup {i}) = Cardinality(Before(values, i)) + 1
    BY <1>4, <1>6, FS_AddElement
  <2>2. Cardinality(Before(values, i) \cup {i}) <= Cardinality(some)
    BY <1>4, <1>6, FS_Subset
  <2>3. Cardinality(some) \in Nat
    BY <1>4, FS_CardinalityType
  <2> QED
    BY <1>1, <1>2, <2>1, <2>2, <2>3
<1>9. Cardinality(some) \in Nat /\ Cardinality(less) \in Nat
  BY <1>4, FS_CardinalityType
<1>10. AtMost(values, v) = Cardinality(some) /\ AtMost(values, v - 1) = Cardinality(less)
  BY DEF AtMost, some, less
<1> QED
  BY <1>2, <1>7, <1>8, <1>9, <1>10 DEF v

\* A weighted mean lies between what it is the mean of.
LEMMA MeanBetween ==
    ASSUME NEW x \in Int, NEW y \in Int, x <= y, NEW a \in Nat, NEW b \in Nat, a + b = 100
    PROVE  /\ x * a + y * b \in Int
           /\ 100 * x <= x * a + y * b /\ x * a + y * b <= 100 * y
<1> DEFINE gap == y - x
<1>1. x * a + y * b \in Int
  OBVIOUS
<1>2. gap \in Nat /\ y = x + gap
  OBVIOUS
<1>3. x * a + y * b = 100 * x + gap * b
  <2>1. a = 100 - b
    OBVIOUS
  <2> HIDE DEF gap
  <2> QED
    BY <1>2, <2>1
<1>4. gap * b \in Nat /\ gap * b <= gap * 100
  <2> HIDE DEF gap
  <2>1. \A c \in Nat : c <= 100 => gap * c \in Nat /\ gap * c <= gap * 100
    BY <1>2
  <2> QED
    BY <2>1
<1> QED
  BY <1>1, <1>2, <1>3, <1>4

\* The sorted places nothing lies between: every value is at most the lower
\* one or at least the upper one.
LEMMA NothingBetween ==
    ASSUME NEW values \in Seq(Int), NEW i \in DOMAIN values,
           NEW a \in DOMAIN values, NEW b \in DOMAIN values, b \in {a, a + 1}
    PROVE  /\ values[i] \in Int
           /\ values[i] <= Ascending(values)[a] \/ values[i] >= Ascending(values)[b]
<1>1. PICK k \in DOMAIN values : Ascending(values)[k] = values[i]
  BY AscendingHasAll
<1>2. a \in Int /\ b \in Int /\ k \in Int /\ values[i] \in Int
  OBVIOUS
<1>3. k <= a \/ b <= k
  BY <1>2
<1> QED
  BY <1>1, <1>2, <1>3, AscendingAscends

\* Of any list and at any quantile, the percentile of the simulator has the
\* nearest rank, and no value lies between it and the percentile of the GPU
\* benchmark (simulator.py:283-287, gpu_benchmark.py:24-33).
THEOREM PercentilesOfList ==
    ASSUME NEW values \in Seq(Int), values # << >>, NEW quantile \in 1 .. 100
    PROVE  LET nearest == NearestRank(values, quantile)
               between == Interpolated(values, quantile)
           IN  /\ IsNearestRank(nearest, values, quantile)
               /\ \A i \in DOMAIN values :
                    /\ ~ (100 * nearest < 100 * values[i] /\ 100 * values[i] < between)
                    /\ ~ (between < 100 * values[i] /\ 100 * values[i] < 100 * nearest)
<1> DEFINE n == Len(values)
           rank == (n * quantile + 99) \div 100
           index == (n - 1) * quantile
           lower == index \div 100
           upper == (index + 99) \div 100
           ordered == Ascending(values)
           x == ordered[lower + 1]
           y == ordered[upper + 1]
           nearest == NearestRank(values, quantile)
           between == Interpolated(values, quantile)
<1>1. n \in Nat \ {0} /\ DOMAIN values = 1 .. n
  OBVIOUS
<1> HIDE DEF n
<1>2. /\ rank \in 1 .. n
      /\ 100 * rank >= quantile * n /\ 100 * (rank - 1) < quantile * n
      /\ lower + 1 \in 1 .. n /\ upper + 1 \in 1 .. n
      /\ rank \in {lower + 1, upper + 1}
      /\ lower \in Int /\ upper \in {lower, lower + 1}
      /\ index \in Nat /\ 100 * lower <= index /\ index <= 100 * upper
  <2> DEFINE m == n * quantile
  <2>1. /\ m \in Nat /\ index \in Nat /\ m = index + quantile
        /\ m = quantile * n /\ m <= 100 * n /\ index <= 100 * (n - 1)
    <3>1. m = quantile * n /\ m = index + quantile
      BY <1>1
    <3>2. \A a \in Nat : a * quantile \in Nat /\ a * quantile <= a * 100
      OBVIOUS
    <3> QED
      BY <1>1, <3>1, <3>2
  <2> HIDE DEF m, index
  <2> QED
    BY <1>1, <2>1, SMTT(60) DEF m
<1>3. nearest = ordered[rank]
  BY <1>1, <1>2 DEF NearestRank, n
<1>4. between = IF lower = upper THEN 100 * x
                ELSE x * (100 * upper - index) + y * (index - 100 * lower)
  BY DEF Interpolated, n
<1> HIDE DEF rank, index, lower, upper, ordered, nearest, between
<1>5. IsNearestRank(nearest, values, quantile)
  <2>1. PICK i \in DOMAIN values : ordered[rank] = values[i]
    BY <1>1, <1>2, AscendingAt DEF ordered
  <2> DEFINE some == AtMost(values, nearest)
             less == AtMost(values, nearest - 1)
             m == quantile * n
  <2>2. some \in Nat /\ some >= rank /\ less \in Nat /\ less <= rank - 1
    BY <1>1, <1>2, <1>3, CountsAround DEF ordered
  <2>3. m \in Int /\ rank \in Int /\ 100 * rank >= m /\ 100 * (rank - 1) < m
    BY <1>1, <1>2
  <2> HIDE DEF some, less, m
  <2>4. 100 * some >= m /\ 100 * less < m
    BY <2>2, <2>3
  <2> QED
    BY <1>3, <2>1, <2>4 DEF IsNearestRank, n, some, less, m
<1>6. x \in Int /\ y \in Int /\ x <= y
  <2>1. lower + 1 <= upper + 1
    BY <1>1, <1>2
  <2> HIDE DEF x, y
  <2> QED
    BY <1>1, <1>2, <2>1, AscendingAscends DEF x, y, ordered
<1>7. nearest \in {x, y}
  BY <1>2, <1>3 DEF x, y
<1>8. between \in Int /\ 100 * x <= between /\ between <= 100 * y
  <2> HIDE DEF x, y
  <2>1. CASE lower = upper
    BY <1>4, <1>6, <2>1
  <2>2. CASE lower # upper
    <3> DEFINE a == 100 * upper - index
               b == index - 100 * lower
    <3>1. a \in Nat /\ b \in Nat /\ a + b = 100
      <4>1. lower \in Int /\ upper = lower + 1
        BY <1>1, <1>2, <2>2
      <4>2. index \in Nat /\ 100 * lower <= index /\ index <= 100 * upper
        BY <1>2
      <4> QED
        BY <4>1, <4>2
    <3>2. between = x * a + y * b
      BY <1>4, <2>2
    <3> HIDE DEF a, b
    <3> QED
      BY <1>6, <3>1, <3>2, MeanBetween
  <2> QED
    BY <2>1, <2>2
<1>9. ASSUME NEW i \in DOMAIN values
      PROVE  /\ ~ (100 * nearest < 100 * values[i] /\ 100 * values[i] < between)
             /\ ~ (between < 100 * values[i] /\ 100 * values[i] < 100 * nearest)
  <2>1. upper + 1 \in {lower + 1, (lower + 1) + 1}
    BY <1>1, <1>2
  <2>2. /\ values[i] \in Int
        /\ values[i] <= x \/ values[i] >= y
    BY <1>1, <1>2, <2>1, NothingBetween DEF ordered
  <2> DEFINE v == values[i]
  <2> HIDE DEF x, y, v
  <2> QED
    BY <1>6, <1>7, <1>8, <2>2 DEF v
<1> QED
  BY <1>5, <1>9 DEF nearest, between

-----------------------------------------------------------------------------
(* The report                                                              *)

\* The columns of the report have an integer per result.
LEMMA Columns ==
    ASSUME TypeOK
    PROVE  /\ Ttft \in Seq(Int) /\ E2e \in Seq(Int)
           /\ Len(Ttft) = Len(results) /\ Len(E2e) = Len(results)
           /\ \A i \in DOMAIN results :
                Ttft[i] = results[i].ttft /\ E2e[i] = results[i].e2e
           /\ DOMAIN Ttft = DOMAIN results /\ DOMAIN E2e = DOMAIN results
<1> DEFINE n == Len(results)
<1>1. n \in Nat /\ DOMAIN results = 1 .. n /\ \A i \in 1 .. n : results[i] \in ResultSet
  <2>1. results \in Seq(ResultSet)
    BY DEF TypeOK, ResultSet
  <2> QED
    BY <2>1
<1>2. Ttft = [i \in 1 .. n |-> results[i].ttft] /\ E2e = [i \in 1 .. n |-> results[i].e2e]
  BY <1>1 DEF Ttft, E2e, Column
<1>3. \A i \in 1 .. n : results[i].ttft \in Int /\ results[i].e2e \in Int
  BY <1>1 DEF ResultSet
<1> HIDE DEF n
<1> QED
  BY <1>1, <1>2, <1>3 DEF n

\* The simulator reports nearest-rank percentiles, and no value of the list
\* lies between one of them and the interpolated percentile of the GPU
\* benchmark (simulator.py:283-287, gpu_benchmark.py:24-33).
THEOREM PercentilesAlwaysAgree == Spec => []PercentilesAgree
<1>1. SimulatorInv => PercentilesAgree
  <2>1. \A quantile \in {50, 95} : quantile \in 1 .. 100
    OBVIOUS
  <2>2. TypeOK => Ttft \in Seq(Int) /\ E2e \in Seq(Int)
    BY Columns
  <2>3. ASSUME SimulatorInv, NEW values \in {Ttft, E2e}, NEW quantile \in {50, 95},
               values # << >>
        PROVE  LET nearest == NearestRank(values, quantile)
                   between == Interpolated(values, quantile)
               IN  /\ IsNearestRank(nearest, values, quantile)
                   /\ \A i \in DOMAIN values :
                        /\ ~ (100 * nearest < 100 * values[i] /\ 100 * values[i] < between)
                        /\ ~ (between < 100 * values[i] /\ 100 * values[i] < 100 * nearest)
    <3>1. values \in Seq(Int) /\ quantile \in 1 .. 100
      BY <2>1, <2>2, <2>3 DEF SimulatorInv
    <3> QED
      BY <2>3, <3>1, PercentilesOfList
  <2> QED
    BY <2>3, Zenon DEF PercentilesAgree
<1> QED
  BY <1>1, SimulatorInvariant, PTL

\* A percentile is one of the sorted values, further back the higher it is.
LEMMA RankGrowsWithQuantile ==
    ASSUME NEW n \in Nat \ {0}
    PROVE  LET rank(quantile) == (n * quantile + 99) \div 100
           IN  rank(50) \in 1 .. n /\ rank(95) \in 1 .. n /\ rank(50) <= rank(95)
BY SMTT(30)

\* A list that is nowhere above another is nowhere above it once both are
\* sorted.
LEMMA SortedPointwise ==
    ASSUME NEW a \in Seq(Int), NEW b \in Seq(Int), Len(a) = Len(b),
           \A i \in DOMAIN a : a[i] <= b[i], NEW k \in DOMAIN a
    PROVE  Ascending(a)[k] <= Ascending(b)[k]
<1> DEFINE u == Ascending(a)[k]
           v == Ascending(b)[k]
           some == {i \in DOMAIN b : b[i] <= v}
           less == {i \in DOMAIN a : a[i] <= u - 1}
<1>1. DOMAIN a = DOMAIN b /\ DOMAIN a = 1 .. Len(a) /\ Len(a) \in Nat /\ k \in Int
  OBVIOUS
<1>2. /\ u \in Int /\ AtMost(a, u - 1) \in Nat /\ AtMost(a, u - 1) <= k - 1
      /\ v \in Int /\ AtMost(b, v) \in Nat /\ AtMost(b, v) >= k
  BY <1>1, CountsAround
<1> HIDE DEF u, v
<1>3. ASSUME v < u PROVE FALSE
  <2>1. some \subseteq less
    <3>1. \A i \in DOMAIN a : a[i] \in Int /\ b[i] \in Int
      BY <1>1
    <3> QED
      BY <1>1, <1>2, <1>3, <3>1
  <2>2. IsFiniteSet(less)
    <3>1. IsFiniteSet(DOMAIN a) /\ less \subseteq DOMAIN a
      BY <1>1, FS_Interval
    <3> QED
      BY <3>1, FS_Subset
  <2>3. Cardinality(some) <= Cardinality(less)
    BY <2>1, <2>2, FS_Subset
  <2>4. Cardinality(some) = AtMost(b, v) /\ Cardinality(less) = AtMost(a, u - 1)
    BY DEF AtMost
  <2> QED
    BY <1>1, <1>2, <2>3, <2>4
<1> QED
  BY <1>2, <1>3 DEF u, v

\* The percentiles of a report are ordered, it hits no more tokens than the
\* prefixes have, and the cut of the utilization at one changes nothing
\* (simulator.py:290-319).
THEOREM ReportAlwaysSound == Spec => []ReportSound
<1>1. SimulatorInv => ReportSound
  <2> SUFFICES ASSUME SimulatorInv, results # << >>
               PROVE  /\ Summary.p50_ttft <= Summary.p95_ttft
                      /\ Summary.p95_ttft <= Summary.p95_e2e
                      /\ Summary.cache_hits[1] <= Summary.cache_hits[2]
                      /\ \A w \in Gpus : Summary.utilization[w][1] = busy[w]
    BY DEF ReportSound
  <2> DEFINE n == Len(results)
             r50 == (n * 50 + 99) \div 100
             r95 == (n * 95 + 99) \div 100
  <2>1. /\ n \in Nat \ {0} /\ DOMAIN results = 1 .. n
        /\ \A i \in 1 .. n : results[i] \in ResultSet
    <3>1. results \in Seq(ResultSet)
      BY DEF SimulatorInv, TypeOK, ResultSet
    <3> QED
      BY <3>1
  <2>2. /\ Ttft \in Seq(Int) /\ E2e \in Seq(Int) /\ Len(Ttft) = n /\ Len(E2e) = n
        /\ DOMAIN Ttft = 1 .. n /\ DOMAIN E2e = 1 .. n
        /\ \A i \in 1 .. n : Ttft[i] = results[i].ttft /\ E2e[i] = results[i].e2e
    BY <2>1, Columns DEF SimulatorInv
  <2> HIDE DEF n
  <2>3. r50 \in 1 .. n /\ r95 \in 1 .. n /\ r50 <= r95
    BY <2>1, RankGrowsWithQuantile
  <2>4. /\ Summary.p50_ttft = Ascending(Ttft)[r50]
        /\ Summary.p95_ttft = Ascending(Ttft)[r95]
        /\ Summary.p95_e2e = Ascending(E2e)[r95]
    <3>1. /\ Summary.p50_ttft = NearestRank(Ttft, 50)
          /\ Summary.p95_ttft = NearestRank(Ttft, 95)
          /\ Summary.p95_e2e = NearestRank(E2e, 95)
      BY DEF Summary
    <3> QED
      BY <2>1, <2>2, <2>3, <3>1 DEF NearestRank
  <2> HIDE DEF r50, r95
  <2>5. Summary.p50_ttft <= Summary.p95_ttft
    BY <2>2, <2>3, <2>4, AscendingAscends
  <2>6. Summary.p95_ttft <= Summary.p95_e2e
    <3>1. \A i \in 1 .. n : Ttft[i] <= E2e[i]
      BY <2>1, <2>2 DEF SimulatorInv
    <3> QED
      BY <2>2, <2>3, <2>4, <3>1, SortedPointwise
  <2>7. Summary.cache_hits[1] <= Summary.cache_hits[2]
    <3> DEFINE c == [i \in DOMAIN results |-> results[i].cached]
               p == [i \in DOMAIN results |-> results[i].shape.prefix_tokens]
    <3>1. Summary.cache_hits = << SumFunction(c), Larger(1, SumFunction(p)) >>
      BY DEF Summary, Total, Column
    <3>2. IsFiniteSet(1 .. n)
      BY <2>1, FS_Interval
    <3>3. ASSUME NEW i \in 1 .. n
          PROVE  c[i] \in Nat /\ p[i] \in Nat /\ c[i] <= p[i]
      <4>1. results[i].cached \in Nat /\ results[i].shape \in Shapes
        BY <2>1 DEF ResultSet
      <4>2. results[i].shape.prefix_tokens \in Nat
        BY <4>1, ShapeFacts
      <4> QED
        BY <2>1, <4>1, <4>2 DEF SimulatorInv
    <3>4. c \in [1 .. n -> Nat] /\ p \in [1 .. n -> Nat]
      BY <2>1, <3>3
    <3> HIDE DEF c, p
    <3>5. /\ SumFunction(c) \in Nat /\ SumFunction(p) \in Nat
          /\ SumFunction(c) <= SumFunction(p)
      BY <3>2, <3>3, <3>4, SumMonotone
    <3> QED
      BY <3>1, <3>5 DEF Larger
  <2>8. ASSUME NEW w \in Gpus PROVE Summary.utilization[w][1] = busy[w]
    <3> DEFINE ends == {results[i].arrival + results[i].e2e : i \in DOMAIN results}
    <3>1. \A i \in 1 .. n : results[i].arrival + results[i].e2e \in Int
      <4>1. \A b \in ResultSet : b.arrival + b.e2e \in Int
        BY DEF ResultSet
      <4> QED
        BY <2>1, <4>1
    <3>2. IsFiniteSet(ends)
      <4> DEFINE end == [i \in DOMAIN results |-> results[i].arrival + results[i].e2e]
      <4>1. end \in Surjection(DOMAIN results, ends)
        BY DEF Surjection
      <4>2. IsFiniteSet(DOMAIN results)
        BY <2>1, FS_Interval
      <4> HIDE DEF end, ends
      <4> QED
        BY <4>1, <4>2, FS_Surjection
    <3>3. ends \cup {1000} \in SUBSET Int /\ IsFiniteSet(ends \cup {1000})
      <4>1. ends \in SUBSET Int
        BY <2>1, <3>1
      <4> HIDE DEF ends
      <4> QED
        BY <3>2, <4>1, FS_AddElement
    <3>4. Horizon \in Int /\ 1000 <= Horizon /\ \A e \in ends : e <= Horizon
      <4>1. Horizon = Max(ends \cup {1000})
        BY DEF Horizon
      <4>2. 1000 \in ends \cup {1000} /\ ends \subseteq ends \cup {1000}
        OBVIOUS
      <4> DEFINE S == ends \cup {1000}
      <4>3. S \in SUBSET Int /\ IsFiniteSet(S) /\ S # {}
        BY <3>3, <4>2
      <4> HIDE DEF ends, S
      <4>4. Max(S) \in S /\ \A x \in S : x <= Max(S)
        BY <4>3, MaxFacts
      <4> QED
        <5>1. Horizon = Max(S) /\ 1000 \in S /\ \A e \in ends : e \in S
          BY <4>1, <4>2 DEF S
        <5> QED
          BY <4>3, <4>4, <5>1
    <3>5. busy[w] \in Nat
      BY DEF SimulatorInv, TypeOK
    <3>6. busy[w] <= Horizon
      <4>1. CASE busy[w] = 0
        BY <3>4, <4>1
      <4>2. CASE busy[w] > 0
        <5>1. PICK i \in DOMAIN results : busy[w] <= results[i].arrival + results[i].e2e
          BY <4>2, InvBoundsBusy DEF BusyWithinTrace
        <5> DEFINE end == results[i].arrival + results[i].e2e
        <5>2. end \in ends /\ end \in Int
          BY <2>1, <3>1
        <5> HIDE DEF end, ends
        <5> QED
          BY <3>4, <3>5, <5>1, <5>2 DEF end
      <4> QED
        BY <3>5, <4>1, <4>2
    <3>7. Summary.utilization[w][1] = Smaller(busy[w], Horizon)
      BY DEF Summary
    <3> QED
      BY <3>4, <3>5, <3>6, <3>7 DEF Smaller
  <2> QED
    BY <2>5, <2>6, <2>7, <2>8
<1> QED
  BY <1>1, SimulatorInvariant, PTL
=============================================================================
