---------------------------- MODULE RouterProofs ----------------------------
(***************************************************************************)
(* What the router decides, for every pool, directory and request: the     *)
(* decision does not depend on the order of the directory's dict, and more *)
(* load attracts no request.                                               *)
(*                                                                         *)
(* Both rest on the two choices the router makes being choices of a least  *)
(* tuple (WeightsProofs): the entry for a pair (BestMatch), of which only  *)
(* the place in the dict is not part of the entry, and the candidate of    *)
(* the least score (BestCandidate), whose ids tell it from all others.     *)
(* Load then only raises a score (LoadCosts), since a queued request and   *)
(* a decoded token take time.                                              *)
(***************************************************************************)
EXTENDS RouterInputs, WeightsProofs

-----------------------------------------------------------------------------
(* Arithmetic                                                              *)

LEMMA MaxOfTwo ==
    ASSUME NEW a \in Int, NEW b \in Int
    PROVE  Max({a, b}) = IF a >= b THEN a ELSE b
<1> DEFINE m == IF a >= b THEN a ELSE b
<1>1. m \in {a, b} /\ \A y \in {a, b} : m >= y
  OBVIOUS
<1>2. \A x \in {a, b} : (\A y \in {a, b} : x >= y) => x = m
  OBVIOUS
<1> HIDE DEF m
<1>3. Max({a, b}) \in {a, b} /\ \A y \in {a, b} : Max({a, b}) >= y
  BY <1>1 DEF Max
<1> QED
  BY <1>2, <1>3 DEF m

LEMMA MinOfTwo ==
    ASSUME NEW a \in Int, NEW b \in Int
    PROVE  Min({a, b}) \in Int
<1> DEFINE m == IF a <= b THEN a ELSE b
<1>1. m \in {a, b} /\ \A y \in {a, b} : m <= y
  OBVIOUS
<1> HIDE DEF m
<1>2. Min({a, b}) \in {a, b}
  BY <1>1 DEF Min
<1> QED
  BY <1>2

LEMMA MinOfThree ==
    ASSUME NEW a \in Int, NEW b \in Int, NEW c \in Int
    PROVE  Min({a, b, c}) \in Int
<1> DEFINE m == IF a <= b /\ a <= c THEN a ELSE IF b <= c THEN b ELSE c
<1>1. m \in {a, b, c} /\ \A y \in {a, b, c} : m <= y
  OBVIOUS
<1> HIDE DEF m
<1>2. Min({a, b, c}) \in {a, b, c}
  BY <1>1 DEF Min
<1> QED
  BY <1>2

LEMMA ProductMonotone ==
    ASSUME NEW a \in Int, NEW b \in Int, NEW c \in Nat, a <= b
    PROVE  a * c \in Int /\ b * c \in Int /\ a * c <= b * c
<1> DEFINE gap == b - a
<1>1. gap \in Nat /\ b = a + gap
  OBVIOUS
<1> HIDE DEF gap
<1>2. gap * c \in Nat /\ b * c = a * c + gap * c
  BY <1>1
<1> QED
  BY <1>2

LEMMA QuotientMonotone ==
    ASSUME NEW a \in Int, NEW b \in Int, a <= b
    PROVE  /\ a \div 10000 \in Int /\ b \div 10000 \in Int
           /\ a \div 10000 <= b \div 10000
OBVIOUS

LEMMA QuotientInt == ASSUME NEW a \in Int, NEW b \in Int, b > 0 PROVE a \div b \in Int
OBVIOUS

\* The order of the candidates.
LEMMA LexOfThree ==
    ASSUME NEW a, NEW b, NEW c, NEW x, NEW y, NEW z
    PROVE  LexLess(<<a, b, c>>, <<x, y, z>>) <=>
             a < x \/ (a = x /\ b < y) \/ (a = x /\ b = y /\ c < z)
<1> DEFINE u == <<a, b, c>>
           v == <<x, y, z>>
           At(i) == u[i] < v[i] /\ \A j \in 1 .. (i - 1) : u[j] = v[j]
<1>1. DOMAIN u = {1, 2, 3}
  OBVIOUS
<1>2. At(1) <=> a < x
  <2>1. 1 .. (1 - 1) = {}
    OBVIOUS
  <2> QED
    BY <2>1
<1>3. At(2) <=> a = x /\ b < y
  <2>1. 1 .. (2 - 1) = {1}
    OBVIOUS
  <2> QED
    BY <2>1
<1>4. At(3) <=> a = x /\ b = y /\ c < z
  <2>1. 1 .. (3 - 1) = {1, 2}
    OBVIOUS
  <2> QED
    BY <2>1
<1>5. LexLess(u, v) <=> \E i \in {1, 2, 3} : At(i)
  BY <1>1 DEF LexLess
<1> HIDE DEF At, u, v
<1>6. LexLess(u, v) <=> At(1) \/ At(2) \/ At(3)
  BY <1>5
<1> QED
  BY <1>2, <1>3, <1>4, <1>6 DEF u, v

-----------------------------------------------------------------------------
(* What a pair costs                                                       *)

\* v is w, or w with more load than w has.
AtLeastAsBusy(v, w) ==
    /\ v \in WorkerSet /\ w \in WorkerSet
    /\ v.id = w.id /\ v.role = w.role /\ v.layout = w.layout /\ v.zone = w.zone
    /\ v.prefill_us = w.prefill_us /\ v.decode_us = w.decode_us
    /\ v.bandwidth = w.bandwidth
    /\ w.queue_depth <= v.queue_depth /\ w.active_sequences <= v.active_sequences
    /\ w.gpu_utilization <= v.gpu_utilization

LEMMA BusierIsBusier ==
    ASSUME NEW w \in WorkerSet, NEW busy \in Busier(w)
    PROVE  AtLeastAsBusy(busy, w) /\ AtLeastAsBusy(w, w)
<1>1. w.queue_depth \in Int /\ w.active_sequences \in Int /\ w.gpu_utilization \in Int
  BY DEF WorkerSet
<1>2. AtLeastAsBusy(w, w)
  BY <1>1 DEF AtLeastAsBusy
<1>3. CASE busy = [w EXCEPT !.queue_depth = @ + 1]
  BY <1>1, <1>3 DEF AtLeastAsBusy, WorkerSet
<1>4. CASE busy = [w EXCEPT !.active_sequences = @ + 1]
  BY <1>1, <1>4 DEF AtLeastAsBusy, WorkerSet
<1>5. CASE busy = [w EXCEPT !.gpu_utilization = @ + 10]
  BY <1>1, <1>5 DEF AtLeastAsBusy, WorkerSet
<1> QED
  BY <1>2, <1>3, <1>4, <1>5 DEF Busier

LEMMA WorkerFields ==
    ASSUME NEW w \in WorkerSet
    PROVE  /\ w.id \in Int /\ w.queue_depth \in Int /\ w.active_sequences \in Int
           /\ w.gpu_utilization \in Int /\ w.prefill_us \in Int /\ w.decode_us \in Nat
           /\ w.bandwidth \in Int /\ w.layout.kv_bytes_per_token \in Int
           /\ w.role \in Roles
<1>1. w.layout \in Layouts
  BY DEF WorkerSet
<1> QED
  BY <1>1, LayoutsAssumption DEF WorkerSet

\* The time of a transfer is a number, whatever the link.
LEMMA TransferInt ==
    ASSUME NEW p \in WorkerSet, NEW d \in WorkerSet, NEW r \in Requests,
           NEW cached \in Int, NEW entry
    PROVE  Transfer(p, d, entry, r, cached) \in Int
<1> DEFINE size == Max({cached, r.input_tokens}) * p.layout.kv_bytes_per_token
           narrow == Min({p.bandwidth, d.bandwidth})
           link == IF p.zone # d.zone THEN (narrow * 55) \div 100 ELSE narrow
           bandwidth == CASE entry.tier = "ssd" -> Min({link, 600})
                          [] entry.tier = "cpu" -> Min({link, 1800})
                          [] OTHER -> link
<1>1. size \in Int
  <2>1. Max({cached, r.input_tokens}) \in Int
    BY MaxOfTwo, RequestsAssumption
  <2>2. p.layout.kv_bytes_per_token \in Int
    BY WorkerFields
  <2> QED
    BY <2>1, <2>2
<1>2. narrow \in Int
  BY MinOfTwo, WorkerFields
<1>3. bandwidth \in Int
  <2> HIDE DEF narrow
  <2>1. (narrow * 55) \div 100 \in Int
    BY <1>2
  <2>2. link \in Int
    BY <1>2, <2>1
  <2> HIDE DEF link
  <2>3. Min({link, 600}) \in Int /\ Min({link, 1800}) \in Int
    BY <2>2, MinOfTwo
  <2> QED
    BY <2>2, <2>3
<1>4. bandwidth > 0 => (size * 8) \div (bandwidth * 10) \in Int
  <2> HIDE DEF size, bandwidth
  <2>1. size * 8 \in Int /\ bandwidth * 10 \in Int /\ (bandwidth > 0 => bandwidth * 10 > 0)
    BY <1>1, <1>3
  <2> QED
    BY <2>1, QuotientInt
<1>5. Transfer(p, d, entry, r, cached) =
        IF OnGpuOf(entry, d) THEN 50
        ELSE 150 + (IF bandwidth > 0 THEN (size * 8) \div (bandwidth * 10)
                    ELSE size * 8000000)
  BY DEF Transfer
<1> HIDE DEF size, bandwidth
<1>6. size * 8000000 \in Int
  BY <1>1
<1> DEFINE quotient == (size * 8) \div (bandwidth * 10)
           product == size * 8000000
<1> HIDE DEF quotient, product
<1> QED
  BY <1>3, <1>4, <1>5, <1>6 DEF quotient, product

LEMMA TransferSame ==
    ASSUME NEW p, NEW d, NEW v, NEW w, AtLeastAsBusy(v, p), AtLeastAsBusy(w, d),
           NEW r, NEW cached, NEW entry
    PROVE  Transfer(v, w, entry, r, cached) = Transfer(p, d, entry, r, cached)
BY DEF Transfer, AtLeastAsBusy, OnGpuOf

\* A pair is known by its ids, and more load does not lower its score.
LEMMA LoadCosts ==
    ASSUME NEW p, NEW d, NEW v, NEW w, AtLeastAsBusy(v, p), AtLeastAsBusy(w, d),
           NEW r \in Requests, NEW entry, entry.token_count \in Int,
           NEW c, c = Candidate(r, p, d, entry), NEW e, e = Candidate(r, v, w, entry)
    PROVE  /\ c.score \in Int /\ e.score \in Int /\ c.score <= e.score
           /\ c.prefill = p.id /\ c.decode = d.id /\ e.prefill = p.id /\ e.decode = d.id
<1> DEFINE cached == Min({r.prefix_tokens, entry.token_count, r.input_tokens})
           uncached == Max({1, r.input_tokens - cached})
           turn == Max({5000, r.input_tokens * p.prefill_us})
           transfer == Transfer(p, d, entry, r, cached)
           rest == uncached * p.prefill_us + transfer + d.decode_us
           load(x) == d.decode_us * (10000 + 1000 * x.active_sequences
                                       + 35 * x.gpu_utilization)
           tpot(x) == load(x) \div 10000
           ttft(x) == x.queue_depth * turn + uncached * p.prefill_us
                        + transfer + d.decode_us
<1>1. p \in WorkerSet /\ d \in WorkerSet /\ v \in WorkerSet /\ w \in WorkerSet
  BY DEF AtLeastAsBusy
<1>2. r.input_tokens \in Int /\ r.prefix_tokens \in Int
  BY RequestsAssumption
<1>3. cached \in Int
  BY <1>2, MinOfThree
<1> HIDE DEF cached
<1>4. uncached \in Int
  BY <1>2, <1>3, MaxOfTwo
<1>5. turn \in Nat
  <2>1. r.input_tokens * p.prefill_us \in Int
    BY <1>1, <1>2, WorkerFields
  <2> QED
    BY <2>1, MaxOfTwo
<1>6. transfer \in Int
  BY <1>1, <1>3, TransferInt
<1> HIDE DEF uncached, turn, transfer
<1>7. /\ p.queue_depth * turn \in Int /\ v.queue_depth * turn \in Int
      /\ p.queue_depth * turn <= v.queue_depth * turn
  BY <1>1, <1>5, WorkerFields, ProductMonotone DEF AtLeastAsBusy
<1>8. uncached * p.prefill_us \in Int
  BY <1>1, <1>4, WorkerFields
<1>9. /\ ttft(p) \in Int /\ ttft(v) \in Int /\ ttft(p) <= ttft(v)
  <2> DEFINE a == p.queue_depth * turn
             b == v.queue_depth * turn
             k == uncached * p.prefill_us
  <2>1. a \in Int /\ b \in Int /\ a <= b /\ k \in Int /\ d.decode_us \in Int
    BY <1>1, <1>7, <1>8, WorkerFields
  <2>2. ttft(p) = a + k + transfer + d.decode_us /\ ttft(v) = b + k + transfer + d.decode_us
    OBVIOUS
  <2> HIDE DEF a, b, k, ttft
  <2> QED
    BY <1>6, <2>1, <2>2
<1>10. /\ load(d) \in Int /\ load(w) \in Int /\ load(d) <= load(w)
  <2> DEFINE a == 10000 + 1000 * d.active_sequences + 35 * d.gpu_utilization
             b == 10000 + 1000 * w.active_sequences + 35 * w.gpu_utilization
  <2>1. a \in Int /\ b \in Int /\ a <= b /\ d.decode_us \in Nat
    <3>1. /\ d.active_sequences \in Int /\ d.gpu_utilization \in Int
          /\ w.active_sequences \in Int /\ w.gpu_utilization \in Int
          /\ d.decode_us \in Nat
      BY <1>1, WorkerFields
    <3>2. d.active_sequences <= w.active_sequences /\ d.gpu_utilization <= w.gpu_utilization
      BY DEF AtLeastAsBusy
    <3> QED
      BY <3>1, <3>2
  <2>2. load(d) = d.decode_us * a /\ load(w) = d.decode_us * b
    OBVIOUS
  <2> HIDE DEF a, b, load
  <2>3. d.decode_us * a = a * d.decode_us /\ d.decode_us * b = b * d.decode_us
    BY <2>1
  <2> QED
    BY <2>1, <2>2, <2>3, ProductMonotone
<1>11. tpot(d) \in Int /\ tpot(w) \in Int /\ tpot(d) <= tpot(w)
  <2> HIDE DEF load
  <2> QED
    BY <1>10, QuotientMonotone
<1> HIDE DEF ttft, tpot
<1>12. /\ c.score = Score(p, d, ttft(p), tpot(d), transfer, cached)
       /\ c.prefill = p.id /\ c.decode = d.id
  BY DEF Candidate, cached, uncached, turn, transfer, ttft, tpot
<1>13. /\ e.score = Score(v, w, ttft(v), tpot(w), transfer, cached)
       /\ e.prefill = p.id /\ e.decode = d.id
  <2>1. Transfer(v, w, entry, r, cached) = transfer
    BY TransferSame DEF transfer
  <2>2. /\ v.prefill_us = p.prefill_us /\ w.decode_us = d.decode_us
        /\ v.id = p.id /\ w.id = d.id
    BY DEF AtLeastAsBusy
  <2> QED
    BY <2>1, <2>2 DEF Candidate, cached, uncached, turn, ttft, tpot
<1>14. /\ Score(p, d, ttft(p), tpot(d), transfer, cached) \in Int
       /\ Score(v, w, ttft(v), tpot(w), transfer, cached) \in Int
       /\ Score(p, d, ttft(p), tpot(d), transfer, cached)
            <= Score(v, w, ttft(v), tpot(w), transfer, cached)
  <2>1. (8 * transfer) \div 10 \in Int
    BY <1>6
  <2> DEFINE t == (8 * transfer) \div 10
  <2> HIDE DEF t
  <2>2. /\ p.gpu_utilization \in Int /\ d.gpu_utilization \in Int
        /\ v.gpu_utilization \in Int /\ w.gpu_utilization \in Int
        /\ p.queue_depth \in Int /\ d.active_sequences \in Int
        /\ v.queue_depth \in Int /\ w.active_sequences \in Int
    BY <1>1, WorkerFields
  <2>3. /\ p.gpu_utilization <= v.gpu_utilization /\ d.gpu_utilization <= w.gpu_utilization
        /\ p.queue_depth <= v.queue_depth /\ d.active_sequences <= w.active_sequences
    BY DEF AtLeastAsBusy
  <2> QED
    BY <1>3, <1>9, <1>11, <2>1, <2>2, <2>3 DEF Score, t
<1> QED
  BY <1>12, <1>13, <1>14

-----------------------------------------------------------------------------
(* The entry that is best for a pair                                       *)

\* What a listing is: the entries of a dict, one after another.
Listed(entries) ==
    /\ entries \in Seq({entries[i] : i \in DOMAIN entries})
    /\ \A i \in DOMAIN entries :
         /\ entries[i].token_count \in Int /\ entries[i].tier \in Tiers
         /\ entries[i].last_access \in Int

\* The numbers of the entries that can serve a request, and their keys.
Matches(entries, r, p) ==
    {i \in DOMAIN entries :
       /\ r.prefix_hash # ""
       /\ entries[i].prefix_hash = r.prefix_hash
       /\ CompatibleWith(entries[i].layout, p.layout)}

Preferences(entries, r, p, d) ==
    [i \in Matches(entries, r, p) |-> Preference(entries[i], i, p, d)]

\* One of them is best, and the key of no other comes before its key.
LEMMA BestMatch ==
    ASSUME NEW entries, Listed(entries), NEW r, NEW p, NEW d, Matches(entries, r, p) # {},
           NEW best, best = Least(Preferences(entries, r, p, d))
    PROVE  /\ best \in Matches(entries, r, p)
           /\ BestCache(entries, r, p, d) = entries[best]
           /\ IsLeast(best, Preferences(entries, r, p, d))
<1> DEFINE M == Matches(entries, r, p)
           keys == Preferences(entries, r, p, d)
<1>1. /\ M \subseteq DOMAIN entries /\ M \subseteq Int /\ IsFiniteSet(M)
  <2> DEFINE n == Len(entries)
  <2>1. n \in Nat /\ DOMAIN entries = 1 .. n
    BY DEF Listed
  <2>2. IsFiniteSet(1 .. n) /\ M \subseteq 1 .. n
    <3>1. M \subseteq 1 .. n
      BY <2>1 DEF Matches
    <3> HIDE DEF n, M
    <3> QED
      BY <2>1, <3>1, FS_Interval
  <2> QED
    BY <2>1, <2>2, FS_Subset
<1>2. ASSUME NEW i \in M
      PROVE  /\ keys[i] = Preference(entries[i], i, p, d)
             /\ keys[i] \in [1 .. 6 -> Int] /\ keys[i][6] = i
  <2>1. /\ entries[i].token_count \in Int /\ entries[i].tier \in Tiers
        /\ entries[i].last_access \in Int /\ i \in Int
    BY <1>1 DEF Listed
  <2>2. TierRank(entries[i].tier) \in Int
    BY <2>1 DEF TierRank, Tiers
  <2>3. keys[i] = Preference(entries[i], i, p, d)
    BY DEF Preferences
  <2>4. Truth(~ OnGpuOf(entries[i], d)) \in Int /\ Truth(~ OnGpuOf(entries[i], p)) \in Int
    BY DEF Truth
  <2> QED
    BY <2>1, <2>2, <2>3, <2>4 DEF Preference
<1>3. keys \in [M -> [1 .. 6 -> Int]]
  BY <1>2 DEF Preferences
<1>4. \A i, j \in M : keys[i] = keys[j] => i = j
  BY <1>2
<1> HIDE DEF M, keys
<1>5. Least(keys) \in M /\ IsLeast(Least(keys), keys)
  BY <1>1, <1>3, <1>4, OneIsLeast DEF M
<1>6. BestCache(entries, r, p, d) = entries[Least(keys)]
  BY DEF BestCache, keys, Preferences, Matches
<1> QED
  BY <1>5, <1>6 DEF M, keys

\* What entries are compared by before their place in the dict.
Criteria(e, p, d) ==
    << Truth(~ OnGpuOf(e, d)), Truth(~ OnGpuOf(e, p)), -e.token_count,
       TierRank(e.tier), -e.last_access >>

LEMMA CriteriaType ==
    ASSUME NEW e, e.token_count \in Int, e.tier \in Tiers, e.last_access \in Int,
           NEW p, NEW d
    PROVE  Criteria(e, p, d) \in [1 .. 5 -> Int]
<1>1. TierRank(e.tier) \in Int
  BY DEF TierRank, Tiers
<1>2. Truth(~ OnGpuOf(e, d)) \in Int /\ Truth(~ OnGpuOf(e, p)) \in Int
  BY DEF Truth
<1> QED
  BY <1>1, <1>2 DEF Criteria

LEMMA CriteriaFirst ==
    ASSUME NEW e, NEW o, NEW i, NEW j, NEW p, NEW d,
           LexLess(Preference(e, i, p, d), Preference(o, j, p, d))
    PROVE  LexLess(Criteria(e, p, d), Criteria(o, p, d)) \/ Criteria(e, p, d) = Criteria(o, p, d)
<1> DEFINE u == Preference(e, i, p, d)
           v == Preference(o, j, p, d)
           a == Criteria(e, p, d)
           b == Criteria(o, p, d)
<1>1. DOMAIN u = 1 .. 6 /\ DOMAIN a = 1 .. 5
  BY DEF Preference, Criteria
<1>2. \A t \in 1 .. 5 : u[t] = a[t] /\ v[t] = b[t]
  <2>1. \A t \in 1 .. 5 : t = 1 \/ t = 2 \/ t = 3 \/ t = 4 \/ t = 5
    OBVIOUS
  <2>2. /\ u[1] = a[1] /\ u[2] = a[2] /\ u[3] = a[3] /\ u[4] = a[4] /\ u[5] = a[5]
        /\ v[1] = b[1] /\ v[2] = b[2] /\ v[3] = b[3] /\ v[4] = b[4] /\ v[5] = b[5]
    BY DEF Preference, Criteria
  <2> HIDE DEF u, v, a, b
  <2> QED
    BY <2>1, <2>2
<1>3. (\A t \in 1 .. 5 : a[t] = b[t]) => a = b
  BY DEF Criteria
<1> HIDE DEF u, v, a, b
<1>4. PICK t \in 1 .. 6 : u[t] < v[t] /\ \A s \in 1 .. (t - 1) : u[s] = v[s]
  BY <1>1 DEF LexLess, u, v
<1>5. CASE t = 6
  <2>1. 1 .. (t - 1) = 1 .. 5
    BY <1>5
  <2> QED
    BY <1>2, <1>3, <1>4, <2>1 DEF a, b
<1>6. CASE t \in 1 .. 5
  <2>1. \A s \in 1 .. (t - 1) : s \in 1 .. 5
    BY <1>6
  <2>2. a[t] < b[t] /\ \A s \in 1 .. (t - 1) : a[s] = b[s]
    BY <1>2, <1>4, <1>6, <2>1
  <2> QED
    BY <1>1, <1>6, <2>2 DEF LexLess, a, b
<1> QED
  BY <1>5, <1>6

\* What the best of one listing is compared by is not after what that of a
\* listing of the same entries is.
LEMMA BestNotAfter ==
    ASSUME NEW entries, Listed(entries), NEW others, Listed(others),
           NEW r, NEW p, NEW d,
           \A j \in DOMAIN others : \E i \in DOMAIN entries : entries[i] = others[j],
           Matches(entries, r, p) # {}, Matches(others, r, p) # {},
           NEW e, e = BestCache(entries, r, p, d), NEW o, o = BestCache(others, r, p, d)
    PROVE  LexLess(Criteria(e, p, d), Criteria(o, p, d)) \/ Criteria(e, p, d) = Criteria(o, p, d)
<1> DEFINE keys == Preferences(entries, r, p, d)
<1>1. PICK i \in Matches(entries, r, p) : e = entries[i] /\ IsLeast(i, keys)
  BY BestMatch
<1>2. PICK k \in Matches(others, r, p) : o = others[k]
  BY BestMatch
<1>3. PICK j \in Matches(entries, r, p) : entries[j] = o
  BY <1>2 DEF Matches
<1>4. CASE i = j
  BY <1>1, <1>3, <1>4
<1>5. CASE i # j
  <2>1. LexLess(keys[i], keys[j])
    BY <1>5, <1>1 DEF IsLeast, Preferences
  <2>2. keys[i] = Preference(e, i, p, d) /\ keys[j] = Preference(o, j, p, d)
    BY <1>1, <1>3 DEF Preferences
  <2> HIDE DEF keys
  <2> QED
    BY <2>1, <2>2, CriteriaFirst
<1> QED
  BY <1>4, <1>5

\* What the best entry is like is the same for two listings of the same
\* entries.
LEMMA BestOfBoth ==
    ASSUME NEW entries, Listed(entries), NEW others, Listed(others),
           NEW r, NEW p, NEW d,
           \A i \in DOMAIN entries : \E j \in DOMAIN others : entries[i] = others[j],
           \A j \in DOMAIN others : \E i \in DOMAIN entries : entries[i] = others[j],
           NEW e, e = BestCache(entries, r, p, d), NEW o, o = BestCache(others, r, p, d)
    PROVE  /\ e.token_count = o.token_count /\ e.tier = o.tier
           /\ OnGpuOf(e, d) = OnGpuOf(o, d)
<1>1. CASE Matches(entries, r, p) = {}
  <2>1. Matches(others, r, p) = {}
    BY <1>1 DEF Matches
  <2>2. e = None /\ o = None
    BY <1>1, <2>1 DEF BestCache, Matches
  <2> QED
    BY <2>2
<1>2. CASE Matches(entries, r, p) # {}
  <2>1. Matches(others, r, p) # {}
    <3>1. PICK i \in Matches(entries, r, p) : TRUE
      BY <1>2
    <3>2. PICK j \in DOMAIN others : entries[i] = others[j]
      BY <3>1 DEF Matches
    <3>3. j \in Matches(others, r, p)
      BY <3>1, <3>2 DEF Matches
    <3> QED
      BY <3>3
  <2>2. \A j \in DOMAIN entries : \E i \in DOMAIN others : others[i] = entries[j]
    OBVIOUS
  <2> DEFINE a == Criteria(e, p, d)
             b == Criteria(o, p, d)
  <2>3. LexLess(a, b) \/ a = b
    BY <1>2, <2>1, BestNotAfter
  <2>4. LexLess(b, a) \/ a = b
    <3>1. LexLess(b, a) \/ b = a
      BY <1>2, <2>1, <2>2, BestNotAfter
    <3> QED
      BY <3>1
  <2>5. /\ e.token_count \in Int /\ e.tier \in Tiers /\ e.last_access \in Int
        /\ o.token_count \in Int /\ o.tier \in Tiers /\ o.last_access \in Int
    <3>0. /\ Matches(entries, r, p) \subseteq DOMAIN entries
          /\ Matches(others, r, p) \subseteq DOMAIN others
      BY DEF Matches
    <3>1. PICK i \in DOMAIN entries : e = entries[i]
      BY <1>2, <3>0, BestMatch
    <3>2. PICK j \in DOMAIN others : o = others[j]
      BY <2>1, <3>0, BestMatch
    <3> QED
      BY <3>1, <3>2 DEF Listed
  <2>6. a \in [1 .. 5 -> Int] /\ b \in [1 .. 5 -> Int]
    BY <2>5, CriteriaType
  <2>7. a = b
    <3> HIDE DEF a, b
    <3>1. 5 \in Nat
      OBVIOUS
    <3>2. ~ LexLess(a, a)
      BY <2>6, <3>1, LexIrreflexive
    <3> QED
      BY <2>3, <2>4, <2>6, <3>1, <3>2, LexTransitive
  <2>8. /\ Truth(~ OnGpuOf(e, d)) = Truth(~ OnGpuOf(o, d))
        /\ -e.token_count = -o.token_count /\ TierRank(e.tier) = TierRank(o.tier)
    <3>1. a[1] = b[1] /\ a[3] = b[3] /\ a[4] = b[4]
      BY <2>7
    <3>2. /\ a[1] = Truth(~ OnGpuOf(e, d)) /\ b[1] = Truth(~ OnGpuOf(o, d))
          /\ a[3] = -e.token_count /\ b[3] = -o.token_count
          /\ a[4] = TierRank(e.tier) /\ b[4] = TierRank(o.tier)
      BY DEF Criteria
    <3> HIDE DEF a, b
    <3> QED
      BY <3>1, <3>2
  <2>9. e.token_count = o.token_count
    BY <2>5, <2>8
  <2>10. e.tier = o.tier
    BY <2>5, <2>8 DEF Tiers, TierRank
  <2>11. OnGpuOf(e, d) = OnGpuOf(o, d)
    <3>1. OnGpuOf(e, d) \in BOOLEAN /\ OnGpuOf(o, d) \in BOOLEAN
      BY DEF OnGpuOf
    <3> QED
      BY <2>8, <3>1 DEF Truth
  <2> QED
    BY <2>9, <2>10, <2>11
<1> QED
  BY <1>1, <1>2

-----------------------------------------------------------------------------
(* The candidates                                                          *)

\* What the registry gives at a time.
Known(workers) ==
    /\ IsFiniteSet(workers) /\ workers \subseteq WorkerSet
    /\ \A v, w \in workers : v.id = w.id => v = w

CandidateKey(c) == <<c.score, c.prefill, c.decode>>

CandidateKeys(C) == [c \in C |-> CandidateKey(c)]

LEMMA EntryTokens ==
    ASSUME NEW entries, Listed(entries), NEW r, NEW p, NEW d
    PROVE  BestCache(entries, r, p, d).token_count \in Int
<1>1. CASE Matches(entries, r, p) = {}
  <2>1. BestCache(entries, r, p, d) = None
    BY <1>1 DEF BestCache, Matches
  <2> QED
    BY <2>1 DEF None
<1>2. CASE Matches(entries, r, p) # {}
  <2>1. Matches(entries, r, p) \subseteq DOMAIN entries
    BY DEF Matches
  <2>2. PICK i \in DOMAIN entries : BestCache(entries, r, p, d) = entries[i]
    BY <1>2, <2>1, BestMatch
  <2> QED
    BY <2>2 DEF Listed
<1> QED
  BY <1>1, <1>2

\* A candidate stands for a pair, and has its ids.
LEMMA CandidateFacts ==
    ASSUME NEW r \in Requests, NEW workers, Known(workers), NEW entries, Listed(entries),
           NEW pd \in Pairs(r, workers),
           NEW c, c = Candidate(r, pd[1], pd[2], BestCache(entries, r, pd[1], pd[2]))
    PROVE  /\ pd[1] \in workers /\ pd[2] \in workers /\ pd = <<pd[1], pd[2]>>
           /\ c.score \in Int /\ c.prefill = pd[1].id /\ c.decode = pd[2].id
           /\ c.prefill \in Int /\ c.decode \in Int
           /\ c \in Candidates(r, workers, entries)
<1>1. pd[1] \in workers /\ pd[2] \in workers /\ pd = <<pd[1], pd[2]>>
  BY DEF Pairs
<1>2. pd[1] \in WorkerSet /\ pd[2] \in WorkerSet
  BY <1>1 DEF Known
<1>3. AtLeastAsBusy(pd[1], pd[1]) /\ AtLeastAsBusy(pd[2], pd[2])
  BY <1>2, WorkerFields DEF AtLeastAsBusy
<1>4. BestCache(entries, r, pd[1], pd[2]).token_count \in Int
  BY EntryTokens
<1>5. c.score \in Int /\ c.prefill = pd[1].id /\ c.decode = pd[2].id
  BY <1>3, <1>4, LoadCosts
<1>6. c \in Candidates(r, workers, entries)
  BY DEF Candidates
<1> QED
  BY <1>1, <1>2, <1>5, <1>6, WorkerFields

LEMMA CandidateOfPair ==
    ASSUME NEW r, NEW workers, NEW entries, NEW c \in Candidates(r, workers, entries)
    PROVE  \E pd \in Pairs(r, workers) :
             c = Candidate(r, pd[1], pd[2], BestCache(entries, r, pd[1], pd[2]))
BY DEF Candidates

\* One candidate is best, and comes before all others.
LEMMA BestCandidate ==
    ASSUME NEW r \in Requests, NEW workers, Known(workers), NEW entries, Listed(entries),
           Candidates(r, workers, entries) # {},
           NEW best, best = Least(CandidateKeys(Candidates(r, workers, entries)))
    PROVE  /\ best \in Candidates(r, workers, entries)
           /\ \A c \in Candidates(r, workers, entries) \ {best} :
                LexLess(CandidateKey(best), CandidateKey(c))
<1> DEFINE C == Candidates(r, workers, entries)
           P == Pairs(r, workers)
           make == [pd \in P |-> Candidate(r, pd[1], pd[2], BestCache(entries, r, pd[1], pd[2]))]
           keys == CandidateKeys(C)
<1>1. IsFiniteSet(C)
  <2>1. P \subseteq workers \X workers /\ IsFiniteSet(workers)
    BY DEF Pairs, Known
  <2>2. IsFiniteSet(P)
    <3>1. IsFiniteSet(workers \X workers)
      BY <2>1, FS_Product
    <3> QED
      BY <2>1, <3>1, FS_Subset
  <2>3. make \in Surjection(P, C)
    <3>1. \A c \in C : \E pd \in P : make[pd] = c
      BY CandidateOfPair
    <3>2. \A pd \in P : make[pd] \in C
      BY DEF Candidates
    <3> HIDE DEF C, P
    <3> QED
      BY <3>1, <3>2 DEF Surjection
  <2> HIDE DEF make, P, C
  <2> QED
    BY <2>2, <2>3, FS_Surjection
<1>2. ASSUME NEW c \in C PROVE keys[c] = CandidateKey(c) /\ keys[c] \in [1 .. 3 -> Int]
  <2>1. c.score \in Int /\ c.prefill \in Int /\ c.decode \in Int
    BY CandidateOfPair, CandidateFacts
  <2>2. keys[c] = CandidateKey(c)
    BY DEF CandidateKeys
  <2> QED
    BY <2>1, <2>2 DEF CandidateKey
<1>3. ASSUME NEW c \in C, NEW e \in C, keys[c] = keys[e] PROVE c = e
  <2>1. c.prefill = e.prefill /\ c.decode = e.decode
    BY <1>2, <1>3 DEF CandidateKey
  <2>2. PICK pd \in P : c = Candidate(r, pd[1], pd[2], BestCache(entries, r, pd[1], pd[2]))
    BY CandidateOfPair
  <2>3. PICK qe \in P : e = Candidate(r, qe[1], qe[2], BestCache(entries, r, qe[1], qe[2]))
    BY CandidateOfPair
  <2>4. /\ pd[1] \in workers /\ pd[2] \in workers
        /\ c.prefill = pd[1].id /\ c.decode = pd[2].id
    BY <2>2, CandidateFacts
  <2>5. /\ qe[1] \in workers /\ qe[2] \in workers
        /\ e.prefill = qe[1].id /\ e.decode = qe[2].id
    BY <2>3, CandidateFacts
  <2>6. pd[1] = qe[1] /\ pd[2] = qe[2]
    BY <2>1, <2>4, <2>5 DEF Known
  <2> QED
    BY <2>2, <2>3, <2>6
<1>4. keys \in [C -> [1 .. 3 -> Int]]
  BY <1>2 DEF CandidateKeys
<1> HIDE DEF C, keys
<1>5. Least(keys) \in C /\ IsLeast(Least(keys), keys)
  BY <1>1, <1>3, <1>4, OneIsLeast DEF C
<1>6. \A c \in C \ {best} : LexLess(keys[best], keys[c])
  BY <1>4, <1>5 DEF IsLeast, keys, C
<1> QED
  BY <1>2, <1>5, <1>6 DEF keys, C

\* route takes a pair that no pair beats, and admits the request exactly if that
\* pair meets the SLO: without a pair nothing is admitted, and no request is
\* turned away while the best pair could serve it in time (router.py:50-66).
THEOREM BestPairDecides ==
    ASSUME NEW r \in Requests, NEW workers, Known(workers), NEW entries, Listed(entries),
           NEW decided, decided = Route(r, workers, entries)
    PROVE  /\ decided.admitted => Pairs(r, workers) # {}
           /\ Pairs(r, workers) # {} =>
                \E c \in Candidates(r, workers, entries) :
                    /\ decided.candidate = c
                    /\ \A e \in Candidates(r, workers, entries) : c.score <= e.score
                    /\ decided.admitted <=> c.ttft <= r.ttft_slo /\ c.tpot <= r.tpot_slo
<1> DEFINE C == Candidates(r, workers, entries)
           best == Least(CandidateKeys(C))
           paired == \E p, d \in workers : p.role = "prefill" /\ d.role = "decode"
           meets == best.ttft <= r.ttft_slo /\ best.tpot <= r.tpot_slo
<1>1. C # {} <=> Pairs(r, workers) # {}
  BY DEF Candidates
<1>2. Pairs(r, workers) # {} => paired
  BY DEF Pairs
<1>3. best = Least([c \in C |-> <<c.score, c.prefill, c.decode>>])
  BY DEF CandidateKeys, CandidateKey
<1> HIDE DEF C, best
<1>4. decided =
        IF ~ paired THEN Rejected("no_healthy_pd_pair")
        ELSE IF C = {} THEN Rejected("no_compatible_pd_pair")
        ELSE IF meets THEN [admitted |-> TRUE, reason |-> "admitted", candidate |-> best]
        ELSE [admitted |-> FALSE, reason |-> "predicted_slo_miss", candidate |-> best]
  BY <1>3 DEF Route, C
<1> HIDE DEF paired, meets
<1>5. CASE C = {}
  <2>1. ~ decided.admitted
    BY <1>4, <1>5 DEF Rejected
  <2> QED
    BY <1>1, <1>5, <2>1
<1>6. CASE C # {}
  <2>1. decided.candidate = best /\ (decided.admitted <=> meets)
    BY <1>1, <1>2, <1>4, <1>6
  <2>2. best \in C /\ \A e \in C \ {best} : LexLess(CandidateKey(best), CandidateKey(e))
    BY <1>6, BestCandidate DEF C, best
  <2>3. \A e \in C : e.score \in Int
    BY CandidateOfPair, CandidateFacts DEF C
  <2>4. ASSUME NEW e \in C PROVE best.score <= e.score
    <3>1. CASE e = best
      BY <2>3, <3>1
    <3>2. CASE e # best
      <4>1. LexLess(CandidateKey(best), CandidateKey(e))
        BY <2>2, <3>2
      <4>2. best.score < e.score \/ best.score = e.score
        BY <4>1, LexOfThree DEF CandidateKey
      <4> QED
        BY <2>2, <2>3, <4>2
    <3> QED
      BY <3>1, <3>2
  <2> QED
    BY <1>1, <1>6, <2>1, <2>2, <2>4 DEF C, meets
<1> QED
  BY <1>5, <1>6

-----------------------------------------------------------------------------
(* The order of the directory                                              *)

\* The route depends on the entries, not on the order they are listed in.
LEMMA RouteOfBoth ==
    ASSUME NEW entries, Listed(entries), NEW others, Listed(others), NEW r, NEW workers,
           \A i \in DOMAIN entries : \E j \in DOMAIN others : entries[i] = others[j],
           \A j \in DOMAIN others : \E i \in DOMAIN entries : entries[i] = others[j]
    PROVE  Route(r, workers, others) = Route(r, workers, entries)
<1>1. ASSUME NEW p, NEW d
      PROVE  Candidate(r, p, d, BestCache(entries, r, p, d))
               = Candidate(r, p, d, BestCache(others, r, p, d))
  <2> DEFINE e == BestCache(entries, r, p, d)
             o == BestCache(others, r, p, d)
  <2>1. e.token_count = o.token_count /\ e.tier = o.tier /\ OnGpuOf(e, d) = OnGpuOf(o, d)
    BY BestOfBoth
  <2> HIDE DEF e, o
  <2>2. \A cached : Transfer(p, d, e, r, cached) = Transfer(p, d, o, r, cached)
    BY <2>1 DEF Transfer
  <2> QED
    BY <2>1, <2>2 DEF Candidate, e, o
<1>2. Candidates(r, workers, entries) = Candidates(r, workers, others)
  BY <1>1 DEF Candidates
<1> QED
  BY <1>2 DEF Route

\* Every sequence of a finite set has all of its members.
LEMMA SequenceOfSet ==
    ASSUME NEW S, IsFiniteSet(S), NEW s \in SetToSeqs(S)
    PROVE  /\ DOMAIN s = 1 .. Cardinality(S) /\ Cardinality(S) \in Nat
           /\ \A i \in DOMAIN s : s[i] \in S
           /\ \A x \in S : \E i \in DOMAIN s : s[i] = x
<1> DEFINE n == Cardinality(S)
<1>1. n \in Nat
  BY FS_CardinalityType
<1>2. s \in Injection(1 .. n, S)
  BY DEF SetToSeqs, Injection, IsInjective
<1> HIDE DEF n
<1>3. IsFiniteSet(1 .. n) /\ Cardinality(1 .. n) = n
  BY <1>1, FS_Interval
<1>4. s \in Surjection(1 .. n, S)
  BY <1>2, <1>3, FS_Injection DEF n
<1> QED
  BY <1>1, <1>4 DEF Surjection, n

LEMMA AnyListing ==
    ASSUME NEW entries, Listed(entries),
           NEW others \in SetToSeqs({entries[i] : i \in DOMAIN entries})
    PROVE  /\ Listed(others)
           /\ \A i \in DOMAIN entries : \E j \in DOMAIN others : entries[i] = others[j]
           /\ \A j \in DOMAIN others : \E i \in DOMAIN entries : entries[i] = others[j]
<1> DEFINE S == {entries[i] : i \in DOMAIN entries}
           n == Len(entries)
<1>1. n \in Nat /\ DOMAIN entries = 1 .. n
  BY DEF Listed
<1>2. IsFiniteSet(S)
  <2> DEFINE at == [i \in 1 .. n |-> entries[i]]
  <2>1. at \in Surjection(1 .. n, S)
    BY <1>1 DEF Surjection
  <2> HIDE DEF at, S, n
  <2>2. IsFiniteSet(1 .. n)
    BY <1>1, FS_Interval
  <2> QED
    BY <2>1, <2>2, FS_Surjection
<1>3. \A x \in S : /\ x.token_count \in Int /\ x.tier \in Tiers /\ x.last_access \in Int
                   /\ \E i \in DOMAIN entries : entries[i] = x
  BY DEF Listed
<1>4. \A i \in DOMAIN entries : entries[i] \in S
  OBVIOUS
<1>5. others \in SetToSeqs(S)
  OBVIOUS
<1> HIDE DEF S
<1>6. /\ DOMAIN others = 1 .. Cardinality(S) /\ Cardinality(S) \in Nat
      /\ \A i \in DOMAIN others : others[i] \in S
      /\ \A x \in S : \E i \in DOMAIN others : others[i] = x
  BY <1>2, <1>5, SequenceOfSet
<1>7. others \in Seq({others[i] : i \in DOMAIN others})
  <2> DEFINE T == {others[i] : i \in DOMAIN others}
             m == Cardinality(S)
  <2>1. others \in [1 .. m -> S]
    BY <1>5 DEF SetToSeqs
  <2>2. \A i \in 1 .. m : others[i] \in T
    BY <1>6
  <2>3. m \in Nat /\ others = [i \in 1 .. m |-> others[i]]
    BY <1>6, <2>1
  <2> HIDE DEF T, m
  <2>4. others \in Seq(T)
    BY <2>2, <2>3
  <2> QED
    BY <2>4 DEF T
<1> QED
  BY <1>3, <1>4, <1>6, <1>7 DEF Listed

-----------------------------------------------------------------------------
(* Load                                                                    *)

\* A worker is chosen when there is a candidate and the best one names it.
LEMMA ChosenByBest ==
    ASSUME NEW r, NEW workers, NEW entries, NEW w,
           NEW best, best = Least(CandidateKeys(Candidates(r, workers, entries)))
    PROVE  Chosen(Route(r, workers, entries), w)
             <=> /\ Candidates(r, workers, entries) # {}
                 /\ w.id \in {best.prefill, best.decode}
<1> DEFINE C == Candidates(r, workers, entries)
           paired == \E p, d \in workers : p.role = "prefill" /\ d.role = "decode"
           meets == best.ttft <= r.ttft_slo /\ best.tpot <= r.tpot_slo
<1>1. best = Least([c \in C |-> <<c.score, c.prefill, c.decode>>])
  BY DEF CandidateKeys, CandidateKey
<1>2. C # {} => paired
  BY DEF Candidates, Pairs
<1> HIDE DEF C
<1>3. Route(r, workers, entries) =
        IF ~ paired THEN Rejected("no_healthy_pd_pair")
        ELSE IF C = {} THEN Rejected("no_compatible_pd_pair")
        ELSE IF meets THEN [admitted |-> TRUE, reason |-> "admitted", candidate |-> best]
        ELSE [admitted |-> FALSE, reason |-> "predicted_slo_miss", candidate |-> best]
  BY <1>1 DEF Route, C
<1> HIDE DEF paired, meets
<1>4. CASE C = {}
  <2>1. \E reason : Route(r, workers, entries) = Rejected(reason)
    BY <1>3, <1>4
  <2> QED
    BY <1>4, <2>1 DEF Chosen, Rejected, C
<1>5. CASE C # {}
  <2>1. /\ "candidate" \in DOMAIN Route(r, workers, entries)
        /\ Route(r, workers, entries).candidate = best
    BY <1>2, <1>3, <1>5
  <2> QED
    BY <1>5, <2>1 DEF Chosen, C
<1> QED
  BY <1>4, <1>5

\* Load changes neither the entry a pair uses
LEMMA EntryOfBusy ==
    ASSUME NEW p, NEW d, NEW v, NEW u, AtLeastAsBusy(v, p), AtLeastAsBusy(u, d),
           NEW r, NEW entries
    PROVE  BestCache(entries, r, v, u) = BestCache(entries, r, p, d)
BY DEF BestCache, Preference, OnGpuOf, AtLeastAsBusy

\* nor whether two workers are a pair.
LEMMA PairOfBusy ==
    ASSUME NEW r, NEW workers, NEW after,
           NEW p \in workers, NEW d \in workers, NEW v \in after, NEW u \in after,
           AtLeastAsBusy(v, p), AtLeastAsBusy(u, d)
    PROVE  <<p, d>> \in Pairs(r, workers) <=> <<v, u>> \in Pairs(r, after)
BY DEF Pairs, AtLeastAsBusy

\* A worker that is not chosen is not chosen under more load either.
LEMMA BusyNotChosen ==
    ASSUME NEW r \in Requests, NEW workers, Known(workers), NEW entries, Listed(entries),
           NEW w \in workers, ~ Chosen(Route(r, workers, entries), w),
           NEW busy \in Busier(w)
    PROVE  ~ Chosen(Route(r, (workers \ {w}) \cup {busy}, entries), w)
<1> DEFINE after == (workers \ {w}) \cup {busy}
           Up(v) == IF v = w THEN busy ELSE v
           C == Candidates(r, workers, entries)
           D == Candidates(r, after, entries)
           best == Least(CandidateKeys(C))
           least == Least(CandidateKeys(D))
           Of(p, d) == Candidate(r, p, d, BestCache(entries, r, p, d))
<1>1. \A v \in workers : AtLeastAsBusy(Up(v), v) /\ Up(v) \in after
  <2>1. \A v \in workers : v \in WorkerSet
    BY DEF Known
  <2>2. \A v \in workers : AtLeastAsBusy(v, v)
    BY <2>1, WorkerFields DEF AtLeastAsBusy
  <2> QED
    BY <2>1, <2>2, BusierIsBusier
<1>2. \A v \in after : \E o \in workers : v = Up(o)
  OBVIOUS
<1>3. Known(after)
  <2>1. IsFiniteSet(after)
    <3>1. IsFiniteSet(workers \ {w})
      BY FS_Difference DEF Known
    <3>2. IsFiniteSet((workers \ {w}) \cup {busy})
      BY <3>1, FS_AddElement
    <3> QED
      BY <3>2
  <2>2. after \subseteq WorkerSet
    BY <1>1, <1>2 DEF AtLeastAsBusy
  <2>3. ASSUME NEW v \in after, NEW u \in after, v.id = u.id PROVE v = u
    <3>1. PICK o \in workers : v = Up(o)
      BY <1>2
    <3>2. PICK q \in workers : u = Up(q)
      BY <1>2
    <3>3. o.id = q.id
      BY <1>1, <2>3, <3>1, <3>2 DEF AtLeastAsBusy
    <3> QED
      BY <3>1, <3>2, <3>3 DEF Known
  <2> HIDE DEF after
  <2> QED
    BY <2>1, <2>2, <2>3 DEF Known
<1> HIDE DEF after, Up
<1>4. SUFFICES ASSUME Chosen(Route(r, after, entries), w) PROVE FALSE
  BY DEF after
<1>5. D # {} /\ w.id \in {least.prefill, least.decode}
  BY <1>4, ChosenByBest
<1>6. least \in D /\ \A c \in D \ {least} : LexLess(CandidateKey(least), CandidateKey(c))
  BY <1>3, <1>5, BestCandidate
<1>7. PICK vu \in Pairs(r, after) : least = Of(vu[1], vu[2])
  BY <1>6, CandidateOfPair
<1>8. vu[1] \in after /\ vu[2] \in after /\ vu = <<vu[1], vu[2]>>
  BY DEF Pairs
<1>9. PICK p \in workers, d \in workers : vu = <<Up(p), Up(d)>>
  BY <1>2, <1>8
<1>10. AtLeastAsBusy(Up(p), p) /\ AtLeastAsBusy(Up(d), d) /\ Up(p) \in after /\ Up(d) \in after
  BY <1>1
<1>11. <<p, d>> \in Pairs(r, workers)
  BY <1>9, <1>10, PairOfBusy
<1> DEFINE c == Of(p, d)
<1>12. c \in C
  <2> DEFINE pd == <<p, d>>
  <2>1. pd \in Pairs(r, workers) /\ pd[1] = p /\ pd[2] = d
    BY <1>11
  <2> HIDE DEF pd
  <2>2. Candidate(r, pd[1], pd[2], BestCache(entries, r, pd[1], pd[2])) \in C
    BY <2>1, CandidateFacts
  <2> QED
    BY <2>1, <2>2
<1>13. /\ c.score \in Int /\ least.score \in Int /\ c.score <= least.score
       /\ c.prefill = p.id /\ c.decode = d.id /\ least.prefill = p.id /\ least.decode = d.id
  <2>1. least = Candidate(r, Up(p), Up(d), BestCache(entries, r, p, d))
    BY <1>7, <1>9, <1>10, EntryOfBusy
  <2>2. BestCache(entries, r, p, d).token_count \in Int
    BY EntryTokens
  <2> HIDE DEF least
  <2> QED
    BY <1>10, <2>1, <2>2, LoadCosts
<1>14. best \in C /\ \A e \in C \ {best} : LexLess(CandidateKey(best), CandidateKey(e))
  BY <1>12, BestCandidate
<1>15. w.id \notin {best.prefill, best.decode}
  BY <1>12, ChosenByBest
<1> HIDE DEF C, D, c, best, least
<1>16. c # best /\ least # best
  BY <1>5, <1>13, <1>15
<1>17. PICK ab \in Pairs(r, workers) : best = Of(ab[1], ab[2])
  BY <1>14, CandidateOfPair DEF C
<1>18. /\ ab[1] \in workers /\ ab[2] \in workers /\ ab = <<ab[1], ab[2]>>
       /\ best.score \in Int /\ best.prefill = ab[1].id /\ best.decode = ab[2].id
       /\ best.prefill \in Int /\ best.decode \in Int
  BY <1>17, CandidateFacts
<1>19. ab[1] \in after /\ ab[2] \in after
  BY <1>15, <1>18 DEF after
<1>20. ab \in Pairs(r, after)
  BY <1>18, <1>19 DEF Pairs
<1>21. best \in D
  BY <1>3, <1>17, <1>20, CandidateFacts DEF D
<1>22. p.id \in Int /\ d.id \in Int
  BY WorkerFields DEF Known
<1>23. LexLess(CandidateKey(best), CandidateKey(c))
  BY <1>12, <1>14, <1>16
<1>24. LexLess(CandidateKey(least), CandidateKey(best))
  BY <1>6, <1>16, <1>21
<1>25. \/ best.score < c.score
       \/ best.score = c.score /\ best.prefill < c.prefill
       \/ best.score = c.score /\ best.prefill = c.prefill /\ best.decode < c.decode
  BY <1>23, LexOfThree DEF CandidateKey
<1>26. \/ least.score < best.score
       \/ least.score = best.score /\ least.prefill < best.prefill
       \/ least.score = best.score /\ least.prefill = best.prefill
            /\ least.decode < best.decode
  BY <1>24, LexOfThree DEF CandidateKey
<1> QED
  BY <1>13, <1>18, <1>22, <1>25, <1>26

-----------------------------------------------------------------------------
(* The router                                                              *)

\* A decision is that of the router on the snapshot it was asked for.
RouterInv ==
    /\ request \in Requests /\ pool \in Pools /\ listing \in Listings
    /\ decision = Undecided \/ decision = Route(request, pool, listing)

\* The snapshot stays, and the decision with it.
LEMMA RouterInvariant == Spec => []RouterInv
<1>1. Init => RouterInv
  BY DEF Init, RouterInv
<1>2. RouterInv /\ [Next]_vars => RouterInv'
  BY DEF RouterInv, Next, Decide, Decided, vars
<1> QED
  BY <1>1, <1>2, PTL DEF Spec

LEMMA SnapshotFacts ==
    ASSUME RouterInv, decision # Undecided
    PROVE  /\ decision = Route(request, pool, listing)
           /\ request \in Requests /\ Known(pool) /\ Listed(listing)
<1>1. request \in Requests /\ pool \in Pools /\ listing \in Listings
  BY DEF RouterInv
<1> QED
  BY <1>1, PoolsAssumption, ListingsAssumption DEF RouterInv, Known, Listed

\* For every directory, request and pool, the decision is the same in
\* whatever order the dict lists the entries (router.py:76-90, cache.py lookup).
THEOREM OrderOfListingNeverMatters == Spec => []ListingOrderIrrelevant
<1>1. RouterInv => ListingOrderIrrelevant
  <2> SUFFICES ASSUME RouterInv, decision # Undecided,
                      NEW other \in SetToSeqs({listing[i] : i \in DOMAIN listing})
               PROVE  Route(request, pool, other) = decision
    BY DEF ListingOrderIrrelevant
  <2>1. decision = Route(request, pool, listing) /\ Listed(listing)
    BY SnapshotFacts
  <2> QED
    BY <2>1, AnyListing, RouteOfBoth
<1> QED
  BY <1>1, RouterInvariant, PTL

\* For every pool, a worker that is not chosen is not chosen either when it
\* alone reports more load (router.py:45-54, 92-131).
THEOREM LoadAlwaysRepels == Spec => []LoadRepels
<1>1. RouterInv => LoadRepels
  <2> SUFFICES ASSUME RouterInv, decision # Undecided, NEW w \in pool,
                      ~ Chosen(decision, w), NEW busy \in Busier(w)
               PROVE  ~ Chosen(Route(request, (pool \ {w}) \cup {busy}, listing), w)
    BY DEF LoadRepels
  <2>1. /\ decision = Route(request, pool, listing)
        /\ request \in Requests /\ Known(pool) /\ Listed(listing)
    BY SnapshotFacts
  <2> QED
    BY <2>1, BusyNotChosen
<1> QED
  BY <1>1, RouterInvariant, PTL
=============================================================================
