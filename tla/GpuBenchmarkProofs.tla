------------------------- MODULE GpuBenchmarkProofs -------------------------
(***************************************************************************)
(* Theorems about the NIXL proxy, and about the benchmark client at work   *)
(* on it, for any requests, any concurrency and any faults.                *)
(***************************************************************************)
EXTENDS GpuBenchmark, TLAPS, FiniteSetTheorems

-----------------------------------------------------------------------------
(* The proxy, for any set of requests and any faults: its types and the    *)
(* abstract handshake                                                      *)

\* A request has no blocks before its prefill has ended, and has them
\* at one of the servers when its stream is about to start.
BlocksFollowPrefill ==
    \A r \in Requests :
        /\ pc[r] \in {"idle", "prefill"} => r \notin blocks \cup pulled
        /\ pc[r] = "respond" => r \in blocks /\ r \notin pulled

NixlInv == TypeOK /\ BlocksFollowPrefill

LEMMA NixlInvInit == Init => NixlInv
  BY DEF Init, NixlInv, TypeOK, BlocksFollowPrefill, Ended

\* Every step keeps the invariant, one step of the proof per action.
LEMMA NixlInvStep == NixlInv /\ [Next]_vars => NixlInv'
<1> SUFFICES ASSUME NixlInv, [Next]_vars PROVE NixlInv'
  OBVIOUS
<1> USE DEF NixlInv, TypeOK, BlocksFollowPrefill, Ended, Goto
<1>1. ASSUME NEW r \in Requests, Arrive(r) PROVE NixlInv'
  BY <1>1 DEF Arrive
<1>2. ASSUME NEW r \in Requests, PrefillReply(r) PROVE NixlInv'
  BY <1>2 DEF PrefillReply
<1>3. ASSUME NEW r \in Requests, PrefillError(r) \/ MissingParams(r) PROVE NixlInv'
  <2>1. pc[r] = "prefill" /\ pc' = [pc EXCEPT ![r] = "answered"]
    BY <1>3 DEF PrefillError, MissingParams
  <2>2. blocks' \in {blocks, blocks \cup {r}} /\ UNCHANGED <<streamed, pulled>>
    BY <1>3 DEF PrefillError, MissingParams
  <2> QED
    BY <2>1, <2>2
<1>4. ASSUME NEW r \in Requests, StartStream(r) PROVE NixlInv'
  BY <1>4 DEF StartStream
<1>5. ASSUME NEW r \in Requests, Disconnect(r) PROVE NixlInv'
  BY <1>5 DEF Disconnect
<1>6. ASSUME NEW r \in Requests, Pull(r) PROVE NixlInv'
  BY <1>6 DEF Pull
<1>7. ASSUME NEW r \in Requests, Answer(r) \/ DecodeError(r) PROVE NixlInv'
  BY <1>7 DEF Answer, DecodeError
<1>8. CASE UNCHANGED vars
  BY <1>8 DEF vars
<1>9. QED
  BY <1>1, <1>2, <1>3, <1>4, <1>5, <1>6, <1>7, <1>8 DEF Next, Idle

LEMMA NixlInvariant == Spec => []NixlInv
  BY NixlInvInit, NixlInvStep, PTL DEF Spec

\* The proxy's state keeps its shape (nixl_proxy.py:42-89), and no request has
\* blocks at both servers.
THEOREM NixlTypeCorrect == Spec => []TypeOK
<1>1. NixlInv => TypeOK
  BY DEF NixlInv
<1>2. QED
  BY <1>1, NixlInvariant, PTL

-----------------------------------------------------------------------------
(* The handshake                                                           *)

\* A step of the proxy is a step of the handshake or changes nothing in it.
LEMMA NixlHandshakeStep ==
    ASSUME NixlInv, [Next]_vars
    PROVE  [Handshake!Next]_<<Phases, HandedOver>>
<1> USE DEF NixlInv, TypeOK, Goto, HandedOver
<1>1. CASE UNCHANGED vars
  BY <1>1 DEF vars, Phases, Phase
<1>2. ASSUME NEW r \in Requests, Arrive(r) PROVE Handshake!Prefill(r)
  <2>1. Phase(r) = "new" /\ UNCHANGED HandedOver
    BY <1>2 DEF Arrive, Phase
  <2>2. Phases' = [Phases EXCEPT ![r] = "prefill"]
    BY <1>2 DEF Arrive, Phases, Phase
  <2>3. QED
    BY <2>1, <2>2 DEF Handshake!Prefill, Phases
<1>3. ASSUME NEW r \in Requests, PrefillReply(r)
      PROVE  Handshake!Deliver(r) \/ Handshake!Decode(r)
  <2>1. Phase(r) = "prefill" /\ HandedOver' = HandedOver \cup {r}
    BY <1>3 DEF PrefillReply, Phase
  <2>2. CASE streamed[r]
    <3>1. pc' = [pc EXCEPT ![r] = "respond"] /\ pc[r] = "prefill"
      BY <1>3, <2>2 DEF PrefillReply
    <3>2. UNCHANGED Phases
      BY <3>1 DEF Phases, Phase
    <3>3. QED
      BY <2>1, <3>2 DEF Handshake!Deliver, Phases
  <2>3. CASE ~ streamed[r]
    <3>1. pc' = [pc EXCEPT ![r] = "decode"]
      BY <1>3, <2>3 DEF PrefillReply
    <3>2. Phases' = [Phases EXCEPT ![r] = "decode"]
      BY <3>1 DEF Phases, Phase
    <3>3. QED
      BY <2>1, <3>2 DEF Handshake!Decode, Phases
  <2>4. QED
    BY <2>2, <2>3
<1>4. ASSUME NEW r \in Requests, StartStream(r) PROVE Handshake!Decode(r)
  <2>1. Phase(r) = "prefill" /\ r \in HandedOver' /\ UNCHANGED HandedOver
    BY <1>4 DEF StartStream, Phase, BlocksFollowPrefill
  <2>2. Phases' = [Phases EXCEPT ![r] = "decode"]
    BY <1>4 DEF StartStream, Phases, Phase
  <2>3. QED
    BY <2>1, <2>2 DEF Handshake!Decode, Phases
<1>5. ASSUME NEW r \in Requests,
             \/ PrefillError(r) \/ MissingParams(r) \/ Disconnect(r)
             \/ Answer(r) \/ DecodeError(r)
      PROVE  Handshake!End(r)
  <2>1. /\ Phase(r) # "ended"
        /\ \E ending \in Ended : pc' = [pc EXCEPT ![r] = ending]
    BY <1>5 DEF PrefillError, MissingParams, Disconnect, Answer, DecodeError, Phase, Ended
  <2>2. \/ UNCHANGED HandedOver
        \/ Phase(r) = "prefill" /\ HandedOver' = HandedOver \cup {r}
    BY <1>5 DEF PrefillError, MissingParams, Disconnect, Answer, DecodeError, Phase
  <2>3. Phases' = [Phases EXCEPT ![r] = "ended"]
    BY <2>1 DEF Phases, Phase, Ended
  <2>4. QED
    BY <2>1, <2>2, <2>3 DEF Handshake!End, Phases
<1>6. ASSUME NEW r \in Requests, Pull(r) PROVE UNCHANGED <<Phases, HandedOver>>
  BY <1>6 DEF Pull, Phases, Phase
<1>7. QED
  BY <1>1, <1>2, <1>3, <1>4, <1>5, <1>6 DEF Next, Idle, Handshake!Next

\* Whatever fails, the proxy implements the handshake of its docstring
\* (nixl_proxy.py:42-89): it decodes a request once, after its own prefill.
THEOREM NixlImplementsHandshake == Spec => ImplementsHandshake
<1>1. Init => Handshake!Init
  BY DEF Init, Handshake!Init, Phases, Phase, HandedOver
<1>2. NixlInv /\ [Next]_vars => [Handshake!Next]_<<Phases, HandedOver>>
  BY NixlHandshakeStep
<1>3. QED
  BY <1>1, <1>2, NixlInvariant, PTL DEF Spec, ImplementsHandshake, Handshake!Spec

-----------------------------------------------------------------------------
(* The requests of the benchmark                                           *)

\* What the benchmark's requests are for the proxy: some of its requests.
LEMMA SubmittedIsRequest == \A i \in DOMAIN Submitted : Submitted[i] \in Requests
BY PoolAssumption

LEMMA BenchIsRequests == Bench \subseteq Requests
BY PoolAssumption DEF Bench, Range

-----------------------------------------------------------------------------
(* The proxy in the composition is the proxy                               *)

\* A benchmark beside it, and responses that are seen, leave the proxy with
\* the behaviours it has alone (nixl_proxy.py:41-91): what is proved of the
\* proxy holds of the composition.
THEOREM BenchmarkRefinesProxy == BenchSpec => Spec
<1>1. BenchInit => Init
  BY DEF BenchInit
<1>2. [BenchNext]_benchVars => [Next]_vars
  <2> SUFFICES ASSUME [BenchNext]_benchVars PROVE [Next]_vars
    OBVIOUS
  <2>1. CASE UNCHANGED benchVars \/ BenchIdle
    BY <2>1 DEF benchVars, BenchIdle, vars
  <2>2. ASSUME NEW i \in DOMAIN Submitted, StartRequest(i) PROVE Next
    BY <2>2, SubmittedIsRequest DEF StartRequest, Next
  <2>3. ASSUME NEW r, Succeed(r) \/ Fail(r) \/ TimeOut(r) \/ Collect(r)
        PROVE  UNCHANGED vars
    BY <2>3 DEF Succeed, Fail, TimeOut, Collect, vars
  <2>4. CASE ProxyStep
    BY <2>4 DEF ProxyStep, OtherArrives, Unseen, OpenStream, Refuse,
                CompleteAnswer, BreakOff, HangUp, Next
  <2> QED
    BY <2>1, <2>2, <2>3, <2>4 DEF BenchNext, ClientStep
<1> QED
  BY <1>1, <1>2, PTL DEF BenchSpec, Spec

\* The proxy's state keeps its shape beside the benchmark.
THEOREM BenchmarkTypeCorrect == BenchSpec => []TypeOK
BY BenchmarkRefinesProxy, NixlTypeCorrect, PTL

-----------------------------------------------------------------------------
(* What counts as a success                                                *)

\* A complete response is one of a request that was decoded, and nothing more
\* is sent to its client.  A request is answered in one of three ways.
BenchInv ==
    /\ TypeOK
    /\ DOMAIN response = Requests /\ DOMAIN stage = Bench
    /\ metrics \in Seq([request : Bench, success : BOOLEAN])
    /\ \A r \in Requests : response[r] = "complete" => pc[r] = "answered" /\ r \in pulled
    /\ \A r \in Requests :
         pc[r] = "answered" => response[r] \in {"complete", "error", "broken"}
    /\ \A r \in Bench : stage[r] = "success" => response[r] = "complete"
    /\ \A i \in DOMAIN metrics : metrics[i].success => response[metrics[i].request] = "complete"

LEMMA MeasuredIsRequest ==
    ASSUME BenchInv, NEW i \in DOMAIN metrics PROVE metrics[i].request \in Requests
<1> DEFINE Metrics == [request : Bench, success : BOOLEAN]
<1>1. metrics \in Seq(Metrics)
  BY DEF BenchInv
<1>2. \A m \in Metrics : m.request \in Bench
  OBVIOUS
<1> HIDE DEF Metrics
<1>3. metrics[i] \in Metrics
  BY <1>1
<1> QED
  BY <1>2, <1>3, BenchIsRequests

LEMMA BenchInvInit == BenchInit => BenchInv
BY NixlInvInit DEF BenchInit, BenchInv, NixlInv, Init

LEMMA BenchInvStep == BenchInv /\ TypeOK' /\ [BenchNext]_benchVars => BenchInv'
<1> SUFFICES ASSUME BenchInv, TypeOK', [BenchNext]_benchVars PROVE BenchInv'
  OBVIOUS
<1>1. CASE UNCHANGED benchVars \/ BenchIdle
  BY <1>1 DEF benchVars, BenchIdle, BenchInv
<1>2. ASSUME NEW i \in DOMAIN Submitted, StartRequest(i) PROVE BenchInv'
  <2>1. Submitted[i] \in Requests /\ Submitted[i] \in Bench
    BY SubmittedIsRequest DEF Bench, Range
  <2> QED
    BY <1>2, <2>1 DEF StartRequest, Arrive, Goto, BenchInv, TypeOK
<1>3. ASSUME NEW r \in Bench, Succeed(r) \/ Fail(r) \/ TimeOut(r) PROVE BenchInv'
  BY <1>3 DEF Succeed, Fail, TimeOut, Finish, BenchInv
<1>4. ASSUME NEW r \in Bench, Collect(r) PROVE BenchInv'
  <2> DEFINE m == [request |-> r, success |-> stage[r] = "success"]
  <2>1. /\ m \in [request : Bench, success : BOOLEAN]
        /\ m.success => response[m.request] = "complete"
    BY DEF BenchInv
  <2>2. metrics' = Append(metrics, m) /\ response' = response
    BY <1>4 DEF Collect
  <2> HIDE DEF m
  <2>3. /\ metrics' \in Seq([request : Bench, success : BOOLEAN])
        /\ \A i \in DOMAIN metrics' :
             metrics'[i].success => response'[metrics'[i].request] = "complete"
    BY <2>1, <2>2 DEF BenchInv
  <2> QED
    BY <1>4, <2>3 DEF Collect, BenchInv
<1>5. ASSUME NEW r \in Requests, CompleteAnswer(r) PROVE BenchInv'
  BY <1>5 DEF CompleteAnswer, Send, Answer, Goto, BenchInv, TypeOK
<1>6. ASSUME NEW r \in Requests, Refuse(r) \/ OpenStream(r) \/ BreakOff(r) PROVE BenchInv'
  <2>1. PICK what : /\ pc[r] \in {"prefill", "respond", "decode"} /\ what # "complete"
                    /\ response' = [response EXCEPT ![r] = what]
                    /\ \E to : /\ pc' = [pc EXCEPT ![r] = to]
                               /\ to = "answered" => what \in {"error", "broken"}
                    /\ pulled' = pulled /\ stage' = stage /\ metrics' = metrics
    BY <1>6 DEF Refuse, OpenStream, BreakOff, Send, PrefillError, MissingParams,
                StartStream, DecodeError, Goto
  <2>2. response[r] # "complete"
    BY <2>1 DEF BenchInv
  <2>3. \A q \in Requests : response'[q] = "complete" <=> response[q] = "complete"
    BY <2>1, <2>2 DEF BenchInv
  <2>4. \A q \in Requests : q # r => pc'[q] = pc[q]
    BY <2>1 DEF BenchInv, TypeOK
  <2>5. \A i \in DOMAIN metrics : metrics[i].request \in Requests
    BY MeasuredIsRequest
  <2> QED
    BY <2>1, <2>2, <2>3, <2>4, <2>5, BenchIsRequests DEF BenchInv
<1>7. ASSUME NEW r \in Requests, OtherArrives(r) \/ Unseen(r) \/ HangUp(r) PROVE BenchInv'
  <2>1. /\ pc[r] # "answered"
        /\ \E to : to # "answered" /\ pc' = [pc EXCEPT ![r] = to]
        /\ pulled \subseteq pulled' /\ UNCHANGED <<stage, response, metrics>>
    <3>1. CASE Pull(r) /\ Unseen(r)
      <4>1. pc' = pc /\ pc[r] = "decode" /\ pc = [pc EXCEPT ![r] = "decode"]
        BY <3>1 DEF Pull, BenchInv, TypeOK
      <4> QED
        BY <3>1, <4>1 DEF Pull, Unseen
    <3>2. CASE OtherArrives(r) \/ HangUp(r) \/ (PrefillReply(r) /\ Unseen(r))
      BY <3>2 DEF OtherArrives, HangUp, Unseen, Arrive, Disconnect, PrefillReply, Goto
    <3> QED
      BY <1>7, <3>1, <3>2 DEF Unseen
  <2>2. \A q \in Requests : q # r => pc'[q] = pc[q]
    BY <2>1 DEF BenchInv, TypeOK
  <2> QED
    BY <2>1, <2>2 DEF BenchInv
<1> QED
  BY <1>1, <1>2, <1>3, <1>4, <1>5, <1>6, <1>7 DEF BenchNext, ClientStep, ProxyStep

\* A request the benchmark counts as a success was decoded from its own KV
\* cache and its answer came through to the end (gpu_benchmark.py:73-112), in
\* spite of responses of status 200 that break off, timeouts and late answers.
THEOREM SuccessesAreDecoded == BenchSpec => []SuccessMeansDecoded
<1>1. BenchInv => SuccessMeansDecoded
  <2> SUFFICES ASSUME BenchInv, NEW i \in DOMAIN metrics, metrics[i].success
               PROVE  /\ metrics[i].request \in pulled
                      /\ pc[metrics[i].request] = "answered"
                      /\ response[metrics[i].request] = "complete"
    BY DEF SuccessMeansDecoded
  <2>1. metrics[i].request \in Requests
    BY MeasuredIsRequest
  <2> QED
    BY <2>1 DEF BenchInv
<1> QED
  BY <1>1, BenchInvInit, BenchInvStep, BenchmarkTypeCorrect, PTL DEF BenchSpec

\* The blocks of a request that ended and still has them at the prefiller belong
\* to a failure its client was told of, or to a client that left, and never to a
\* success in the report (nixl_proxy.py:58-89, gpu_benchmark.py:73-112).
THEOREM BlocksLeftAreFailures == BenchSpec => []NoBlocksBehindSuccess
<1>1. BenchInv => NoBlocksBehindSuccess
  <2> SUFFICES ASSUME BenchInv, NEW r \in blocks, pc[r] \in Ended
               PROVE  /\ pc[r] = "gone" \/ response[r] \in {"error", "broken"}
                      /\ r \in Bench => stage[r] # "success"
                      /\ \A i \in DOMAIN metrics :
                           metrics[i].request = r => ~ metrics[i].success
    BY DEF NoBlocksBehindSuccess
  <2>1. r \in Requests /\ r \notin pulled
    BY DEF BenchInv, TypeOK
  <2>2. response[r] # "complete"
    BY <2>1 DEF BenchInv
  <2> QED
    BY <2>1, <2>2 DEF BenchInv, Ended
<1> QED
  BY <1>1, BenchInvInit, BenchInvStep, BenchmarkTypeCorrect, PTL DEF BenchSpec

-----------------------------------------------------------------------------
(* The pool and the report                                                 *)

\* The benchmark has as many requests as it submits.
LEMMA BenchIsSubmitted ==
    /\ Len(Submitted) \in Nat
    /\ IsFiniteSet(Bench) /\ Cardinality(Bench) = Len(Submitted)
    /\ Cardinality(1 .. Len(Submitted)) = Len(Submitted)
<1> DEFINE n == Len(Submitted)
<1>1. n \in Nat /\ DOMAIN Submitted = 1 .. n /\ Submitted \in [1 .. n -> Requests]
  BY PoolAssumption
<1>2. Submitted \in Surjection(1 .. n, Bench) /\ Submitted \in Injection(1 .. n, Bench)
  BY <1>1, PoolAssumption DEF Surjection, Injection, IsInjective, Bench, Range
<1>3. IsFiniteSet(1 .. n) /\ Cardinality(1 .. n) = n
  BY <1>1, FS_Interval
<1> QED
  BY <1>1, <1>2, <1>3, FS_Surjection

\* What is in the report is collected, so nothing in it is collected again.
ReportInv ==
    /\ BenchTypeOK
    /\ \A i \in DOMAIN metrics : stage[metrics[i].request] = "collected"
    /\ \A i, j \in DOMAIN metrics : metrics[i].request = metrics[j].request => i = j

LEMMA ReportInvInit == BenchInit => ReportInv
<1> SUFFICES ASSUME BenchInit PROVE ReportInv
  OBVIOUS
<1>1. Running = {}
  BY DEF BenchInit, Running
<1>2. Cardinality(Running) <= Concurrency
  BY <1>1, FS_EmptySet, PoolAssumption
<1> QED
  BY <1>2 DEF BenchInit, ReportInv, BenchTypeOK

\* Fewer running requests keep the bound of the pool.
LEMMA FewerRun ==
    ASSUME Cardinality(Running) <= Concurrency, Running' \subseteq Running
    PROVE  Cardinality(Running') <= Concurrency
<1>1. IsFiniteSet(Running)
  BY BenchIsSubmitted, FS_Subset DEF Running
<1>2. Cardinality(Running') <= Cardinality(Running)
  BY <1>1, FS_Subset
<1>3. Cardinality(Running) \in Nat /\ Cardinality(Running') \in Nat
  BY <1>1, FS_Subset, FS_CardinalityType
<1> QED
  BY <1>2, <1>3, PoolAssumption

LEMMA ReportInvStep == ReportInv /\ [BenchNext]_benchVars => ReportInv'
<1> SUFFICES ASSUME ReportInv, [BenchNext]_benchVars PROVE ReportInv'
  OBVIOUS
<1> DEFINE Metrics == [request : Bench, success : BOOLEAN]
<1>a. /\ metrics \in Seq(Metrics) /\ DOMAIN stage = Bench
      /\ \A i \in DOMAIN metrics : metrics[i].request \in Bench
  <2>1. metrics \in Seq(Metrics) /\ DOMAIN stage = Bench
    BY DEF ReportInv, BenchTypeOK
  <2>2. \A m \in Metrics : m.request \in Bench
    OBVIOUS
  <2> HIDE DEF Metrics
  <2> QED
    BY <2>1, <2>2
<1>1. CASE UNCHANGED benchVars \/ BenchIdle
  BY <1>1 DEF benchVars, BenchIdle, ReportInv, BenchTypeOK, Running
<1>2. ASSUME NEW i \in DOMAIN Submitted, StartRequest(i) PROVE ReportInv'
  <2> DEFINE r == Submitted[i]
  <2>1. r \in Bench /\ stage[r] = "queued" /\ stage' = [stage EXCEPT ![r] = "running"]
        /\ metrics' = metrics /\ response' = response
    BY <1>2 DEF StartRequest, Bench, Range
  <2>2. Running' = Running \cup {r} /\ r \notin Running
    BY <1>a, <2>1 DEF Running
  <2>3. IsFiniteSet(Running)
    BY BenchIsSubmitted, FS_Subset DEF Running
  <2>4. Cardinality(Running') = Cardinality(Running) + 1 /\ Cardinality(Running) \in Nat
    BY <2>2, <2>3, FS_AddElement, FS_CardinalityType
  <2>5. Cardinality(Running') <= Concurrency
    BY <1>2, <2>4, PoolAssumption DEF StartRequest
  <2> HIDE DEF r
  <2> QED
    BY <1>a, <2>1, <2>5 DEF ReportInv, BenchTypeOK
<1>3. ASSUME NEW r \in Bench, Succeed(r) \/ Fail(r) \/ TimeOut(r) PROVE ReportInv'
  <2>1. PICK outcome \in {"success", "failure"} :
          stage' = [stage EXCEPT ![r] = outcome]
    BY <1>3 DEF Succeed, Fail, TimeOut, Finish
  <2>2. stage[r] = "running" /\ metrics' = metrics /\ response' = response
    BY <1>3 DEF Succeed, Fail, TimeOut
  <2>3. Running' \subseteq Running
    BY <1>a, <2>1 DEF Running
  <2>4. Cardinality(Running') <= Concurrency
    BY <2>3, FewerRun DEF ReportInv, BenchTypeOK
  <2> QED
    BY <1>a, <2>1, <2>2, <2>4 DEF ReportInv, BenchTypeOK
<1>4. ASSUME NEW r \in Bench, Collect(r) PROVE ReportInv'
  <2> DEFINE m == [request |-> r, success |-> stage[r] = "success"]
  <2>1. m \in Metrics /\ m.request = r
    OBVIOUS
  <2>2. /\ stage[r] \in {"success", "failure"} /\ metrics' = Append(metrics, m)
        /\ stage' = [stage EXCEPT ![r] = "collected"] /\ response' = response
    BY <1>4 DEF Collect
  <2> HIDE DEF m, Metrics
  <2>3. \A i \in DOMAIN metrics : metrics[i].request # r
    BY <2>2 DEF ReportInv
  <2>4. /\ metrics' \in Seq(Metrics) /\ Len(metrics) \in Nat
        /\ DOMAIN metrics = 1 .. Len(metrics) /\ DOMAIN metrics' = 1 .. (Len(metrics) + 1)
        /\ \A i \in DOMAIN metrics : metrics'[i] = metrics[i]
        /\ metrics'[Len(metrics) + 1] = m
    BY <1>a, <2>1, <2>2
  <2>5. \A i \in DOMAIN metrics' : i \in DOMAIN metrics \/ i = Len(metrics) + 1
    BY <2>4
  <2>6. \A i \in DOMAIN metrics' : stage'[metrics'[i].request] = "collected"
    BY <1>a, <2>1, <2>2, <2>4, <2>5 DEF ReportInv
  <2>7. \A i, j \in DOMAIN metrics' : metrics'[i].request = metrics'[j].request => i = j
    BY <2>1, <2>3, <2>4, <2>5 DEF ReportInv
  <2>8. Running' \subseteq Running
    BY <1>a, <2>2 DEF Running
  <2>9. Cardinality(Running') <= Concurrency
    BY <2>8, FewerRun DEF ReportInv, BenchTypeOK
  <2>10. /\ stage' \in [Bench -> {"queued", "running", "success", "failure", "collected"}]
         /\ response' \in [Requests -> {"none", "error", "open", "broken", "complete"}]
    BY <2>2 DEF ReportInv, BenchTypeOK
  <2> QED
    BY <2>4, <2>6, <2>7, <2>9, <2>10 DEF ReportInv, BenchTypeOK, Metrics
<1>5. ASSUME ProxyStep PROVE ReportInv'
  <2>1. /\ stage' = stage /\ metrics' = metrics
        /\ \/ response' = response
           \/ \E r \in Requests, what \in {"error", "open", "broken", "complete"} :
                response' = [response EXCEPT ![r] = what]
    BY <1>5 DEF ProxyStep, OtherArrives, Unseen, OpenStream, Refuse, CompleteAnswer,
                BreakOff, HangUp, Send
  <2>2. Running' = Running
    BY <2>1 DEF Running
  <2>3. response' \in [Requests -> {"none", "error", "open", "broken", "complete"}]
    BY <2>1 DEF ReportInv, BenchTypeOK
  <2> QED
    BY <2>1, <2>2, <2>3 DEF ReportInv, BenchTypeOK
<1> QED
  BY <1>1, <1>2, <1>3, <1>4, <1>5 DEF BenchNext, ClientStep

\* The client's variables keep their shape, and the pool never runs more
\* requests than it has threads (gpu_benchmark.py:154-167).
THEOREM PoolTypeCorrect == BenchSpec => []BenchTypeOK
<1>1. ReportInv => BenchTypeOK
  BY DEF ReportInv
<1> QED
  BY <1>1, ReportInvInit, ReportInvStep, PTL DEF BenchSpec

\* However the requests end, each is in the report once when it is made
\* (gpu_benchmark.py:168-171): as many distinct ones as were submitted are all
\* of them.
THEOREM RequestsMeasuredOnce == BenchSpec => []EachMeasuredOnce
<1>1. ReportInv => EachMeasuredOnce
  <2> SUFFICES ASSUME ReportInv, Over
               PROVE  \A r \in Bench : \E i \in DOMAIN metrics : metrics[i].request = r
    BY DEF ReportInv, EachMeasuredOnce
  <2> DEFINE n == Len(Submitted)
             Metrics == [request : Bench, success : BOOLEAN]
             f == [i \in 1 .. n |-> metrics[i].request]
  <2>1. metrics \in Seq(Metrics) /\ \A m \in Metrics : m.request \in Bench
    BY DEF ReportInv, BenchTypeOK
  <2> HIDE DEF Metrics
  <2>2. DOMAIN metrics = 1 .. n /\ \A i \in 1 .. n : metrics[i].request \in Bench
    BY <2>1 DEF Over
  <2>3. f \in Injection(1 .. n, Bench)
    BY <2>2 DEF ReportInv, Injection, IsInjective
  <2>4. Cardinality(1 .. n) = Cardinality(Bench)
    BY BenchIsSubmitted
  <2>5. f \in Surjection(1 .. n, Bench)
    BY <2>3, <2>4, BenchIsSubmitted, FS_Injection
  <2> QED
    BY <2>2, <2>5 DEF Surjection
<1> QED
  BY <1>1, ReportInvInit, ReportInvStep, PTL DEF BenchSpec
=============================================================================
