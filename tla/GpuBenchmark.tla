---------------------------- MODULE GpuBenchmark ----------------------------
(***************************************************************************)
(* The GPU benchmark client (gpu_benchmark.py) at work on the NIXL proxy.  *)
(*                                                                         *)
(* A pool of Concurrency threads takes the requests in the order of their  *)
(* submission.  A thread posts a streamed completion, reads the stream to  *)
(* its end and makes a metric of it; whatever is raised on the way makes   *)
(* it a failure.  The main thread collects the metrics as they come.       *)
(* Other clients use the proxy at the same time.                           *)
(*                                                                         *)
(* response is the HTTP response on its way back.  The proxy sends the     *)
(* status of a streamed response before it calls the decoder, so a failure *)
(* of that call breaks the stream off under a status of 200.               *)
(***************************************************************************)
EXTENDS NixlProxy, Sequences, SequencesExt

CONSTANTS Submitted,    \* the benchmark's requests, in order
          Concurrency   \* max_workers of the pool

ASSUME PoolAssumption ==
    /\ Submitted \in Seq(Requests) /\ IsInjective(Submitted)
    /\ Concurrency \in Nat \ {0}

VARIABLES stage,        \* stage[r]: what the benchmark has done about r
          response,     \* response[r]: what the proxy has sent to r's client
          metrics       \* the metrics collected, in order

benchVars == <<pc, streamed, blocks, pulled, stage, response, metrics>>

Bench == Range(Submitted)

BenchInit ==
    /\ Init
    /\ stage = [r \in Bench |-> "queued"]
    /\ response = [r \in Requests |-> "none"]
    /\ metrics = << >>

Running == {r \in Bench : stage[r] = "running"}

\* The thread of r is done: its future holds the metric.
Finish(r, outcome) == stage' = [stage EXCEPT ![r] = outcome]

Send(r, what) == response' = [response EXCEPT ![r] = what]

-----------------------------------------------------------------------------
(* The threads of the pool                                                 *)

\* Mutant of StartRequest: one thread too many.
StartRequestEagerly(i) ==
    LET r == Submitted[i]
    IN  /\ stage[r] = "queued"
        /\ \A j \in 1 .. (i - 1) : stage[Submitted[j]] # "queued"
        /\ Cardinality(Running) <= Concurrency
        /\ Arrive(r) /\ streamed'[r]
        /\ stage' = [stage EXCEPT ![r] = "running"]
        /\ UNCHANGED <<response, metrics>>

\* A free thread takes the request that has waited longest and posts it.
StartRequest(i) ==
    LET r == Submitted[i]
    IN  /\ stage[r] = "queued"
        /\ \A j \in 1 .. (i - 1) : stage[Submitted[j]] # "queued"
        /\ Cardinality(Running) < Concurrency
        /\ Arrive(r) /\ streamed'[r]
        /\ stage' = [stage EXCEPT ![r] = "running"]
        /\ UNCHANGED <<response, metrics>>

\* The stream ends as it should.
Succeed(r) ==
    /\ stage[r] = "running"
    /\ response[r] = "complete"
    /\ Finish(r, "success")
    /\ UNCHANGED <<pc, streamed, blocks, pulled, response, metrics>>

\* Mutant of Fail: a stream that breaks off counts as ended.
FailOnStatus(r) ==
    /\ stage[r] = "running"
    /\ \/ response[r] = "error" /\ Finish(r, "failure")
       \/ response[r] = "broken" /\ Finish(r, "success")
    /\ UNCHANGED <<pc, streamed, blocks, pulled, response, metrics>>

\* raise_for_status, or the stream breaks off.
Fail(r) ==
    /\ stage[r] = "running"
    /\ response[r] \in {"error", "broken"}
    /\ Finish(r, "failure")
    /\ UNCHANGED <<pc, streamed, blocks, pulled, response, metrics>>

\* Mutant of TimeOut: only the wait for the status is limited.
TimeOutOfStatus(r) ==
    /\ stage[r] = "running"
    /\ response[r] = "none"
    /\ Finish(r, "failure")
    /\ UNCHANGED <<pc, streamed, blocks, pulled, response, metrics>>

\* Nothing comes for timeout_seconds; the client hangs up.
TimeOut(r) ==
    /\ stage[r] = "running"
    /\ response[r] \in {"none", "open"}
    /\ Finish(r, "failure")
    /\ UNCHANGED <<pc, streamed, blocks, pulled, response, metrics>>

\* Mutant of Collect: the future stays in the list.
CollectAgain(r) ==
    /\ stage[r] \in {"success", "failure"}
    /\ metrics' = Append(metrics, [request |-> r, success |-> stage[r] = "success"])
    /\ UNCHANGED <<pc, streamed, blocks, pulled, stage, response>>

\* as_completed: the main thread takes the result of one future.
Collect(r) ==
    /\ stage[r] \in {"success", "failure"}
    /\ metrics' = Append(metrics, [request |-> r, success |-> stage[r] = "success"])
    /\ stage' = [stage EXCEPT ![r] = "collected"]
    /\ UNCHANGED <<pc, streamed, blocks, pulled, response>>

-----------------------------------------------------------------------------
(* The proxy, with what its clients see                                    *)

\* Requests of other clients, streamed or not.
OtherArrives(r) ==
    /\ r \notin Bench
    /\ Arrive(r)
    /\ UNCHANGED <<stage, response, metrics>>

\* The error statuses of prepare.
Refuse(r) ==
    /\ PrefillError(r) \/ MissingParams(r)
    /\ Send(r, "error")
    /\ UNCHANGED <<stage, metrics>>

\* The status of a streamed response is sent, then the decoder is called.
OpenStream(r) ==
    /\ StartStream(r)
    /\ Send(r, "open")
    /\ UNCHANGED <<stage, metrics>>

\* The decoder's answer is passed on to its end.
CompleteAnswer(r) ==
    /\ Answer(r)
    /\ Send(r, "complete")
    /\ UNCHANGED <<stage, metrics>>

\* The call of the decoder fails: an error, or a stream that breaks off.
BreakOff(r) ==
    /\ DecodeError(r)
    /\ Send(r, IF streamed[r] THEN "broken" ELSE "error")
    /\ UNCHANGED <<stage, metrics>>

\* The proxy notices that the client of a streamed request has hung up.
HangUp(r) ==
    /\ r \in Bench => stage[r] \in {"failure", "collected"}
    /\ Disconnect(r)
    /\ UNCHANGED <<stage, response, metrics>>

Unseen(r) ==
    /\ PrefillReply(r) \/ Pull(r)
    /\ UNCHANGED <<stage, response, metrics>>

-----------------------------------------------------------------------------
ClientStep ==
    \/ \E i \in DOMAIN Submitted : StartRequest(i)
    \/ \E r \in Bench : Succeed(r) \/ Fail(r) \/ TimeOut(r) \/ Collect(r)

ProxyStep ==
    \E r \in Requests :
        \/ OtherArrives(r) \/ Unseen(r) \/ OpenStream(r)
        \/ Refuse(r) \/ CompleteAnswer(r) \/ BreakOff(r) \/ HangUp(r)

\* run_gpu_benchmark returns once every metric has been collected.
Over == Len(metrics) = Len(Submitted)

BenchIdle ==
    /\ Over
    /\ \A r \in Requests : pc[r] \in Ended
    /\ UNCHANGED benchVars

BenchNext == ClientStep \/ ProxyStep \/ BenchIdle

BenchSpec == BenchInit /\ [][BenchNext]_benchVars /\ WF_benchVars(ClientStep)

-----------------------------------------------------------------------------
(* Properties                                                              *)

\* The variables of the client have the shape the code gives them, and the pool
\* has no more threads than it was given.
BenchTypeOK ==
    /\ stage \in [Bench -> {"queued", "running", "success", "failure", "collected"}]
    /\ response \in [Requests -> {"none", "error", "open", "broken", "complete"}]
    /\ metrics \in Seq([request : Bench, success : BOOLEAN])
    /\ Cardinality(Running) <= Concurrency

\* A request counts as a success only if its KV cache went from the prefiller
\* to the decoder and its answer came through to the end: neither a 200 that
\* breaks off nor an answer that comes after the timeout is one.
SuccessMeansDecoded ==
    \A i \in DOMAIN metrics : metrics[i].success =>
        /\ metrics[i].request \in pulled
        /\ pc[metrics[i].request] = "answered"
        /\ response[metrics[i].request] = "complete"

\* Every request is in the report exactly once, in whatever order they end.
EachMeasuredOnce ==
    /\ \A i, j \in DOMAIN metrics : metrics[i].request = metrics[j].request => i = j
    /\ Over => \A r \in Bench : \E i \in DOMAIN metrics : metrics[i].request = r

\* Blocks that stay behind with the prefiller are never those of a request that
\* looks served: its client was told of a failure or has left, whichever of the
\* calls went wrong, and the report never counts it as a success.
NoBlocksBehindSuccess ==
    \A r \in blocks : pc[r] \in Ended =>
        /\ pc[r] = "gone" \/ response[r] \in {"error", "broken"}
        /\ r \in Bench => stage[r] # "success"
        /\ \A i \in DOMAIN metrics : metrics[i].request = r => ~ metrics[i].success

\* The benchmark comes to its end even if the proxy, which sets no timeout on
\* its own calls, stops answering.
BenchmarkEnds == <>Over
=============================================================================
