# PDCacheServe: specifications, model checking and proofs

PDCacheServe serves large language models with prefill and decode on different
workers. Its Python package has three parts: a control plane that places requests
on workers, two small proxies that drive one prefiller and one decoder over a real
KV-cache transfer, and offline tools that simulate placement policies and measure
a running proxy. This directory holds TLA+ models of all three, the TLC instances
they are checked on, and TLAPS proofs about all of them.
Paths like `cache.py` are files of `src/pdserve/`.

## 1. Inventory

| Component | State | Operations | Talks to |
| --- | --- | --- | --- |
| `pd_proxy.py` LMCache proxy | transfer slots (`WeightedSemaphore`), event table, request counter, one task per request | completions, chat completions, notification server, lifespan | prefiller and decoder by HTTP, data plane by ZMQ notifications |
| `nixl_proxy.py` native NIXL proxy | one task per request | completions, chat completions | prefiller and decoder by HTTP |
| `cache.py` `KVDirectory` | entries under an RLock | register, lookup, acquire, release, remove_location, entries, usage | called by router and control plane |
| `registry.py` `WorkerRegistry` | workers under an RLock | register, heartbeat, get, healthy, fence_stale, all | called by router, control plane, executor, API |
| `router.py` `SLORouter` | none | route | reads registry and directory, one lock at a time |
| `control.py` `ControlPlane` | counters | register_worker, route, fence_stale_workers, metrics | registry, directory, router |
| `api.py` | none | eight HTTP handlers, on a thread pool | control plane, executors |
| `executor.py` | none | infer, simulated or by HTTP | registry, sidecars of the workers |
| `models.py` | none | layout compatibility, conversions | everyone |
| `simulator.py` | GPUs with their bookings and caches, results | generate_trace, simulate under four policies, summarize | offline |
| `gpu_benchmark.py` | thread pool, metrics | run_request, run_gpu_benchmark, summarize | a running proxy |
| `benchmark.py` | report files | runs the simulator over a list of workloads | offline |
| `cli.py`, `gpu_preflight.py`, `deploy/real_gpu/*.sh` | pid files | start, stop, probe | the host |

What is hard in it:

- **Proxy tasks interleave at every await.** Slots are taken in `prepare` and
  given back in `wait_and_release`, with failing calls, a departing client and a
  timeout in between; sleepers on the condition have different weights; the
  notification may come before the prefill reply, in the moment of the timeout,
  or after it.
- **A restart forgets the request counter**, while the prefiller goes on with
  the transfers of the old process.
- **The API's handlers are threads.** Each call takes the locks of registry and
  directory one after the other and reads the clock outside them, so a call works
  on several snapshots of different times.
- **Reads have side effects**: every read of the registry fences stale workers,
  every lookup expires entries.
- **Leases, TTL and LRU** share one dict, and registering a key replaces its entry.
- **The benchmark's client times out and the proxy does not**, and a streamed response
  has its status 200 before the decoder is called, so a success and a failure look
  alike at first, and an answer may come after its request has been given up.
- **The simulator books requests out of order**: they come by arrival and reach a GPU
  after prefill and transfer; what a policy minimizes is computed apart from what is
  booked.

Correctness, by component:

- LMCache proxy: slots and event table agree; no wakeup is lost; a request is
  decoded only after its own KV cache has arrived; no slots are left behind; the
  buffer is not overcommitted; every request is answered.
- NIXL proxy: the same handshake; a request that looks served leaves no KV blocks with
  the prefiller (failures of either call and departing clients do leave some).
- Directory: capacity is respected; leases protect entries and do not outlive
  their holders; eviction is LRU and minimal.
- Registry and control plane: workers are fenced only when overdue; requests are
  not sent to workers known to be lost; fencing invalidates entries.
- Benchmark: only decoded requests count as successes; each is measured once; the
  benchmark ends.
- Simulator: no GPU is booked twice; what a cache has was brought there by an
  earlier request; predictions agree with bookings; the report's figures are what they are called.
- Router: the decision depends on the snapshot only, not on the history of the
  dict; load makes a worker less attractive.

`PROJECT.json` lists every hazard with its line and the properties aimed at it.

## 2. Modules

```
WeightedSemaphore      Weights            Models
      |             /    |     \         /     \
    PDProxy <------   KVDirectory   SLORouter (also Weights)
      |               /        \        |
 PDHandshake   DirectoryClients \   RouterInputs
      |                     ControlPlane --- WorkerRegistry
  NixlProxy
      |            Weights --- Simulator    Percentiles
 GpuBenchmark                        \      /
                                 SimulationReport
```

A line is EXTENDS or INSTANCE; `PDHandshake` is the abstract specification both
proxies refine. Each `MC...` module instantiates one specification for TLC, and
each `...Proofs` module has the theorems about the module it is named for;
`GpuBenchmarkProofs` has those about the native proxy too, `SimulatorProofs` those
about the report, and `RouterProofs` those about `RouterInputs`.

**`WeightedSemaphore`** is the class of the same name. A section under the
asyncio condition has no await that suspends, so it is one step. `Sleep` is the
predicate failing; `Release` empties the set of sleepers (`notify_all`), and each
woken task evaluates its predicate again in a step of its own.

**`PDProxy`** is the proxy. `pc[r]` says at which await the task of `r` is:

| `pc` | the await in the code |
| --- | --- |
| `tokenize` | POST `/tokenize` (147) |
| `acquire` | `buffer.acquire` (150) |
| `prefill` | the prefill POST (175) |
| `respond` | the generator suspended at its first yield (236) |
| `wait` | `wait_for(ready.wait(), ...)` (194) |
| `decode` | the call of the decoder |

An action is the code from one await to the next. `Arrive`, `Tokenized`, `Refuse`,
`Admit`, `AwaitSlots`, `PrefillReply` are `prepare`; `PrefillError` is its except
clause and `PrefillBadReply` the KeyError behind it; `Ready`, `Timeout` and
`DropInWait` are the three ways out of `wait_and_release`; `DropBeforeWait` closes
the generator at its first yield. Chat completions wait before they answer, so
only streamed plain completions pass through `respond`. `Transferred` is external:
the KV cache arrives and a notification is put on the wire. `ServeNotification` is
one turn of the notification server. Notifications may be delayed and reordered
freely. `Restart` resets what `lifespan` creates and keeps the transfers the
prefiller was asked for. `moved` records, for the properties only, whose cache
has arrived.

**`NixlProxy`** is the other proxy: prefill, forward the parameters, let the
decoder pull the blocks. `blocks` and `pulled` are the servers' side, external.
`PrefillError` is a call that raises, an error status or a reply that is not JSON
(58-63): the proxy cannot tell whether the prefiller has kept the blocks, and the
action allows both. That a decoder answers to the end only what it has pulled (`Answer`)
is assumed of the decoder, and so is that an error it meets after that breaks the
response off: an error event inside a stream that is otherwise complete is not modelled.

**`GpuBenchmark`** composes it with its clients. `Submitted` are the requests of
`run_gpu_benchmark`, which a pool of `Concurrency` threads takes in order; other
clients send the rest. `response[r]` is the HTTP response on its way back: `open` is
a streamed response whose status has been sent, `broken` one that breaks off. A
client step (`StartRequest`, `Succeed`, `Fail`, `TimeOut`, `Collect`) is a section of
`run_request` or of the main thread; a proxy step is an action of `NixlProxy` with
what its client sees of it. `metrics` is the list the report is made of.

**`PDHandshake`** is the abstract specification of both: a request is prefilled,
its cache is handed over, then it is decoded, and it may end at any time; the cache of
a request that ends before its prefill has been answered may be handed over with its end. Both
proxies have a refinement mapping to it (`Handshake == INSTANCE PDHandshake WITH ...`).

**`KVDirectory`** holds the directory's operators and actions. `order` gives
each key its place in the dict, which breaks the ties of the sort for eviction. `Victims` is the loop
of `_evict_to_capacity` in closed form: a candidate goes if what is used without
the candidates before it is still too much. **`DirectoryClients`** runs threads
on it. `register` and `lookup` read the clock in one step and commit in another.
The repository uses leases only in its tests; the clients hold them as the tests do:
look up, acquire, release once.

**`WorkerRegistry`** and **`ControlPlane`**: the registry's sections, and the calls
of the API over registry and directory. `frame[t]` is a thread's call: `at` is its
next step, `then` the one after a clock read, `now` the time read. `lost` and `owed`
are history variables for the properties. `ControlPlane` abstracts the score: any
candidate pair may be best and may or may not meet the SLO.

**`SLORouter`** is the choice itself, as operators on one snapshot: integers in
microseconds, thousandths of a score point, percent and hundredths of Gbit/s.
Quotients are rounded down where the code rounds to three decimals.
A link of no bandwidth counts as one bit per second, as in the code.
**`RouterInputs`** applies it to snapshots: sets of workers with any figures a
heartbeat may bring, and directories in any order.

**`Simulator`** is `simulate` with both its loops. `Turn` is one turn: a request shape
that `generate_trace` can draw (`ShapesAssumption`) arrives after some gap, the policy
chooses the GPUs (`AggregatedChoice`, `RoundRobin`, `LoadAware`, `KVAware`, each a
`min()` over keys), and `Book` does what the end of the turn does. A result keeps its
booking, from and until when it occupies which GPU, for the properties. Times are
microseconds; quotients are rounded down where the code keeps floats. Prefix hashes
that only one request has are all `Own`: nothing finds them again.
`HitsWereBrought` puts the end of the request that brought a prefix before the use of the
hit (`UseOfHit`): before the shortened prefill under the aggregated policy, but only
before the decoding under the others. There the code does shorten a prefill on one GPU by
a hit on another (`simulator.py:246-250`), maybe before the earlier request has been
prefilled. Nothing in the repository says that it must not, so that half of the hazard
has no property.
**`SimulationReport`** is `summarize`, and **`Percentiles`** has the percentiles of both
reports, the nearest-rank one of the simulator and the interpolated one of the GPU
benchmark.

**`Models`** has layout compatibility (dtype, block size and KV layout are one
field, `format`), **`Weights`** sums over sets, the update of a dict, the order of tuples
and the least of them, which is what `min()` and the head of a sorted list are.
Definitions marked *Mutant of* are not part of the models: each is a plausible
mistake in the definition that follows, put in its place to see that the
property notices it.

## 3. Runs

| Run | What it asks | Instance |
| --- | --- | --- |
| `ProxyFaults` | types, `Registration`, `SlotsBalance`, `NoLostWakeup` | 3 requests of 1, 2 or 3 slots, capacity 2, every fault, one restart; 563 k states |
| `ProxyHandshake` | `NoAbandonedSlots`, `DecodeAfterTransfer`, refinement of `PDHandshake`, `EveryRequestAnswered` | the same, prefill errors and timeouts, no symmetry; 323 k |
| `Nixl` | types, `SuccessMeansDecoded`, `EachMeasuredOnce`, refinement of `PDHandshake`, `NoBlocksBehindSuccess`, `BenchmarkEnds` | 2 requests of the benchmark on 1 thread and 1 of another client, every fault; 22 k |
| `Directory` | types, `NoOrphanLease`, `WithinCapacity`, `LeaseProtects`, `LeasedRemovedOnlyOnPurpose`, `EvictionIsLRU` | 2 clients, 3 prefixes, entries of 1 and 2 bytes in a tier of 2, TTL 1, clock to 1; 820 k |
| `Control` | types, `RoutesAvoidLost`, `FencedInvalidated`, `FencedOnlyWhenOverdue` | 2 threads, 2 workers, 1 prefix, timeout 1, clock to 2; 2.2 M |
| `Router` | `ListingOrderIrrelevant`, `LoadRepels` | snapshots of 2 prefillers and 2 decoders with directories of up to 3 entries, and their decisions; 48 k |
| `Simulator` | types, `NoDoubleBooking`, `BusyWithinTrace`, `HitsWereBrought`, `ChoiceIsBooked`, `PercentilesAgree`, `ReportSound` | 4 policies, the 4 default GPUs, all traces of 4 requests of 4 shapes at 3 gaps; 90 k |

Runs that find a disagreement between the code and what is said of it:

| Run | Property violated | Why |
| --- | --- | --- |
| `ProxyLeakOnDisconnect` | `NoAbandonedSlots` | the client leaves while the generator is at its first yield (`pd_proxy.py:236`), so nothing releases |
| `ProxyOvercommit` | `TransfersFitBuffer` | a timeout releases slots of a transfer still under way (`pd_proxy.py:199`) |
| `ProxyStaleNotification` | `DecodeAfterTransfer` | ids start again with the process (`pd_proxy.py:92`); a late notification sets a new request's event |
| `DirectoryLeaseReset` | `HeldNotReclaimed` | registering a leased key again forgets the lease (`cache.py:70`); `docs/architecture.md:22` says a leased entry is not reclaimed |
| `ControlLostFence` | `LostWorkersInvalidated` | any read fences and drops the list (`registry.py:46, 51, 70`); the maintenance call, which `README.md:138` says invalidates lost workers' caches, finds nothing left to do |

A prefill reply without `kv_transfer_params` (`pd_proxy.py:183`, action
`PrefillBadReply`) leaks slots in the same way as a departing client: with
`Faults = {"bad_reply"}` the instance of `ProxyLeakOnDisconnect` violates the same
invariant.

**Why the bounds are enough.** Three requests are the least for a sleeper, a holder
and a newcomer that overtakes; capacity 2 with sizes 1, 2 and 3 gives requests that
fit together, exclude each other and can never be served. One restart is enough to
give an id out twice. Three prefixes in a tier of two bytes let an old entry, a
refreshed one and a new one compete, and a two-byte entry push out both; with two
clients registrations commit in the other order than they read the clock, and the
clock needs one tick for entries to expire and to differ in recency. Two threads
give every pair of calls, and the second tick passes the heartbeat timeout of 1. The `list`
and `route` calls are prefixes of `metrics` and `completion` and need no run of
their own. Two requests of the benchmark on one
thread let one queue; the other client's request is served between them, and so is a
request that has been given up while the next one runs. With three requests on two
threads the same run has 1.3 M states and passes too, in more time; the safety
properties are proved for any number of both. Four requests on four GPUs put two on one GPU under every policy, the
gaps let them overlap, follow at once, or find everything idle, and the shapes reach
from the shortest to the longest input, with hits of two lengths and none.
`MaxTime`, `MaxRestarts`, `MaxHeld` and `MaxRequests` are the only bounds in guards.
Model values are permuted in the safety runs of each component and never in the
liveness run.

`disturbed` in `DirectoryClients`, `lost` and `owed` in `ControlPlane` and `moved` in
`PDProxy` are history variables: no guard reads them.

**Deadlock** is checked except where slots are leaked (`ProxyFaults` and the leak
run): a task may then sleep for ever, which is the leak itself. Where a run ends by itself,
an idling action (`Idle`, `BenchIdle`, `TraceEnds`) says when it may: every request
has ended, every metric is collected, the trace is over.

## 4. Fairness

`PDProxy!FairSpec` has weak fairness on the steps of each task and on nothing else. The event loop runs every ready task, and once a task is
at an await on a server it is assumed that the server answers: the proxy creates
its clients with `timeout=None`, so without that assumption a request can hang,
trivially. Transfers and notifications are *not* assumed to happen: a request whose
transfer never ends is answered by the timeout. `EveryRequestAnswered` speaks of
finitely many requests. With an endless supply of small ones, a large one may be
overtaken for ever, and the code does not claim otherwise.

`GpuBenchmark!BenchSpec` has weak fairness on the steps of the client alone. Its
threads wait for nothing but the proxy, and that wait is limited: httpx raises
after `timeout_seconds` without an answer (`TimeOut`). Nothing is assumed of the
proxy or the servers, which may hang for ever. A response that kept trickling
would start the client's clock anew with every chunk; a response here is finished,
broken off or silent, so `BenchmarkEnds` does not speak of one that never ends.

## 5. Proofs

All theorems hold for any value of the constants that satisfies the assumptions
declared with them. The last column names what is assumed beyond those.

| Module | Theorem | Statement | Assumed |
| --- | --- | --- | --- |
| `PDProxyProofs` | `TypeCorrect` | `TypeOK` | |
| | `RegistrationKept` | `Registration` | |
| | `SlotsBalanced` | `SlotsBalance` | |
| | `WakeupsNotLost` | `NoLostWakeup` | |
| | `HandshakeKept` | `DecodeAfterTransfer` | no restart |
| | `ProxyImplementsHandshake` | `ImplementsHandshake` | no restart |
| | `SlotsNotAbandoned` | `NoAbandonedSlots` | well-formed replies, no disconnects |
| | `BufferSuffices` | `TransfersFitBuffer` | no faults |
| `GpuBenchmarkProofs` | `NixlTypeCorrect` | `TypeOK` | |
| | `NixlImplementsHandshake` | `ImplementsHandshake` | |
| | `BenchmarkRefinesProxy` | `BenchSpec => Spec` of the NIXL proxy | |
| | `BenchmarkTypeCorrect` | `TypeOK` | |
| | `SuccessesAreDecoded` | `SuccessMeansDecoded` | |
| | `BlocksLeftAreFailures` | `NoBlocksBehindSuccess` | |
| | `PoolTypeCorrect` | `BenchTypeOK` | |
| | `RequestsMeasuredOnce` | `EachMeasuredOnce` | |
| `DirectoryClientsProofs` | `DirectoryTypeCorrect` | `TypeOK` | |
| | `NoLeaseOrphaned` | `NoOrphanLease` | |
| | `LeasesProtect` | `LeaseProtects` | |
| | `CapacityKept` | `WithinCapacity` | |
| | `LeasedRemovedOnPurpose` | `LeasedRemovedOnlyOnPurpose` | |
| | `EvictsLRU` | `EvictionIsLRU` | |
| `ControlPlaneProofs` | `ControlTypeCorrect` | `TypeOK` | |
| | `FencesOverdueOnly` | `FencedOnlyWhenOverdue` | |
| | `RoutesAvoidLostWorkers` | `RoutesAvoidLost` | |
| | `FencedEntriesInvalidated` | `FencedInvalidated` | |
| `SimulatorProofs` | `SimulatorTypeCorrect` | `TypeOK` | |
| | `GpusNotDoubleBooked` | `NoDoubleBooking` | |
| | `UtilizationAtMostOne` | `BusyWithinTrace` | |
| | `HitsAreBacked` | `HitsWereBrought` | |
| | `ChoicesAreBooked` | `ChoiceIsBooked` | |
| | `PercentilesOfList` | the two percentiles of any list, at any quantile | |
| | `PercentilesAlwaysAgree` | `PercentilesAgree` | |
| | `ReportAlwaysSound` | `ReportSound` | |
| `RouterProofs` | `BestPairDecides` | `Route` takes a pair of the least score and holds that one against the SLO | |
| | `OrderOfListingNeverMatters` | `ListingOrderIrrelevant` | |
| | `LoadAlwaysRepels` | `LoadRepels` | decoding takes no negative time |

`WeightsProofs` (weights of finite sets, used for slots and for bytes, and the order
of tuples, used for every `min()` and sort) and
`KVDirectoryProofs` (the operations of the directory) hold the lemmas that several
of them rest on.

**Assumptions on constants.** The proxy's capacity is positive (`__init__` raises
otherwise), requests are finitely many, needs are natural numbers. Capacities, token
counts, bytes per token and TTLs are natural numbers (`CapacitiesAssumption`,
`InputsAssumption`, `FleetAssumption`). The benchmark submits each request once, with
at least one thread (`PoolAssumption`). The simulator has at least two GPUs of
`GPU_PROFILES` (`simulate` raises otherwise), and its requests are within the ranges
`generate_trace` draws from (`ShapesAssumption`). A request to the router has at
least one token, as its body is validated (`RequestsAssumption`); workers and entries
may carry any integers, negative ones included (`PoolsAssumption`,
`ListingsAssumption`), for a heartbeat is validated in nothing but the utilizations.
Only a negative decode time is excluded, which nothing validates either: with one, a
busier decoder would be predicted to be faster. The faults in the last column above
are exactly those under which TLC finds a violation.

**LMCache proxy.** `SlotsBalance` is not inductive: a release gives back `need[r]` and
pops `id[r]`, and the two agree only if the entry popped is the task's own. So
`SlotsInv` adds `Registration`: every entry of the table belongs to the task with
that id, and every task between acquire and release finds its own entry. Slots
are counted as the cardinality of a set of units, so that the library's facts on
finite sets apply (`AddUnits`, `RemoveUnits`). `NoLostWakeup` holds because a step
either wakes every sleeper or does not raise `available`. `HandshakeInv` adds that ids
are not shared, that a message carries the id of the request whose cache it
announces, and that whatever is set ready has been moved; a restart breaks the
first of these, which is the counterexample of `ProxyStaleNotification`. The same
invariant makes each step of the proxy a step of `PDHandshake` or a stutter
(`HandshakeStep`). `LeakInv` and `BufferInv` add what their names say.

**NIXL proxy and benchmark.** `NixlInv` adds to the types where a request's blocks are
before its prefill is answered and before its stream starts; with that every step is
a step of the handshake or a stutter. `BenchmarkRefinesProxy` shows that the
composition has only behaviours of the proxy, so all that is proved of the proxy
holds in it. `BenchInv` then says that a complete response belongs to a request that
was answered and pulled, that an answered request has a response that is complete, an
error or broken off, and that a success has a complete response, in its future
and in the metrics. `NoBlocksBehindSuccess` follows because no request is in `blocks`
and `pulled` at once. `ReportInv` says that what is in the metrics is collected, so
nothing is collected twice; as many distinct requests as were submitted are then all
of them.

**Directory.** Most of the work is in `KVDirectoryProofs`: an operation that keeps a
set of keys renumbers them without gaps or ties (`RankGrows` and what follows it),
and what is left of a tier after eviction fits (`EvictionMakesRoom`): all
candidates before the first one spared are victims, and it was spared because what
remained then fitted; if none is spared, what remains is leased and was there before
(`InsertFits`). The victims are an initial segment of the candidates
(`VictimsComeFirst`), which gives the LRU order. That
the dict stays finite has to be part of the invariant (`TypeInv`), for nothing bounds
it. `LeaseInv` needs both of its properties at once: `LeaseProtects` counts a new lease
on an entry, and only `NoOrphanLease` says that an entry nobody holds has no
count. `CapacityInv` adds `WithinCapacity` to the types: evicting the new entry itself
is always enough, because what was there before it fitted.

**Control plane.** `TypeInv` keeps every time a call has read in the past.
`FencedOnlyWhenOverdue` follows from it, for a scan judges by such a time.
`RouteInv` says of the workers that were lost when a call began: they stay out of
contact while they are in `lost`, they are overdue by the time the call has read
when it comes to its scan, unhealthy when it takes its list, and in no snapshot,
candidate or choice after that. `MaintenanceInv` says that an entry a maintenance call
still owes is at a worker its loop has yet to reach, however other calls interleave.

**Simulator.** `SimulatorInv` connects the results with the GPUs: what is booked on a
GPU ends by its `available`, `busy` is never more than that, `available` is never
later than the end of some request, and what a cache has was brought by a request
decoded there. `NoDoubleBooking` is then that a booking starts at `available` or
later, `HitsWereBrought` that the GPU of a hit is `available` only after the request that
brought it, and `BusyWithinTrace` that dividing the decoding by the capacity of the GPU
keeps it within the request's own time. `ChoicesAreBooked` proves of the keys which
the aggregated and the KV-aware policy minimize that they order the GPUs as the
bookings do, although the first does not round one token up.

**Report.** `Ascending` says what `sorted` gives by ranks: the value at place `k` is the
one with `k - 1` values before it, ties in the order of the list. That every place is
taken once is the counting argument `BeforeCount` to `AscendingAscends`, from which
the number of values at most the percentile follows (`CountsAround`) and that the
interpolated percentile lies between the same neighbours (`PercentilesOfList`).
`ReportSound` compares sums, which are recursive functions over finite sets: that the
function exists is shown by a least counterexample on the cardinality (`SumExists`),
and so is that a larger summand gives a larger sum (`SumMonotone`). `SimulatorInv` has
two parts for it: no request's first token comes after its end, and none hits more
than its prefix.

**Router.** Both of the router's choices are the least of finitely many tuples, and
`OneIsLeast` says that there is exactly one if no two are equal. For entries the last
number is the place in the dict, so the chosen one may depend on the order; but
`BestOfBoth` shows that two listings of the same entries choose entries with the same
tokens, tier and locality, and the rest of an entry is not read any more. For
candidates the ids tell any two apart (`BestCandidate`). Load raises the score of the
pairs a worker is in (`LoadCosts`) and changes neither which pairs there are nor which
entry they use, so a pair that was beaten is still beaten, by a pair without that
worker (`BusyNotChosen`). `BestPairDecides` says what the choice comes to, and is what
`ControlPlane` abstracts when it lets any pair be best and meet the SLO or not. That the snapshot does not change while a decision is made
is an abstraction of `RouterInputs` alone; `ControlPlane` has the reads one by one.

**Only model-checked.** Liveness (`EveryRequestAnswered`, `BenchmarkEnds`), which the
prover does not reach. Every other property of a passing run is a theorem.

## 6. Not modelled

- `ControlPlane._metrics`: counters that nothing but `GET /metrics` reads.
- Validation of request bodies by pydantic; contents of prompts, chunks and replies.
- `RouteDecision.alternatives` and `reject_on_slo_miss=False`, which nothing in the
  package sets.
- The rounding of floats: the router's integers round down.
- The random generator behind `generate_trace`: any trace it can draw is allowed, and
  the floats of the simulator are integers rounded down.
- `summarize` and `_prompt` of `gpu_benchmark.py` but for the percentile: they compute
  from times measured on a real host.
- `benchmark.py`, which runs the simulator over a list and writes files; `cli.py`
  and `gpu_preflight.py`, which parse arguments, print and probe the host.
- The shell scripts of `deploy/real_gpu`: what a pid in a file means is up to the host.
- What the external servers do with a duplicate `X-Request-Id` (`nixl_proxy.py:43`).

## 7. Plan

Done: the modules above, in the order proxy, directory, control plane, router,
NIXL proxy, simulator, benchmark client; the proofs, in the order LMCache proxy,
NIXL proxy, directory, control plane, simulator, benchmark client, report, router.

What is left:

1. The directory as the routes see it: candidates scored on the entries of a lost
   worker (`ControlPlane` composed with `SLORouter`).
2. Properties for the hazards of `PROJECT.json` that have none, where the repository
   comes to promise something: `last_heartbeat` set back by a late registration,
   entries of a recovered worker removed, duplicate `X-Request-Id`s.
