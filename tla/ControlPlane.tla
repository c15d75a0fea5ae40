---------------------------- MODULE ControlPlane ----------------------------
(***************************************************************************)
(* The control plane (control.py, api.py, router.py, executor.py) over its *)
(* registry and its KV directory.                                          *)
(*                                                                         *)
(* The HTTP handlers are plain functions, so they run on a pool of         *)
(* threads.  frame[t] is the call thread t is in.  Registry and directory  *)
(* have a lock each; a call takes them one after the other and reads the   *)
(* clock between, so a step of a call is one locked section or one read of *)
(* the clock, and calls interleave between steps.                          *)
(*                                                                         *)
(* Every read of the registry, healthy(), get() and all(), first runs      *)
(* fence_stale and throws away the list it returns; only the maintenance   *)
(* call uses that list.  The score of the router is abstracted: any of the *)
(* candidate pairs may be best, and it may or may not meet the SLO.  The   *)
(* counters of ControlPlane._metrics, which nothing but GET /metrics       *)
(* reads, are left out.                                                    *)
(***************************************************************************)
EXTENDS WorkerRegistry, KVDirectory

CONSTANTS Threads,      \* the API's thread pool
          Fleet,        \* worker id -> [role, layout]
          ModelIds,     \* model ids of the requests
          Prefixes,     \* prefix hashes
          Tier,         \* the tier entries are registered in
          TTL,          \* ttl_seconds of the entries
          Calls,        \* the kinds of calls clients make
          MaxTime       \* bound of the clock

AllCalls == {"register", "cache", "list", "metrics", "fence", "route", "completion"}

ASSUME CallsAssumption == Calls \subseteq AllCalls

ASSUME FleetAssumption ==
    /\ \A w \in DOMAIN Fleet : Fleet[w].layout.kv_bytes_per_token \in Nat
    /\ TTL \in Nat

VARIABLES clock,        \* time.time()
          frame,        \* frame[t]: the call t is in and its local variables
          lost,         \* lost[t]: workers that were out of contact when t's
                        \* call began and have not been heard from since
          owed          \* owed[t]: entries of the workers that are unhealthy
                        \* at the scan of t's maintenance call

vars == <<workers, directory, clock, frame, lost, owed>>

\* at is the next step of a call, and then the one after a read of the
\* clock; goal says what a read of the registry is for.
NoCall == [call |-> "none", at |-> "idle", then |-> "idle", goal |-> "none",
           now |-> 0, target |-> {}, pre |-> {}, cands |-> {}, todo |-> {},
           pair |-> << >>, fenced |-> {}]

Init ==
    /\ RegistryInit
    /\ DirectoryInit
    /\ clock = 0
    /\ frame = [t \in Threads |-> NoCall]
    /\ lost = [t \in Threads |-> {}]
    /\ owed = [t \in Threads |-> {}]

OutOfContact(w) ==
    ~ workers[w].healthy \/ clock - workers[w].last_heartbeat > HeartbeatTimeout

Goto(t, step) == frame' = [frame EXCEPT ![t].at = step]

\* The frame f at the end of its call, when only the result matters.
Done(f) == [NoCall EXCEPT !.call = f.call, !.at = "done",
                          !.pair = f.pair, !.fenced = f.fenced]

Return(t) == frame' = [frame EXCEPT ![t] = Done(@)]

\* The frame f about to read the clock, then to take a lock for goal.
Sampling(f, next, goal) == [f EXCEPT !.at = "sample", !.then = next, !.goal = goal]

-----------------------------------------------------------------------------
(* The environment                                                         *)

Tick ==
    /\ clock < MaxTime
    /\ clock' = clock + 1
    /\ UNCHANGED <<workers, directory, frame, lost, owed>>

\* What hearing from w means for the history variables.
HeardFrom(w) ==
    /\ lost' = [t \in Threads |-> lost[t] \ {w}]
    /\ owed' = [t \in Threads |-> {k \in owed[t] : k.location # w}]

\* POST /v1/workers/{id}/heartbeat: clock and registry under one lock.
Heartbeat(w) ==
    /\ HeartbeatFrom(w, clock)
    /\ HeardFrom(w)
    /\ UNCHANGED <<directory, clock, frame>>

-----------------------------------------------------------------------------
(* Calls begin, read the clock and end                                     *)

Begin(t, call, target, next, goal) ==
    /\ call \in Calls
    /\ frame[t] = NoCall
    /\ frame' = [frame EXCEPT ![t] =
                   Sampling([@ EXCEPT !.call = call, !.target = target], next, goal)]
    /\ lost' = [lost EXCEPT ![t] = {w \in DOMAIN workers : OutOfContact(w)}]
    /\ UNCHANGED <<workers, directory, clock, owed>>

BeginRegister(t) ==
    \E w \in DOMAIN Fleet : Begin(t, "register", {w}, "store", "none")

BeginCache(t) ==
    \E w \in DOMAIN Fleet, p \in Prefixes :
        Begin(t, "cache", {Key(p, w, Tier)}, "insert", "none")

BeginView(t) == \E c \in {"list", "metrics"} : Begin(t, c, {}, "mark", c)

BeginMaintenance(t) == Begin(t, "fence", {}, "mark", "fence")

BeginRoute(t) ==
    \E c \in {"route", "completion"} : Begin(t, c, {}, "mark", "prefillers")

\* self._clock(), outside the locks.
Sample(t) ==
    /\ frame[t].at = "sample"
    /\ frame' = [frame EXCEPT ![t].now = clock, ![t].at = frame[t].then]
    /\ UNCHANGED <<workers, directory, clock, lost, owed>>

\* The response is sent and the thread is free again.
End(t) ==
    /\ frame[t].at = "done"
    /\ frame' = [frame EXCEPT ![t] = NoCall]
    /\ lost' = [lost EXCEPT ![t] = {}]
    /\ owed' = [owed EXCEPT ![t] = {}]
    /\ UNCHANGED <<workers, directory, clock>>

-----------------------------------------------------------------------------
(* Registrations                                                           *)

\* registry.register
StoreWorker(t) ==
    /\ frame[t].at = "store"
    /\ \E w \in frame[t].target :
         RegisterWorker(w, Fleet[w], frame[t].now) /\ HeardFrom(w)
    /\ Return(t)
    /\ UNCHANGED <<directory, clock>>

\* cache.register, of one token in the layout of the worker that holds it.
InsertEntry(t) ==
    /\ frame[t].at = "insert"
    /\ \E k \in frame[t].target :
         /\ Insert(k, NewEntry(Fleet[k.location].layout, 1, frame[t].now, TTL))
         /\ owed' = [u \in Threads |-> owed[u] \ {k}]
    /\ Return(t)
    /\ UNCHANGED <<workers, clock, lost>>

-----------------------------------------------------------------------------
(* Reads of the registry, and the maintenance call                         *)

\* fence_stale on behalf of a read: what it fenced is not passed on.
MarkForRead(t) ==
    /\ frame[t].at = "mark"
    /\ frame[t].goal # "fence"
    /\ FenceStale(frame[t].now)
    /\ Goto(t, "read")
    /\ UNCHANGED <<directory, clock, lost, owed>>

\* fence_stale on behalf of fence_stale_workers.
MarkForMaintenance(t) ==
    /\ frame[t].at = "mark"
    /\ frame[t].goal = "fence"
    /\ FenceStale(frame[t].now)
    /\ LET stale == Stale(frame[t].now)
       IN  frame' = [frame EXCEPT ![t].at = "remove",
                                  ![t].fenced = stale, ![t].todo = stale]
    /\ owed' = [owed EXCEPT ![t] =
                  {k \in DOMAIN entries : k.location \in Unhealthy'}]
    /\ UNCHANGED <<directory, clock, lost>>

\* Mutant of RemoveNext: the loop ends after its first turn.
RemoveFirst(t) ==
    /\ frame[t].at = "remove"
    /\ \E w \in frame[t].todo :
         /\ RemoveLocation(w)
         /\ frame' = [frame EXCEPT ![t].todo = {}]
    /\ UNCHANGED <<workers, clock, lost, owed>>

\* One turn of the loop over the fenced workers.
RemoveNext(t) ==
    /\ frame[t].at = "remove"
    /\ \E w \in frame[t].todo :
         /\ RemoveLocation(w)
         /\ frame' = [frame EXCEPT ![t].todo = @ \ {w}]
    /\ UNCHANGED <<workers, clock, lost, owed>>

EndMaintenance(t) ==
    /\ frame[t].at = "remove"
    /\ frame[t].todo = {}
    /\ Return(t)
    /\ UNCHANGED <<workers, directory, clock, lost, owed>>

\* all() for GET /v1/workers, and healthy() for GET /metrics.
ReadForView(t) ==
    /\ frame[t].at = "read"
    /\ frame[t].goal \in {"list", "metrics"}
    /\ IF frame[t].goal = "metrics" THEN Goto(t, "entries") ELSE Return(t)
    /\ UNCHANGED <<workers, directory, clock, lost, owed>>

\* cache.entries() for GET /metrics, with the clock read under the lock.
ListEntries(t) ==
    /\ frame[t].at = "entries"
    /\ EvictExpired(clock)
    /\ Return(t)
    /\ UNCHANGED <<workers, clock, lost, owed>>

-----------------------------------------------------------------------------
(* Routes and completions                                                  *)

\* prefillers = registry.healthy(PREFILL)
ReadPrefillers(t) ==
    /\ frame[t].at = "read"
    /\ frame[t].goal = "prefillers"
    /\ frame' = [frame EXCEPT ![t] =
                   Sampling([@ EXCEPT !.pre = Healthy("prefill")], "mark", "decoders")]
    /\ UNCHANGED <<workers, directory, clock, lost, owed>>

\* The pairs route makes candidates of, for a request for this model.
Pairs(pre, dec, model) ==
    {pd \in pre \X dec :
        /\ CompatibleWith(Fleet[pd[1]].layout, Fleet[pd[2]].layout)
        /\ Fleet[pd[1]].layout.model_id = model}

\* decoders = registry.healthy(DECODE).  Without a pair of compatible workers
\* the request is rejected; with a prefix hash each pair looks it up.
ReadDecoders(t) ==
    /\ frame[t].at = "read"
    /\ frame[t].goal = "decoders"
    /\ \E model \in ModelIds, prefixed \in BOOLEAN :
         LET pairs == Pairs(frame[t].pre, Healthy("decode"), model)
             f == [frame[t] EXCEPT !.cands = pairs,
                                   !.todo = IF prefixed THEN pairs ELSE {}]
         IN  frame' = [frame EXCEPT ![t] =
                         IF pairs = {} THEN Done(f)
                         ELSE IF prefixed THEN Sampling(f, "lookup", "pairs")
                         ELSE [f EXCEPT !.at = "decide"]]
    /\ UNCHANGED <<workers, directory, clock, lost, owed>>

\* _best_cache for one of the pairs left.
LookupPair(t) ==
    /\ frame[t].at = "lookup"
    /\ EvictExpired(frame[t].now)
    /\ \E pd \in frame[t].todo :
         LET f == [frame[t] EXCEPT !.todo = @ \ {pd}]
         IN  frame' = [frame EXCEPT ![t] =
                         IF f.todo = {} THEN [f EXCEPT !.at = "decide"]
                         ELSE Sampling(f, "lookup", "pairs")]
    /\ UNCHANGED <<workers, clock, lost, owed>>

\* The best candidate misses the SLO: the request is rejected.
Reject(t) ==
    /\ frame[t].at = "decide"
    /\ Return(t)
    /\ UNCHANGED <<workers, directory, clock, lost, owed>>

\* The best candidate is admitted.  A completion goes on with the executor,
\* which in the simulated case answers at once.
Admit(t) ==
    /\ frame[t].at = "decide"
    /\ \E pd \in frame[t].cands, http \in BOOLEAN :
         LET f == [frame[t] EXCEPT !.pair = pd]
         IN  frame' = [frame EXCEPT ![t] =
                         IF f.call = "completion" /\ http
                         THEN Sampling(f, "mark", "get_prefill")
                         ELSE Done(f)]
    /\ UNCHANGED <<workers, directory, clock, lost, owed>>

\* prefill = registry.get(...), whatever its health.
GetPrefill(t) ==
    /\ frame[t].at = "read"
    /\ frame[t].goal = "get_prefill"
    /\ frame' = [frame EXCEPT ![t] = Sampling(@, "mark", "get_decode")]
    /\ UNCHANGED <<workers, directory, clock, lost, owed>>

\* decode = registry.get(...); the call fails when either is not registered.
GetDecode(t) ==
    /\ frame[t].at = "read"
    /\ frame[t].goal = "get_decode"
    /\ IF Range(frame[t].pair) \subseteq DOMAIN workers
       THEN Goto(t, "post_prefill") ELSE Return(t)
    /\ UNCHANGED <<workers, directory, clock, lost, owed>>

\* The sidecar of the prefill worker answers, with an error or a transfer.
PostPrefill(t) ==
    /\ frame[t].at = "post_prefill"
    /\ Goto(t, "post_decode") \/ Return(t)
    /\ UNCHANGED <<workers, directory, clock, lost, owed>>

PostDecode(t) ==
    /\ frame[t].at = "post_decode"
    /\ Return(t)
    /\ UNCHANGED <<workers, directory, clock, lost, owed>>

-----------------------------------------------------------------------------
Next ==
    \/ Tick
    \/ \E w \in DOMAIN Fleet : Heartbeat(w)
    \/ \E t \in Threads :
         \/ BeginRegister(t) \/ BeginCache(t) \/ BeginView(t)
         \/ BeginMaintenance(t) \/ BeginRoute(t)
         \/ Sample(t) \/ End(t)
         \/ StoreWorker(t) \/ InsertEntry(t)
         \/ MarkForRead(t) \/ MarkForMaintenance(t)
         \/ RemoveNext(t) \/ EndMaintenance(t)
         \/ ReadForView(t) \/ ListEntries(t)
         \/ ReadPrefillers(t) \/ ReadDecoders(t) \/ LookupPair(t)
         \/ Reject(t) \/ Admit(t)
         \/ GetPrefill(t) \/ GetDecode(t) \/ PostPrefill(t) \/ PostDecode(t)

Spec == Init /\ [][Next]_vars

-----------------------------------------------------------------------------
(* Properties                                                              *)

Ids == DOMAIN Fleet
Keys == {Key(p, w, Tier) : p \in Prefixes, w \in Ids}

\* The variables have the shape the code gives them.
TypeOK ==
    /\ DOMAIN workers \subseteq Ids
    /\ \A w \in DOMAIN workers :
         /\ workers[w].role = Fleet[w].role
         /\ workers[w].last_heartbeat \in 0 .. clock
         /\ workers[w].healthy \in BOOLEAN
    /\ DOMAIN entries \subseteq Keys
    /\ OrderNumbersKeys
    /\ clock \in Nat
    /\ \A t \in Threads :
         /\ frame[t].call \in AllCalls \cup {"none"}
         /\ frame[t].now \in 0 .. clock
         /\ frame[t].pre \subseteq Ids
         /\ frame[t].cands \subseteq Ids \X Ids
         /\ frame[t].fenced \subseteq Ids
         /\ frame[t].pair # << >> => frame[t].pair \in Ids \X Ids
         /\ lost[t] \subseteq Ids
         /\ owed[t] \subseteq Keys

\* A request is never placed on, nor sent to, a worker that was out of
\* contact when the call came in and has not been heard from since, although
\* the two snapshots, the lookups and the executor's reads are separate steps.
RoutesAvoidLost ==
    \A t \in Threads : Range(frame[t].pair) \cap lost[t] = {}

\* A step that marks a worker unhealthy finds its heartbeat overdue at that
\* very moment, though the time it judges by was read before the lock and
\* heartbeats may have come in between.
FencedOnlyWhenOverdue ==
    [][ \A w \in DOMAIN workers :
          workers[w].healthy /\ ~ workers'[w].healthy =>
            clock - workers[w].last_heartbeat > HeartbeatTimeout ]_vars

\* When a maintenance call returns, the entries that the workers it fenced
\* had at its scan are gone, unless they were registered anew or their worker
\* was heard from: the loop over the two components is not atomic.
FencedInvalidated ==
    \A t \in Threads :
        frame[t].call = "fence" /\ frame[t].at = "done" =>
            \A k \in owed[t] \cap DOMAIN entries : k.location \notin frame[t].fenced

\* The same for every worker that is out of contact at the scan, the one
\* fenced earlier by some other call included.
LostWorkersInvalidated ==
    \A t \in Threads :
        frame[t].call = "fence" /\ frame[t].at = "done" =>
            owed[t] \cap DOMAIN entries = {}
=============================================================================
