------------------------- MODULE ControlPlaneProofs -------------------------
(***************************************************************************)
(* Proofs about the control plane, for any fleet, threads, prefixes and    *)
(* timeout.                                                                *)
(***************************************************************************)
EXTENDS ControlPlane, KVDirectoryProofs

-----------------------------------------------------------------------------
(* The registry                                                            *)

Workers == [role : {Fleet[w].role : w \in Ids}, layout : {Fleet[w].layout : w \in Ids},
            last_heartbeat : Nat, healthy : BOOLEAN]

WorkersOK(time) ==
    /\ DOMAIN workers \subseteq Ids
    /\ workers \in [DOMAIN workers -> Workers]
    /\ \A w \in DOMAIN workers :
         workers[w].role = Fleet[w].role /\ workers[w].last_heartbeat <= time

\* The registration of a worker, by a time that has been.
LEMMA RegisterEffect ==
    ASSUME NEW time \in Nat, WorkersOK(time), NEW w \in Ids, NEW now \in Nat, now <= time,
           RegisterWorker(w, Fleet[w], now)
    PROVE  /\ WorkersOK(time)'
           /\ DOMAIN workers' = DOMAIN workers \cup {w}
           /\ workers'[w].healthy
           /\ \A v \in DOMAIN workers \ {w} : workers'[v] = workers[v]
<1> DEFINE new == [role |-> Fleet[w].role, layout |-> Fleet[w].layout,
                   last_heartbeat |-> now, healthy |-> TRUE]
<1>1. new \in Workers /\ new.role = Fleet[w].role /\ new.last_heartbeat <= time /\ new.healthy
  BY DEF Workers
<1>2. workers' = [v \in DOMAIN workers \cup {w} |-> IF v = w THEN new ELSE workers[v]]
  BY DEF RegisterWorker, Put
<1> HIDE DEF new
<1> QED
  BY <1>1, <1>2 DEF WorkersOK

LEMMA HeartbeatEffect ==
    ASSUME NEW time \in Nat, WorkersOK(time), NEW w, HeartbeatFrom(w, time)
    PROVE  /\ WorkersOK(time)'
           /\ DOMAIN workers' = DOMAIN workers /\ w \in DOMAIN workers
           /\ workers'[w].healthy
           /\ \A v \in DOMAIN workers \ {w} : workers'[v] = workers[v]
<1> DEFINE new == [workers[w] EXCEPT !.last_heartbeat = time, !.healthy = TRUE]
<1>1. w \in DOMAIN workers /\ workers[w] \in Workers
  BY DEF HeartbeatFrom, WorkersOK
<1>2. workers' = [workers EXCEPT ![w] = new]
  <2>1. workers' = [workers EXCEPT ![w].last_heartbeat = time, ![w].healthy = TRUE]
    BY DEF HeartbeatFrom
  <2>2. [workers EXCEPT ![w].last_heartbeat = time, ![w].healthy = TRUE]
          = [workers EXCEPT ![w] = new]
    BY <1>1
  <2> QED
    BY <2>1, <2>2
<1>3. \A r \in Workers : LET q == [r EXCEPT !.last_heartbeat = time]
                         IN  q \in Workers /\ q.role = r.role /\ q.last_heartbeat = time
  BY DEF Workers
<1>4. \A r \in Workers : LET q == [r EXCEPT !.healthy = TRUE]
                         IN  /\ q \in Workers /\ q.role = r.role /\ q.healthy
                             /\ q.last_heartbeat = r.last_heartbeat
  BY DEF Workers
<1>5. /\ new \in Workers /\ new.role = workers[w].role
      /\ new.last_heartbeat = time /\ new.healthy
  <2> DEFINE q == [workers[w] EXCEPT !.last_heartbeat = time]
  <2>1. q \in Workers /\ q.role = workers[w].role /\ q.last_heartbeat = time
    BY <1>1, <1>3
  <2>2. new = [q EXCEPT !.healthy = TRUE]
    OBVIOUS
  <2> HIDE DEF new, q
  <2> QED
    BY <1>4, <2>1, <2>2
<1> HIDE DEF new
<1> QED
  BY <1>1, <1>2, <1>5 DEF WorkersOK

LEMMA FenceEffect ==
    ASSUME NEW time \in Nat, WorkersOK(time), NEW now, FenceStale(now)
    PROVE  /\ WorkersOK(time)'
           /\ DOMAIN workers' = DOMAIN workers
           /\ \A w \in DOMAIN workers :
                /\ workers'[w].last_heartbeat = workers[w].last_heartbeat
                /\ workers'[w].healthy <=> workers[w].healthy /\ w \notin Stale(now)
<1> DEFINE new(w) == [role |-> workers[w].role, layout |-> workers[w].layout,
                      last_heartbeat |-> workers[w].last_heartbeat,
                      healthy |-> workers[w].healthy /\ w \notin Stale(now)]
<1>1. \A w \in DOMAIN workers : workers[w] \in Workers
  BY DEF WorkersOK
<1>2. \A w \in DOMAIN workers :
        [workers[w] EXCEPT !.healthy = @ /\ w \notin Stale(now)] = new(w)
  BY <1>1 DEF Workers
<1>3. \A w \in DOMAIN workers : new(w) \in Workers
  BY <1>1 DEF Workers
<1>4. workers' = [w \in DOMAIN workers |-> new(w)]
  BY <1>2 DEF FenceStale
<1>5. \A w \in DOMAIN workers :
        /\ new(w).role = workers[w].role
        /\ new(w).last_heartbeat = workers[w].last_heartbeat
        /\ new(w).healthy <=> workers[w].healthy /\ w \notin Stale(now)
  OBVIOUS
<1> HIDE DEF new
<1> QED
  BY <1>3, <1>4, <1>5 DEF WorkersOK

-----------------------------------------------------------------------------
(* The directory                                                           *)

EntriesOK == DOMAIN entries \subseteq Keys /\ DirectoryOK(entries, order)

LEMMA EntriesLeft ==
    ASSUME EntriesOK, NEW gone, Become(entries, order, gone)
    PROVE  EntriesOK' /\ DOMAIN entries' = DOMAIN entries \ gone
BY BecomeKeeps DEF EntriesOK

LEMMA EntryAdded ==
    ASSUME EntriesOK, NEW k \in Keys, NEW now \in Nat,
           Insert(k, NewEntry(Fleet[k.location].layout, 1, now, TTL))
    PROVE  EntriesOK' /\ DOMAIN entries' \subseteq DOMAIN entries \cup {k}
<1> DEFINE entry == NewEntry(Fleet[k.location].layout, 1, now, TTL)
           es == Inserted(k, entry)
           V == Victims(es, InsertedOrder(k), k.tier)
<1>1. k.location \in Ids
  BY DEF Keys, Key
<1>2. entry.size_bytes \in Nat /\ entry.last_access \in Int /\ entry.created_at \in Int
  <2>1. Fleet[k.location].layout.kv_bytes_per_token \in Nat
    BY <1>1, FleetAssumption DEF Ids
  <2>2. 1 * Fleet[k.location].layout.kv_bytes_per_token \in Nat
    BY <2>1
  <2> QED
    BY <2>2 DEF NewEntry
<1>3. Become(es, InsertedOrder(k), V)
  BY DEF Insert, Inserted, InsertedOrder
<1> HIDE DEF entry
<1>4. DirectoryOK(es, InsertedOrder(k)) /\ DOMAIN es = DOMAIN entries \cup {k}
  BY <1>2, InsertKeeps DEF EntriesOK
<1> HIDE DEF es, V
<1>5. DOMAIN entries' = DOMAIN es \ V /\ DirectoryOK(entries', order')
  BY <1>3, <1>4, BecomeKeeps
<1> QED
  BY <1>4, <1>5 DEF EntriesOK

-----------------------------------------------------------------------------
(* Calls                                                                   *)

FrameFields == {"call", "at", "then", "goal", "now", "target",
                "pre", "cands", "todo", "pair", "fenced"}

\* A frame whose clock read is past, and that holds what it is to register.
FrameOK(f, time) ==
    /\ DOMAIN f = FrameFields
    /\ f.call \in AllCalls \cup {"none"}
    /\ f.now \in Nat /\ f.now <= time
    /\ f.pre \subseteq Ids /\ f.cands \subseteq Ids \X Ids /\ f.fenced \subseteq Ids
    /\ f.pair # << >> => f.pair \in Ids \X Ids
    /\ f.then = "store" => f.target \subseteq Ids
    /\ f.then = "insert" => f.target \subseteq Keys
    /\ f.at \in {"store", "insert"} => f.at = f.then

FramesOK ==
    /\ DOMAIN frame = Threads
    /\ frame = [t \in Threads |-> frame[t]]
    /\ \A t \in Threads : FrameOK(frame[t], clock)

LEMMA NoCallOK == \A time \in Nat : FrameOK(NoCall, time)
BY DEF FrameOK, NoCall, FrameFields

LEMMA DoneOK ==
    ASSUME NEW time \in Nat, NEW f, FrameOK(f, time)
    PROVE  /\ FrameOK(Done(f), time)
           /\ Done(f).call = f.call /\ Done(f).at = "done" /\ Done(f).pair = f.pair
           /\ Done(f).fenced = f.fenced /\ Done(f).pre = {} /\ Done(f).cands = {}
<1> DEFINE a == [NoCall EXCEPT !.call = f.call]
           b == [a EXCEPT !.at = "done"]
           c == [b EXCEPT !.pair = f.pair]
           d == [c EXCEPT !.fenced = f.fenced]
<1>1. /\ DOMAIN a = FrameFields /\ a.call = f.call
      /\ a.then = "idle" /\ a.now = 0 /\ a.pre = {} /\ a.cands = {}
  BY DEF NoCall, FrameFields
<1>2. /\ DOMAIN d = FrameFields
      /\ d.call = f.call /\ d.at = "done" /\ d.pair = f.pair /\ d.fenced = f.fenced
      /\ d.then = "idle" /\ d.now = 0 /\ d.pre = {} /\ d.cands = {}
  <2> HIDE DEF a
  <2> QED
    BY <1>1 DEF FrameFields
<1>3. Done(f) = d
  BY DEF Done
<1> HIDE DEF d
<1> QED
  BY <1>2, <1>3 DEF FrameOK

LEMMA SamplingOK ==
    ASSUME NEW time \in Nat, NEW f, FrameOK(f, time),
           NEW next, next \notin {"store", "insert"}, NEW goal
    PROVE  LET g == Sampling(f, next, goal)
           IN  /\ FrameOK(g, time)
               /\ g.at = "sample" /\ g.then = next /\ g.goal = goal /\ g.call = f.call
               /\ g.pre = f.pre /\ g.cands = f.cands /\ g.pair = f.pair
<1> DEFINE g == Sampling(f, next, goal)
<1>1. /\ DOMAIN g = FrameFields
      /\ g.at = "sample" /\ g.then = next /\ g.goal = goal
      /\ g.call = f.call /\ g.now = f.now /\ g.pre = f.pre /\ g.cands = f.cands
      /\ g.pair = f.pair /\ g.fenced = f.fenced
  BY DEF Sampling, FrameOK, FrameFields
<1> HIDE DEF g
<1>2. FrameOK(g, time)
  BY <1>1 DEF FrameOK
<1> QED
  BY <1>1, <1>2 DEF g

LEMMA AtOK ==
    ASSUME NEW time \in Nat, NEW f, FrameOK(f, time),
           NEW step, step \notin {"store", "insert"}
    PROVE  LET g == [f EXCEPT !.at = step]
           IN  /\ FrameOK(g, time)
               /\ g.at = step /\ g.then = f.then /\ g.goal = f.goal /\ g.call = f.call
               /\ g.pre = f.pre /\ g.cands = f.cands /\ g.pair = f.pair /\ g.now = f.now
               /\ g.fenced = f.fenced /\ g.todo = f.todo
BY DEF FrameOK, FrameFields

\* A step that gives thread t a good frame keeps the frames good.
LEMMA FrameGiven ==
    ASSUME FramesOK, NEW t \in Threads, NEW g, frame' = [frame EXCEPT ![t] = g],
           clock \in Nat, clock' = clock, FrameOK(g, clock)
    PROVE  FramesOK' /\ frame'[t] = g /\ \A u \in Threads \ {t} : frame'[u] = frame[u]
BY DEF FramesOK

LEMMA FramesLater ==
    ASSUME FramesOK, clock \in Nat, clock' \in Nat, clock <= clock', frame' = frame
    PROVE  FramesOK'
BY DEF FramesOK, FrameOK

-----------------------------------------------------------------------------
(* Types                                                                   *)

TypeInv ==
    /\ clock \in Nat
    /\ WorkersOK(clock)
    /\ EntriesOK
    /\ FramesOK
    /\ lost \in [Threads -> SUBSET Ids]
    /\ owed \in [Threads -> SUBSET Keys]

LEMMA TypeInvTypes == TypeInv => TypeOK
<1> SUFFICES ASSUME TypeInv PROVE TypeOK
  OBVIOUS
<1>1. \A w \in DOMAIN workers :
        /\ workers[w].role = Fleet[w].role
        /\ workers[w].last_heartbeat \in 0 .. clock
        /\ workers[w].healthy \in BOOLEAN
  BY DEF TypeInv, WorkersOK, Workers
<1>2. OrderNumbersKeys
  BY DEF TypeInv, EntriesOK, DirectoryOK, Numbers, OrderNumbersKeys
<1> QED
  BY <1>1, <1>2 DEF TypeInv, TypeOK, WorkersOK, EntriesOK, FramesOK, FrameOK

LEMMA InitTypes == Init => TypeInv
<1> SUFFICES ASSUME Init PROVE TypeInv
  OBVIOUS
<1>1. clock \in Nat
  BY DEF Init
<1>2. DOMAIN workers = {} /\ DOMAIN entries = {} /\ DOMAIN order = {}
  BY DEF Init, RegistryInit, DirectoryInit
<1>3. WorkersOK(clock)
  BY <1>2 DEF WorkersOK, Init, RegistryInit
<1>4. EntriesOK
  <2>1. IsFiniteSet({}) /\ Cardinality({}) = 0
    BY FS_EmptySet
  <2>2. Numbers(DOMAIN entries, order)
    BY <1>2, <2>1 DEF Numbers, Init, DirectoryInit
  <2> QED
    BY <1>2, <2>2 DEF EntriesOK, DirectoryOK, Init, DirectoryInit
<1>5. FramesOK
  BY <1>1, NoCallOK DEF FramesOK, Init
<1> QED
  BY <1>1, <1>3, <1>4, <1>5 DEF TypeInv, Init

\* Time passes, and what was in the past stays there.
LEMMA WorkersLater ==
    ASSUME NEW time \in Nat, WorkersOK(time), NEW later \in Nat, time <= later,
           workers' = workers
    PROVE  WorkersOK(later)'
BY DEF WorkersOK, Workers

\* The steps of a call that change nothing but the call.
QuietStep(t) ==
    \/ Sample(t) \/ EndMaintenance(t) \/ ReadForView(t)
    \/ ReadPrefillers(t) \/ ReadDecoders(t) \/ Reject(t) \/ Admit(t)
    \/ GetPrefill(t) \/ GetDecode(t) \/ PostPrefill(t) \/ PostDecode(t)

\* What the quiet steps do to the frame.
LEMMA QuietFrame ==
    ASSUME TypeInv, NEW t \in Threads, QuietStep(t)
    PROVE  /\ UNCHANGED <<workers, directory, clock, lost, owed>>
           /\ \E g : FrameOK(g, clock) /\ frame' = [frame EXCEPT ![t] = g]
<1> DEFINE f == frame[t]
<1>1. /\ FrameOK(f, clock) /\ clock \in Nat /\ DOMAIN frame = Threads
      /\ f.pre \subseteq Ids
  BY DEF TypeInv, FramesOK, FrameOK
<1>2. CASE Sample(t)
  <2> DEFINE g == [f EXCEPT !.now = clock, !.at = f.then]
  <2>1. FrameOK(g, clock)
    BY <1>1 DEF FrameOK, FrameFields
  <2>2. frame' = [frame EXCEPT ![t] = g]
    BY <1>1, <1>2 DEF Sample
  <2> HIDE DEF g
  <2> QED
    BY <1>2, <2>1, <2>2 DEF Sample
<1>3. CASE EndMaintenance(t) \/ Reject(t) \/ PostDecode(t)
  BY <1>1, <1>3, DoneOK DEF EndMaintenance, Reject, PostDecode, Return
<1>4. CASE ReadForView(t) \/ GetDecode(t) \/ PostPrefill(t)
  <2>1. \/ frame' = [frame EXCEPT ![t] = Done(f)]
        \/ \E step \in {"entries", "post_prefill", "post_decode"} :
             frame' = [frame EXCEPT ![t] = [f EXCEPT !.at = step]]
    BY <1>4 DEF ReadForView, GetDecode, PostPrefill, Return, Goto
  <2> QED
    BY <1>1, <1>4, <2>1, DoneOK, AtOK DEF ReadForView, GetDecode, PostPrefill
<1>5. CASE ReadPrefillers(t)
  <2> DEFINE g == [f EXCEPT !.pre = Healthy("prefill")]
  <2>1. FrameOK(g, clock)
    BY <1>1 DEF FrameOK, FrameFields, Healthy, TypeInv, WorkersOK
  <2>2. frame' = [frame EXCEPT ![t] = Sampling(g, "mark", "decoders")]
    BY <1>5 DEF ReadPrefillers
  <2> HIDE DEF g
  <2> QED
    BY <1>1, <1>5, <2>1, <2>2, SamplingOK DEF ReadPrefillers
<1>6. CASE ReadDecoders(t)
  <2>1. PICK model \in ModelIds, prefixed \in BOOLEAN :
          LET pairs == Pairs(f.pre, Healthy("decode"), model)
              g == [f EXCEPT !.cands = pairs, !.todo = IF prefixed THEN pairs ELSE {}]
          IN  frame' = [frame EXCEPT ![t] =
                          IF pairs = {} THEN Done(g)
                          ELSE IF prefixed THEN Sampling(g, "lookup", "pairs")
                          ELSE [g EXCEPT !.at = "decide"]]
    BY <1>6 DEF ReadDecoders
  <2> DEFINE pairs == Pairs(f.pre, Healthy("decode"), model)
             g == [f EXCEPT !.cands = pairs, !.todo = IF prefixed THEN pairs ELSE {}]
  <2>2. pairs \subseteq Ids \X Ids
    BY <1>1 DEF Pairs, Healthy, TypeInv, WorkersOK
  <2>3. FrameOK(g, clock)
    <3> HIDE DEF pairs
    <3> QED
      BY <1>1, <2>2 DEF FrameOK, FrameFields
  <2> HIDE DEF g, pairs
  <2>4. /\ FrameOK(Done(g), clock)
        /\ FrameOK(Sampling(g, "lookup", "pairs"), clock)
        /\ FrameOK([g EXCEPT !.at = "decide"], clock)
    BY <1>1, <2>3, DoneOK, SamplingOK, AtOK
  <2> QED
    BY <1>6, <2>1, <2>4 DEF ReadDecoders, g, pairs
<1>7. CASE Admit(t)
  <2>1. PICK pd \in f.cands, http \in BOOLEAN :
          LET g == [f EXCEPT !.pair = pd]
          IN  frame' = [frame EXCEPT ![t] =
                          IF g.call = "completion" /\ http
                          THEN Sampling(g, "mark", "get_prefill") ELSE Done(g)]
    BY <1>7 DEF Admit
  <2> DEFINE g == [f EXCEPT !.pair = pd]
  <2>2. FrameOK(g, clock)
    BY <1>1 DEF FrameOK, FrameFields
  <2> HIDE DEF g
  <2>3. FrameOK(Done(g), clock) /\ FrameOK(Sampling(g, "mark", "get_prefill"), clock)
    BY <1>1, <2>2, DoneOK, SamplingOK
  <2> QED
    BY <1>7, <2>1, <2>3 DEF Admit, g
<1>8. CASE GetPrefill(t)
  BY <1>1, <1>8, SamplingOK DEF GetPrefill
<1> QED
  BY <1>2, <1>3, <1>4, <1>5, <1>6, <1>7, <1>8 DEF QuietStep

LEMMA NextTypes == TypeInv /\ [Next]_vars => TypeInv'
<1> SUFFICES ASSUME TypeInv, [Next]_vars PROVE TypeInv'
  OBVIOUS
<1>1. /\ clock \in Nat /\ WorkersOK(clock) /\ EntriesOK /\ FramesOK
      /\ lost \in [Threads -> SUBSET Ids] /\ owed \in [Threads -> SUBSET Keys]
  BY DEF TypeInv
<1>2. ASSUME entries' = entries, order' = order PROVE EntriesOK'
  BY <1>1, <1>2 DEF EntriesOK
<1>3. ASSUME workers' = workers, clock' = clock PROVE WorkersOK(clock)'
  BY <1>1, <1>3, WorkersLater
<1>4. ASSUME NEW w, HeardFrom(w)
      PROVE  lost' \in [Threads -> SUBSET Ids] /\ owed' \in [Threads -> SUBSET Keys]
  BY <1>1, <1>4 DEF HeardFrom
<1>5. CASE UNCHANGED vars
  BY <1>1, <1>2, <1>3, <1>5, FramesLater DEF vars, directory, TypeInv
<1>6. CASE Tick
  BY <1>1, <1>2, <1>6, WorkersLater, FramesLater DEF Tick, directory, TypeInv
<1>7. ASSUME NEW w \in DOMAIN Fleet, Heartbeat(w) PROVE TypeInv'
  <2>1. WorkersOK(clock)' /\ clock' = clock
    BY <1>1, <1>7, HeartbeatEffect DEF Heartbeat
  <2> QED
    BY <1>1, <1>2, <1>4, <1>7, <2>1, FramesLater DEF Heartbeat, directory, TypeInv
<1>8. ASSUME NEW t \in Threads, NEW call, NEW target, NEW next, NEW goal,
             Begin(t, call, target, next, goal),
             \/ next \notin {"store", "insert"}
             \/ next = "store" /\ target \subseteq Ids
             \/ next = "insert" /\ target \subseteq Keys
      PROVE  TypeInv'
  <2> DEFINE g == Sampling([frame[t] EXCEPT !.call = call, !.target = target], next, goal)
  <2>1. FrameOK(g, clock) /\ frame' = [frame EXCEPT ![t] = g]
    <3>1. frame[t] = NoCall /\ call \in AllCalls /\ frame' = [frame EXCEPT ![t] = g]
      BY <1>8, CallsAssumption DEF Begin
    <3>2. FrameOK(g, clock)
      BY <1>1, <1>8, <3>1 DEF Sampling, NoCall, FrameOK, FrameFields
    <3> QED
      BY <3>1, <3>2
  <2>2. lost' \in [Threads -> SUBSET Ids]
    BY <1>1, <1>8 DEF Begin, WorkersOK
  <2> HIDE DEF g
  <2> QED
    BY <1>1, <1>2, <1>3, <1>8, <2>1, <2>2, FrameGiven DEF Begin, directory, TypeInv
<1>9. ASSUME NEW t \in Threads, BeginRegister(t) PROVE TypeInv'
  BY <1>8, <1>9 DEF BeginRegister, Ids
<1>10. ASSUME NEW t \in Threads, BeginCache(t) PROVE TypeInv'
  BY <1>8, <1>10 DEF BeginCache, Keys, Ids
<1>11. ASSUME NEW t \in Threads, BeginView(t) \/ BeginMaintenance(t) \/ BeginRoute(t)
       PROVE  TypeInv'
  BY <1>8, <1>11 DEF BeginView, BeginMaintenance, BeginRoute
<1>12. ASSUME NEW t \in Threads, QuietStep(t) PROVE TypeInv'
  <2>1. PICK g : FrameOK(g, clock) /\ frame' = [frame EXCEPT ![t] = g]
    BY <1>12, QuietFrame
  <2>2. UNCHANGED <<workers, directory, clock, lost, owed>>
    BY <1>12, QuietFrame
  <2> QED
    BY <1>1, <1>2, <1>3, <2>1, <2>2, FrameGiven DEF directory, TypeInv
<1>13. ASSUME NEW t \in Threads, End(t) PROVE TypeInv'
  <2>1. lost' \in [Threads -> SUBSET Ids] /\ owed' \in [Threads -> SUBSET Keys]
    BY <1>1, <1>13 DEF End
  <2> QED
    BY <1>1, <1>2, <1>3, <1>13, <2>1, NoCallOK, FrameGiven DEF End, directory, TypeInv
<1>14. ASSUME NEW t \in Threads, Return(t), clock' = clock PROVE FramesOK'
  <2>1. FrameOK(Done(frame[t]), clock)
    BY <1>1, DoneOK DEF FramesOK
  <2>2. frame' = [frame EXCEPT ![t] = Done(frame[t])]
    BY <1>14 DEF Return
  <2> QED
    BY <1>1, <1>14, <2>1, <2>2, FrameGiven
<1>15. ASSUME NEW t \in Threads, StoreWorker(t) PROVE TypeInv'
  <2>1. PICK w \in frame[t].target : RegisterWorker(w, Fleet[w], frame[t].now) /\ HeardFrom(w)
    BY <1>15 DEF StoreWorker
  <2>2. w \in Ids /\ frame[t].now \in Nat /\ frame[t].now <= clock
    BY <1>1, <1>15 DEF StoreWorker, FramesOK, FrameOK
  <2>3. WorkersOK(clock)' /\ clock' = clock
    BY <1>1, <1>15, <2>1, <2>2, RegisterEffect DEF StoreWorker
  <2> QED
    BY <1>1, <1>2, <1>4, <1>14, <1>15, <2>1, <2>3 DEF StoreWorker, directory, TypeInv
<1>16. ASSUME NEW t \in Threads, InsertEntry(t) PROVE TypeInv'
  <2>1. PICK k \in frame[t].target :
          /\ Insert(k, NewEntry(Fleet[k.location].layout, 1, frame[t].now, TTL))
          /\ owed' = [u \in Threads |-> owed[u] \ {k}]
    BY <1>16 DEF InsertEntry
  <2>2. k \in Keys /\ frame[t].now \in Nat
    BY <1>1, <1>16 DEF InsertEntry, FramesOK, FrameOK
  <2>3. EntriesOK'
    BY <1>1, <2>1, <2>2, EntryAdded
  <2>4. owed' \in [Threads -> SUBSET Keys]
    BY <1>1, <2>1
  <2> QED
    BY <1>1, <1>3, <1>14, <1>16, <2>3, <2>4 DEF InsertEntry, TypeInv
<1>17. ASSUME NEW t \in Threads, MarkForRead(t) PROVE TypeInv'
  <2>1. WorkersOK(clock)' /\ clock' = clock
    BY <1>1, <1>17, FenceEffect DEF MarkForRead
  <2>2. FrameOK([frame[t] EXCEPT !.at = "read"], clock)
    BY <1>1, AtOK DEF FramesOK
  <2>3. frame' = [frame EXCEPT ![t] = [frame[t] EXCEPT !.at = "read"]]
    BY <1>17 DEF MarkForRead, Goto
  <2>4. FramesOK'
    BY <1>1, <2>1, <2>2, <2>3, FrameGiven
  <2> QED
    BY <1>1, <1>2, <1>17, <2>1, <2>4 DEF MarkForRead, directory, TypeInv
<1>18. ASSUME NEW t \in Threads, MarkForMaintenance(t) PROVE TypeInv'
  <2> DEFINE stale == Stale(frame[t].now)
             g == [frame[t] EXCEPT !.at = "remove", !.fenced = stale, !.todo = stale]
  <2>1. WorkersOK(clock)' /\ clock' = clock
    BY <1>1, <1>18, FenceEffect DEF MarkForMaintenance
  <2>2. FrameOK(g, clock)
    BY <1>1 DEF FramesOK, FrameOK, FrameFields, Stale, WorkersOK
  <2>3. frame' = [frame EXCEPT ![t] = g]
    <3>1. frame' = [frame EXCEPT ![t].at = "remove", ![t].fenced = stale, ![t].todo = stale]
      BY <1>18 DEF MarkForMaintenance
    <3>2. [frame EXCEPT ![t].at = "remove", ![t].fenced = stale, ![t].todo = stale]
            = [frame EXCEPT ![t] = g]
      BY <1>1 DEF FramesOK
    <3> QED
      BY <3>1, <3>2
  <2>4. FramesOK'
    BY <1>1, <2>1, <2>2, <2>3, FrameGiven
  <2>5. owed' \in [Threads -> SUBSET Keys]
    BY <1>1, <1>18 DEF MarkForMaintenance, EntriesOK
  <2> QED
    BY <1>1, <1>2, <1>18, <2>1, <2>4, <2>5 DEF MarkForMaintenance, directory, TypeInv
<1>19. ASSUME NEW t \in Threads, RemoveNext(t) PROVE TypeInv'
  <2>1. PICK w \in frame[t].todo :
          /\ Become(entries, order, LocatedAt(w))
          /\ frame' = [frame EXCEPT ![t].todo = @ \ {w}]
    BY <1>19 DEF RemoveNext, RemoveLocation
  <2>2. FrameOK([frame[t] EXCEPT !.todo = @ \ {w}], clock)
    BY <1>1 DEF FramesOK, FrameOK, FrameFields
  <2>3. FramesOK'
    BY <1>1, <1>19, <2>1, <2>2, FrameGiven DEF RemoveNext
  <2> QED
    BY <1>1, <1>3, <1>19, <2>1, <2>3, EntriesLeft DEF RemoveNext, TypeInv
<1>20. ASSUME NEW t \in Threads, ListEntries(t) PROVE TypeInv'
  BY <1>1, <1>3, <1>14, <1>20, EntriesLeft DEF ListEntries, EvictExpired, TypeInv
<1>21. ASSUME NEW t \in Threads, LookupPair(t) PROVE TypeInv'
  <2>1. PICK pd \in frame[t].todo :
          LET f == [frame[t] EXCEPT !.todo = @ \ {pd}]
          IN  frame' = [frame EXCEPT ![t] =
                          IF f.todo = {} THEN [f EXCEPT !.at = "decide"]
                          ELSE Sampling(f, "lookup", "pairs")]
    BY <1>21 DEF LookupPair
  <2> DEFINE f == [frame[t] EXCEPT !.todo = @ \ {pd}]
  <2>2. FrameOK(f, clock)
    BY <1>1 DEF FramesOK, FrameOK, FrameFields
  <2> HIDE DEF f
  <2>3. FrameOK([f EXCEPT !.at = "decide"], clock) /\ FrameOK(Sampling(f, "lookup", "pairs"), clock)
    BY <1>1, <2>2, AtOK, SamplingOK
  <2>4. FramesOK'
    BY <1>1, <1>21, <2>1, <2>3, FrameGiven DEF LookupPair, f
  <2> QED
    BY <1>1, <1>3, <1>21, <2>4, EntriesLeft DEF LookupPair, EvictExpired, TypeInv
<1> QED
  BY <1>5, <1>6, <1>7, <1>9, <1>10, <1>11, <1>12, <1>13, <1>15, <1>16, <1>17, <1>18,
     <1>19, <1>20, <1>21 DEF Next, QuietStep

LEMMA TypeInvariant == Spec => []TypeInv
BY InitTypes, NextTypes, PTL DEF Spec

\* The variables of the control plane keep the shape the code gives them; no
\* heartbeat and no clock read of a call lies in the future.
THEOREM ControlTypeCorrect == Spec => []TypeOK
BY TypeInvTypes, TypeInvariant, PTL

-----------------------------------------------------------------------------
(* Fencing, and routes that avoid lost workers                             *)

\* A step that marks a worker unhealthy finds its heartbeat overdue: the time
\* it judges by is past (registry.py:59-67).
THEOREM FencesOverdueOnly == Spec => FencedOnlyWhenOverdue
<1>1. TypeInv /\ [Next]_vars =>
        [ \A w \in DOMAIN workers :
            workers[w].healthy /\ ~ workers'[w].healthy =>
              clock - workers[w].last_heartbeat > HeartbeatTimeout ]_vars
  <2> SUFFICES ASSUME TypeInv, Next, NEW w \in DOMAIN workers,
                      workers[w].healthy, ~ workers'[w].healthy
               PROVE  clock - workers[w].last_heartbeat > HeartbeatTimeout
    OBVIOUS
  <2>1. /\ clock \in Nat /\ WorkersOK(clock) /\ workers[w].last_heartbeat \in Nat
        /\ \A t \in Threads : FrameOK(frame[t], clock)
        /\ HeartbeatTimeout \in Nat
    BY HeartbeatTimeoutAssumption DEF TypeInv, WorkersOK, Workers, FramesOK
  <2>2. workers' # workers
    OBVIOUS
  <2>3. ASSUME NEW t \in Threads, FenceStale(frame[t].now)
        PROVE  clock - workers[w].last_heartbeat > HeartbeatTimeout
    <3>1. w \in Stale(frame[t].now)
      BY <2>1, <2>3, FenceEffect
    <3>2. frame[t].now \in Nat /\ frame[t].now <= clock
      BY <2>1 DEF FrameOK
    <3> QED
      BY <2>1, <3>1, <3>2 DEF Stale
  <2>4. ASSUME NEW v \in DOMAIN Fleet, Heartbeat(v) PROVE FALSE
    BY <2>1, <2>4, HeartbeatEffect DEF Heartbeat
  <2>5. ASSUME NEW t \in Threads, StoreWorker(t) PROVE FALSE
    <3>1. PICK v \in frame[t].target : RegisterWorker(v, Fleet[v], frame[t].now)
      BY <2>5 DEF StoreWorker
    <3>2. v \in Ids /\ frame[t].now \in Nat /\ frame[t].now <= clock
      BY <2>1, <2>5, SMTT(60) DEF StoreWorker, FrameOK
    <3> QED
      BY <2>1, <3>1, <3>2, RegisterEffect
  <2>6. ASSUME NEW t \in Threads,
               \/ BeginRegister(t) \/ BeginCache(t) \/ BeginView(t)
               \/ BeginMaintenance(t) \/ BeginRoute(t) \/ End(t)
               \/ InsertEntry(t) \/ RemoveNext(t) \/ ListEntries(t) \/ LookupPair(t)
               \/ QuietStep(t)
        PROVE  workers' = workers
    BY <2>6, QuietFrame, Zenon
    DEF BeginRegister, BeginCache, BeginView, BeginMaintenance, BeginRoute, Begin, End,
        InsertEntry, RemoveNext, ListEntries, LookupPair
  <2> QED
    BY <2>2, <2>3, <2>4, <2>5, <2>6
    DEF Next, Tick, MarkForRead, MarkForMaintenance, QuietStep
<1> QED
  BY <1>1, TypeInvariant, PTL DEF Spec, FencedOnlyWhenOverdue

\* A lost worker is out of contact, and every snapshot, candidate and choice
\* of the call leaves it out: between the clock read and the scan it is
\* overdue by the time read, and between the scan and the list unhealthy.
RouteOK(t) ==
    /\ \A w \in lost[t] : w \in DOMAIN workers /\ OutOfContact(w)
    /\ frame[t].at = "mark" => \A w \in lost[t] :
         \/ ~ workers[w].healthy
         \/ frame[t].now - workers[w].last_heartbeat > HeartbeatTimeout
    /\ frame[t].at = "read" => \A w \in lost[t] : ~ workers[w].healthy
    /\ frame[t].then # "read"
    /\ frame[t].pre \cap lost[t] = {}
    /\ \A pd \in frame[t].cands : pd[1] \notin lost[t] /\ pd[2] \notin lost[t]
    /\ Range(frame[t].pair) \cap lost[t] = {}

RouteInv == TypeInv /\ \A t \in Threads : RouteOK(t)

\* What a step does to the lost workers of t, unless t begins a call.
Fades(t) ==
    /\ lost'[t] \subseteq lost[t]
    /\ \A w \in lost'[t] :
         /\ w \in DOMAIN workers'
         /\ workers'[w].last_heartbeat = workers[w].last_heartbeat
         /\ workers'[w].healthy => workers[w].healthy

LEMMA RouteKept ==
    ASSUME TypeInv, NEW t \in Threads, RouteOK(t), Fades(t),
           clock' \in Nat, clock <= clock',
           frame'[t].at \in {"mark", "read"} =>
             frame'[t].at = frame[t].at /\ frame'[t].now = frame[t].now,
           frame'[t].then # "read",
           frame'[t].pre \subseteq frame[t].pre, frame'[t].cands \subseteq frame[t].cands,
           Range(frame'[t].pair) \subseteq Range(frame[t].pair)
    PROVE  RouteOK(t)'
<1>1. ASSUME NEW w \in lost'[t]
      PROVE  /\ w \in lost[t] /\ w \in DOMAIN workers /\ w \in DOMAIN workers'
             /\ workers'[w].last_heartbeat = workers[w].last_heartbeat
             /\ workers[w].last_heartbeat \in Nat
             /\ workers'[w].healthy => workers[w].healthy
  BY DEF Fades, RouteOK, TypeInv, WorkersOK, Workers
<1>2. clock \in Nat /\ HeartbeatTimeout \in Nat
  BY HeartbeatTimeoutAssumption DEF TypeInv
<1>3. \A w \in lost'[t] : w \in DOMAIN workers' /\ OutOfContact(w)'
  BY <1>1, <1>2 DEF RouteOK, OutOfContact
<1>4. frame'[t].at = "mark" => \A w \in lost'[t] :
        \/ ~ workers'[w].healthy
        \/ frame'[t].now - workers'[w].last_heartbeat > HeartbeatTimeout
  BY <1>1 DEF RouteOK
<1>5. frame'[t].at = "read" => \A w \in lost'[t] : ~ workers'[w].healthy
  BY <1>1 DEF RouteOK
<1>6. /\ frame'[t].pre \cap lost'[t] = {}
      /\ \A pd \in frame'[t].cands : pd[1] \notin lost'[t] /\ pd[2] \notin lost'[t]
      /\ Range(frame'[t].pair) \cap lost'[t] = {}
  BY <1>1 DEF RouteOK
<1> QED
  BY <1>3, <1>4, <1>5, <1>6 DEF RouteOK

\* A thread whose frame a step leaves alone.
LEMMA BystanderKept ==
    ASSUME TypeInv, NEW t \in Threads, RouteOK(t), Fades(t),
           clock' \in Nat, clock <= clock', frame'[t] = frame[t]
    PROVE  RouteOK(t)'
BY RouteKept DEF RouteOK

LEMMA NothingFades ==
    ASSUME TypeInv, NEW t \in Threads, RouteOK(t), workers' = workers, lost'[t] \subseteq lost[t]
    PROVE  Fades(t)
BY DEF Fades, RouteOK

LEMMA FencingFades ==
    ASSUME TypeInv, NEW t \in Threads, RouteOK(t), NEW now, FenceStale(now), lost' = lost
    PROVE  Fades(t)
BY FenceEffect DEF Fades, RouteOK, TypeInv

\* A worker that is heard from is lost to nobody.
LEMMA HearingFades ==
    ASSUME TypeInv, NEW t \in Threads, RouteOK(t), NEW w, HeardFrom(w),
           DOMAIN workers \subseteq DOMAIN workers',
           \A v \in DOMAIN workers \ {w} : workers'[v] = workers[v]
    PROVE  Fades(t)
<1>1. lost'[t] = lost[t] \ {w}
  BY DEF HeardFrom
<1> QED
  BY <1>1 DEF Fades, RouteOK

\* The thread that begins a call: the lost workers are those out of contact.
LEMMA BeginRoutes ==
    ASSUME TypeInv, NEW t \in Threads, NEW call, NEW target, NEW next, NEW goal,
           next # "read", Begin(t, call, target, next, goal)
    PROVE  RouteOK(t)'
<1> DEFINE g == Sampling([frame[t] EXCEPT !.call = call, !.target = target], next, goal)
<1>1. /\ frame[t] = NoCall /\ frame' = [frame EXCEPT ![t] = g] /\ DOMAIN frame = Threads
      /\ lost'[t] = {w \in DOMAIN workers : OutOfContact(w)}
      /\ workers' = workers /\ clock' = clock
  BY DEF Begin, TypeInv, FramesOK
<1>2. /\ g.at = "sample" /\ g.then = next /\ g.pre = {} /\ g.cands = {} /\ g.pair = << >>
  BY <1>1 DEF Sampling, NoCall
<1>3. frame'[t] = g
  BY <1>1
<1>4. Range(<< >>) = {}
  BY DEF Range
<1> HIDE DEF g
<1>5. \A w \in lost'[t] : w \in DOMAIN workers' /\ OutOfContact(w)'
  BY <1>1 DEF OutOfContact
<1> QED
  BY <1>1, <1>2, <1>3, <1>4, <1>5 DEF RouteOK

\* The thread that reads the clock: what is lost is overdue by that time.
LEMMA SampleRoutes ==
    ASSUME TypeInv, NEW t \in Threads, RouteOK(t), Sample(t)
    PROVE  RouteOK(t)'
<1> DEFINE g == [frame[t] EXCEPT !.now = clock, !.at = frame[t].then]
<1>1. /\ FrameOK(frame[t], clock) /\ DOMAIN frame = Threads
      /\ frame' = [frame EXCEPT ![t] = g]
      /\ UNCHANGED <<workers, clock, lost>>
  BY DEF Sample, TypeInv, FramesOK
<1>2. /\ g.now = clock /\ g.at = frame[t].then /\ g.then = frame[t].then
      /\ g.pre = frame[t].pre /\ g.cands = frame[t].cands /\ g.pair = frame[t].pair
  BY <1>1 DEF FrameOK, FrameFields
<1>3. frame'[t] = g
  BY <1>1
<1> HIDE DEF g
<1>4. \A w \in lost[t] :
        \/ ~ workers[w].healthy
        \/ clock - workers[w].last_heartbeat > HeartbeatTimeout
  BY DEF RouteOK, OutOfContact
<1> QED
  BY <1>1, <1>2, <1>3, <1>4 DEF RouteOK, OutOfContact

\* The thread that scans the registry: what is lost is unhealthy from then on.
LEMMA MarkRoutes ==
    ASSUME TypeInv, NEW t \in Threads, RouteOK(t), MarkForRead(t)
    PROVE  RouteOK(t)'
<1> DEFINE f == frame[t]
           g == [f EXCEPT !.at = "read"]
<1>1. /\ FrameOK(f, clock) /\ clock \in Nat /\ DOMAIN frame = Threads /\ f.at = "mark"
      /\ frame' = [frame EXCEPT ![t] = g]
      /\ UNCHANGED <<clock, lost>> /\ FenceStale(f.now) /\ WorkersOK(clock)
  BY DEF MarkForRead, Goto, TypeInv, FramesOK
<1>2. /\ g.at = "read" /\ g.then = f.then /\ g.pre = f.pre /\ g.cands = f.cands
      /\ g.pair = f.pair
  BY <1>1, AtOK
<1>3. frame'[t] = g
  BY <1>1
<1> HIDE DEF g
<1>4. /\ DOMAIN workers' = DOMAIN workers
      /\ \A w \in DOMAIN workers :
           /\ workers'[w].last_heartbeat = workers[w].last_heartbeat
           /\ workers'[w].healthy <=> workers[w].healthy /\ w \notin Stale(f.now)
  BY <1>1, FenceEffect
<1>5. ASSUME NEW w \in lost[t] PROVE w \in DOMAIN workers /\ ~ workers'[w].healthy
  BY <1>1, <1>4 DEF RouteOK, Stale
<1> QED
  BY <1>1, <1>2, <1>3, <1>4, <1>5 DEF RouteOK, OutOfContact

\* The threads that read the lists and choose from them.
LEMMA ReadRoutes ==
    ASSUME TypeInv, NEW t \in Threads, RouteOK(t),
           ReadPrefillers(t) \/ ReadDecoders(t) \/ Admit(t)
    PROVE  RouteOK(t)'
<1> DEFINE f == frame[t]
<1>1. /\ FrameOK(f, clock) /\ clock \in Nat /\ DOMAIN frame = Threads
      /\ UNCHANGED <<workers, clock, lost>>
  BY Zenon DEF ReadPrefillers, ReadDecoders, Admit, TypeInv, FramesOK
<1>2. ASSUME NEW g, FrameOK(g, clock),
             g.pre \cap lost[t] = {},
             \A pd \in g.cands : pd[1] \notin lost[t] /\ pd[2] \notin lost[t],
             Range(g.pair) \cap lost[t] = {}, g.then # "read",
             NEW h, frame' = [frame EXCEPT ![t] = h],
             \/ h = Done(g) \/ h = [g EXCEPT !.at = "decide"]
             \/ \E next \in {"mark", "lookup"} : \E goal : h = Sampling(g, next, goal)
      PROVE  RouteOK(t)'
  <2>1. frame'[t] = h
    BY <1>1, <1>2
  <2>2. /\ h.at \notin {"mark", "read"} /\ h.then # "read"
        /\ h.pre \subseteq g.pre /\ h.cands \subseteq g.cands /\ h.pair = g.pair
    <3>1. CASE h = Done(g)
      <4>1. h.at = "done" /\ h.then = "idle" /\ h.pre = {} /\ h.cands = {} /\ h.pair = g.pair
        BY <3>1 DEF Done, NoCall
      <4> QED
        BY <4>1
    <3>2. CASE h = [g EXCEPT !.at = "decide"]
      BY <1>1, <1>2, <3>2, AtOK
    <3>3. CASE \E next \in {"mark", "lookup"} : \E goal : h = Sampling(g, next, goal)
      BY <1>1, <1>2, <3>3, SamplingOK
    <3> QED
      BY <1>2, <3>1, <3>2, <3>3
  <2> QED
    BY <1>1, <1>2, <2>1, <2>2 DEF RouteOK, OutOfContact
<1>3. CASE ReadPrefillers(t)
  <2> DEFINE g == [f EXCEPT !.pre = Healthy("prefill")]
  <2>1. /\ FrameOK(g, clock) /\ g.pre = Healthy("prefill") /\ g.cands = f.cands
        /\ g.pair = f.pair /\ g.then = f.then
    BY <1>1 DEF FrameOK, FrameFields, Healthy, TypeInv, WorkersOK
  <2>2. g.pre \cap lost[t] = {}
    BY <1>3, <2>1 DEF ReadPrefillers, RouteOK, Healthy
  <2>3. frame' = [frame EXCEPT ![t] = Sampling(g, "mark", "decoders")]
    BY <1>3 DEF ReadPrefillers
  <2> HIDE DEF g
  <2> QED
    BY <1>2, <2>1, <2>2, <2>3 DEF RouteOK
<1>4. CASE ReadDecoders(t)
  <2>1. PICK model \in ModelIds, prefixed \in BOOLEAN :
          LET pairs == Pairs(f.pre, Healthy("decode"), model)
              g == [f EXCEPT !.cands = pairs, !.todo = IF prefixed THEN pairs ELSE {}]
          IN  frame' = [frame EXCEPT ![t] =
                          IF pairs = {} THEN Done(g)
                          ELSE IF prefixed THEN Sampling(g, "lookup", "pairs")
                          ELSE [g EXCEPT !.at = "decide"]]
    BY <1>4 DEF ReadDecoders
  <2> DEFINE pairs == Pairs(f.pre, Healthy("decode"), model)
             g == [f EXCEPT !.cands = pairs, !.todo = IF prefixed THEN pairs ELSE {}]
             h == IF pairs = {} THEN Done(g)
                  ELSE IF prefixed THEN Sampling(g, "lookup", "pairs")
                  ELSE [g EXCEPT !.at = "decide"]
  <2>2. /\ pairs \subseteq Ids \X Ids
        /\ \A pd \in pairs : pd[1] \in f.pre /\ pd[2] \in Healthy("decode")
    BY <1>1, SMTT(60) DEF Pairs, Healthy, TypeInv, WorkersOK, FrameOK
  <2>3. \A pd \in pairs : pd[1] \notin lost[t] /\ pd[2] \notin lost[t]
    BY <1>4, <2>2, Zenon DEF ReadDecoders, RouteOK, Healthy
  <2>4. /\ FrameOK(g, clock) /\ g.pre = f.pre /\ g.cands = pairs
        /\ g.pair = f.pair /\ g.then = f.then
    <3> HIDE DEF pairs
    <3> QED
      BY <1>1, <2>2 DEF FrameOK, FrameFields
  <2>5. frame' = [frame EXCEPT ![t] = h]
    BY <2>1
  <2> HIDE DEF g, pairs
  <2>6. \/ h = Done(g) \/ h = [g EXCEPT !.at = "decide"]
        \/ h = Sampling(g, "lookup", "pairs")
    OBVIOUS
  <2> HIDE DEF h
  <2> QED
    BY <1>2, <2>3, <2>4, <2>5, <2>6 DEF RouteOK
<1>5. CASE Admit(t)
  <2>1. PICK pd \in f.cands, http \in BOOLEAN :
          LET g == [f EXCEPT !.pair = pd]
          IN  frame' = [frame EXCEPT ![t] =
                          IF g.call = "completion" /\ http
                          THEN Sampling(g, "mark", "get_prefill") ELSE Done(g)]
    BY <1>5 DEF Admit
  <2> DEFINE g == [f EXCEPT !.pair = pd]
             h == IF g.call = "completion" /\ http
                  THEN Sampling(g, "mark", "get_prefill") ELSE Done(g)
  <2>2. /\ FrameOK(g, clock) /\ g.pre = f.pre /\ g.cands = f.cands
        /\ g.pair = pd /\ g.then = f.then
    BY <1>1 DEF FrameOK, FrameFields
  <2>3. Range(g.pair) \cap lost[t] = {}
    <3>1. pd \in Ids \X Ids /\ pd[1] \notin lost[t] /\ pd[2] \notin lost[t]
      BY <1>1 DEF RouteOK, FrameOK
    <3>2. Range(pd) = {pd[1], pd[2]}
      BY <3>1 DEF Range
    <3> QED
      BY <2>2, <3>1, <3>2
  <2>4. frame' = [frame EXCEPT ![t] = h]
    BY <2>1
  <2> HIDE DEF g
  <2>5. h = Done(g) \/ h = Sampling(g, "mark", "get_prefill")
    OBVIOUS
  <2> HIDE DEF h
  <2> QED
    BY <1>2, <2>2, <2>3, <2>4, <2>5 DEF RouteOK
<1> QED
  BY <1>3, <1>4, <1>5, SMTT(60)

\* The other steps of a call bring it nowhere near a scan, and add nothing to
\* what it has read and chosen.
Harmless(f, g) ==
    /\ g.at \notin {"mark", "read"} /\ g.then # "read"
    /\ g.pre \subseteq f.pre /\ g.cands \subseteq f.cands
    /\ Range(g.pair) \subseteq Range(f.pair)

LEMMA HarmlessFrames ==
    ASSUME NEW time \in Nat, NEW f, FrameOK(f, time), f.then # "read"
    PROVE  /\ Harmless(f, NoCall) /\ Harmless(f, Done(f))
           /\ \A step : step \notin {"mark", "read", "store", "insert"} =>
                Harmless(f, [f EXCEPT !.at = step])
           /\ \A next \in {"mark", "lookup"} : \A goal : Harmless(f, Sampling(f, next, goal))
<1>1. Harmless(f, NoCall)
  <2>1. Range(<< >>) = {}
    BY DEF Range
  <2> QED
    BY <2>1 DEF Harmless, NoCall
<1>2. Harmless(f, Done(f))
  <2>1. Done(f).then = "idle"
    BY DEF Done, NoCall
  <2> QED
    BY <2>1, DoneOK DEF Harmless
<1>3. ASSUME NEW step, step \notin {"mark", "read", "store", "insert"}
      PROVE  Harmless(f, [f EXCEPT !.at = step])
  BY <1>3, AtOK DEF Harmless
<1>4. ASSUME NEW next \in {"mark", "lookup"}, NEW goal
      PROVE  Harmless(f, Sampling(f, next, goal))
  BY SamplingOK DEF Harmless
<1> QED
  BY <1>1, <1>2, <1>3, <1>4

LEMMA HarmlessStep ==
    ASSUME TypeInv, NEW t \in Threads, RouteOK(t), Fades(t), clock' = clock,
           Harmless(frame[t], frame'[t])
    PROVE  RouteOK(t)'
BY RouteKept DEF Harmless, TypeInv

\* What these steps do to the frame.
LEMMA OtherFrame ==
    ASSUME TypeInv, NEW t \in Threads, RouteOK(t),
           \/ End(t) \/ StoreWorker(t) \/ InsertEntry(t)
           \/ MarkForMaintenance(t) \/ RemoveNext(t) \/ EndMaintenance(t)
           \/ ReadForView(t) \/ ListEntries(t) \/ LookupPair(t) \/ Reject(t)
           \/ GetPrefill(t) \/ GetDecode(t) \/ PostPrefill(t) \/ PostDecode(t)
    PROVE  /\ Harmless(frame[t], frame'[t])
           /\ \A u \in Threads \ {t} : frame'[u] = frame[u]
<1> DEFINE f == frame[t]
<1>1. FrameOK(f, clock) /\ clock \in Nat /\ DOMAIN frame = Threads /\ f.then # "read"
  BY DEF TypeInv, FramesOK, RouteOK
<1>2. ASSUME NEW g, frame' = [frame EXCEPT ![t] = g], Harmless(f, g)
      PROVE  /\ Harmless(f, frame'[t])
             /\ \A u \in Threads \ {t} : frame'[u] = frame[u]
  BY <1>1, <1>2
<1> HIDE DEF f
<1>3. CASE End(t)
  BY <1>1, <1>2, <1>3, HarmlessFrames DEF End, f
<1>4. CASE StoreWorker(t) \/ InsertEntry(t) \/ EndMaintenance(t) \/ ListEntries(t)
           \/ Reject(t) \/ PostDecode(t)
  <2>1. frame' = [frame EXCEPT ![t] = Done(f)]
    BY <1>4
    DEF StoreWorker, InsertEntry, EndMaintenance, ListEntries, Reject, PostDecode, Return, f
  <2> QED
    BY <1>1, <1>2, <2>1, HarmlessFrames DEF f
<1>5. CASE ReadForView(t) \/ GetDecode(t) \/ PostPrefill(t)
  <2>1. \/ frame' = [frame EXCEPT ![t] = Done(f)]
        \/ \E step \in {"entries", "post_prefill", "post_decode"} :
             frame' = [frame EXCEPT ![t] = [f EXCEPT !.at = step]]
    BY <1>5 DEF ReadForView, GetDecode, PostPrefill, Return, Goto, f
  <2> QED
    BY <1>1, <1>2, <2>1, HarmlessFrames DEF f
<1>6. CASE MarkForMaintenance(t)
  <2> DEFINE stale == Stale(f.now)
             g == [f EXCEPT !.at = "remove", !.fenced = stale, !.todo = stale]
  <2>1. frame' = [frame EXCEPT ![t] = g]
    <3>1. frame' = [frame EXCEPT ![t].at = "remove", ![t].fenced = stale, ![t].todo = stale]
      BY <1>6 DEF MarkForMaintenance, f
    <3>2. [frame EXCEPT ![t].at = "remove", ![t].fenced = stale, ![t].todo = stale]
            = [frame EXCEPT ![t] = g]
      BY <1>1 DEF f
    <3> QED
      BY <3>1, <3>2
  <2>2. Harmless(f, g)
    BY <1>1 DEF Harmless, FrameOK, FrameFields
  <2> HIDE DEF g
  <2> QED
    BY <1>2, <2>1, <2>2 DEF f
<1>7. CASE RemoveNext(t)
  <2>1. PICK w \in f.todo : frame' = [frame EXCEPT ![t].todo = @ \ {w}]
    BY <1>7 DEF RemoveNext, f
  <2> DEFINE g == [f EXCEPT !.todo = @ \ {w}]
  <2>2. frame' = [frame EXCEPT ![t] = g]
    BY <2>1 DEF f
  <2>3. f.at = "remove"
    BY <1>7 DEF RemoveNext, f
  <2>4. Harmless(f, g)
    BY <1>1, <2>3 DEF Harmless, FrameOK, FrameFields
  <2> HIDE DEF g
  <2> QED
    BY <1>2, <2>2, <2>4 DEF f
<1>8. CASE LookupPair(t)
  <2>1. PICK pd \in f.todo :
          LET g == [f EXCEPT !.todo = @ \ {pd}]
          IN  frame' = [frame EXCEPT ![t] =
                          IF g.todo = {} THEN [g EXCEPT !.at = "decide"]
                          ELSE Sampling(g, "lookup", "pairs")]
    BY <1>8 DEF LookupPair, f
  <2> DEFINE g == [f EXCEPT !.todo = @ \ {pd}]
             h == IF g.todo = {} THEN [g EXCEPT !.at = "decide"]
                  ELSE Sampling(g, "lookup", "pairs")
  <2>2. /\ FrameOK(g, clock) /\ g.then = f.then /\ g.pre = f.pre /\ g.cands = f.cands
        /\ g.pair = f.pair
    BY <1>1 DEF FrameOK, FrameFields
  <2> HIDE DEF g
  <2>3. Harmless(g, [g EXCEPT !.at = "decide"]) /\ Harmless(g, Sampling(g, "lookup", "pairs"))
    BY <1>1, <2>2, HarmlessFrames
  <2>4. Harmless(f, h)
    BY <2>2, <2>3 DEF Harmless
  <2>5. frame' = [frame EXCEPT ![t] = h]
    BY <2>1 DEF g
  <2> HIDE DEF h
  <2> QED
    BY <1>2, <2>4, <2>5 DEF f
<1>9. CASE GetPrefill(t)
  BY <1>1, <1>2, <1>9, HarmlessFrames DEF GetPrefill, f
<1> QED
  BY <1>3, <1>4, <1>5, <1>6, <1>7, <1>8, <1>9 DEF f

LEMMA InitRoutes == Init => RouteInv
<1> SUFFICES ASSUME Init, NEW t \in Threads PROVE RouteOK(t)
  BY InitTypes DEF RouteInv
<1>1. frame[t] = NoCall /\ lost[t] = {} /\ Range(<< >>) = {}
  BY DEF Init, Range
<1> QED
  BY <1>1 DEF RouteOK, NoCall

LEMMA NextRoutes == RouteInv /\ [Next]_vars => RouteInv'
<1> SUFFICES ASSUME RouteInv, [Next]_vars, NEW u \in Threads PROVE RouteOK(u)'
  BY NextTypes DEF RouteInv
<1>1. /\ TypeInv /\ RouteOK(u) /\ clock \in Nat /\ WorkersOK(clock)
      /\ DOMAIN frame = Threads /\ DOMAIN lost = Threads
      /\ \A t \in Threads : RouteOK(t)
  BY DEF RouteInv, TypeInv, FramesOK
<1>2. CASE UNCHANGED vars \/ Tick
  <2>1. UNCHANGED <<workers, lost, frame>> /\ clock' \in Nat /\ clock <= clock'
    BY <1>1, <1>2 DEF vars, Tick
  <2> QED
    BY <1>1, <2>1, NothingFades, BystanderKept
<1>3. ASSUME NEW w \in DOMAIN Fleet, Heartbeat(w) PROVE RouteOK(u)'
  <2>1. Fades(u)
    BY <1>1, <1>3, HeartbeatEffect, HearingFades DEF Heartbeat
  <2> QED
    BY <1>1, <1>3, <2>1, BystanderKept DEF Heartbeat
<1>4. ASSUME NEW t \in Threads, NEW call, NEW target, NEW next, NEW goal,
             Begin(t, call, target, next, goal), next # "read"
      PROVE  RouteOK(u)'
  <2>1. CASE u = t
    BY <1>1, <1>4, <2>1, BeginRoutes
  <2>2. CASE u # t
    <3>1. frame'[u] = frame[u] /\ lost'[u] = lost[u] /\ UNCHANGED <<workers, clock>>
      BY <1>1, <1>4, <2>2 DEF Begin
    <3> QED
      BY <1>1, <3>1, NothingFades, BystanderKept
  <2> QED
    BY <2>1, <2>2
<1>5. ASSUME NEW t \in Threads,
             \/ BeginRegister(t) \/ BeginCache(t) \/ BeginView(t)
             \/ BeginMaintenance(t) \/ BeginRoute(t)
      PROVE  RouteOK(u)'
  BY <1>4, <1>5, Zenon DEF BeginRegister, BeginCache, BeginView, BeginMaintenance, BeginRoute
<1>6. ASSUME NEW t \in Threads,
             Sample(t) \/ ReadPrefillers(t) \/ ReadDecoders(t) \/ Admit(t)
      PROVE  RouteOK(u)'
  <2>1. CASE u = t
    BY <1>1, <1>6, <2>1, SampleRoutes, ReadRoutes
  <2>2. CASE u # t
    <3>1. frame'[u] = frame[u] /\ UNCHANGED <<workers, clock, lost>>
      BY <1>1, <1>6, <2>2, Zenon DEF Sample, ReadPrefillers, ReadDecoders, Admit
    <3> QED
      BY <1>1, <3>1, NothingFades, BystanderKept
  <2> QED
    BY <2>1, <2>2
<1>7. ASSUME NEW t \in Threads, MarkForRead(t) PROVE RouteOK(u)'
  <2>1. CASE u = t
    BY <1>1, <1>7, <2>1, MarkRoutes
  <2>2. CASE u # t
    <3>1. frame'[u] = frame[u] /\ UNCHANGED <<clock, lost>> /\ FenceStale(frame[t].now)
      BY <1>1, <1>7, <2>2 DEF MarkForRead, Goto
    <3> QED
      BY <1>1, <3>1, FencingFades, BystanderKept
  <2> QED
    BY <2>1, <2>2
<1>8. ASSUME NEW t \in Threads, clock' = clock, Fades(u),
             Harmless(frame[t], frame'[t]), \A v \in Threads \ {t} : frame'[v] = frame[v]
      PROVE  RouteOK(u)'
  BY <1>1, <1>8, HarmlessStep, BystanderKept
<1>9. ASSUME NEW t \in Threads, StoreWorker(t) PROVE RouteOK(u)'
  <2>1. PICK w \in frame[t].target : RegisterWorker(w, Fleet[w], frame[t].now) /\ HeardFrom(w)
    BY <1>9 DEF StoreWorker
  <2>2. w \in Ids /\ frame[t].now \in Nat /\ frame[t].now <= clock
    BY <1>1, <1>9 DEF StoreWorker, TypeInv, FramesOK, FrameOK
  <2>3. Fades(u)
    BY <1>1, <2>1, <2>2, RegisterEffect, HearingFades
  <2> QED
    BY <1>1, <1>8, <1>9, <2>3, OtherFrame DEF StoreWorker
<1>10. ASSUME NEW t \in Threads, MarkForMaintenance(t) PROVE RouteOK(u)'
  <2>1. Fades(u) /\ clock' = clock
    BY <1>1, <1>10, FencingFades DEF MarkForMaintenance
  <2> QED
    BY <1>1, <1>8, <1>10, <2>1, OtherFrame
<1>11. ASSUME NEW t \in Threads, End(t) PROVE RouteOK(u)'
  <2>1. lost'[u] \subseteq lost[u] /\ UNCHANGED <<workers, clock>>
    BY <1>1, <1>11 DEF End
  <2> QED
    BY <1>1, <1>8, <1>11, <2>1, NothingFades, OtherFrame
<1>12. ASSUME NEW t \in Threads,
              \/ InsertEntry(t) \/ RemoveNext(t) \/ EndMaintenance(t)
              \/ ReadForView(t) \/ ListEntries(t) \/ LookupPair(t) \/ Reject(t)
              \/ GetPrefill(t) \/ GetDecode(t) \/ PostPrefill(t) \/ PostDecode(t)
       PROVE  RouteOK(u)'
  <2>1. UNCHANGED <<workers, clock, lost>>
    BY <1>12 DEF InsertEntry, RemoveNext, EndMaintenance, ReadForView, ListEntries,
                 LookupPair, Reject, GetPrefill, GetDecode, PostPrefill, PostDecode
  <2> QED
    BY <1>1, <1>8, <1>12, <2>1, NothingFades, OtherFrame, SMTT(60)
<1> QED
  BY <1>2, <1>3, <1>5, <1>6, <1>7, <1>9, <1>10, <1>11, <1>12 DEF Next

\* However the two snapshots, the lookups and the reads of the executor
\* interleave with other calls, no request is placed on a worker that was out
\* of contact when it came in and has not been heard from since
\* (router.py:34-66, executor.py:44-69).
THEOREM RoutesAvoidLostWorkers == Spec => []RoutesAvoidLost
<1>1. RouteInv => RoutesAvoidLost
  BY DEF RouteInv, RouteOK, RoutesAvoidLost
<1> QED
  BY <1>1, InitRoutes, NextRoutes, PTL DEF Spec

-----------------------------------------------------------------------------
(* The maintenance call                                                    *)

\* What a maintenance call still owes is at the workers it has yet to go to.
MaintenanceOK(t) ==
    frame[t].call = "fence" =>
      /\ \/ frame[t].at = "sample" /\ frame[t].then = "mark" /\ frame[t].goal = "fence"
         \/ frame[t].at = "mark" /\ frame[t].goal = "fence"
         \/ frame[t].at \in {"remove", "done"}
      /\ frame[t].at = "remove" =>
           \A k \in owed[t] \cap DOMAIN entries :
             k.location \in frame[t].fenced => k.location \in frame[t].todo
      /\ frame[t].at = "done" =>
           \A k \in owed[t] \cap DOMAIN entries : k.location \notin frame[t].fenced

MaintenanceInv == TypeInv /\ \A t \in Threads : MaintenanceOK(t)

\* A step of another thread: what is owed and still there was so before.
LEMMA OwedKept ==
    ASSUME NEW t \in Threads, MaintenanceOK(t), frame'[t] = frame[t],
           owed'[t] \cap DOMAIN entries' \subseteq owed[t] \cap DOMAIN entries
    PROVE  MaintenanceOK(t)'
BY DEF MaintenanceOK

\* A step of the call itself, when it is another call.
LEMMA OtherCall ==
    ASSUME NEW t \in Threads, frame'[t].call # "fence" PROVE MaintenanceOK(t)'
BY DEF MaintenanceOK

\* The steps that no maintenance call takes.
ForeignStep(t) ==
    \/ StoreWorker(t) \/ InsertEntry(t) \/ MarkForRead(t)
    \/ ReadForView(t) \/ ListEntries(t)
    \/ ReadPrefillers(t) \/ ReadDecoders(t) \/ LookupPair(t) \/ Reject(t) \/ Admit(t)
    \/ GetPrefill(t) \/ GetDecode(t) \/ PostPrefill(t) \/ PostDecode(t)

LEMMA ForeignCall ==
    ASSUME TypeInv, NEW t \in Threads, MaintenanceOK(t), ForeignStep(t)
    PROVE  /\ frame'[t].call # "fence"
           /\ \A u \in Threads \ {t} : frame'[u] = frame[u]
<1> DEFINE f == frame[t]
<1>1. FrameOK(f, clock) /\ clock \in Nat /\ DOMAIN frame = Threads
  BY SMTT(60) DEF TypeInv, FramesOK
<1>2. f.call # "fence"
  BY Zenon DEF ForeignStep, MaintenanceOK, StoreWorker, InsertEntry, MarkForRead, ReadForView,
         ListEntries, ReadPrefillers, ReadDecoders, LookupPair, Reject, Admit,
         GetPrefill, GetDecode, PostPrefill, PostDecode
<1>3. ASSUME NEW g, frame' = [frame EXCEPT ![t] = g], g.call = f.call
      PROVE  /\ frame'[t].call # "fence"
             /\ \A u \in Threads \ {t} : frame'[u] = frame[u]
  BY <1>1, <1>2, <1>3
<1>4. ASSUME NEW g, FrameOK(g, clock), g.call = f.call
      PROVE  /\ Done(g).call = f.call
             /\ \A step : step \notin {"store", "insert"} => [g EXCEPT !.at = step].call = f.call
             /\ \A next : next \notin {"store", "insert"} =>
                  \A goal : Sampling(g, next, goal).call = f.call
  BY <1>1, <1>4, DoneOK, AtOK, SamplingOK
<1> HIDE DEF f
<1>5. CASE StoreWorker(t) \/ InsertEntry(t) \/ ListEntries(t) \/ Reject(t) \/ PostDecode(t)
  <2>1. frame' = [frame EXCEPT ![t] = Done(f)]
    BY <1>5 DEF StoreWorker, InsertEntry, ListEntries, Reject, PostDecode, Return, f
  <2> DEFINE h == Done(f)
  <2>2. h.call = f.call
    BY <1>1, <1>4
  <2>3. frame' = [frame EXCEPT ![t] = h]
    BY <2>1
  <2> HIDE DEF h
  <2> QED
    BY <1>3, <2>2, <2>3
<1>6. CASE MarkForRead(t) \/ ReadForView(t) \/ GetDecode(t) \/ PostPrefill(t)
  <2>1. \/ frame' = [frame EXCEPT ![t] = Done(f)]
        \/ \E step \in {"read", "entries", "post_prefill", "post_decode"} :
             frame' = [frame EXCEPT ![t] = [f EXCEPT !.at = step]]
    BY <1>6 DEF MarkForRead, ReadForView, GetDecode, PostPrefill, Return, Goto, f
  <2>2. PICK h : h.call = f.call /\ frame' = [frame EXCEPT ![t] = h]
    <3>1. Done(f).call = f.call
      BY <1>1, <1>4
    <3>2. \A step \in {"read", "entries", "post_prefill", "post_decode"} :
            [f EXCEPT !.at = step].call = f.call
      BY <1>1, <1>4
    <3> QED
      BY <2>1, <3>1, <3>2
  <2> QED
    BY <1>3, <2>2
<1>7. CASE ReadPrefillers(t)
  <2> DEFINE g == [f EXCEPT !.pre = Healthy("prefill")]
  <2>1. FrameOK(g, clock) /\ g.call = f.call
    BY <1>1 DEF FrameOK, FrameFields, Healthy, TypeInv, WorkersOK
  <2> DEFINE h == Sampling(g, "mark", "decoders")
  <2>2. frame' = [frame EXCEPT ![t] = h]
    BY <1>7 DEF ReadPrefillers, f
  <2> HIDE DEF g
  <2>3. h.call = f.call
    BY <1>4, <2>1
  <2> HIDE DEF h
  <2> QED
    BY <1>3, <2>2, <2>3
<1>8. CASE ReadDecoders(t)
  <2>1. PICK model \in ModelIds, prefixed \in BOOLEAN :
          LET pairs == Pairs(f.pre, Healthy("decode"), model)
              g == [f EXCEPT !.cands = pairs, !.todo = IF prefixed THEN pairs ELSE {}]
          IN  frame' = [frame EXCEPT ![t] =
                          IF pairs = {} THEN Done(g)
                          ELSE IF prefixed THEN Sampling(g, "lookup", "pairs")
                          ELSE [g EXCEPT !.at = "decide"]]
    BY <1>8 DEF ReadDecoders, f
  <2> DEFINE pairs == Pairs(f.pre, Healthy("decode"), model)
             g == [f EXCEPT !.cands = pairs, !.todo = IF prefixed THEN pairs ELSE {}]
             h == IF pairs = {} THEN Done(g)
                  ELSE IF prefixed THEN Sampling(g, "lookup", "pairs")
                  ELSE [g EXCEPT !.at = "decide"]
  <2>2. pairs \subseteq Ids \X Ids
    BY <1>1 DEF Pairs, Healthy, TypeInv, WorkersOK, FrameOK
  <2>3. FrameOK(g, clock) /\ g.call = f.call
    <3> HIDE DEF pairs
    <3> QED
      BY <1>1, <2>2 DEF FrameOK, FrameFields
  <2>4. frame' = [frame EXCEPT ![t] = h]
    BY <2>1
  <2> HIDE DEF g, pairs
  <2>5. h.call = f.call
    BY <1>4, <2>3
  <2> HIDE DEF h
  <2> QED
    BY <1>3, <2>4, <2>5
<1>9. CASE LookupPair(t)
  <2>1. PICK pd \in f.todo :
          LET g == [f EXCEPT !.todo = @ \ {pd}]
          IN  frame' = [frame EXCEPT ![t] =
                          IF g.todo = {} THEN [g EXCEPT !.at = "decide"]
                          ELSE Sampling(g, "lookup", "pairs")]
    BY <1>9 DEF LookupPair, f
  <2> DEFINE g == [f EXCEPT !.todo = @ \ {pd}]
  <2>2. FrameOK(g, clock) /\ g.call = f.call
    BY <1>1 DEF FrameOK, FrameFields
  <2>3. \/ frame' = [frame EXCEPT ![t] = [g EXCEPT !.at = "decide"]]
        \/ frame' = [frame EXCEPT ![t] = Sampling(g, "lookup", "pairs")]
    BY <2>1
  <2> HIDE DEF g
  <2>4. PICK h : h.call = f.call /\ frame' = [frame EXCEPT ![t] = h]
    <3>1. [g EXCEPT !.at = "decide"].call = f.call
      BY <1>4, <2>2
    <3>2. Sampling(g, "lookup", "pairs").call = f.call
      BY <1>4, <2>2
    <3> QED
      BY <2>3, <3>1, <3>2
  <2> QED
    BY <1>3, <2>4
<1>10. CASE Admit(t)
  <2>1. PICK pd \in f.cands, http \in BOOLEAN :
          LET g == [f EXCEPT !.pair = pd]
          IN  frame' = [frame EXCEPT ![t] =
                          IF g.call = "completion" /\ http
                          THEN Sampling(g, "mark", "get_prefill") ELSE Done(g)]
    BY <1>10 DEF Admit, f
  <2> DEFINE g == [f EXCEPT !.pair = pd]
  <2>2. FrameOK(g, clock) /\ g.call = f.call
    BY <1>1 DEF FrameOK, FrameFields
  <2>3. \/ frame' = [frame EXCEPT ![t] = Done(g)]
        \/ frame' = [frame EXCEPT ![t] = Sampling(g, "mark", "get_prefill")]
    BY <2>1
  <2> HIDE DEF g
  <2>4. PICK h : h.call = f.call /\ frame' = [frame EXCEPT ![t] = h]
    <3>1. Done(g).call = f.call
      BY <1>4, <2>2
    <3>2. Sampling(g, "mark", "get_prefill").call = f.call
      BY <1>4, <2>2
    <3> QED
      BY <2>3, <3>1, <3>2
  <2> QED
    BY <1>3, <2>4
<1>11. CASE GetPrefill(t)
  <2> DEFINE h == Sampling(f, "mark", "get_decode")
  <2>1. h.call = f.call
    BY <1>1, <1>4
  <2>2. frame' = [frame EXCEPT ![t] = h]
    BY <1>11 DEF GetPrefill, f
  <2> HIDE DEF h
  <2> QED
    BY <1>3, <2>1, <2>2
<1> QED
  BY <1>5, <1>6, <1>7, <1>8, <1>9, <1>10, <1>11 DEF ForeignStep

\* The entries and the debts after a step of thread t, for everybody else.
LEMMA OthersOwed ==
    ASSUME TypeInv, NEW t \in Threads,
           ForeignStep(t) \/ QuietStep(t) \/ End(t) \/ MarkForMaintenance(t) \/ RemoveNext(t),
           NEW u \in Threads \ {t}
    PROVE  owed'[u] \cap DOMAIN entries' \subseteq owed[u] \cap DOMAIN entries
<1>1. EntriesOK /\ DOMAIN owed = Threads
  BY DEF TypeInv
<1>2. CASE StoreWorker(t)
  BY <1>2 DEF StoreWorker, HeardFrom, directory
<1>3. CASE InsertEntry(t)
  <2>1. PICK k \in frame[t].target :
          /\ Insert(k, NewEntry(Fleet[k.location].layout, 1, frame[t].now, TTL))
          /\ owed' = [v \in Threads |-> owed[v] \ {k}]
    BY <1>3 DEF InsertEntry
  <2>2. k \in Keys /\ frame[t].now \in Nat
    BY <1>3 DEF InsertEntry, TypeInv, FramesOK, FrameOK
  <2>3. DOMAIN entries' \subseteq DOMAIN entries \cup {k}
    BY <1>1, <2>1, <2>2, EntryAdded
  <2> QED
    BY <2>1, <2>3
<1>4. CASE ListEntries(t) \/ LookupPair(t)
  <2>1. owed' = owed /\ \E now : EvictExpired(now)
    BY <1>4 DEF ListEntries, LookupPair
  <2> QED
    BY <1>1, <2>1, EntriesLeft DEF EvictExpired
<1>5. CASE RemoveNext(t)
  <2>1. owed' = owed /\ \E w : RemoveLocation(w)
    BY <1>5 DEF RemoveNext
  <2> QED
    BY <1>1, <2>1, EntriesLeft DEF RemoveLocation
<1>6. CASE QuietStep(t)
  BY <1>6, QuietFrame DEF directory
<1>7. CASE MarkForRead(t)
  BY <1>7 DEF MarkForRead, directory
<1>8. CASE MarkForMaintenance(t)
  BY <1>1, <1>8 DEF MarkForMaintenance, directory
<1>9. CASE End(t)
  BY <1>1, <1>9 DEF End, directory
<1> QED
  BY <1>2, <1>3, <1>4, <1>5, <1>6, <1>7, <1>8, <1>9 DEF ForeignStep, QuietStep

\* What the debts of the others are is all that a step of thread t does to
\* their maintenance calls.
LEMMA OthersKept ==
    ASSUME MaintenanceInv, NEW t \in Threads, NEW u \in Threads \ {t},
           frame'[u] = frame[u],
           owed'[u] \cap DOMAIN entries' \subseteq owed[u] \cap DOMAIN entries
    PROVE  MaintenanceOK(u)'
BY OwedKept DEF MaintenanceInv

LEMMA InitMaintenance == Init => MaintenanceInv
<1> SUFFICES ASSUME Init, NEW t \in Threads PROVE MaintenanceOK(t)
  BY InitTypes DEF MaintenanceInv
<1> QED
  BY DEF Init, NoCall, MaintenanceOK

LEMMA NextMaintenance == MaintenanceInv /\ [Next]_vars => MaintenanceInv'
<1> SUFFICES ASSUME MaintenanceInv, [Next]_vars, NEW u \in Threads
             PROVE  MaintenanceOK(u)'
  BY NextTypes DEF MaintenanceInv
<1> DEFINE f == frame[u]
<1>1. /\ TypeInv /\ MaintenanceOK(u) /\ EntriesOK
      /\ FrameOK(f, clock) /\ clock \in Nat
      /\ DOMAIN frame = Threads /\ DOMAIN owed = Threads
  BY DEF MaintenanceInv, TypeInv, FramesOK
<1>2. CASE UNCHANGED vars
  BY <1>1, <1>2, OwedKept DEF vars, directory
<1>3. CASE Tick
  BY <1>1, <1>3, OwedKept DEF Tick, directory
<1>4. ASSUME NEW w \in DOMAIN Fleet, Heartbeat(w) PROVE MaintenanceOK(u)'
  <2>1. frame' = frame /\ entries' = entries /\ owed'[u] \subseteq owed[u]
    BY <1>4 DEF Heartbeat, HeardFrom, directory
  <2> QED
    BY <1>1, <2>1, OwedKept
<1>5. ASSUME NEW t \in Threads, NEW call, NEW target, NEW goal,
             NEW next, Begin(t, call, target, next, goal),
             call = "fence" => next = "mark" /\ goal = "fence"
      PROVE  MaintenanceOK(u)'
  <2>1. /\ owed' = owed /\ entries' = entries /\ frame[t] = NoCall
        /\ frame' = [frame EXCEPT ![t] =
             Sampling([NoCall EXCEPT !.call = call, !.target = target], next, goal)]
    BY <1>5 DEF Begin, directory
  <2>2. CASE u = t
    <3>1. /\ frame'[u].call = call /\ frame'[u].at = "sample"
          /\ frame'[u].then = next /\ frame'[u].goal = goal
      BY <1>1, <2>1, <2>2 DEF Sampling, NoCall
    <3> QED
      BY <1>5, <3>1 DEF MaintenanceOK
  <2>3. CASE u # t
    BY <1>1, <2>1, <2>3, OwedKept
  <2> QED
    BY <2>2, <2>3
<1>6. ASSUME NEW t \in Threads, ForeignStep(t) PROVE MaintenanceOK(u)'
  <2>1. frame'[t].call # "fence" /\ \A v \in Threads \ {t} : frame'[v] = frame[v]
    BY <1>1, <1>6, ForeignCall DEF MaintenanceInv
  <2>2. CASE u = t
    BY <2>1, <2>2, OtherCall
  <2>3. CASE u # t
    BY <1>1, <1>6, <2>1, <2>3, OthersOwed, OthersKept
  <2> QED
    BY <2>2, <2>3
<1>7. ASSUME NEW t \in Threads, Sample(t) \/ EndMaintenance(t) PROVE MaintenanceOK(u)'
  <2>1. QuietStep(t) /\ owed' = owed /\ entries' = entries
    BY <1>7 DEF QuietStep, Sample, EndMaintenance, directory
  <2>2. CASE u # t
    <3>1. frame'[u] = frame[u]
      BY <1>1, <1>7, <2>2 DEF Sample, EndMaintenance, Return
    <3> QED
      BY <2>1, <2>2, <3>1, OthersKept
  <2>3. CASE u = t /\ Sample(t)
    <3>1. /\ frame'[u].call = f.call /\ frame'[u].at = f.then
          /\ frame'[u].goal = f.goal /\ f.at = "sample"
      BY <1>1, <2>3 DEF Sample, FrameOK, FrameFields
    <3> QED
      BY <1>1, <3>1 DEF MaintenanceOK
  <2>4. CASE u = t /\ EndMaintenance(t)
    <3>1. f.at = "remove" /\ f.todo = {} /\ frame'[u] = Done(f)
      BY <1>1, <2>4 DEF EndMaintenance, Return
    <3>2. Done(f).call = f.call /\ Done(f).at = "done" /\ Done(f).fenced = f.fenced
      BY <1>1, DoneOK
    <3> QED
      BY <1>1, <2>1, <3>1, <3>2 DEF MaintenanceOK
  <2> QED
    BY <1>7, <2>2, <2>3, <2>4
<1>8. ASSUME NEW t \in Threads, End(t) PROVE MaintenanceOK(u)'
  <2>1. CASE u = t
    BY <1>1, <1>8, <2>1, OtherCall DEF End, NoCall
  <2>2. CASE u # t
    <3>1. frame'[u] = frame[u]
      BY <1>8, <2>2 DEF End
    <3> QED
      BY <1>1, <1>8, <2>2, <3>1, OthersOwed, OthersKept
  <2> QED
    BY <2>1, <2>2
<1>9. ASSUME NEW t \in Threads, MarkForMaintenance(t) PROVE MaintenanceOK(u)'
  <2>1. CASE u = t
    <3>1. \E stale : /\ frame'[u].at = "remove"
                     /\ frame'[u].fenced = stale /\ frame'[u].todo = stale
      <4>1. frame' = [frame EXCEPT ![t].at = "remove", ![t].fenced = Stale(f.now),
                                   ![t].todo = Stale(f.now)]
        BY <1>9, <2>1 DEF MarkForMaintenance
      <4> HIDE DEF f
      <4>2. "at" \in DOMAIN frame[t] /\ "fenced" \in DOMAIN frame[t] /\ "todo" \in DOMAIN frame[t]
        BY <1>1, <2>1 DEF FrameOK, FrameFields, f
      <4> QED
        BY <1>1, <2>1, <4>1, <4>2
    <3> QED
      BY <3>1 DEF MaintenanceOK
  <2>2. CASE u # t
    <3>1. frame'[u] = frame[u]
      <4>1. \E stale : frame' = [frame EXCEPT ![t].at = "remove", ![t].fenced = stale,
                                             ![t].todo = stale]
        BY <1>9 DEF MarkForMaintenance
      <4> QED
        BY <1>1, <2>2, <4>1
    <3> QED
      BY <1>1, <1>9, <2>2, <3>1, OthersOwed, OthersKept
  <2> QED
    BY <2>1, <2>2
<1>10. ASSUME NEW t \in Threads, RemoveNext(t) PROVE MaintenanceOK(u)'
  <2>1. CASE u = t
    <3>1. PICK w \in f.todo : /\ f.at = "remove" /\ RemoveLocation(w)
                              /\ frame' = [frame EXCEPT ![u].todo = @ \ {w}]
      BY <1>10, <2>1 DEF RemoveNext
    <3>2. /\ owed' = owed
          /\ DOMAIN entries' = DOMAIN entries \ {k \in DOMAIN entries : k.location = w}
      BY <1>1, <1>10, <3>1, EntriesLeft DEF RemoveNext, RemoveLocation, LocatedAt
    <3>3. /\ frame'[u].todo = f.todo \ {w} /\ frame'[u].at = "remove"
          /\ frame'[u].call = f.call /\ frame'[u].fenced = f.fenced
      BY <1>1, <3>1 DEF FrameOK, FrameFields
    <3> QED
      BY <1>1, <3>1, <3>2, <3>3 DEF MaintenanceOK
  <2>2. CASE u # t
    <3>1. frame'[u] = frame[u]
      BY <1>10, <2>2 DEF RemoveNext
    <3> QED
      BY <1>1, <1>10, <2>2, <3>1, OthersOwed, OthersKept
  <2> QED
    BY <2>1, <2>2
<1>11. ASSUME NEW t \in Threads, BeginRegister(t) \/ BeginCache(t) PROVE MaintenanceOK(u)'
  BY <1>5, <1>11 DEF BeginRegister, BeginCache
<1>12. ASSUME NEW t \in Threads, BeginView(t) \/ BeginMaintenance(t) \/ BeginRoute(t)
       PROVE  MaintenanceOK(u)'
  BY <1>5, <1>12 DEF BeginView, BeginMaintenance, BeginRoute
<1> QED
  BY <1>2, <1>3, <1>4, <1>6, <1>7, <1>8, <1>9, <1>10, <1>11, <1>12 DEF Next, ForeignStep

\* When a maintenance call returns, the entries that the workers it fenced had
\* at its scan are gone, registered anew, or of a worker heard from since:
\* whatever the other calls do between the turns of the loop that takes them
\* out of the directory (fence_stale_workers, control.py:42-49).
THEOREM FencedEntriesInvalidated == Spec => []FencedInvalidated
<1>1. MaintenanceInv => FencedInvalidated
  BY DEF MaintenanceInv, MaintenanceOK, FencedInvalidated
<1> QED
  BY <1>1, InitMaintenance, NextMaintenance, PTL DEF Spec
=============================================================================
