--------------------------- MODULE PDProxyProofs ---------------------------
(***************************************************************************)
(* Proofs about PDProxy, for any set of requests, any slot counts and any  *)
(* combination of faults.                                                  *)
(***************************************************************************)
EXTENDS PDProxy, WeightsProofs

-----------------------------------------------------------------------------
(* Type correctness                                                        *)

LEMMA PopAndReleaseType ==
    ASSUME TypeOK, NEW r \in Requests, PopAndRelease(r), counter' = counter
    PROVE  /\ DOMAIN notifications' \subseteq 1 .. counter'
           /\ notifications' \in [DOMAIN notifications' -> Requests]
           /\ available' \in 0 .. Capacity
           /\ waiters' \subseteq Requests
<1>1. need[r] \in Nat /\ Capacity \in Nat /\ available \in 0 .. Capacity
  BY CapacityAssumption DEF TypeOK
<1>2. available' \in 0 .. Capacity
  BY <1>1 DEF PopAndRelease, Release, Freed
<1>3. waiters' \subseteq Requests
  BY DEF PopAndRelease, Release
<1>4. /\ DOMAIN notifications' \subseteq DOMAIN notifications
      /\ notifications' \in [DOMAIN notifications' -> Requests]
  BY DEF PopAndRelease, Restrict, TypeOK
<1> QED
  BY <1>2, <1>3, <1>4 DEF TypeOK

LEMMA RegisterType ==
    ASSUME NEW f, NEW n \in Nat, NEW r \in Requests,
           DOMAIN f \subseteq 1 .. n, f \in [DOMAIN f -> Requests]
    PROVE  LET g == Put(f, n + 1, r)
           IN  /\ DOMAIN g = DOMAIN f \cup {n + 1}
               /\ DOMAIN g \subseteq 1 .. (n + 1)
               /\ g \in [DOMAIN g -> Requests]
               /\ g[n + 1] = r
               /\ \A i \in DOMAIN f : g[i] = f[i]
BY DEF Put

LEMMA InitType == Init => TypeOK
BY CapacityAssumption DEF Init, SemaphoreInit, TypeOK, Stages, Messages

LEMMA NextType == TypeOK /\ [Next]_vars => TypeOK'
<1> SUFFICES ASSUME TypeOK, [Next]_vars PROVE TypeOK'
  OBVIOUS
<1> USE DEF Stages, Ended
<1>1. CASE UNCHANGED vars
  BY <1>1 DEF TypeOK, vars, taskVars, eventVars, dataPlane, semaphore
<1>2. ASSUME NEW r \in Requests, Arrive(r) PROVE TypeOK'
  BY <1>2 DEF TypeOK, Arrive, Goto, eventVars, dataPlane, semaphore
<1>3. ASSUME NEW r \in Requests,
             \/ Refuse(r) \/ PrefillReply(r) \/ PrefillBadReply(r)
             \/ FirstChunkTaken(r) \/ DropBeforeWait(r) \/ DecodeEnds(r)
      PROVE  TypeOK'
  BY <1>3 DEF TypeOK, Refuse, PrefillReply, PrefillBadReply, FirstChunkTaken,
              DropBeforeWait, DecodeEnds, Goto, eventVars, dataPlane, semaphore
<1>4. ASSUME NEW r \in Requests, Tokenized(r) PROVE TypeOK'
  BY <1>4, NeedsAssumption
  DEF TypeOK, Tokenized, Goto, eventVars, dataPlane, semaphore
<1>5. ASSUME NEW r \in Requests, Admit(r) PROVE TypeOK'
  <2>1. /\ counter' = counter + 1 /\ counter' \in Nat
        /\ notifications' = Put(notifications, counter + 1, r)
    BY <1>5 DEF TypeOK, Admit
  <2>2. /\ DOMAIN notifications' \subseteq 1 .. counter'
        /\ notifications' \in [DOMAIN notifications' -> Requests]
    BY <2>1, RegisterType DEF TypeOK
  <2>3. available' \in 0 .. Capacity /\ waiters' \subseteq Requests
    BY <1>5, CapacityAssumption DEF TypeOK, Admit, Acquire
  <2>4. id' \in [Requests -> Nat] /\ inflight' \subseteq Messages
    BY <1>5, <2>1 DEF TypeOK, Admit, Transfer, Messages
  <2> QED
    BY <1>5, <2>1, <2>2, <2>3, <2>4 DEF TypeOK, Admit, Goto
<1>6. ASSUME NEW r \in Requests, AwaitSlots(r) PROVE TypeOK'
  BY <1>6 DEF TypeOK, AwaitSlots, Sleep, taskVars, eventVars, dataPlane
<1>7. ASSUME NEW r \in Requests,
             PrefillError(r) \/ DropInWait(r) \/ Ready(r) \/ Timeout(r)
      PROVE  TypeOK'
  <2>1. PopAndRelease(r) /\ counter' = counter
    BY <1>7 DEF PrefillError, DropInWait, Ready, Timeout
  <2>2. /\ pc' \in [Requests -> Stages]
        /\ UNCHANGED <<streamed, need, id, ready, inflight, wire, moved, restarts>>
    BY <1>7 DEF TypeOK, PrefillError, DropInWait, Ready, Timeout, Goto, dataPlane
  <2> QED
    BY <2>1, <2>2, PopAndReleaseType DEF TypeOK
<1>8. ASSUME NEW m \in inflight, Transferred(m) PROVE TypeOK'
  BY <1>8 DEF TypeOK, Transferred, Messages, taskVars, eventVars, semaphore
<1>9. ASSUME NEW m \in wire, ServeNotification(m) PROVE TypeOK'
  BY <1>9 DEF TypeOK, ServeNotification, Messages, taskVars, semaphore
<1>10. ASSUME Restart PROVE TypeOK'
  BY <1>10, CapacityAssumption DEF TypeOK, Restart
<1>11. CASE Idle
  BY <1>1, <1>11 DEF Idle
<1> QED
  BY <1>1, <1>2, <1>3, <1>4, <1>5, <1>6, <1>7, <1>8, <1>9, <1>10, <1>11
  DEF Next, TaskStep

\* The variables keep the shape the code gives them, whatever the faults.
THEOREM TypeCorrect == Spec => []TypeOK
BY InitType, NextType, PTL DEF Spec

-----------------------------------------------------------------------------
(* The inductive invariant behind SlotsBalance and NoLostWakeup.  A release *)
(* is exact only if the released task is the one registered under its id,   *)
(* hence Registration.                                                      *)

SlotsInv ==
    /\ TypeOK
    /\ Registration
    /\ IsFiniteSet(Units(Holders))
    /\ SlotsBalance
    /\ NoLostWakeup

LEMMA NoUnits == UnitsOf({}, need) = {} /\ IsFiniteSet({}) /\ Cardinality({}) = 0
BY FS_EmptySet DEF UnitsOf

LEMMA InitSlots == Init => SlotsInv
<1> SUFFICES ASSUME Init PROVE SlotsInv
  OBVIOUS
<1>1. TypeOK
  BY InitType
<1>2. Holders = {}
  BY DEF Init, Holders, Range
<1>3. Registration /\ NoLostWakeup
  BY DEF Init, SemaphoreInit, Registration, NoLostWakeup
<1>4. available = Capacity /\ Capacity \in Nat
  BY CapacityAssumption DEF Init, SemaphoreInit
<1>5. Units(Holders) = {}
  BY <1>2, NoUnits DEF Units
<1>6. IsFiniteSet(Units(Holders)) /\ Cardinality(Units(Holders)) = 0
  BY <1>5, NoUnits
<1> QED
  BY <1>1, <1>3, <1>4, <1>6 DEF SlotsInv, SlotsBalance

\* The release of a registered task gives back exactly its own slots.
LEMMA PopAndReleaseSlots ==
    ASSUME SlotsInv, TypeOK', NEW r \in Requests, PopAndRelease(r),
           pc[r] \in {"prefill", "respond", "wait"},
           UNCHANGED <<need, id>>,
           NEW stage \in {"answered", "gone", "decode"}, Goto(r, stage)
    PROVE  SlotsInv'
<1> USE DEF SlotsInv
<1>1. id[r] \in DOMAIN notifications /\ notifications[id[r]] = r
  BY DEF Registration
<1>2. /\ DOMAIN notifications' = DOMAIN notifications \ {id[r]}
      /\ \A i \in DOMAIN notifications' : notifications'[i] = notifications[i]
  BY DEF PopAndRelease, Restrict
<1>3. pc' = [pc EXCEPT ![r] = stage]
  BY DEF Goto
<1>4. Registration'
  BY <1>1, <1>2, <1>3 DEF Registration, TypeOK
<1>5. Holders' = Holders \ {r} /\ r \in Holders
  BY <1>1, <1>2 DEF Holders, Range, Registration
<1>6. need[r] \in Nat /\ available \in Nat /\ Capacity \in Nat
  BY CapacityAssumption DEF TypeOK
<1>7. /\ IsFiniteSet(UnitsOf(Holders \ {r}, need))
      /\ Cardinality(UnitsOf(Holders, need))
           = Cardinality(UnitsOf(Holders \ {r}, need)) + need[r]
  BY <1>5, <1>6, RemoveUnits DEF Units
<1>8. Units(Holders)' = UnitsOf(Holders \ {r}, need)
  BY <1>5 DEF Units
<1>9. Cardinality(UnitsOf(Holders \ {r}, need)) \in Nat
  BY <1>7, FS_CardinalityType
<1>10. SlotsBalance'
  BY <1>6, <1>7, <1>8, <1>9 DEF SlotsBalance, Units, PopAndRelease, Release, Freed
<1>11. NoLostWakeup'
  BY DEF NoLostWakeup, PopAndRelease, Release
<1> QED
  BY <1>4, <1>7, <1>8, <1>10, <1>11

LEMMA NextSlots == SlotsInv /\ [Next]_vars => SlotsInv'
<1> SUFFICES ASSUME SlotsInv, [Next]_vars PROVE SlotsInv'
  OBVIOUS
<1> USE DEF SlotsInv
<1>1. TypeOK'
  BY NextType
<1>2. CASE UNCHANGED vars
  BY <1>1, <1>2
  DEF Registration, SlotsBalance, NoLostWakeup, Units, Holders,
      vars, taskVars, eventVars, semaphore
<1>3. ASSUME NEW r \in Requests,
             \/ Arrive(r) \/ Refuse(r) \/ PrefillReply(r) \/ PrefillBadReply(r)
             \/ FirstChunkTaken(r) \/ DropBeforeWait(r) \/ DecodeEnds(r)
      PROVE  SlotsInv'
  <2>1. /\ UNCHANGED <<need, id, notifications, available, waiters>>
        /\ pc[r] # "acquire"
        /\ \E s \in Stages : Goto(r, s) /\ s # "idle" /\ s # "acquire"
        /\ pc'[r] \in {"prefill", "respond", "wait"} =>
             pc[r] \in {"prefill", "respond", "wait"}
        /\ pc'[r] = "tokenize" => pc[r] = "idle"
    BY <1>3 DEF TypeOK, Arrive, Refuse, PrefillReply, PrefillBadReply, FirstChunkTaken,
       DropBeforeWait, DecodeEnds, Goto, Stages, eventVars, semaphore
  <2>2. Registration' /\ NoLostWakeup'
    BY <2>1 DEF Registration, NoLostWakeup, TypeOK, Goto
  <2> QED
    BY <1>1, <2>1, <2>2 DEF SlotsBalance, Units, Holders
<1>4. ASSUME NEW r \in Requests, Tokenized(r) PROVE SlotsInv'
  <2>1. /\ pc[r] = "tokenize" /\ id[r] = 0
        /\ UNCHANGED <<id, notifications, available, waiters>>
        /\ \E s \in {"answered", "acquire"} : pc' = [pc EXCEPT ![r] = s]
        /\ \A q \in Requests : q # r => need'[q] = need[q]
    <3>1. PICK n \in Needs : /\ need' = [need EXCEPT ![r] = n]
                             /\ Goto(r, IF Oversize(n) THEN "answered" ELSE "acquire")
      BY <1>4 DEF Tokenized
    <3>2. pc[r] = "tokenize" /\ UNCHANGED <<id, notifications, available, waiters>>
      BY <1>4 DEF Tokenized, eventVars, semaphore
    <3>3. \E s \in {"answered", "acquire"} : pc' = [pc EXCEPT ![r] = s]
      BY <3>1 DEF Goto
    <3>4. \A q \in Requests : q # r => need'[q] = need[q]
      BY <3>1 DEF TypeOK
    <3> QED
      BY <3>2, <3>3, <3>4 DEF Registration
  <2>2. r \notin waiters
    BY <2>1 DEF NoLostWakeup
  <2>3. r \notin Holders /\ Holders \subseteq Requests
    BY <2>1 DEF Holders, Range, Registration, TypeOK
  <2>4. Units(Holders)' = Units(Holders)
    BY <2>1, <2>3 DEF Units, UnitsOf, Holders
  <2>5. Registration' /\ NoLostWakeup'
    BY <2>1, <2>2 DEF Registration, NoLostWakeup, TypeOK
  <2> QED
    BY <1>1, <2>1, <2>4, <2>5 DEF SlotsBalance
<1>5. ASSUME NEW r \in Requests, Admit(r) PROVE SlotsInv'
  <2>1. /\ pc[r] = "acquire" /\ id[r] = 0 /\ need[r] \in Nat
        /\ available \in Nat /\ available >= need[r]
        /\ available' = available - need[r] /\ r \notin waiters
        /\ UNCHANGED <<need, waiters>>
        /\ pc' = [pc EXCEPT ![r] = "prefill"]
        /\ id' = [id EXCEPT ![r] = counter + 1]
        /\ notifications' = Put(notifications, counter + 1, r)
    BY <1>5 DEF Admit, Acquire, Goto, Registration, TypeOK
  <2>2. /\ DOMAIN notifications' = DOMAIN notifications \cup {counter + 1}
        /\ counter + 1 \notin DOMAIN notifications
        /\ notifications'[counter + 1] = r
        /\ \A i \in DOMAIN notifications : notifications'[i] = notifications[i]
    <3>1. /\ counter \in Nat /\ DOMAIN notifications \subseteq 1 .. counter
          /\ notifications \in [DOMAIN notifications -> Requests]
      BY DEF TypeOK
    <3>2. counter + 1 \notin DOMAIN notifications
      BY <3>1
    <3> QED
      BY <2>1, <3>2 DEF Put
  <2>3. r \notin Holders
    BY <2>1 DEF Holders, Range, Registration, TypeOK
  <2>4. Holders' = Holders \cup {r}
    BY <2>2 DEF Holders, Range
  <2>5. Registration'
    BY <2>1, <2>2, <2>3 DEF Registration, TypeOK, Holders, Range
  <2>6. /\ IsFiniteSet(UnitsOf(Holders \cup {r}, need))
        /\ Cardinality(UnitsOf(Holders \cup {r}, need))
             = Cardinality(UnitsOf(Holders, need)) + need[r]
    BY <2>1, <2>3, AddUnits DEF Units
  <2>7. Units(Holders)' = UnitsOf(Holders \cup {r}, need)
    BY <2>1, <2>4 DEF Units
  <2>8. Cardinality(UnitsOf(Holders, need)) \in Nat
    BY FS_CardinalityType DEF Units
  <2>9. SlotsBalance'
    BY <2>1, <2>6, <2>7, <2>8, CapacityAssumption DEF SlotsBalance, Units
  <2>10. NoLostWakeup'
    BY <2>1 DEF NoLostWakeup, TypeOK
  <2> QED
    BY <1>1, <2>5, <2>6, <2>7, <2>9, <2>10
<1>6. ASSUME NEW r \in Requests, AwaitSlots(r) PROVE SlotsInv'
  BY <1>1, <1>6
  DEF AwaitSlots, Sleep, Registration, SlotsBalance, NoLostWakeup, Units, Holders,
      taskVars, eventVars
<1>7. ASSUME NEW r \in Requests,
             PrefillError(r) \/ DropInWait(r) \/ Ready(r) \/ Timeout(r)
      PROVE  SlotsInv'
  <2>1. /\ PopAndRelease(r) /\ UNCHANGED <<need, id>>
        /\ pc[r] \in {"prefill", "respond", "wait"}
        /\ \E stage \in {"answered", "gone", "decode"} : Goto(r, stage)
    BY <1>7 DEF PrefillError, DropInWait, Ready, Timeout
  <2> QED
    BY <1>1, <2>1, PopAndReleaseSlots
<1>8. ASSUME NEW m,
             Transferred(m) \/ ServeNotification(m)
      PROVE  SlotsInv'
  <2>1. UNCHANGED <<pc, need, id, notifications, available, waiters>>
    BY <1>8 DEF Transferred, ServeNotification, taskVars, eventVars, semaphore
  <2> QED
    BY <1>1, <2>1 DEF Registration, SlotsBalance, NoLostWakeup, Units, Holders
<1>9. ASSUME Restart PROVE SlotsInv'
  <2>1. /\ notifications' = << >> /\ available' = Capacity /\ waiters' = {}
        /\ UNCHANGED id
        /\ \A q \in Requests :
             \/ pc'[q] = pc[q] /\ pc[q] \notin {"prefill", "respond", "wait"}
             \/ pc'[q] = "lost"
    BY <1>9 DEF Restart, Ended
  <2>2. Holders' = {}
    BY <2>1 DEF Holders, Range
  <2>3. Registration' /\ NoLostWakeup'
    BY <2>1 DEF Registration, NoLostWakeup
  <2>4. Units(Holders)' = {}
    BY <2>2 DEF Units, UnitsOf
  <2> QED
    BY <1>1, <2>1, <2>3, <2>4, NoUnits, CapacityAssumption DEF SlotsBalance
<1>10. CASE Idle
  BY <1>2, <1>10 DEF Idle
<1> QED
  BY <1>2, <1>3, <1>4, <1>5, <1>6, <1>7, <1>8, <1>9, <1>10 DEF Next, TaskStep

\* Event table and ids agree, whatever the faults: a notification sets the
\* event of the task that was given its id, and a pop removes one's own event.
THEOREM RegistrationKept == Spec => []Registration
<1>1. SlotsInv => Registration
  BY DEF SlotsInv
<1> QED
  BY <1>1, InitSlots, NextSlots, PTL DEF Spec

\* The slots that are not free are exactly those of the requests with a
\* registered event, whatever the faults and however often the proxy restarts.
THEOREM SlotsBalanced == Spec => []SlotsBalance
<1>1. SlotsInv => SlotsBalance
  BY DEF SlotsInv
<1> QED
  BY <1>1, InitSlots, NextSlots, PTL DEF Spec

\* No task sleeps on the semaphore while its slots are free.
THEOREM WakeupsNotLost == Spec => []NoLostWakeup
<1>1. SlotsInv => NoLostWakeup
  BY DEF SlotsInv
<1> QED
  BY <1>1, InitSlots, NextSlots, PTL DEF Spec

-----------------------------------------------------------------------------
(* The handshake.  While the proxy does not restart, an id is given once,   *)
(* so a notification can only set the event of the request it was sent for. *)

HandshakeInv ==
    /\ SlotsInv
    /\ \A r \in Requests : id[r] <= counter
    /\ \A r, q \in Requests : id[r] = id[q] /\ id[r] # 0 => r = q
    /\ \A m \in inflight \cup wire : id[m.of] = m.req_id /\ m.req_id # 0
    /\ \A m \in inflight : m.of \notin moved
    /\ \A r \in moved : id[r] # 0
    /\ \A m \in wire : m.of \in moved
    /\ ready \subseteq moved
    /\ DecodeAfterTransfer

LEMMA InitHandshake == Init => HandshakeInv
BY InitSlots DEF Init, HandshakeInv, DecodeAfterTransfer

LEMMA NextHandshake ==
    ASSUME "restart" \notin Faults, HandshakeInv, [Next]_vars
    PROVE  HandshakeInv'
<1> USE DEF HandshakeInv
<1>1. SlotsInv' /\ TypeOK /\ TypeOK'
  BY NextSlots DEF SlotsInv
<1>2. CASE UNCHANGED vars
  BY <1>1, <1>2 DEF DecodeAfterTransfer, vars, taskVars, eventVars, dataPlane
<1>3. ASSUME NEW r \in Requests,
             \/ Arrive(r) \/ Refuse(r) \/ Tokenized(r) \/ AwaitSlots(r)
             \/ PrefillReply(r) \/ PrefillError(r) \/ PrefillBadReply(r)
             \/ FirstChunkTaken(r) \/ DropBeforeWait(r) \/ DropInWait(r)
             \/ Timeout(r) \/ DecodeEnds(r)
      PROVE  HandshakeInv'
  <2>1. /\ UNCHANGED <<id, counter, ready, inflight, wire, moved>>
        /\ \A q \in Requests : pc'[q] = "decode" => pc[q] = "decode"
    BY <1>1, <1>3
    DEF TypeOK, Arrive, Refuse, Tokenized, AwaitSlots, PrefillReply, PrefillError,
        PrefillBadReply, FirstChunkTaken, DropBeforeWait, DropInWait, Timeout,
        DecodeEnds, Goto, taskVars, eventVars, dataPlane
  <2> QED
    BY <1>1, <2>1 DEF DecodeAfterTransfer
<1>4. ASSUME NEW r \in Requests, Admit(r) PROVE HandshakeInv'
  <2>1. /\ id[r] = 0 /\ counter \in Nat /\ counter' = counter + 1
        /\ id' = [id EXCEPT ![r] = counter + 1]
        /\ pc' = [pc EXCEPT ![r] = "prefill"]
        /\ inflight' = inflight \cup {[req_id |-> counter + 1, of |-> r]}
        /\ UNCHANGED <<ready, wire, moved>>
    BY <1>1, <1>4 DEF Admit, Goto, Transfer, SlotsInv, Registration, TypeOK
  <2>2. /\ \A q \in Requests : id'[q] <= counter'
        /\ \A p, q \in Requests : id'[p] = id'[q] /\ id'[p] # 0 => p = q
    BY <1>1, <2>1 DEF TypeOK
  <2>3. \A m \in inflight \cup wire : m.of # r /\ m.of \in Requests
    BY <1>1, <2>1 DEF TypeOK, Messages
  <2>4. \A m \in inflight' \cup wire' : id'[m.of] = m.req_id /\ m.req_id # 0
    BY <1>1, <2>1, <2>3 DEF TypeOK
  <2>5. r \notin moved
    BY <2>1
  <2>6. DecodeAfterTransfer'
    BY <1>1, <2>1 DEF DecodeAfterTransfer, TypeOK
  <2> QED
    BY <1>1, <2>1, <2>2, <2>4, <2>5, <2>6
<1>5. ASSUME NEW r \in Requests, Ready(r) PROVE HandshakeInv'
  <2>1. /\ r \in moved
        /\ UNCHANGED <<id, counter, ready, inflight, wire, moved>>
        /\ pc' = [pc EXCEPT ![r] = "decode"]
    BY <1>5 DEF Ready, Goto, dataPlane
  <2> QED
    BY <1>1, <2>1 DEF DecodeAfterTransfer, TypeOK
<1>6. ASSUME NEW m \in inflight, Transferred(m) PROVE HandshakeInv'
  <2>1. \A n \in inflight' : n.of # m.of
    BY <1>1, <1>6 DEF Transferred, TypeOK, Messages
  <2> QED
    BY <1>1, <1>6, <2>1
    DEF Transferred, DecodeAfterTransfer, taskVars, eventVars
<1>7. ASSUME NEW m \in wire, ServeNotification(m) PROVE HandshakeInv'
  <2>1. /\ wire' \subseteq wire
        /\ UNCHANGED <<pc, id, counter, inflight, moved>>
    BY <1>7 DEF ServeNotification, taskVars
  <2>2. m.req_id \in DOMAIN notifications => notifications[m.req_id] = m.of
    <3>1. SUFFICES ASSUME m.req_id \in DOMAIN notifications
                   PROVE  notifications[m.req_id] = m.of
      OBVIOUS
    <3>2. id[notifications[m.req_id]] = id[m.of] /\ id[m.of] # 0
      BY <3>1 DEF SlotsInv, Registration
    <3> QED
      BY <1>1, <3>1, <3>2 DEF TypeOK, Messages
  <2>3. ready' \subseteq moved
    BY <1>7, <2>2 DEF ServeNotification
  <2> QED
    BY <1>1, <2>1, <2>3 DEF DecodeAfterTransfer
<1>8. CASE Idle
  BY <1>2, <1>8 DEF Idle
<1> QED
  BY <1>2, <1>3, <1>4, <1>5, <1>6, <1>7, <1>8 DEF Next, TaskStep, Restart

\* A proxy that is not restarted decodes a request only after its own KV
\* cache arrived, in spite of timeouts, disconnects and late notifications.
THEOREM HandshakeKept ==
    ASSUME "restart" \notin Faults
    PROVE  Spec => []DecodeAfterTransfer
<1>1. HandshakeInv /\ [Next]_vars => HandshakeInv'
  BY NextHandshake
<1>2. HandshakeInv => DecodeAfterTransfer
  BY DEF HandshakeInv
<1> QED
  BY <1>1, <1>2, InitHandshake, PTL DEF Spec

-----------------------------------------------------------------------------
(* Refinement: what the proxy does is the handshake of PDHandshake.        *)

Phases == [r \in Requests |-> Phase(r)]

\* Every step of the proxy is a step of the handshake or none.
LEMMA HandshakeStep ==
    ASSUME "restart" \notin Faults, HandshakeInv, HandshakeInv', [Next]_vars
    PROVE  [Handshake!Next]_<<Phases, moved>>
<1> USE DEF Phases
<1>1. TypeOK /\ TypeOK'
  BY DEF HandshakeInv, SlotsInv
<1>2. CASE UNCHANGED vars
  BY <1>2 DEF vars, taskVars, dataPlane, Phase
<1>3. ASSUME NEW r \in Requests,
             \/ Arrive(r) \/ AwaitSlots(r) \/ PrefillReply(r) \/ FirstChunkTaken(r)
      PROVE  UNCHANGED <<Phases, moved>>
  <2>1. moved' = moved
    BY <1>3 DEF Arrive, AwaitSlots, PrefillReply, FirstChunkTaken, dataPlane
  <2>2. \A q \in Requests : Phase(q)' = Phase(q)
    BY <1>1, <1>3
    DEF TypeOK, Arrive, AwaitSlots, PrefillReply, FirstChunkTaken, Goto, Phase,
        taskVars
  <2> QED
    BY <2>1, <2>2
<1>4. ASSUME NEW r \in Requests, Tokenized(r), pc'[r] = "acquire"
      PROVE  UNCHANGED <<Phases, moved>>
  BY <1>1, <1>4 DEF TypeOK, Tokenized, Goto, Phase, dataPlane
<1>5. ASSUME NEW r \in Requests,
             \/ Refuse(r) \/ (Tokenized(r) /\ pc'[r] # "acquire")
             \/ PrefillError(r) \/ PrefillBadReply(r)
             \/ DropBeforeWait(r) \/ DropInWait(r) \/ Timeout(r) \/ DecodeEnds(r)
      PROVE  Handshake!End(r)
  <2>1. /\ moved' = moved
        /\ Phase(r) # "ended"
        /\ \E stage \in {"answered", "gone"} : pc' = [pc EXCEPT ![r] = stage]
    BY <1>1, <1>5
    DEF TypeOK, Refuse, Tokenized, PrefillError, PrefillBadReply, DropBeforeWait,
        DropInWait, Timeout, DecodeEnds, Goto, Phase, dataPlane
  <2>2. Phases' = [Phases EXCEPT ![r] = "ended"]
    BY <1>1, <2>1 DEF TypeOK, Phase
  <2> QED
    BY <2>1, <2>2 DEF Handshake!End
<1>6. ASSUME NEW r \in Requests, Admit(r) PROVE Handshake!Prefill(r)
  <2>1. /\ Phase(r) = "new" /\ moved' = moved
        /\ pc' = [pc EXCEPT ![r] = "prefill"]
    BY <1>6 DEF Admit, Goto, Phase
  <2>2. Phases' = [Phases EXCEPT ![r] = "prefill"]
    BY <1>1, <2>1 DEF TypeOK, Phase
  <2> QED
    BY <2>1, <2>2 DEF Handshake!Prefill
<1>7. ASSUME NEW r \in Requests, Ready(r) PROVE Handshake!Decode(r)
  <2>1. /\ Phase(r) = "prefill" /\ r \in moved /\ moved' = moved
        /\ pc' = [pc EXCEPT ![r] = "decode"]
    BY <1>7 DEF Ready, Goto, Phase, HandshakeInv, dataPlane
  <2>2. Phases' = [Phases EXCEPT ![r] = "decode"]
    BY <1>1, <2>1 DEF TypeOK, Phase
  <2> QED
    BY <2>1, <2>2 DEF Handshake!Decode
<1>8. ASSUME NEW m \in inflight, Transferred(m) PROVE Handshake!Deliver(m.of)
  <2>1. m.of \in Requests /\ id[m.of] # 0 /\ m.of \notin moved
    BY <1>1 DEF TypeOK, Messages, HandshakeInv
  <2>2. Phase(m.of) \in {"prefill", "ended"}
    BY <2>1 DEF HandshakeInv, SlotsInv, Registration, DecodeAfterTransfer, Phase
  <2>3. moved' = moved \cup {m.of} /\ pc' = pc
    BY <1>8 DEF Transferred, taskVars
  <2>4. Phases' = Phases
    BY <2>3 DEF Phase
  <2> QED
    BY <2>1, <2>2, <2>3, <2>4 DEF Handshake!Deliver
<1>9. ASSUME NEW m \in wire, ServeNotification(m) PROVE UNCHANGED <<Phases, moved>>
  BY <1>9 DEF ServeNotification, Phase, taskVars
<1>10. CASE Idle
  BY <1>2, <1>10 DEF Idle
<1>11. \A m \in inflight : m.of \in Requests
  BY <1>1 DEF TypeOK, Messages
<1> QED
  BY <1>2, <1>3, <1>4, <1>5, <1>6, <1>7, <1>8, <1>9, <1>10, <1>11
  DEF Next, TaskStep, Restart, Handshake!Next

\* Without restarts the proxy implements the handshake, whatever the sizes
\* of the requests and whatever else fails.
THEOREM ProxyImplementsHandshake ==
    ASSUME "restart" \notin Faults
    PROVE  Spec => ImplementsHandshake
<1>1. Init => Handshake!Init
  BY DEF Init, Handshake!Init, Phase
<1>2. HandshakeInv /\ HandshakeInv' /\ [Next]_vars => [Handshake!Next]_<<Phases, moved>>
  BY HandshakeStep
<1>3. Spec => []HandshakeInv
  <2>1. HandshakeInv /\ [Next]_vars => HandshakeInv'
    BY NextHandshake
  <2> QED
    BY <2>1, InitHandshake, PTL DEF Spec
<1> QED
  BY <1>1, <1>2, <1>3, PTL DEF Spec, ImplementsHandshake, Handshake!Spec, Phases

-----------------------------------------------------------------------------
(* Leaks.  Only two exits leave slots behind: a reply without a first token  *)
(* and a disconnect before the generator waits.                              *)

LeakInv == SlotsInv /\ NoAbandonedSlots

LEMMA NextLeak ==
    ASSUME "bad_reply" \notin Faults, "disconnect" \notin Faults,
           LeakInv, [Next]_vars
    PROVE  LeakInv'
<1>1. SlotsInv /\ SlotsInv' /\ TypeOK /\ Registration /\ NoAbandonedSlots
  BY NextSlots DEF LeakInv, SlotsInv
<1>2. Holders \subseteq Requests
  BY <1>1 DEF Holders, Range, TypeOK
<1> SUFFICES NoAbandonedSlots'
  BY <1>1 DEF LeakInv
<1>3. CASE UNCHANGED vars
  BY <1>1, <1>3 DEF NoAbandonedSlots, Holders, vars, taskVars, eventVars
<1>4. ASSUME NEW r \in Requests,
             \/ Arrive(r) \/ Refuse(r) \/ Tokenized(r) \/ AwaitSlots(r)
             \/ PrefillReply(r) \/ FirstChunkTaken(r) \/ DecodeEnds(r)
      PROVE  NoAbandonedSlots'
  <2>1. /\ notifications' = notifications
        /\ \/ r \notin Holders
           \/ pc'[r] \in {"prefill", "respond", "wait"}
           \/ pc'[r] = pc[r]
        /\ \A q \in Requests : q # r => pc'[q] = pc[q]
    BY <1>1, <1>4
    DEF TypeOK, Registration, NoAbandonedSlots, Holders, Arrive, Refuse, Tokenized,
        AwaitSlots, PrefillReply, FirstChunkTaken, DecodeEnds, Goto, taskVars, eventVars
  <2> QED
    BY <1>1, <1>2, <2>1 DEF NoAbandonedSlots, Holders
<1>5. ASSUME NEW r \in Requests, Admit(r) PROVE NoAbandonedSlots'
  <2>1. /\ pc' = [pc EXCEPT ![r] = "prefill"]
        /\ notifications' = Put(notifications, counter + 1, r)
    BY <1>5 DEF Admit, Goto
  <2>2. Holders' \subseteq Holders \cup {r}
    BY <2>1 DEF Holders, Range, Put
  <2> QED
    BY <1>1, <1>2, <2>1, <2>2 DEF NoAbandonedSlots, TypeOK
<1>6. ASSUME NEW r \in Requests, PrefillError(r) \/ Ready(r) \/ Timeout(r)
      PROVE  NoAbandonedSlots'
  <2>1. /\ pc[r] \in {"prefill", "respond", "wait"}
        /\ \A q \in Requests : q # r => pc'[q] = pc[q]
        /\ notifications' = Restrict(notifications, DOMAIN notifications \ {id[r]})
    BY <1>1, <1>6 DEF PrefillError, Ready, Timeout, PopAndRelease, Goto, TypeOK
  <2>2. Holders' \subseteq Holders \ {r}
    BY <1>1, <2>1 DEF Holders, Range, Restrict, Registration
  <2> QED
    BY <1>2, <1>1, <2>1, <2>2 DEF NoAbandonedSlots
<1>7. ASSUME NEW m, Transferred(m) \/ ServeNotification(m) PROVE NoAbandonedSlots'
  BY <1>1, <1>7
  DEF Transferred, ServeNotification, NoAbandonedSlots, Holders, taskVars, eventVars
<1>8. ASSUME Restart PROVE NoAbandonedSlots'
  BY <1>8 DEF Restart, NoAbandonedSlots, Holders, Range
<1>9. CASE Idle
  BY <1>3, <1>9 DEF Idle
<1> QED
  BY <1>3, <1>4, <1>5, <1>6, <1>7, <1>8, <1>9
  DEF Next, TaskStep, PrefillBadReply, DropBeforeWait, DropInWait

\* Without these two exits no slot is ever left behind by an ended task:
\* prefill errors, timeouts and restarts all clean up.
THEOREM SlotsNotAbandoned ==
    ASSUME "bad_reply" \notin Faults, "disconnect" \notin Faults
    PROVE  Spec => []NoAbandonedSlots
<1>1. Init => LeakInv
  BY InitSlots DEF Init, LeakInv, NoAbandonedSlots, Holders, Range
<1>2. LeakInv /\ [Next]_vars => LeakInv'
  BY NextLeak
<1>3. LeakInv => NoAbandonedSlots
  BY DEF LeakInv
<1> QED
  BY <1>1, <1>2, <1>3, PTL DEF Spec

-----------------------------------------------------------------------------
(* The buffer.  Without faults a request keeps its slots until its transfer *)
(* is over, so the transfers under way are those of some of the holders.    *)

BufferInv ==
    /\ HandshakeInv
    /\ \A m \in inflight : m.of \in Holders

LEMMA NextBuffer ==
    ASSUME Faults = {}, BufferInv, [Next]_vars
    PROVE  BufferInv'
<1> USE DEF BufferInv
<1>1. HandshakeInv /\ HandshakeInv' /\ SlotsInv /\ TypeOK /\ Registration
  BY NextHandshake DEF HandshakeInv, SlotsInv
<1> SUFFICES \A m \in inflight' : m.of \in Holders'
  BY <1>1
<1>2. CASE UNCHANGED <<notifications, inflight>>
  BY <1>2 DEF Holders
<1>3. ASSUME NEW r \in Requests, Admit(r)
      PROVE  \A m \in inflight' : m.of \in Holders'
  <2>1. /\ inflight' = inflight \cup {[req_id |-> counter + 1, of |-> r]}
        /\ notifications' = Put(notifications, counter + 1, r)
    BY <1>1, <1>3 DEF Admit, Transfer, TypeOK
  <2>2. counter + 1 \notin DOMAIN notifications
    BY <1>1 DEF TypeOK
  <2>3. Holders' = Holders \cup {r}
    BY <2>1, <2>2 DEF Holders, Range, Put
  <2> QED
    BY <2>1, <2>3
<1>4. ASSUME NEW r \in Requests, Ready(r)
      PROVE  \A m \in inflight' : m.of \in Holders'
  <2>1. \A m \in inflight : m.of # r
    BY <1>1, <1>4 DEF Ready, HandshakeInv
  <2>2. /\ inflight' = inflight
        /\ notifications' = Restrict(notifications, DOMAIN notifications \ {id[r]})
        /\ notifications[id[r]] = r
    BY <1>1, <1>4 DEF Ready, PopAndRelease, Registration, dataPlane
  <2>3. Holders \ {r} \subseteq Holders'
    BY <2>2 DEF Holders, Range, Restrict
  <2> QED
    BY <2>1, <2>2, <2>3
<1>5. ASSUME NEW m \in inflight, Transferred(m)
      PROVE  \A n \in inflight' : n.of \in Holders'
  BY <1>5 DEF Transferred, Holders, eventVars
<1>6. ASSUME NEW r \in Requests,
             \/ Arrive(r) \/ Refuse(r) \/ Tokenized(r) \/ AwaitSlots(r)
             \/ PrefillReply(r) \/ FirstChunkTaken(r) \/ DecodeEnds(r)
      PROVE  UNCHANGED <<notifications, inflight>>
  BY <1>6 DEF Arrive, Refuse, Tokenized, AwaitSlots, PrefillReply, FirstChunkTaken,
              DecodeEnds, eventVars, dataPlane
<1>7. ASSUME NEW m \in wire, ServeNotification(m)
      PROVE  UNCHANGED <<notifications, inflight>>
  BY <1>7 DEF ServeNotification
<1>8. CASE UNCHANGED vars \/ Idle
  BY <1>2, <1>8 DEF Idle, vars, eventVars, dataPlane
<1> QED
  BY <1>2, <1>3, <1>4, <1>5, <1>6, <1>7, <1>8
  DEF Next, TaskStep, PrefillError, PrefillBadReply, DropBeforeWait, DropInWait,
      Timeout, Restart

\* With answers that come in time the semaphore does what it is for: the
\* transfers under way fit in the buffer.
THEOREM BufferSuffices ==
    ASSUME Faults = {}
    PROVE  Spec => []TransfersFitBuffer
<1>1. Init => BufferInv
  BY InitHandshake DEF Init, BufferInv
<1>2. BufferInv /\ [Next]_vars => BufferInv'
  BY NextBuffer
<1>3. BufferInv => TransfersFitBuffer
  <2>1. SUFFICES ASSUME BufferInv PROVE TransfersFitBuffer
    OBVIOUS
  <2>2. /\ IsFiniteSet(Units(Holders)) /\ SlotsBalance
        /\ available \in 0 .. Capacity /\ Capacity \in Nat
    BY <2>1, CapacityAssumption DEF BufferInv, HandshakeInv, SlotsInv, TypeOK
  <2>3. Units({m.of : m \in inflight}) \subseteq Units(Holders)
    BY <2>1 DEF BufferInv, Units, UnitsOf
  <2>4. /\ IsFiniteSet(Units({m.of : m \in inflight}))
        /\ Cardinality(Units({m.of : m \in inflight})) <= Cardinality(Units(Holders))
    BY <2>2, <2>3, FS_Subset
  <2>5. /\ Cardinality(Units(Holders)) \in Nat
        /\ Cardinality(Units({m.of : m \in inflight})) \in Nat
    BY <2>2, <2>4, FS_CardinalityType
  <2>6. Cardinality(Units(Holders)) <= Capacity
    BY <2>2, <2>5 DEF SlotsBalance
  <2> QED
    BY <2>2, <2>4, <2>5, <2>6 DEF TransfersFitBuffer
<1> QED
  BY <1>1, <1>2, <1>3, PTL DEF Spec
=============================================================================
