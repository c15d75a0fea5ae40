------------------------------ MODULE PDProxy ------------------------------
(***************************************************************************)
(* The 1P1D proxy for LMCache's NIXL channel (pd_proxy.py).                *)
(*                                                                         *)
(* Each request is one asyncio task.  It has the prompt tokenized, takes   *)
(* transfer slots, registers an event under a fresh request id, asks the   *)
(* prefiller for one token, waits until the data plane notifies that the   *)
(* KV cache of that id has arrived, gives the slots back and asks the      *)
(* decoder for the rest.  A step of a task is the code between two awaits  *)
(* that suspend.  The prefiller's KV transfer and its notification are     *)
(* external; a notification carries only the request id.                   *)
(*                                                                         *)
(* Faults selects what may go wrong in an instance:                        *)
(*   "prefill_error"  the prefill call raises                              *)
(*   "bad_reply"      it answers 200 without kv_transfer_params            *)
(*   "disconnect"     the client of a streamed completion goes away        *)
(*   "timeout"        transfer_timeout_seconds elapse before the event     *)
(*   "restart"        the proxy process stops and starts again             *)
(***************************************************************************)
EXTENDS WeightedSemaphore, Weights, Functions

CONSTANTS Requests,     \* the requests clients send, one task each
          Needs,        \* slot counts a prompt can ask for, ceil(tokens / chunk)
          Faults,       \* the faults of this instance
          MaxRestarts   \* bound on restarts of the proxy

AllFaults == {"prefill_error", "bad_reply", "disconnect", "timeout", "restart"}

ASSUME RequestsAssumption == IsFiniteSet(Requests)
ASSUME NeedsAssumption == Needs \subseteq Nat
ASSUME FaultsAssumption == Faults \subseteq AllFaults

VARIABLES pc,            \* pc[r]: where the task of r is
          streamed,      \* streamed[r]: r is a streamed /v1/completions call
          need,          \* need[r]: slots of r's prompt
          id,            \* id[r]: the request id r was given
          counter,       \* app.state.request_counter
          notifications, \* app.state.notifications: id -> task owning the event
          ready,         \* tasks whose event is set
          inflight,      \* KV transfers the prefiller has been asked for
          wire,          \* notifications sent and not yet received
          moved,         \* requests whose KV cache reached the decoder
          restarts       \* restarts so far

taskVars == <<pc, streamed, need, id>>
eventVars == <<counter, notifications, ready>>
dataPlane == <<inflight, wire, moved>>
semaphore == <<available, waiters>>
vars == <<taskVars, eventVars, dataPlane, semaphore, restarts>>

Stages == {"idle", "tokenize", "acquire", "prefill", "respond", "wait",
           "decode", "answered", "gone", "lost"}

\* A task that has ended: answered, client gone, or lost with the process.
Ended == {"answered", "gone", "lost"}

\* A transfer, and the notification that announces it.  Only req_id is on
\* the wire; of says whose KV cache it is.
Transfer(r) == [req_id |-> id'[r], of |-> r]

Init ==
    /\ pc = [r \in Requests |-> "idle"]
    /\ streamed = [r \in Requests |-> FALSE]
    /\ need = [r \in Requests |-> 0]
    /\ id = [r \in Requests |-> 0]
    /\ counter = 0
    /\ notifications = << >>
    /\ ready = {}
    /\ inflight = {}
    /\ wire = {}
    /\ moved = {}
    /\ restarts = 0
    /\ SemaphoreInit

Goto(r, stage) == pc' = [pc EXCEPT ![r] = stage]

-----------------------------------------------------------------------------
(* prepare                                                                 *)

\* The handler starts and posts the prompt to /tokenize.
Arrive(r) ==
    /\ pc[r] = "idle"
    /\ Goto(r, "tokenize")
    /\ \E s \in BOOLEAN : streamed' = [streamed EXCEPT ![r] = s]
    /\ UNCHANGED <<need, id, eventVars, dataPlane, semaphore, restarts>>

\* The request is refused before it takes anything: max_tokens below two, a
\* body without a prompt, an error of the tokenizer.
Refuse(r) ==
    /\ pc[r] = "tokenize"
    /\ Goto(r, "answered")
    /\ UNCHANGED <<streamed, need, id, eventVars, dataPlane, semaphore, restarts>>

Tokenized(r) ==
    /\ pc[r] = "tokenize"
    /\ \E n \in Needs :
         /\ need' = [need EXCEPT ![r] = n]
         /\ Goto(r, IF Oversize(n) THEN "answered" ELSE "acquire")
    /\ UNCHANGED <<streamed, id, eventVars, dataPlane, semaphore, restarts>>

\* Mutant of Admit: the id is the size of the event table, not a counter.
AdmitSizedId(r) ==
    /\ pc[r] = "acquire"
    /\ Acquire(r, need[r])
    /\ id' = [id EXCEPT ![r] = Cardinality(DOMAIN notifications) + 1]
    /\ counter' = counter + 1
    /\ notifications' = Put(notifications, id'[r], r)
    /\ inflight' = inflight \cup {Transfer(r)}
    /\ Goto(r, "prefill")
    /\ UNCHANGED <<streamed, need, ready, wire, moved, restarts>>

\* The slots are there: take them, register the event under the next id and
\* post the prefill call, which starts the transfer.
Admit(r) ==
    /\ pc[r] = "acquire"
    /\ Acquire(r, need[r])
    /\ counter' = counter + 1
    /\ id' = [id EXCEPT ![r] = counter']
    /\ notifications' = Put(notifications, counter', r)
    /\ inflight' = inflight \cup {Transfer(r)}
    /\ Goto(r, "prefill")
    /\ UNCHANGED <<streamed, need, ready, wire, moved, restarts>>

AwaitSlots(r) ==
    /\ pc[r] = "acquire"
    /\ Sleep(r, need[r])
    /\ UNCHANGED <<taskVars, eventVars, dataPlane, restarts>>

\* The prefill call answers.  A streamed completion hands its generator to
\* the response; every other call waits for the transfer at once.
PrefillReply(r) ==
    /\ pc[r] = "prefill"
    /\ Goto(r, IF streamed[r] THEN "respond" ELSE "wait")
    /\ UNCHANGED <<streamed, need, id, eventVars, dataPlane, semaphore, restarts>>

\* Forget the event and give the slots back.
PopAndRelease(r) ==
    /\ notifications' = Restrict(notifications, DOMAIN notifications \ {id[r]})
    /\ Release(need[r])

\* Mutant of PrefillError: no except clause.
PrefillErrorUnclean(r) ==
    /\ "prefill_error" \in Faults
    /\ pc[r] = "prefill"
    /\ Goto(r, "answered")
    /\ UNCHANGED <<streamed, need, id, eventVars, dataPlane, semaphore, restarts>>

\* The prefill call raises inside the try: clean up and re-raise.
PrefillError(r) ==
    /\ "prefill_error" \in Faults
    /\ pc[r] = "prefill"
    /\ PopAndRelease(r)
    /\ Goto(r, "answered")
    /\ UNCHANGED <<streamed, need, id, counter, ready, dataPlane, restarts>>

\* The reply has no first token: the KeyError comes after the try, so
\* nothing is cleaned up.
PrefillBadReply(r) ==
    /\ "bad_reply" \in Faults
    /\ pc[r] = "prefill"
    /\ Goto(r, "answered")
    /\ UNCHANGED <<streamed, need, id, eventVars, dataPlane, semaphore, restarts>>

-----------------------------------------------------------------------------
(* the streamed response, wait_and_release, and the decode call            *)

\* Mutant of FirstChunkTaken: the stream is decoded without wait_and_release.
FirstChunkThenDecode(r) ==
    /\ pc[r] = "respond"
    /\ Goto(r, "decode")
    /\ UNCHANGED <<streamed, need, id, eventVars, dataPlane, semaphore, restarts>>

\* The client took the first chunk and the generator resumes after its yield.
FirstChunkTaken(r) ==
    /\ pc[r] = "respond"
    /\ Goto(r, "wait")
    /\ UNCHANGED <<streamed, need, id, eventVars, dataPlane, semaphore, restarts>>

\* The client is gone before the generator reaches wait_and_release: the
\* generator is closed at its first yield, outside any try.
DropBeforeWait(r) ==
    /\ "disconnect" \in Faults
    /\ pc[r] = "respond"
    /\ Goto(r, "gone")
    /\ UNCHANGED <<streamed, need, id, eventVars, dataPlane, semaphore, restarts>>

\* The client is gone while the generator waits: the finally clause runs.
DropInWait(r) ==
    /\ "disconnect" \in Faults
    /\ pc[r] = "wait"
    /\ streamed[r]
    /\ PopAndRelease(r)
    /\ Goto(r, "gone")
    /\ UNCHANGED <<streamed, need, id, counter, ready, dataPlane, restarts>>

\* The event is set: clean up and call the decoder.
Ready(r) ==
    /\ pc[r] = "wait"
    /\ r \in ready
    /\ PopAndRelease(r)
    /\ Goto(r, "decode")
    /\ UNCHANGED <<streamed, need, id, counter, ready, dataPlane, restarts>>

\* Mutants of Timeout: the slots stay taken; the expiry is swallowed.
TimeoutKeepsSlots(r) ==
    /\ "timeout" \in Faults
    /\ pc[r] = "wait"
    /\ notifications' = Restrict(notifications, DOMAIN notifications \ {id[r]})
    /\ Goto(r, "answered")
    /\ UNCHANGED <<streamed, need, id, counter, ready, dataPlane, semaphore, restarts>>

TimeoutSwallowed(r) ==
    /\ "timeout" \in Faults
    /\ pc[r] = "wait"
    /\ PopAndRelease(r)
    /\ Goto(r, "decode")
    /\ UNCHANGED <<streamed, need, id, counter, ready, dataPlane, restarts>>

\* wait_for gives up; it may do so in the very iteration the event is set.
Timeout(r) ==
    /\ "timeout" \in Faults
    /\ pc[r] = "wait"
    /\ PopAndRelease(r)
    /\ Goto(r, "answered")
    /\ UNCHANGED <<streamed, need, id, counter, ready, dataPlane, restarts>>

\* The decoder answers or fails, or the client of the stream goes away.
DecodeEnds(r) ==
    /\ pc[r] = "decode"
    /\ Goto(r, "answered")
    /\ UNCHANGED <<streamed, need, id, eventVars, dataPlane, semaphore, restarts>>

-----------------------------------------------------------------------------
(* the data plane and notification_server                                  *)

\* External: the KV cache has arrived and the decoder's side announces it.
Transferred(m) ==
    /\ m \in inflight
    /\ inflight' = inflight \ {m}
    /\ wire' = wire \cup {m}
    /\ moved' = moved \cup {m.of}
    /\ UNCHANGED <<taskVars, eventVars, semaphore, restarts>>

\* One turn of notification_server: set the event registered under the id,
\* if there is one.
ServeNotification(m) ==
    /\ m \in wire
    /\ wire' = wire \ {m}
    /\ ready' = IF m.req_id \in DOMAIN notifications
                THEN ready \cup {notifications[m.req_id]}
                ELSE ready
    /\ UNCHANGED <<taskVars, counter, notifications, inflight, moved, semaphore,
                   restarts>>

\* The process stops and lifespan starts afresh: all its state is new, the
\* tasks are gone, and the prefiller keeps the transfers it was asked for.
\* Notifications already in the old socket's buffer are lost.
Restart ==
    /\ "restart" \in Faults
    /\ restarts < MaxRestarts
    /\ restarts' = restarts + 1
    /\ pc' = [r \in Requests |->
                IF pc[r] = "idle" \/ pc[r] \in Ended THEN pc[r] ELSE "lost"]
    /\ counter' = 0
    /\ notifications' = << >>
    /\ ready' = {}
    /\ available' = Capacity
    /\ waiters' = {}
    /\ wire' \in SUBSET wire
    /\ UNCHANGED <<streamed, need, id, inflight, moved>>

\* Every task has ended; the proxy idles.
Idle ==
    /\ \A r \in Requests : pc[r] \in Ended
    /\ UNCHANGED vars

-----------------------------------------------------------------------------
\* The steps the task of r takes by itself once its current await is over.
TaskStep(r) ==
    \/ Refuse(r) \/ Tokenized(r)
    \/ Admit(r) \/ AwaitSlots(r)
    \/ PrefillReply(r) \/ PrefillError(r) \/ PrefillBadReply(r)
    \/ FirstChunkTaken(r)
    \/ Ready(r) \/ Timeout(r)
    \/ DecodeEnds(r)

Next ==
    \/ \E r \in Requests :
         Arrive(r) \/ TaskStep(r) \/ DropBeforeWait(r) \/ DropInWait(r)
    \/ \E m \in inflight : Transferred(m)
    \/ \E m \in wire : ServeNotification(m)
    \/ Restart
    \/ Idle

Spec == Init /\ [][Next]_vars

\* The event loop runs every task whose await is over.  The servers behind
\* the prefill and decode calls are assumed to answer (the HTTP clients have
\* no timeout); nothing is assumed of the transfers.
FairSpec == Spec /\ \A r \in Requests : WF_vars(TaskStep(r))

-----------------------------------------------------------------------------
(* Properties                                                              *)

\* Tasks that have registered an event and taken slots for it.
Holders == Range(notifications)

\* The slots of the requests in S, as units that can be counted.
Units(S) == UnitsOf(S, need)

Messages == [req_id : Nat, of : Requests]

\* The variables have the shape the code gives them.
TypeOK ==
    /\ pc \in [Requests -> Stages]
    /\ streamed \in [Requests -> BOOLEAN]
    /\ need \in [Requests -> Nat]
    /\ id \in [Requests -> Nat]
    /\ counter \in Nat
    /\ DOMAIN notifications \subseteq 1 .. counter
    /\ notifications \in [DOMAIN notifications -> Requests]
    /\ ready \subseteq Requests
    /\ inflight \subseteq Messages
    /\ wire \subseteq Messages
    /\ moved \subseteq Requests
    /\ restarts \in Nat
    /\ available \in 0 .. Capacity
    /\ waiters \subseteq Requests

\* Events and ids agree: an entry of the table is the event of the task that
\* was given that id, a task between acquire and release finds its own event
\* under its id, and a task that has not been admitted has no id.  Otherwise
\* a notification would wake the wrong task, or a pop remove another's event.
Registration ==
    /\ \A i \in DOMAIN notifications : id[notifications[i]] = i
    /\ \A r \in Requests :
         /\ pc[r] \in {"prefill", "respond", "wait"} =>
              id[r] \in DOMAIN notifications /\ notifications[id[r]] = r
         /\ pc[r] \in {"idle", "tokenize", "acquire"} => id[r] = 0

\* The event table and the semaphore agree: the slots that are not free are
\* exactly those of the requests with a registered event.  Every exit of
\* prepare and wait_and_release must move both, and move them by one task's
\* share (pd_proxy.py: acquire at 150, release at 178 and 199).
SlotsBalance == available + Cardinality(Units(Holders)) = Capacity

\* No lost wakeup: a task asleep in acquire does not fit in what is free, for
\* any order of releases, wakeups and newcomers that take slots in between.
NoLostWakeup == \A r \in waiters : pc[r] = "acquire" /\ available < need[r]

\* A request is passed to the decoder only after its own KV cache has arrived
\* there, whatever late, early or foreign notifications were received: the
\* transfer handshake the module's docstring promises.
DecodeAfterTransfer == \A r \in Requests : pc[r] = "decode" => r \in moved

\* The requests as the handshake between the servers sees them.
Phase(r) ==
    CASE pc[r] \in {"idle", "tokenize", "acquire"} -> "new"
      [] pc[r] \in {"prefill", "respond", "wait"} -> "prefill"
      [] pc[r] = "decode" -> "decode"
      [] OTHER -> "ended"

Handshake == INSTANCE PDHandshake WITH
    phase <- [r \in Requests |-> Phase(r)],
    delivered <- moved

\* The transfer handshake the module's docstring promises, step by step: a
\* request goes through prefill, transfer and decode in that order and once,
\* whatever fails and whichever notifications come late, as long as the
\* proxy is not restarted.
ImplementsHandshake == Handshake!Spec

\* Slots are occupied only by requests that are being prefilled or waiting
\* for their transfer: none is left behind by a task that has ended.
NoAbandonedSlots == \A r \in Holders : pc[r] \in {"prefill", "respond", "wait"}

\* What the semaphore is for: the transfers under way never occupy more than
\* the buffer.
TransfersFitBuffer == Cardinality(Units({m.of : m \in inflight})) <= Capacity

\* Every request that reaches the proxy is answered, however the slots are
\* contended for.
EveryRequestAnswered ==
    \A r \in Requests : pc[r] = "tokenize" ~> pc[r] \in Ended
=============================================================================
