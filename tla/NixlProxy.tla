----------------------------- MODULE NixlProxy -----------------------------
(***************************************************************************)
(* The 1P1D proxy for vLLM's own NIXL connector (nixl_proxy.py).           *)
(*                                                                         *)
(* It keeps no state of its own: a request is one task that posts the      *)
(* prompt to the prefiller for one token, takes the kv_transfer_params of  *)
(* the reply and posts them with the request to the decoder, which pulls   *)
(* the KV blocks from the prefiller.  The prefiller keeps the blocks of a  *)
(* prompt until they are pulled, whether or not its reply reaches the      *)
(* proxy; that part is external.                                           *)
(*                                                                         *)
(* Faults selects what may go wrong in an instance:                        *)
(*   "prefill_error"  the prefill call raises, or its reply is an error    *)
(*                    or not JSON                                          *)
(*   "no_params"      it answers 200 without kv_transfer_params            *)
(*   "disconnect"     the client of a streamed request goes away           *)
(*   "decode_error"   the decode call fails, blocks pulled or not            *)
(***************************************************************************)
EXTENDS Naturals, FiniteSets

CONSTANTS Requests,     \* the requests clients send, one task each
          Faults        \* the faults of this instance

ASSUME FaultsAssumption ==
    Faults \subseteq {"prefill_error", "no_params", "disconnect", "decode_error"}

VARIABLES pc,           \* pc[r]: where the task of r is
          streamed,     \* streamed[r]: the client asked for a stream
          blocks,       \* requests whose KV blocks the prefiller keeps
          pulled        \* requests whose KV blocks the decoder has pulled

vars == <<pc, streamed, blocks, pulled>>

Ended == {"answered", "gone"}

Init ==
    /\ pc = [r \in Requests |-> "idle"]
    /\ streamed = [r \in Requests |-> FALSE]
    /\ blocks = {}
    /\ pulled = {}

Goto(r, stage) == pc' = [pc EXCEPT ![r] = stage]

\* prepare: the prefill call is posted.
Arrive(r) ==
    /\ pc[r] = "idle"
    /\ Goto(r, "prefill")
    /\ \E s \in BOOLEAN : streamed' = [streamed EXCEPT ![r] = s]
    /\ UNCHANGED <<blocks, pulled>>

\* The reply has transfer parameters.  A plain request is posted to the
\* decoder at once, a streamed one when its response is being sent.
PrefillReply(r) ==
    /\ pc[r] = "prefill"
    /\ blocks' = blocks \cup {r}
    /\ Goto(r, IF streamed[r] THEN "respond" ELSE "decode")
    /\ UNCHANGED <<streamed, pulled>>

\* The call raises, or its reply is an error or cannot be read.  The prefiller
\* may keep the blocks all the same: the reply is lost, not the prompt.
PrefillError(r) ==
    /\ "prefill_error" \in Faults
    /\ pc[r] = "prefill"
    /\ blocks' \in {blocks, blocks \cup {r}}
    /\ Goto(r, "answered")
    /\ UNCHANGED <<streamed, pulled>>

\* Mutant of MissingParams: the request is forwarded without parameters.
MissingParamsForwarded(r) ==
    /\ "no_params" \in Faults
    /\ pc[r] = "prefill"
    /\ Goto(r, "decode")
    /\ UNCHANGED <<streamed, blocks, pulled>>

\* The 502 for a reply without transfer parameters.
MissingParams(r) ==
    /\ "no_params" \in Faults
    /\ pc[r] = "prefill"
    /\ Goto(r, "answered")
    /\ UNCHANGED <<streamed, blocks, pulled>>

\* Mutant of StartStream: the response ends without a call of the decoder.
StartStreamEmpty(r) ==
    /\ pc[r] = "respond"
    /\ Goto(r, "answered")
    /\ UNCHANGED <<streamed, blocks, pulled>>

\* The generator of the stream starts and posts to the decoder.
StartStream(r) ==
    /\ pc[r] = "respond"
    /\ Goto(r, "decode")
    /\ UNCHANGED <<streamed, blocks, pulled>>

\* The client goes away before or while its stream is sent.
Disconnect(r) ==
    /\ "disconnect" \in Faults
    /\ streamed[r]
    /\ pc[r] \in {"respond", "decode"}
    /\ Goto(r, "gone")
    /\ UNCHANGED <<streamed, blocks, pulled>>

\* External: the decoder pulls the blocks and the prefiller frees them.
Pull(r) ==
    /\ pc[r] = "decode"
    /\ r \in blocks
    /\ blocks' = blocks \ {r}
    /\ pulled' = pulled \cup {r}
    /\ UNCHANGED <<pc, streamed>>

Answer(r) ==
    /\ pc[r] = "decode"
    /\ r \in pulled
    /\ Goto(r, "answered")
    /\ UNCHANGED <<streamed, blocks, pulled>>

\* Mutant of DecodeError: the proxy prefills again.
DecodeErrorRetried(r) ==
    /\ "decode_error" \in Faults
    /\ pc[r] = "decode"
    /\ Goto(r, "prefill")
    /\ UNCHANGED <<streamed, blocks, pulled>>

DecodeError(r) ==
    /\ "decode_error" \in Faults
    /\ pc[r] = "decode"
    /\ Goto(r, "answered")
    /\ UNCHANGED <<streamed, blocks, pulled>>

Idle ==
    /\ \A r \in Requests : pc[r] \in Ended
    /\ UNCHANGED vars

Next ==
    \/ \E r \in Requests :
         \/ Arrive(r)
         \/ PrefillReply(r) \/ PrefillError(r) \/ MissingParams(r)
         \/ StartStream(r) \/ Disconnect(r)
         \/ Pull(r) \/ Answer(r) \/ DecodeError(r)
    \/ Idle

Spec == Init /\ [][Next]_vars

-----------------------------------------------------------------------------
(* Properties                                                              *)

\* The variables have the shape the code gives them.
TypeOK ==
    /\ pc \in [Requests -> {"idle", "prefill", "respond", "decode"} \cup Ended]
    /\ streamed \in [Requests -> BOOLEAN]
    /\ blocks \subseteq Requests
    /\ pulled \subseteq Requests
    /\ blocks \cap pulled = {}

\* The requests as the handshake between the servers sees them: the KV cache
\* can be handed over once the prefiller keeps its blocks.
Phase(r) ==
    CASE pc[r] = "idle" -> "new"
      [] pc[r] \in {"prefill", "respond"} -> "prefill"
      [] pc[r] = "decode" -> "decode"
      [] OTHER -> "ended"

Phases == [r \in Requests |-> Phase(r)]

HandedOver == blocks \cup pulled

Handshake == INSTANCE PDHandshake WITH phase <- Phases, delivered <- HandedOver

\* The handshake of the module's docstring, whatever fails: a request is
\* decoded only after its own prefill, with the parameters it returned, and
\* never prefilled or decoded again after it has ended.
ImplementsHandshake == Handshake!Spec
=============================================================================
