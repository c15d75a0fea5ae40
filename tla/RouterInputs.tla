---------------------------- MODULE RouterInputs ----------------------------
(***************************************************************************)
(* The router applied to every snapshot of a bounded set: a behavior picks *)
(* a request, a pool of workers and a directory, and routes.               *)
(***************************************************************************)
EXTENDS SLORouter, SequencesExt

CONSTANTS Requests,
          Pools,        \* the workers known at a time, as sets
          Listings,     \* the directories, as sequences in the order of the dict
          Layouts, Zones

ASSUME LayoutsAssumption == \A l \in Layouts : l.kv_bytes_per_token \in Int

\* RouteBody bounds what a request asks for.
ASSUME RequestsAssumption ==
    \A r \in Requests : r.input_tokens \in Nat \ {0} /\ r.prefix_tokens \in Nat

\* Of what heartbeats report only the utilization is bounded, and nothing here
\* depends on that.  What is assumed is that decoding takes no negative time.
WorkerSet ==
    [id : Int, role : Roles, layout : Layouts, zone : Zones,
     queue_depth : Int, active_sequences : Int, gpu_utilization : Int,
     prefill_us : Int, decode_us : Nat, bandwidth : Int]

\* The registry is a dict with the ids for keys.
ASSUME PoolsAssumption ==
    \A pool \in Pools :
        /\ IsFiniteSet(pool) /\ pool \subseteq WorkerSet
        /\ \A v, w \in pool : v.id = w.id => v = w

ASSUME ListingsAssumption ==
    \A entries \in Listings :
        /\ entries \in Seq({entries[i] : i \in DOMAIN entries})
        /\ \A i \in DOMAIN entries :
             /\ entries[i].token_count \in Int /\ entries[i].tier \in Tiers
             /\ entries[i].last_access \in Int

VARIABLES request, pool, listing, decision

vars == <<request, pool, listing, decision>>

Undecided == [reason |-> "undecided"]

Init ==
    /\ request \in Requests
    /\ pool \in Pools
    /\ listing \in Listings
    /\ decision = Undecided

Decide ==
    /\ decision = Undecided
    /\ decision' = Route(request, pool, listing)
    /\ UNCHANGED <<request, pool, listing>>

Decided == decision # Undecided /\ UNCHANGED vars

Next == Decide \/ Decided

Spec == Init /\ [][Next]_vars

\* The worker w with more load than it reported.
Busier(w) ==
    {[w EXCEPT !.queue_depth = @ + 1], [w EXCEPT !.active_sequences = @ + 1],
     [w EXCEPT !.gpu_utilization = @ + 10]}

Chosen(d, w) == "candidate" \in DOMAIN d /\ w.id \in {d.candidate.prefill, d.candidate.decode}

\* The order in which entries were registered does not matter: the decision
\* is the same for every iteration order of the directory's dict, although
\* both sorts on the way to it keep the dict's order among equals.
ListingOrderIrrelevant ==
    decision # Undecided =>
        \A other \in SetToSeqs({listing[i] : i \in DOMAIN listing}) :
            Route(request, pool, other) = decision

\* More load does not attract requests: a worker that is not chosen is not
\* chosen either when it reports a longer queue, more sequences or a busier
\* GPU, whatever that does to the predictions and the score.
LoadRepels ==
    decision # Undecided =>
        \A w \in pool : ~ Chosen(decision, w) =>
            \A busy \in Busier(w) :
                ~ Chosen(Route(request, (pool \ {w}) \cup {busy}, listing), w)
=============================================================================
