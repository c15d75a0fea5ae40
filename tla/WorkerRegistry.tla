--------------------------- MODULE WorkerRegistry ---------------------------
(***************************************************************************)
(* The registry of workers (registry.py, class WorkerRegistry).  A worker  *)
(* is never deleted: fencing marks it unhealthy, and a registration or a   *)
(* heartbeat makes it healthy again.  Each action is the section of a      *)
(* method under the registry's lock; register and fence_stale read the     *)
(* clock before they take it, so they are given the time they have read.   *)
(***************************************************************************)
EXTENDS Weights, Models, Integers

CONSTANT HeartbeatTimeout       \* heartbeat_timeout_seconds

ASSUME HeartbeatTimeoutAssumption == HeartbeatTimeout \in Nat

VARIABLE workers                \* id -> worker

RegistryInit == workers = << >>

\* Mutant of RegisterWorker: the field holds the deadline.
RegisterWorkerDeadline(w, profile, now) ==
    workers' = Put(workers, w,
                   [role |-> profile.role, layout |-> profile.layout,
                    last_heartbeat |-> now + HeartbeatTimeout, healthy |-> TRUE])

\* register: a new or returning worker replaces what was known of it.
RegisterWorker(w, profile, now) ==
    workers' = Put(workers, w,
                   [role |-> profile.role, layout |-> profile.layout,
                    last_heartbeat |-> now, healthy |-> TRUE])

\* heartbeat: KeyError, and no change, for a worker that is not registered.
HeartbeatFrom(w, now) ==
    /\ w \in DOMAIN workers
    /\ workers' = [workers EXCEPT ![w].last_heartbeat = now, ![w].healthy = TRUE]

\* Mutant of Stale: a heartbeat is overdue one instant early.
StaleAtTimeout(now) ==
    {w \in DOMAIN workers :
        /\ workers[w].healthy
        /\ now - workers[w].last_heartbeat >= HeartbeatTimeout}

\* The workers fence_stale marks and returns, by the time now.
Stale(now) ==
    {w \in DOMAIN workers :
        /\ workers[w].healthy
        /\ now - workers[w].last_heartbeat > HeartbeatTimeout}

FenceStale(now) ==
    workers' = [w \in DOMAIN workers |->
                  [workers[w] EXCEPT !.healthy = @ /\ w \notin Stale(now)]]

Unhealthy == {w \in DOMAIN workers : ~ workers[w].healthy}

\* Mutant of Healthy: every worker of the role.
Registered(role) == {w \in DOMAIN workers : workers[w].role = role}

\* What healthy(role) lists once it has fenced.
Healthy(role) == {w \in DOMAIN workers : workers[w].healthy /\ workers[w].role = role}
=============================================================================
