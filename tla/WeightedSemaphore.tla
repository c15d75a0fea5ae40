------------------------- MODULE WeightedSemaphore -------------------------
(***************************************************************************)
(* The weighted semaphore of the LMCache proxy (pd_proxy.py, class         *)
(* WeightedSemaphore): a counter of transfer slots guarded by an           *)
(* asyncio.Condition.                                                      *)
(*                                                                         *)
(* Every section under the condition's lock runs without an await that     *)
(* suspends, so on one event loop each is one atomic step.  A task whose   *)
(* predicate fails goes to sleep on the condition; release notifies every  *)
(* sleeper, and a woken task evaluates its predicate again in a step of    *)
(* its own, so a newcomer may take the slots first.                        *)
(***************************************************************************)
EXTENDS Naturals

CONSTANT Capacity       \* slots of the transfer buffer

\* __init__ raises for a capacity below one.
ASSUME CapacityAssumption == Capacity \in Nat \ {0}

VARIABLES available,    \* free slots
          waiters       \* tasks asleep on the condition

SemaphoreInit ==
    /\ available = Capacity
    /\ waiters = {}

\* acquire raises ValueError instead of waiting for what can never be free.
Oversize(slots) == slots > Capacity

\* Mutant of Acquire: the predicate is not evaluated.
AcquireUnchecked(task, slots) ==
    /\ ~ Oversize(slots)
    /\ task \notin waiters
    /\ available' = available - slots
    /\ UNCHANGED waiters

\* The predicate holds: the task goes on with the slots.
Acquire(task, slots) ==
    /\ ~ Oversize(slots)
    /\ task \notin waiters
    /\ available >= slots
    /\ available' = available - slots
    /\ UNCHANGED waiters

\* The predicate fails: the task sleeps until the next release.
Sleep(task, slots) ==
    /\ ~ Oversize(slots)
    /\ task \notin waiters
    /\ available < slots
    /\ waiters' = waiters \cup {task}
    /\ UNCHANGED available

\* What the counter becomes when slots are given back.
Freed(slots) ==
    IF available + slots > Capacity THEN Capacity ELSE available + slots

\* Mutant of Release: nobody is notified.
ReleaseQuietly(slots) ==
    /\ available' = Freed(slots)
    /\ UNCHANGED waiters

\* release: clamp, then notify_all.
Release(slots) ==
    /\ available' = Freed(slots)
    /\ waiters' = {}
=============================================================================
