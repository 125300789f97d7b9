--------------------------- MODULE SchedulerSlots ---------------------------
(***************************************************************************)
(* The scheduler_reservations table of the SQLite store: one transaction   *)
(* counts the reservations that have not expired and adds one.  Workspace, *)
(* provider and profile limits are pools: sets of tasks with a bound each. *)
(* A reservation is made for a task of RunStore.                           *)
(***************************************************************************)
EXTENDS RunStore, Naturals, FiniteSets

CONSTANT
  Pools    \* records [tasks |-> set of tasks, limit |-> how many at a time]

ASSUME PoolsAssumption ==
  \A pool \in Pools : pool.tasks \subseteq Task /\ pool.limit \in Nat \ {0}

VARIABLE reserved   \* tasks with a reservation that has not expired

SlotsTypeOK == reserved \subseteq Task
SlotsInit == reserved = {}

\* Room for t in every pool it belongs to, counting the tasks of S.
Room(t, S) ==
  \A pool \in Pools :
    t \in pool.tasks => Cardinality(S \cap pool.tasks) < pool.limit

\* reserve_scheduler_slot
SlotFree(t) == t \in reserved \/ Room(t, reserved)
Reserve(t) == SlotFree(t) /\ reserved' = reserved \cup {t}

\* release_scheduler_slot, and the passing of a reservation's expiry time.
Release(t) == reserved' = reserved \ {t}
=============================================================================
