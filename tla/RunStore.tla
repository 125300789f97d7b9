------------------------------ MODULE RunStore ------------------------------
(***************************************************************************)
(* The task records of observability.py, shared by every process that uses *)
(* the same state directory.  A record and its result file are two files;  *)
(* each is replaced atomically, under the lock of the task.                *)
(*                                                                         *)
(* Statuses are reduced to those that decide something: "failed" stands    *)
(* for error, timeout, unavailable and budget_exceeded, and "routing" for  *)
(* every status of a dispatched task: routing, preparing, running,         *)
(* fallback.                                                               *)
(***************************************************************************)
CONSTANTS
  Task,    \* task ids
  Proc,    \* runs of a TaskService, each with an owner instance id
  NoProc   \* the owner of a task that was never submitted

ASSUME NoProcAssumption == NoProc \notin Proc

VARIABLES
  status,           \* status of the record, "absent" when there is none
  file,             \* status in the result file, "none" when there is none
  owner,            \* owner_instance_id of the record
  cancelRequested   \* cancel_requested of the record

runVars == <<status, file, owner, cancelRequested>>

ActiveStatuses == {"queued", "routing"}
TerminalStatuses ==
  {"success", "failed", "cancelled", "blocked", "interrupted", "failed_gate"}

RunTypeOK ==
  /\ status \in [Task -> {"absent"} \cup ActiveStatuses \cup TerminalStatuses]
  /\ file \in [Task -> {"none"} \cup TerminalStatuses]
  /\ owner \in [Task -> Proc \cup {NoProc}]
  /\ cancelRequested \in [Task -> BOOLEAN]

RunInit ==
  /\ status = [t \in Task |-> "absent"]
  /\ file = [t \in Task |-> "none"]
  /\ owner = [t \in Task |-> NoProc]
  /\ cancelRequested = [t \in Task |-> FALSE]

Active(t) == status[t] \in ActiveStatuses
Terminal(t) == status[t] \in TerminalStatuses

-----------------------------------------------------------------------------
\* Variants of ReconcileTasks, used by no specification: the result file is
\* left alone; the lock of the owner is not looked at.
ReconcileRecordOnly(D, gone) ==
  LET orphans == {t \in D : Active(t) /\ owner[t] \in gone} IN
  /\ status' = [t \in Task |-> IF t \in orphans THEN "interrupted" ELSE status[t]]
  /\ UNCHANGED <<file, owner, cancelRequested>>

ReconcileAnyOwner(D, gone) ==
  LET open == {t \in D : Active(t)} IN
  /\ file' = [t \in Task |-> IF t \in open THEN "interrupted" ELSE file[t]]
  /\ status' = [t \in Task |-> IF t \in open THEN "interrupted" ELSE status[t]]
  /\ UNCHANGED <<owner, cancelRequested>>

\* Variant of StartTask: the record does not say whose it is.
StartUnowned(t, p, s) ==
  /\ status[t] = "absent"
  /\ status' = [status EXCEPT ![t] = s]
  /\ UNCHANGED <<file, owner, cancelRequested>>

-----------------------------------------------------------------------------
\* start_task, with the update that submit makes in the same critical section.
StartTask(t, p, s) ==
  /\ status[t] = "absent"
  /\ status' = [status EXCEPT ![t] = s]
  /\ owner' = [owner EXCEPT ![t] = p]
  /\ UNCHANGED <<file, cancelRequested>>

\* update_task(status=...): no look at the status that was there.
UpdateStatus(t, s) ==
  /\ status' = [status EXCEPT ![t] = s]
  /\ UNCHANGED <<file, owner, cancelRequested>>

\* The first half of complete_task.
WriteResult(t, s) ==
  /\ file' = [file EXCEPT ![t] = s]
  /\ UNCHANGED <<status, owner, cancelRequested>>

\* complete_task as a whole; it does not look at the status that was there.
CompleteTask(t, s) ==
  /\ file' = [file EXCEPT ![t] = s]
  /\ status' = [status EXCEPT ![t] = s]
  /\ UNCHANGED <<owner, cancelRequested>>

RequestCancel(t) ==
  /\ cancelRequested' = [cancelRequested EXCEPT ![t] = @ \/ Active(t)]
  /\ UNCHANGED <<status, file, owner>>

\* reconcile_task, for every task of D: an open task whose owner's lock is free
\* gets the status of its result file; without one it was interrupted.
ReconcileTasks(D, gone) ==
  LET orphans == {t \in D : Active(t) /\ owner[t] \in gone}
      found(t) == IF file[t] = "none" THEN "interrupted" ELSE file[t]
  IN
  /\ file' = [t \in Task |-> IF t \in orphans THEN found(t) ELSE file[t]]
  /\ status' = [t \in Task |-> IF t \in orphans THEN found(t) ELSE status[t]]
  /\ UNCHANGED <<owner, cancelRequested>>
=============================================================================
