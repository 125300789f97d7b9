---------------------------- MODULE TaskService -----------------------------
(***************************************************************************)
(* Asynchronous workflow tasks: several MCP processes, each with one       *)
(* TaskService (a job table, a worker pool and a heartbeat thread), share  *)
(* the task records of RunStore and the reservations of SchedulerSlots.    *)
(*                                                                         *)
(* A task's program counter stands between two accesses to shared state.   *)
(* What happens inside the service lock to one job is one action, for no   *)
(* other thread of the process can see the middle of it.                   *)
(***************************************************************************)
EXTENDS SchedulerSlots

CONSTANTS
  DependsOn,   \* task -> the tasks in its depends_on
  EventKinds,  \* the faults and calls that happen, of those below
  MaxEvents    \* bound on how many of them happen

ASSUME DependsOnAssumption == DependsOn \in [Task -> SUBSET Task]
ASSUME EventsAssumption ==
  /\ EventKinds \subseteq {"crash", "stall", "store", "cancel", "shutdown"}
  /\ MaxEvents \in Nat

VARIABLES
  up,         \* per process: "down", "up", "closing" or "gone"
  beating,    \* per process: the heartbeat thread is alive
  canceller,  \* per process: cancel() calls in flight, <<task, how far>>
  pc,         \* per task: where its job stands
  outcome,    \* per task: the status of the result its worker holds
  event,      \* per task: its cancel_event is set
  lost,       \* history: tasks whose slot expired while they were at work
  events      \* how many faults, cancels and shutdowns there were

serviceVars == <<up, beating, canceller>>
jobVars == <<pc, outcome, event>>
vars == <<runVars, reserved, serviceVars, jobVars, lost, events>>

(* A future is unfinished from executor.submit to the end of _run.  In     *)
(* "closing" and "closed" _run itself completes the record a first time,   *)
(* or a second time after the gates rejected what execute had recorded.    *)
ExecutePcs == {"submitted", "executing", "returned", "filed"}
WorkPcs == ExecutePcs \cup {"recorded", "closing", "closed"}
Pcs == {"absent", "pending", "settled", "withdrawn", "done", "released", "dead"}
       \cup WorkPcs

AtWork(t) == pc[t] \in WorkPcs
Unfinished(t) == pc[t] = "pending" \/ AtWork(t)
Live(p) == up[p] \in {"up", "closing"}
Gone == {p \in Proc : up[p] = "gone"}
LocalRunning(p) == {t \in Task : owner[t] = p /\ AtWork(t)}

ServiceTypeOK ==
  /\ up \in [Proc -> {"down", "up", "closing", "gone"}]
  /\ beating \in [Proc -> BOOLEAN]
  /\ canceller \in [Proc -> SUBSET (Task \X {"read", "marked"})]

JobTypeOK ==
  /\ pc \in [Task -> Pcs]
  /\ outcome \in [Task -> {"none"} \cup TerminalStatuses]
  /\ event \in [Task -> BOOLEAN]
  /\ lost \in SUBSET Task
  /\ events \in 0..MaxEvents

TypeOK ==
  /\ RunTypeOK /\ SlotsTypeOK /\ ServiceTypeOK /\ JobTypeOK
  /\ \A t \in Task : (status[t] = "absent" <=> pc[t] = "absent")
                     /\ (pc[t] # "absent" => owner[t] \in Proc)

Init ==
  /\ RunInit /\ SlotsInit
  /\ up = [p \in Proc |-> "down"]
  /\ beating = [p \in Proc |-> FALSE]
  /\ canceller = [p \in Proc |-> {}]
  /\ pc = [t \in Task |-> "absent"]
  /\ outcome = [t \in Task |-> "none"]
  /\ event = [t \in Task |-> FALSE]
  /\ lost = {} /\ events = 0

Goto(t, label) == pc' = [pc EXCEPT ![t] = label]
SetEvent(t) == event' = [event EXCEPT ![t] = TRUE]

Event(kind) ==
  /\ kind \in EventKinds /\ events < MaxEvents
  /\ events' = events + 1

\* A store error of a cancel or a shutdown, which were counted already.
Accompanied(kind) == kind \in EventKinds /\ UNCHANGED events

-----------------------------------------------------------------------------
(* The service: __init__, shutdown, the death of the process, _resolve.    *)

\* __init__: take the owner lock, start the heartbeat, reconcile every task.
StartService(p) ==
  /\ up[p] = "down"
  /\ up' = [up EXCEPT ![p] = "up"]
  /\ beating' = [beating EXCEPT ![p] = TRUE]
  /\ ReconcileTasks(Task, Gone)
  /\ UNCHANGED <<reserved, canceller, jobVars, lost, events>>

\* _resolve, by whichever live process looks at t: a no-op unless t is open
\* and the owner lock of its process is free.
Orphan(t) == Active(t) /\ owner[t] \in Gone
Resolve(t) ==
  /\ \E p \in Proc : Live(p)
  /\ Active(t)
  /\ ReconcileTasks({t}, Gone)
  /\ UNCHANGED <<reserved, serviceVars, jobVars, lost, events>>

Crash(p) ==
  /\ Live(p) /\ Event("crash")
  /\ up' = [up EXCEPT ![p] = "gone"]
  /\ beating' = [beating EXCEPT ![p] = FALSE]
  /\ canceller' = [canceller EXCEPT ![p] = {}]
  /\ pc' = [t \in Task |-> IF owner[t] = p THEN "dead" ELSE pc[t]]
  /\ UNCHANGED <<runVars, reserved, outcome, event, lost>>

\* shutdown: refuse new work, cancel every job, wait for the workers, and only
\* then stop the heartbeat and free the owner lock.
BeginShutdown(p) ==
  /\ up[p] = "up" /\ Event("shutdown")
  /\ up' = [up EXCEPT ![p] = "closing"]
  /\ UNCHANGED <<runVars, reserved, beating, canceller, jobVars, lost>>

EndShutdown(p) ==
  /\ up[p] = "closing" /\ canceller[p] = {}
  /\ \A t \in Task : owner[t] = p => pc[t] \in {"settled", "released"}
  /\ up' = [up EXCEPT ![p] = "gone"]
  /\ beating' = [beating EXCEPT ![p] = FALSE]
  /\ UNCHANGED <<runVars, reserved, canceller, jobVars, lost, events>>

\* submit: dependencies are resolved first, the record and the job are made
\* inside the lock.
Submit(p, t) ==
  /\ up[p] = "up"
  /\ \A d \in DependsOn[t] : status[d] # "absent" /\ ~Orphan(d)
  /\ StartTask(t, p, IF DependsOn[t] = {} THEN "routing" ELSE "queued")
  /\ Goto(t, "pending")
  /\ UNCHANGED <<reserved, serviceVars, outcome, event, lost, events>>

-----------------------------------------------------------------------------
(* _schedule_ready, for one job of its pass.                               *)

\* A pass looks at t; it has resolved each dependency of t.
Considers(p, t) ==
  /\ up[p] = "up" /\ owner[t] = p /\ pc[t] = "pending" /\ Active(t)
  /\ \A d \in DependsOn[t] : ~Orphan(d)

Failed(d) == Terminal(d) /\ status[d] # "success"
SomeFailed(t) == \E d \in DependsOn[t] : Failed(d)
AllSucceeded(t) == \A d \in DependsOn[t] : status[d] = "success"

\* The job gets a result without ever having run.
Settle(t, s) ==
  /\ CompleteTask(t, s)
  /\ Goto(t, "settled")
  /\ UNCHANGED <<reserved, serviceVars, outcome, event, lost>>

\* Variants with one plausible mistake each, used by no specification: only an
\* error of a dependency blocks; a dependency that has not failed is good enough.
BlockedByError(p, t) ==
  /\ Considers(p, t) /\ \E d \in DependsOn[t] : status[d] = "failed"
  /\ Settle(t, "blocked") /\ UNCHANGED events
ReadyUnlessFailed(p, t) == Considers(p, t) /\ ~SomeFailed(t)

Blocked(p, t) ==
  Considers(p, t) /\ SomeFailed(t) /\ Settle(t, "blocked") /\ UNCHANGED events

\* The look-up of a dependency raised, which counts as "unavailable".
BlockedByTrouble(p, t) ==
  /\ Considers(p, t) /\ DependsOn[t] # {}
  /\ Settle(t, "blocked") /\ Event("store")

\* Every dependency succeeded, but a workflow budget is exhausted, or there is
\* room and the output of a dependency cannot be inherited.
Refuse(p, t, s) ==
  /\ Considers(p, t) /\ AllSucceeded(t)
  /\ s = "blocked" => DependsOn[t] # {} /\ Room(t, LocalRunning(p))
  /\ Settle(t, s) /\ UNCHANGED events

Ready(p, t) == Considers(p, t) /\ AllSucceeded(t)

\* Dependencies are open, or there is no room here or in the shared table.
Waits(p, t) ==
  /\ Considers(p, t) /\ ~SomeFailed(t)
  /\ AllSucceeded(t) => ~Room(t, LocalRunning(p)) \/ ~SlotFree(t)
  /\ UpdateStatus(t, "queued")
  /\ UNCHANGED <<reserved, serviceVars, jobVars, lost, events>>

\* Variant: the limits are checked in this process only.
DispatchLocally(p, t) ==
  /\ Ready(p, t) /\ Room(t, LocalRunning(p))
  /\ reserved' = reserved \cup {t}
  /\ UpdateStatus(t, "routing")
  /\ Goto(t, "submitted")
  /\ UNCHANGED <<serviceVars, outcome, event, lost, events>>

Dispatch(p, t) ==
  /\ Ready(p, t) /\ Room(t, LocalRunning(p))
  /\ Reserve(t)
  /\ UpdateStatus(t, "routing")
  /\ Goto(t, "submitted")
  /\ UNCHANGED <<serviceVars, outcome, event, lost, events>>

\* A store error leaves the pass, or a renewal, by a door the heartbeat loop
\* does not guard: its thread is gone while the process goes on.
HeartbeatDies(p) ==
  /\ Live(p) /\ beating[p] /\ Event("store")
  /\ beating' = [beating EXCEPT ![p] = FALSE]
  /\ UNCHANGED <<runVars, reserved, up, canceller, jobVars, lost>>

-----------------------------------------------------------------------------
(* The worker thread: _run, execute, _apply_quality_gates, _task_finished. *)

\* _run finds the cancel event set, or goes on to the provider.
Start(t) ==
  /\ pc[t] = "submitted"
  /\ IF event[t]
     THEN Goto(t, "closing") /\ outcome' = [outcome EXCEPT ![t] = "cancelled"]
     ELSE Goto(t, "executing") /\ UNCHANGED outcome
  /\ UNCHANGED <<runVars, reserved, serviceVars, event, lost, events>>

\* The provider answers, or execute raises and _run makes a result of that.
ProviderReturns(t) ==
  /\ pc[t] = "executing"
  /\ \/ /\ \E o \in {"success", "failed"} \cup (IF event[t] THEN {"cancelled"} ELSE {}) :
             outcome' = [outcome EXCEPT ![t] = o]
        /\ Goto(t, "returned")
     \/ /\ outcome' = [outcome EXCEPT ![t] = "failed"]
        /\ Goto(t, "closing")
  /\ UNCHANGED <<runVars, reserved, serviceVars, event, lost, events>>

\* complete_task in execute: the result file, then the record.
File(t) ==
  /\ pc[t] = "returned"
  /\ WriteResult(t, outcome[t])
  /\ Goto(t, "filed")
  /\ UNCHANGED <<reserved, serviceVars, outcome, event, lost, events>>

Record(t) ==
  /\ pc[t] = "filed"
  /\ UpdateStatus(t, outcome[t])
  /\ Goto(t, IF outcome[t] = "success" THEN "recorded" ELSE "done")
  /\ UNCHANGED <<reserved, serviceVars, outcome, event, lost, events>>

\* complete_task raises in execute; _run catches that and completes as an error.
RecordFails(t) ==
  /\ pc[t] \in {"returned", "filed"} /\ Event("store")
  /\ outcome' = [outcome EXCEPT ![t] = "failed"]
  /\ Goto(t, "closing")
  /\ UNCHANGED <<runVars, reserved, serviceVars, event, lost>>

\* The quality gates, over a success that the record already shows.
GatesAccept(t) ==
  /\ pc[t] = "recorded"
  /\ Goto(t, IF status[t] = outcome[t] THEN "done" ELSE "closing")
  /\ UNCHANGED <<runVars, reserved, serviceVars, outcome, event, lost, events>>

GatesReject(t) ==
  /\ pc[t] = "recorded"
  /\ outcome' = [outcome EXCEPT ![t] = "failed_gate"]
  /\ Goto(t, "closing")
  /\ UNCHANGED <<runVars, reserved, serviceVars, event, lost, events>>

\* complete_task in _run.
CloseFile(t) ==
  /\ pc[t] = "closing"
  /\ WriteResult(t, outcome[t])
  /\ Goto(t, "closed")
  /\ UNCHANGED <<reserved, serviceVars, outcome, event, lost, events>>

CloseRecord(t) ==
  /\ pc[t] = "closed"
  /\ UpdateStatus(t, outcome[t])
  /\ Goto(t, "done")
  /\ UNCHANGED <<reserved, serviceVars, outcome, event, lost, events>>

\* The gates or this complete_task raise: the future ends with an exception
\* nobody turns into a status.
CloseFails(t) ==
  /\ pc[t] \in {"recorded", "closing", "closed"} /\ Event("store")
  /\ Goto(t, "done")
  /\ UNCHANGED <<runVars, reserved, serviceVars, outcome, event, lost>>

\* _task_finished; the pass it starts is an action of its own, like any pass.
TaskFinished(t) ==
  /\ pc[t] = "done"
  /\ Release(t)
  /\ Goto(t, "released")
  /\ UNCHANGED <<runVars, serviceVars, outcome, event, lost, events>>

ReleaseFails(t) ==
  /\ pc[t] = "done" /\ Event("store")
  /\ Goto(t, "released")
  /\ UNCHANGED <<runVars, reserved, serviceVars, outcome, event, lost>>

Worker(t) ==
  \/ Start(t) \/ File(t) \/ Record(t) \/ GatesAccept(t) \/ GatesReject(t)
  \/ CloseFile(t) \/ CloseRecord(t) \/ TaskFinished(t)

-----------------------------------------------------------------------------
(* Slots: renewal is what keeps a reservation; only its absence is seen.   *)

Attended(t) == owner[t] \in Proc /\ beating[owner[t]]
Renewed(t) == Attended(t) /\ AtWork(t)

Expire(t) ==
  /\ t \in reserved
  /\ IF Renewed(t) THEN Event("stall") ELSE UNCHANGED events
  /\ Release(t)
  /\ lost' = IF AtWork(t) THEN lost \cup {t} ELSE lost
  /\ UNCHANGED <<runVars, serviceVars, jobVars>>

\* Variant: a renewal that finds no reservation makes one, and says nothing.
RenewOrInsert(p, t) ==
  /\ beating[p] /\ owner[t] = p /\ AtWork(t) /\ t \notin reserved
  /\ reserved' = reserved \cup {t}
  /\ UNCHANGED <<runVars, serviceVars, jobVars, lost, events>>

\* The heartbeat's renew_scheduler_slot finds no reservation.
NoticeLostSlot(p, t) ==
  /\ beating[p] /\ owner[t] = p /\ AtWork(t)
  /\ t \notin reserved /\ ~event[t]
  /\ SetEvent(t)
  /\ UNCHANGED <<runVars, reserved, serviceVars, pc, outcome, lost, events>>

-----------------------------------------------------------------------------
(* cancel: the record is read before the lock is taken, the event is set   *)
(* under the lock, and the future is cancelled after it.                   *)

InFlight(p, t, k) == canceller' = [canceller EXCEPT ![p] = @ \cup {<<t, k>>}]
Over(p, t, k) == canceller' = [canceller EXCEPT ![p] = @ \ {<<t, k>>}]

\* A client asks some process.
CancelRead(p, t) ==
  /\ up[p] = "up" /\ Active(t) /\ ~Orphan(t)
  /\ Event("cancel")
  /\ InFlight(p, t, "read")
  /\ UNCHANGED <<runVars, reserved, up, beating, jobVars, lost>>

\* Variant: the heartbeat looks for requests on queued jobs only.
PickUpIfPending(p, t) ==
  /\ beating[p] /\ owner[t] = p /\ cancelRequested[t] /\ ~event[t] /\ Active(t)
  /\ pc[t] = "pending"
  /\ InFlight(p, t, "read")
  /\ UNCHANGED <<runVars, reserved, up, beating, jobVars, lost, events>>

\* The owner's heartbeat finds a request in the record.
PickUpCancel(p, t) ==
  /\ beating[p] /\ owner[t] = p /\ cancelRequested[t] /\ ~event[t] /\ Active(t)
  /\ InFlight(p, t, "read")
  /\ UNCHANGED <<runVars, reserved, up, beating, jobVars, lost, events>>

\* shutdown goes through the job table.
ShutdownCancel(p, t) ==
  /\ up[p] = "closing" /\ owner[t] = p /\ Active(t) /\ Unfinished(t)
  /\ pc[t] \in {"pending", "submitted"} \/ ~event[t]
  /\ InFlight(p, t, "read")
  /\ UNCHANGED <<runVars, reserved, up, beating, jobVars, lost, events>>

\* The job is another process's: leave a request in the record.
CancelElsewhere(p, t) ==
  /\ <<t, "read">> \in canceller[p] /\ owner[t] # p
  /\ RequestCancel(t)
  /\ Over(p, t, "read")
  /\ UNCHANGED <<reserved, up, beating, jobVars, lost, events>>

\* The job has no future: it ends here.  A pass may have settled it since the
\* record was read; its result is then replaced.
CancelPending(p, t) ==
  /\ <<t, "read">> \in canceller[p] /\ owner[t] = p
  /\ pc[t] \in {"pending", "settled"}
  /\ SetEvent(t)
  /\ CompleteTask(t, "cancelled")
  /\ Goto(t, "settled")
  /\ Over(p, t, "read")
  /\ UNCHANGED <<reserved, up, beating, outcome, lost, events>>

\* complete_task raises after the event was set; the job stays in the queue.
CancelPendingFails(p, t) ==
  /\ <<t, "read">> \in canceller[p] /\ owner[t] = p /\ up[p] = "up"
  /\ pc[t] = "pending" /\ Accompanied("store")
  /\ SetEvent(t)
  /\ Over(p, t, "read")
  /\ UNCHANGED <<runVars, reserved, up, beating, pc, outcome, lost>>

\* Variant: the record of a job at work is completed along with the event.
CancelAtOnce(p, t) ==
  /\ <<t, "read">> \in canceller[p] /\ owner[t] = p
  /\ pc[t] \notin {"pending", "settled"}
  /\ SetEvent(t)
  /\ CompleteTask(t, "cancelled")
  /\ Over(p, t, "read")
  /\ UNCHANGED <<reserved, up, beating, pc, outcome, lost, events>>

\* The job has a future: set the event unless it is finished.
CancelMark(p, t) ==
  /\ <<t, "read">> \in canceller[p] /\ owner[t] = p
  /\ pc[t] \notin {"pending", "settled"}
  /\ event' = [event EXCEPT ![t] = @ \/ AtWork(t)]
  /\ canceller' = [canceller EXCEPT ![p] =
       (@ \ {<<t, "read">>}) \cup (IF AtWork(t) THEN {<<t, "marked">>} ELSE {})]
  /\ UNCHANGED <<runVars, reserved, up, beating, pc, outcome, lost, events>>

\* future.cancel(): it takes hold of a future no worker has started, and its
\* done-callback gives the slot back; a started one only notes the request.
CancelWithdraw(p, t) ==
  /\ <<t, "marked">> \in canceller[p]
  /\ IF pc[t] = "submitted"
     THEN Release(t) /\ Goto(t, "withdrawn")
     ELSE UNCHANGED <<reserved, pc>>
  /\ Over(p, t, "marked")
  /\ UNCHANGED <<runVars, up, beating, outcome, event, lost, events>>

RecordWithdrawn(t) ==
  /\ pc[t] = "withdrawn"
  /\ CompleteTask(t, "cancelled")
  /\ Goto(t, "released")
  /\ UNCHANGED <<reserved, serviceVars, outcome, event, lost, events>>

RecordWithdrawnFails(t) ==
  /\ pc[t] = "withdrawn" /\ Accompanied("store")
  /\ Goto(t, "released")
  /\ UNCHANGED <<runVars, reserved, serviceVars, outcome, event, lost>>

-----------------------------------------------------------------------------
Cancelling(p, t) ==
  \/ CancelElsewhere(p, t) \/ CancelPending(p, t) \/ CancelMark(p, t)
  \/ CancelWithdraw(p, t)

Pass(p, t) == Blocked(p, t) \/ Waits(p, t) \/ Dispatch(p, t)

TaskStep(t) ==
  \/ Worker(t) \/ ProviderReturns(t)
  \/ RecordFails(t) \/ CloseFails(t) \/ ReleaseFails(t)
  \/ RecordWithdrawn(t) \/ RecordWithdrawnFails(t)
  \/ Resolve(t) \/ Expire(t)

JobStep(p, t) ==
  \/ Submit(p, t) \/ Pass(p, t) \/ BlockedByTrouble(p, t)
  \/ \E s \in {"failed", "blocked"} : Refuse(p, t, s)
  \/ CancelRead(p, t) \/ PickUpCancel(p, t) \/ ShutdownCancel(p, t)
  \/ Cancelling(p, t) \/ CancelPendingFails(p, t)
  \/ NoticeLostSlot(p, t)

ServiceStep(p) ==
  \/ StartService(p) \/ BeginShutdown(p) \/ EndShutdown(p) \/ Crash(p)
  \/ HeartbeatDies(p)

Next ==
  \/ \E t \in Task : TaskStep(t)
  \/ \E p \in Proc, t \in Task : JobStep(p, t)
  \/ \E p \in Proc : ServiceStep(p)

Spec == Init /\ [][Next]_vars

(* Threads that can run do run; a cancelled provider is killed and answers *)
(* (an unhindered one need not); time passes for slots.                    *)
TaskRuns(t) ==
  \/ Worker(t) \/ RecordWithdrawn(t)
  \/ event[t] /\ ProviderReturns(t)
  \/ ~Renewed(t) /\ Expire(t)

\* A living heartbeat beats, and each beat ends with a pass, which resolves the
\* dependencies of the jobs it looks at.
Beat(p) ==
  /\ beating[p]
  /\ \E t \in Task :
       \/ PickUpCancel(p, t) \/ NoticeLostSlot(p, t) \/ Pass(p, t)
       \/ /\ \E u \in Task : /\ owner[u] = p /\ pc[u] = "pending"
                            /\ t \in DependsOn[u]
          /\ up[p] = "up" /\ Resolve(t)

\* Calls of cancel and shutdown go on.
CallRuns(p) ==
  \/ EndShutdown(p)
  \/ \E t \in Task : Cancelling(p, t) \/ ShutdownCancel(p, t)

Fairness ==
  /\ \A t \in Task : WF_vars(TaskRuns(t))
  /\ \A p \in Proc : WF_vars(Beat(p)) /\ WF_vars(CallRuns(p))

LiveSpec == Spec /\ Fairness

-----------------------------------------------------------------------------
(* Safety.                                                                 *)

\* Over all processes, the tasks at work in a pool stay within its limit, but
\* for those whose reservation expired under them (reserve_scheduler_slot).
Capacity ==
  \A pool \in Pools :
    Cardinality({t \in pool.tasks : AtWork(t)} \ lost) <= pool.limit

\* Nobody - no cancel, no other process that reconciles - closes the record of
\* a task before its own worker has recorded what execute returned.
WorkIsOpen == \A t \in Task : pc[t] \in ExecutePcs => Active(t)

\* A terminal record has its result file, and they agree except while a gate
\* rejection is being written; get_result turns a missing file into an error.
ResultReadable ==
  \A t \in Task : Terminal(t) =>
    \/ file[t] = status[t]
    \/ status[t] = "success" /\ file[t] = "failed_gate"

\* A task that was dispatched had every dependency succeed, although a gate may
\* since have turned that success down.
DependenciesHonoured ==
  \A t \in Task : pc[t] \in WorkPcs \cup {"withdrawn", "done", "released"} =>
    \A d \in DependsOn[t] : status[d] \in {"success", "failed_gate"}

\* A step never reopens a finished task nor changes how it ended, except that
\* gates reject a success, and that a cancel which read the record earlier
\* replaces the result of a job that ended without running.
KeepsTerminal ==
  \A t \in Task : Terminal(t) =>
    \/ status'[t] = status[t]
    \/ status[t] = "success" /\ status'[t] = "failed_gate" /\ pc[t] = "closed"
    \/ status'[t] = "cancelled" /\ pc[t] = "settled"
TerminalStays == [][KeepsTerminal]_vars

(* Liveness, under LiveSpec.                                               *)

\* When providers answer, a task queued at a process whose heartbeat lives ends,
\* whatever becomes of the processes that own its dependencies.
ProvidersAnswer == \A t \in Task : []<>(pc[t] # "executing")
TasksEnd ==
  ProvidersAnswer => \A t \in Task :
    (pc[t] = "pending" /\ Attended(t)) ~> (Terminal(t) \/ ~Attended(t))

\* The owner acts on a request another process left in the record, unless the
\* task ends first.
CancelPickedUp ==
  \A t \in Task :
    (cancelRequested[t] /\ Active(t) /\ Attended(t))
      ~> (event[t] \/ ~Active(t) \/ ~Attended(t))

\* A task whose slot expired under it stops, as long as its owner's heartbeat
\* lives, even if its provider would never answer by itself.
OverlapEnds ==
  \A t \in Task :
    (t \in lost /\ AtWork(t) /\ Attended(t)) ~> (~AtWork(t) \/ ~Attended(t))

(* Stated in the repository, and violated.                                 *)

\* Gates have rejected a task before its dependents are released
\* (docs/architecture.md): none of them is at work on a rejected dependency.
DependentsWaitForGates ==
  \A t \in Task : AtWork(t) => \A d \in DependsOn[t] : status[d] # "failed_gate"
=============================================================================
