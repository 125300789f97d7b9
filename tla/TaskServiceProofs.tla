------------------------- MODULE TaskServiceProofs -------------------------
(***************************************************************************)
(* Proofs about TaskService, for any tasks, dependencies, processes and    *)
(* pools, and any number of crashes, stalls, store errors, cancels and     *)
(* shutdowns.                                                              *)
(***************************************************************************)
EXTENDS TaskService, FiniteSetTheorems, TLAPS

(* A task that was never submitted has no owner, so no crash touches it.   *)
UnownedUntilSubmitted == \A t \in Task : pc[t] = "absent" => owner[t] = NoProc

(* A job that is waiting, at work or about to be released has a live       *)
(* owner: a crash takes its jobs along, and shutdown waits for them.  So   *)
(* nobody may take it for an orphan.                                       *)
ManagedPcs == {"pending", "withdrawn", "done"} \cup WorkPcs
OwnerLives == \A t \in Task : pc[t] \in ManagedPcs => Live(owner[t])

(* Until its worker or its cancel records the end, a job's record is open. *)
OpenUntilRecorded ==
  \A t \in Task : pc[t] \in {"pending", "withdrawn"} \cup ExecutePcs => Active(t)

(* A job that ended without running ended in one of three ways, none of    *)
(* which releases a dependent.                                             *)
SettledBadly ==
  \A t \in Task :
    pc[t] = "settled" => status[t] \in {"failed", "blocked", "cancelled"}

(* How far the worker has come with what it holds in its hand: a second    *)
(* completion replaces an open record, or a success that the gates turned  *)
(* down.                                                                   *)
WorkerKnows ==
  \A t \in Task :
    /\ pc[t] \in {"returned", "filed", "closing", "closed"} =>
         outcome[t] \in TerminalStatuses
    /\ pc[t] \in {"filed", "closed"} => file[t] = outcome[t]
    /\ pc[t] = "recorded" => /\ status[t] = "success" /\ outcome[t] = "success"
                             /\ file[t] = "success"
    /\ pc[t] \in {"closing", "closed"} =>
         Active(t) \/ (status[t] = "success" /\ outcome[t] = "failed_gate")

(* A task at work has a reservation, unless that expired under it, and the *)
(* reservations of all processes together stay within every limit.         *)
SlotHeld == \A t \in Task : AtWork(t) => t \in reserved \cup lost
SlotsBounded ==
  /\ IsFiniteSet(reserved)
  /\ \A pool \in Pools : Cardinality(reserved \cap pool.tasks) <= pool.limit

RecordInv ==
  /\ UnownedUntilSubmitted /\ OwnerLives /\ OpenUntilRecorded
  /\ SettledBadly /\ WorkerKnows /\ ResultReadable
SlotInv == SlotHeld /\ SlotsBounded
IInv == TypeOK /\ RecordInv /\ DependenciesHonoured /\ SlotInv
-----------------------------------------------------------------------------
USE NoProcAssumption, DependsOnAssumption, EventsAssumption, PoolsAssumption
USE DEF Goto, SetEvent, Event, Accompanied, Settle, InFlight, Over, StartTask,
        UpdateStatus, WriteResult, CompleteTask, RequestCancel, Release, Reserve,
        runVars, serviceVars, jobVars, ActiveStatuses, TerminalStatuses, ExecutePcs,
        WorkPcs, Pcs, ManagedPcs

(* reconcile_task closes open records of dead owners, with their results,  *)
(* and touches no other record.                                            *)
LEMMA ReconcileEffect ==
  ASSUME RunTypeOK, NEW D \in SUBSET Task, NEW gone, ReconcileTasks(D, gone)
  PROVE  /\ RunTypeOK' /\ UNCHANGED <<owner, cancelRequested>>
         /\ \A t \in Task :
              /\ status'[t] = "absent" <=> status[t] = "absent"
              /\ \/ status'[t] = status[t] /\ file'[t] = file[t]
                 \/ /\ t \in D /\ Active(t) /\ owner[t] \in gone
                    /\ status'[t] = file'[t] /\ status'[t] \in TerminalStatuses
<1> DEFINE found(t) == IF file[t] = "none" THEN "interrupted" ELSE file[t]
<1>1. \A t \in Task : found(t) \in TerminalStatuses
  BY DEF RunTypeOK
<1>2. /\ UNCHANGED <<owner, cancelRequested>>
      /\ status' = [t \in Task |->
           IF t \in D /\ Active(t) /\ owner[t] \in gone
           THEN found(t) ELSE status[t]]
      /\ file' = [t \in Task |->
           IF t \in D /\ Active(t) /\ owner[t] \in gone
           THEN found(t) ELSE file[t]]
  BY DEF ReconcileTasks
<1> QED
  BY <1>1, <1>2 DEF RunTypeOK, Active

(* What it closes belongs to a dead process, so no worker, no cancel and   *)
(* no scheduling pass has the job any more.                                *)
LEMMA ReconcileSpares ==
  ASSUME TypeOK, RecordInv, NEW D \in SUBSET Task, ReconcileTasks(D, Gone)
  PROVE  \A t \in Task :
           \/ status'[t] = status[t] /\ file'[t] = file[t]
           \/ /\ pc[t] \in {"released", "dead"} /\ Active(t)
              /\ status'[t] = file'[t] /\ status'[t] \in TerminalStatuses
<1> USE DEF TypeOK
<1>1. ASSUME NEW t \in Task, Active(t), owner[t] \in Gone
      PROVE  pc[t] \in {"released", "dead"}
  BY <1>1 DEF RunTypeOK, JobTypeOK, RecordInv, OwnerLives, SettledBadly,
         Active, Live, Gone
<1> QED
  BY <1>1, ReconcileEffect
-----------------------------------------------------------------------------
(* Every step keeps the types, and a record exists for what was submitted. *)
LEMMA TypeStep ==
  TypeOK /\ UnownedUntilSubmitted /\ WorkerKnows /\ [Next]_vars => TypeOK'
<1> SUFFICES ASSUME TypeOK, UnownedUntilSubmitted, WorkerKnows, [Next]_vars
             PROVE  TypeOK'
  OBVIOUS
<1> USE DEF TypeOK, RunTypeOK, SlotsTypeOK, ServiceTypeOK, JobTypeOK, WorkerKnows,
        UnownedUntilSubmitted
<1>1. ASSUME NEW t \in Task, Start(t) \/ File(t) \/ Record(t) \/
             GatesAccept(t) \/ GatesReject(t) \/ CloseFile(t) \/
             CloseRecord(t) \/ TaskFinished(t) \/ ProviderReturns(t) \/
             RecordFails(t) \/ CloseFails(t) \/ ReleaseFails(t)
       PROVE  TypeOK'
  BY <1>1 DEF Start, File, Record, GatesAccept, GatesReject, CloseFile,
         CloseRecord, TaskFinished, ProviderReturns, RecordFails, CloseFails,
         ReleaseFails
<1>2. ASSUME NEW t \in Task, RecordWithdrawn(t) \/ RecordWithdrawnFails(t)
       PROVE  TypeOK'
  BY <1>2 DEF RecordWithdrawn, RecordWithdrawnFails
<1>3. ASSUME NEW t \in Task, Resolve(t)
       PROVE  TypeOK'
  <2>1. {t} \in SUBSET Task /\ ReconcileTasks({t}, Gone)
    BY <1>3 DEF Resolve
  <2>2. /\ RunTypeOK' /\ UNCHANGED owner
        /\ \A u \in Task : status'[u] = "absent" <=> status[u] = "absent"
    BY <2>1, ReconcileEffect
  <2> QED
    BY <1>3, <2>2 DEF Resolve
<1>4. ASSUME NEW t \in Task, Expire(t)
       PROVE  TypeOK'
  BY <1>4 DEF Expire
<1>5. ASSUME NEW p \in Proc, NEW t \in Task, Submit(p, t)
       PROVE  TypeOK'
  BY <1>5 DEF Submit
<1>6. ASSUME NEW p \in Proc, NEW t \in Task, NEW s \in {"failed", "blocked"},
             Blocked(p, t) \/ BlockedByTrouble(p, t) \/ Refuse(p, t, s)
       PROVE  TypeOK'
  <2>1. status[t] # "absent" /\ \E r \in {"failed", "blocked"} : Settle(t, r)
    BY <1>6 DEF Blocked, BlockedByTrouble, Refuse, Considers, Active
  <2>2. events' \in 0..MaxEvents
    BY <1>6 DEF Blocked, BlockedByTrouble, Refuse
  <2>3. PICK r \in {"failed", "blocked"} : Settle(t, r)
    BY <2>1
  <2>4. \A u \in Task : /\ status'[u] = "absent" <=> pc'[u] = "absent"
                        /\ pc'[u] # "absent" => owner'[u] \in Proc
    BY <2>1, <2>3
  <2> QED
    BY <2>2, <2>3, <2>4
<1>7. ASSUME NEW p \in Proc, NEW t \in Task, Waits(p, t)
       PROVE  TypeOK'
  BY <1>7 DEF Waits, Considers
<1>8. ASSUME NEW p \in Proc, NEW t \in Task, Dispatch(p, t)
       PROVE  TypeOK'
  BY <1>8 DEF Dispatch, Ready, Considers
<1>9. ASSUME NEW p \in Proc, NEW t \in Task, CancelRead(p, t) \/
             PickUpCancel(p, t) \/ ShutdownCancel(p, t)
       PROVE  TypeOK'
  BY <1>9 DEF CancelRead, PickUpCancel, ShutdownCancel
<1>10. ASSUME NEW p \in Proc, NEW t \in Task, CancelElsewhere(p, t)
       PROVE  TypeOK'
  BY <1>10 DEF CancelElsewhere
<1>11. ASSUME NEW p \in Proc, NEW t \in Task, CancelPending(p, t)
       PROVE  TypeOK'
  BY <1>11 DEF CancelPending
<1>12. ASSUME NEW p \in Proc, NEW t \in Task, CancelPendingFails(p, t)
       PROVE  TypeOK'
  BY <1>12 DEF CancelPendingFails
<1>13. ASSUME NEW p \in Proc, NEW t \in Task, CancelMark(p, t)
       PROVE  TypeOK'
  BY <1>13 DEF CancelMark
<1>14. ASSUME NEW p \in Proc, NEW t \in Task, CancelWithdraw(p, t)
       PROVE  TypeOK'
  BY <1>14 DEF CancelWithdraw
<1>15. ASSUME NEW p \in Proc, NEW t \in Task, NoticeLostSlot(p, t)
       PROVE  TypeOK'
  BY <1>15 DEF NoticeLostSlot
<1>16. ASSUME NEW p \in Proc, StartService(p)
       PROVE  TypeOK'
  <2>1. Task \in SUBSET Task /\ ReconcileTasks(Task, Gone)
    BY <1>16 DEF StartService
  <2>2. RunTypeOK' /\ UNCHANGED owner
    BY <2>1, ReconcileEffect
  <2>3. ASSUME NEW u \in Task
        PROVE  status'[u] = "absent" <=> status[u] = "absent"
    BY <2>1, ReconcileEffect
  <2>4. /\ up' = [up EXCEPT ![p] = "up"] /\ beating' = [beating EXCEPT ![p] = TRUE]
        /\ UNCHANGED <<reserved, canceller, jobVars, lost, events>>
    BY <1>16 DEF StartService
  <2> HIDE <1>16
  <2> QED
    BY <2>2, <2>3, <2>4
<1>17. ASSUME NEW p \in Proc, BeginShutdown(p)
       PROVE  TypeOK'
  BY <1>17 DEF BeginShutdown
<1>18. ASSUME NEW p \in Proc, EndShutdown(p)
       PROVE  TypeOK'
  BY <1>18 DEF EndShutdown
<1>19. ASSUME NEW p \in Proc, HeartbeatDies(p)
       PROVE  TypeOK'
  BY <1>19 DEF HeartbeatDies
<1>20. ASSUME NEW p \in Proc, Crash(p)
       PROVE  TypeOK'
  BY <1>20 DEF Crash
<1>21. CASE UNCHANGED vars
  BY <1>21 DEF vars
<1>22. ASSUME NEW t \in Task, TaskStep(t)
       PROVE  TypeOK'
  BY <1>1, <1>2, <1>3, <1>4, <1>22 DEF TaskStep, Worker
<1>23. ASSUME NEW p \in Proc, NEW t \in Task, JobStep(p, t)
       PROVE  TypeOK'
  BY <1>5, <1>6, <1>7, <1>8, <1>9, <1>10, <1>11, <1>12, <1>13, <1>14, <1>15, <1>23
     DEF JobStep, Pass, Cancelling
<1>24. ASSUME NEW p \in Proc, ServiceStep(p)
       PROVE  TypeOK'
  BY <1>16, <1>17, <1>18, <1>19, <1>20, <1>24 DEF ServiceStep
<1> QED
  BY <1>21, <1>22, <1>23, <1>24 DEF Next

(* Every step keeps what is known about records, owners and workers.       *)
LEMMA RecordStep == TypeOK /\ RecordInv /\ [Next]_vars => RecordInv'
<1> SUFFICES ASSUME TypeOK, RecordInv, [Next]_vars PROVE RecordInv'
  OBVIOUS
<1> USE DEF TypeOK, RunTypeOK, ServiceTypeOK, JobTypeOK, Active, Terminal, Live,
        RecordInv, UnownedUntilSubmitted, OwnerLives, OpenUntilRecorded,
        SettledBadly, WorkerKnows, ResultReadable
<1>1. ASSUME NEW t \in Task, Start(t) \/ File(t) \/ Record(t) \/
             GatesAccept(t) \/ GatesReject(t) \/ CloseFile(t) \/
             CloseRecord(t) \/ TaskFinished(t) \/ ProviderReturns(t) \/
             RecordFails(t) \/ CloseFails(t) \/ ReleaseFails(t)
       PROVE  RecordInv'
  BY <1>1 DEF Start, File, Record, GatesAccept, GatesReject, CloseFile,
         CloseRecord, TaskFinished, ProviderReturns, RecordFails, CloseFails,
         ReleaseFails
<1>2. ASSUME NEW t \in Task, RecordWithdrawn(t) \/ RecordWithdrawnFails(t)
       PROVE  RecordInv'
  BY <1>2 DEF RecordWithdrawn, RecordWithdrawnFails
<1>3. ASSUME NEW t \in Task, Resolve(t)
       PROVE  RecordInv'
  <2>1. {t} \in SUBSET Task /\ ReconcileTasks({t}, Gone)
    BY <1>3 DEF Resolve
  <2>2. RunTypeOK' /\ UNCHANGED owner
    BY <2>1, ReconcileEffect
  <2>3. \A u \in Task : \/ status'[u] = status[u] /\ file'[u] = file[u]
                       \/ /\ pc[u] \in {"released", "dead"} /\ Active(u)
                          /\ status'[u] = file'[u] /\ status'[u] \in TerminalStatuses
    BY <2>1, ReconcileSpares
  <2> QED
    BY <1>3, <2>2, <2>3 DEF Resolve
<1>4. ASSUME NEW t \in Task, Expire(t)
       PROVE  RecordInv'
  BY <1>4 DEF Expire
<1>5. ASSUME NEW p \in Proc, NEW t \in Task, Submit(p, t)
       PROVE  RecordInv'
  BY <1>5 DEF Submit
<1>6. ASSUME NEW p \in Proc, NEW t \in Task, NEW s \in {"failed", "blocked"},
             Blocked(p, t) \/ BlockedByTrouble(p, t) \/ Refuse(p, t, s)
       PROVE  RecordInv'
  <2>1. PICK r \in {"failed", "blocked"} : Settle(t, r)
    BY <1>6 DEF Blocked, BlockedByTrouble, Refuse
  <2>2. /\ pc' = [pc EXCEPT ![t] = "settled"] /\ status' = [status EXCEPT ![t] = r]
        /\ file' = [file EXCEPT ![t] = r] /\ UNCHANGED <<owner, outcome, up>>
    BY <2>1
  <2> QED
    BY <2>2
<1>7. ASSUME NEW p \in Proc, NEW t \in Task, Waits(p, t)
       PROVE  RecordInv'
  BY <1>7 DEF Waits, Considers
<1>8. ASSUME NEW p \in Proc, NEW t \in Task, Dispatch(p, t)
       PROVE  RecordInv'
  BY <1>8 DEF Dispatch, Ready, Considers
<1>9. ASSUME NEW p \in Proc, NEW t \in Task, CancelRead(p, t) \/
             PickUpCancel(p, t) \/ ShutdownCancel(p, t)
       PROVE  RecordInv'
  BY <1>9 DEF CancelRead, PickUpCancel, ShutdownCancel
<1>10. ASSUME NEW p \in Proc, NEW t \in Task, CancelElsewhere(p, t)
       PROVE  RecordInv'
  BY <1>10 DEF CancelElsewhere
<1>11. ASSUME NEW p \in Proc, NEW t \in Task, CancelPending(p, t)
       PROVE  RecordInv'
  BY <1>11 DEF CancelPending
<1>12. ASSUME NEW p \in Proc, NEW t \in Task, CancelPendingFails(p, t)
       PROVE  RecordInv'
  BY <1>12 DEF CancelPendingFails
<1>13. ASSUME NEW p \in Proc, NEW t \in Task, CancelMark(p, t)
       PROVE  RecordInv'
  BY <1>13 DEF CancelMark
<1>14. ASSUME NEW p \in Proc, NEW t \in Task, CancelWithdraw(p, t)
       PROVE  RecordInv'
  BY <1>14 DEF CancelWithdraw
<1>15. ASSUME NEW p \in Proc, NEW t \in Task, NoticeLostSlot(p, t)
       PROVE  RecordInv'
  BY <1>15 DEF NoticeLostSlot
<1>16. ASSUME NEW p \in Proc, StartService(p)
       PROVE  RecordInv'
  <2>1. Task \in SUBSET Task /\ ReconcileTasks(Task, Gone)
    BY <1>16 DEF StartService
  <2>2. RunTypeOK' /\ UNCHANGED owner
    BY <2>1, ReconcileEffect
  <2>3. \A u \in Task : \/ status'[u] = status[u] /\ file'[u] = file[u]
                       \/ /\ pc[u] \in {"released", "dead"} /\ Active(u)
                          /\ status'[u] = file'[u] /\ status'[u] \in TerminalStatuses
    BY <2>1, ReconcileSpares
  <2>4. up' = [up EXCEPT ![p] = "up"] /\ UNCHANGED pc /\ UNCHANGED outcome
    BY <1>16 DEF StartService
  <2> QED
    BY <2>2, <2>3, <2>4
<1>17. ASSUME NEW p \in Proc, BeginShutdown(p)
       PROVE  RecordInv'
  BY <1>17 DEF BeginShutdown
<1>18. ASSUME NEW p \in Proc, EndShutdown(p)
       PROVE  RecordInv'
  BY <1>18 DEF EndShutdown
<1>19. ASSUME NEW p \in Proc, HeartbeatDies(p)
       PROVE  RecordInv'
  BY <1>19 DEF HeartbeatDies
<1>20. ASSUME NEW p \in Proc, Crash(p)
       PROVE  RecordInv'
  BY <1>20 DEF Crash, AtWork
<1>21. CASE UNCHANGED vars
  BY <1>21 DEF vars
<1>22. ASSUME NEW t \in Task, TaskStep(t)
       PROVE  RecordInv'
  BY <1>1, <1>2, <1>3, <1>4, <1>22 DEF TaskStep, Worker
<1>23. ASSUME NEW p \in Proc, NEW t \in Task, JobStep(p, t)
       PROVE  RecordInv'
  BY <1>5, <1>6, <1>7, <1>8, <1>9, <1>10, <1>11, <1>12, <1>13, <1>14, <1>15, <1>23
     DEF JobStep, Pass, Cancelling
<1>24. ASSUME NEW p \in Proc, ServiceStep(p)
       PROVE  RecordInv'
  BY <1>16, <1>17, <1>18, <1>19, <1>20, <1>24 DEF ServiceStep
<1> QED
  BY <1>21, <1>22, <1>23, <1>24 DEF Next

(* A success is never taken back, but for the gates, and no finished       *)
(* record changes otherwise, except that of a job that never ran.          *)
LEMMA TerminalStep == TypeOK /\ RecordInv /\ [Next]_vars => KeepsTerminal
<1> SUFFICES ASSUME TypeOK, RecordInv, [Next]_vars PROVE KeepsTerminal
  OBVIOUS
<1> USE DEF TypeOK, RunTypeOK, JobTypeOK, RecordInv, OpenUntilRecorded, WorkerKnows,
        Active, Terminal, KeepsTerminal
<1>1. ASSUME NEW t \in Task, Start(t) \/ File(t) \/ Record(t) \/
             GatesAccept(t) \/ GatesReject(t) \/ CloseFile(t) \/
             CloseRecord(t) \/ TaskFinished(t) \/ ProviderReturns(t) \/
             RecordFails(t) \/ CloseFails(t) \/ ReleaseFails(t) \/
             RecordWithdrawn(t) \/ RecordWithdrawnFails(t) \/ Expire(t)
       PROVE  KeepsTerminal
  BY <1>1 DEF Start, File, Record, GatesAccept, GatesReject, CloseFile,
         CloseRecord, TaskFinished, ProviderReturns, RecordFails, CloseFails,
         ReleaseFails, RecordWithdrawn, RecordWithdrawnFails, Expire
<1>2. ASSUME NEW t \in Task, Resolve(t)
       PROVE  KeepsTerminal
  <2>1. {t} \in SUBSET Task /\ ReconcileTasks({t}, Gone)
    BY <1>2 DEF Resolve
  <2> QED
    BY <2>1, ReconcileEffect
<1>3. ASSUME NEW p \in Proc, NEW t \in Task, NEW s \in {"failed", "blocked"},
             Submit(p, t) \/ Blocked(p, t) \/ BlockedByTrouble(p, t) \/
             Refuse(p, t, s) \/ Waits(p, t) \/ Dispatch(p, t)
       PROVE  KeepsTerminal
  BY <1>3 DEF Submit, Blocked, BlockedByTrouble, Refuse, Considers, Waits,
         Dispatch, Ready
<1>4. ASSUME NEW p \in Proc, NEW t \in Task, CancelRead(p, t) \/
             PickUpCancel(p, t) \/ ShutdownCancel(p, t) \/
             CancelElsewhere(p, t) \/ CancelPending(p, t) \/
             CancelPendingFails(p, t) \/ CancelMark(p, t) \/
             CancelWithdraw(p, t) \/ NoticeLostSlot(p, t)
       PROVE  KeepsTerminal
  BY <1>4 DEF CancelRead, PickUpCancel, ShutdownCancel, CancelElsewhere,
         CancelPending, CancelPendingFails, CancelMark, CancelWithdraw,
         NoticeLostSlot
<1>5. ASSUME NEW p \in Proc, StartService(p)
       PROVE  KeepsTerminal
  <2>1. Task \in SUBSET Task /\ ReconcileTasks(Task, Gone)
    BY <1>5 DEF StartService
  <2> QED
    BY <2>1, ReconcileEffect
<1>6. ASSUME NEW p \in Proc, BeginShutdown(p) \/ EndShutdown(p) \/
             HeartbeatDies(p) \/ Crash(p)
       PROVE  KeepsTerminal
  BY <1>6 DEF BeginShutdown, EndShutdown, HeartbeatDies, Crash
<1>7. CASE UNCHANGED vars
  BY <1>7 DEF vars
<1> QED
  BY <1>1, <1>2, <1>3, <1>4, <1>5, <1>6, <1>7
     DEF Next, TaskStep, JobStep, ServiceStep, Worker, Pass, Cancelling

(* What a task was dispatched on stays succeeded, or turned down.          *)
LEMMA DependenciesStep ==
  TypeOK /\ RecordInv /\ DependenciesHonoured /\ [Next]_vars
    => DependenciesHonoured'
<1> SUFFICES ASSUME TypeOK, RecordInv, DependenciesHonoured, [Next]_vars
             PROVE  DependenciesHonoured'
  OBVIOUS
<1>0. \A d \in Task : status[d] \in {"success", "failed_gate"}
                      => status'[d] \in {"success", "failed_gate"}
  BY TerminalStep DEF KeepsTerminal, Terminal, RecordInv, SettledBadly
<1> USE DEF TypeOK, JobTypeOK, DependenciesHonoured
<1>1. ASSUME NEW t \in Task, Start(t) \/ File(t) \/ Record(t) \/
             GatesAccept(t) \/ GatesReject(t) \/ CloseFile(t) \/
             CloseRecord(t) \/ TaskFinished(t) \/ ProviderReturns(t) \/
             RecordFails(t) \/ CloseFails(t) \/ ReleaseFails(t) \/
             RecordWithdrawn(t) \/ RecordWithdrawnFails(t) \/ Expire(t)
       PROVE  DependenciesHonoured'
  BY <1>1, <1>0 DEF Start, File, Record, GatesAccept, GatesReject, CloseFile,
         CloseRecord, TaskFinished, ProviderReturns, RecordFails, CloseFails,
         ReleaseFails, RecordWithdrawn, RecordWithdrawnFails, Expire
<1>2. ASSUME NEW t \in Task, Resolve(t)
       PROVE  DependenciesHonoured'
  BY <1>2, <1>0 DEF Resolve
<1>3. ASSUME NEW p \in Proc, NEW t \in Task, NEW s \in {"failed", "blocked"},
             Submit(p, t) \/ Blocked(p, t) \/ BlockedByTrouble(p, t) \/
             Refuse(p, t, s) \/ Waits(p, t) \/ Dispatch(p, t)
       PROVE  DependenciesHonoured'
  BY <1>3, <1>0 DEF Submit, Blocked, BlockedByTrouble, Refuse, Considers,
         Waits, Dispatch, Ready, AllSucceeded
<1>4. ASSUME NEW p \in Proc, NEW t \in Task, CancelRead(p, t) \/
             PickUpCancel(p, t) \/ ShutdownCancel(p, t) \/
             CancelElsewhere(p, t) \/ CancelPending(p, t) \/
             CancelPendingFails(p, t) \/ CancelMark(p, t) \/
             CancelWithdraw(p, t) \/ NoticeLostSlot(p, t)
       PROVE  DependenciesHonoured'
  BY <1>4, <1>0 DEF CancelRead, PickUpCancel, ShutdownCancel, CancelElsewhere,
         CancelPending, CancelPendingFails, CancelMark, CancelWithdraw,
         NoticeLostSlot
<1>5. ASSUME NEW p \in Proc, StartService(p)
       PROVE  DependenciesHonoured'
  BY <1>5, <1>0 DEF StartService
<1>6. ASSUME NEW p \in Proc, BeginShutdown(p) \/ EndShutdown(p) \/
             HeartbeatDies(p) \/ Crash(p)
       PROVE  DependenciesHonoured'
  BY <1>6, <1>0 DEF BeginShutdown, EndShutdown, HeartbeatDies, Crash
<1>7. CASE UNCHANGED vars
  BY <1>7 DEF vars
<1> QED
  BY <1>1, <1>2, <1>3, <1>4, <1>5, <1>6, <1>7
     DEF Next, TaskStep, JobStep, ServiceStep, Worker, Pass, Cancelling

(* A reservation is made when a task is dispatched, and given back only    *)
(* after it; one that expires earlier is noted.                            *)
LEMMA SlotHeldStep == TypeOK /\ SlotHeld /\ [Next]_vars => SlotHeld'
<1> SUFFICES ASSUME TypeOK, SlotHeld, [Next]_vars PROVE SlotHeld'
  OBVIOUS
<1> USE DEF TypeOK, JobTypeOK, SlotHeld, AtWork
<1>1. ASSUME NEW t \in Task, Start(t) \/ File(t) \/ Record(t) \/
             GatesAccept(t) \/ GatesReject(t) \/ CloseFile(t) \/
             CloseRecord(t) \/ TaskFinished(t) \/ ProviderReturns(t) \/
             RecordFails(t) \/ CloseFails(t) \/ ReleaseFails(t) \/
             RecordWithdrawn(t) \/ RecordWithdrawnFails(t) \/ Expire(t)
       PROVE  SlotHeld'
  BY <1>1 DEF Start, File, Record, GatesAccept, GatesReject, CloseFile,
         CloseRecord, TaskFinished, ProviderReturns, RecordFails, CloseFails,
         ReleaseFails, RecordWithdrawn, RecordWithdrawnFails, Expire
<1>2. ASSUME NEW t \in Task, Resolve(t)
       PROVE  SlotHeld'
  BY <1>2 DEF Resolve
<1>3. ASSUME NEW p \in Proc, NEW t \in Task, NEW s \in {"failed", "blocked"},
             Submit(p, t) \/ Blocked(p, t) \/ BlockedByTrouble(p, t) \/
             Refuse(p, t, s) \/ Waits(p, t) \/ Dispatch(p, t)
       PROVE  SlotHeld'
  BY <1>3 DEF Submit, Blocked, BlockedByTrouble, Refuse, Considers, Waits,
         Dispatch, Ready
<1>4. ASSUME NEW p \in Proc, NEW t \in Task, CancelRead(p, t) \/
             PickUpCancel(p, t) \/ ShutdownCancel(p, t) \/
             CancelElsewhere(p, t) \/ CancelPending(p, t) \/
             CancelPendingFails(p, t) \/ CancelMark(p, t) \/
             CancelWithdraw(p, t) \/ NoticeLostSlot(p, t)
       PROVE  SlotHeld'
  BY <1>4 DEF CancelRead, PickUpCancel, ShutdownCancel, CancelElsewhere,
         CancelPending, CancelPendingFails, CancelMark, CancelWithdraw,
         NoticeLostSlot
<1>5. ASSUME NEW p \in Proc, StartService(p)
       PROVE  SlotHeld'
  BY <1>5 DEF StartService
<1>6. ASSUME NEW p \in Proc, BeginShutdown(p) \/ EndShutdown(p) \/
             HeartbeatDies(p) \/ Crash(p)
       PROVE  SlotHeld'
  BY <1>6 DEF BeginShutdown, EndShutdown, HeartbeatDies, Crash
<1>7. CASE UNCHANGED vars
  BY <1>7 DEF vars
<1> QED
  BY <1>1, <1>2, <1>3, <1>4, <1>5, <1>6, <1>7
     DEF Next, TaskStep, JobStep, ServiceStep, Worker, Pass, Cancelling

(* Only reserve_scheduler_slot adds a reservation, and it counts those of  *)
(* all processes first.                                                    *)
LEMMA ReservedStep ==
  ASSUME TypeOK, [Next]_vars
  PROVE  \/ reserved' \subseteq reserved
         \/ \E t \in Task : Room(t, reserved) /\ reserved' = reserved \cup {t}
<1> DEFINE Goal == \/ reserved' \subseteq reserved
                   \/ \E t \in Task :
                         Room(t, reserved) /\ reserved' = reserved \cup {t}
<1>1. ASSUME NEW t \in Task, Start(t) \/ File(t) \/ Record(t) \/
             GatesAccept(t) \/ GatesReject(t) \/ CloseFile(t) \/
             CloseRecord(t) \/ TaskFinished(t) \/ ProviderReturns(t) \/
             RecordFails(t) \/ CloseFails(t) \/ ReleaseFails(t) \/
             RecordWithdrawn(t) \/ RecordWithdrawnFails(t) \/ Expire(t)
       PROVE  Goal
  BY <1>1 DEF Start, File, Record, GatesAccept, GatesReject, CloseFile,
         CloseRecord, TaskFinished, ProviderReturns, RecordFails, CloseFails,
         ReleaseFails, RecordWithdrawn, RecordWithdrawnFails, Expire
<1>2. ASSUME NEW t \in Task, Resolve(t)
       PROVE  Goal
  BY <1>2 DEF Resolve
<1>3. ASSUME NEW p \in Proc, NEW t \in Task, NEW s \in {"failed", "blocked"},
             Submit(p, t) \/ Blocked(p, t) \/ BlockedByTrouble(p, t) \/
             Refuse(p, t, s) \/ Waits(p, t) \/ Dispatch(p, t)
       PROVE  Goal
  BY <1>3 DEF Submit, Blocked, BlockedByTrouble, Refuse, Considers, Waits,
         Dispatch, Ready, SlotFree
<1>4. ASSUME NEW p \in Proc, NEW t \in Task, CancelRead(p, t) \/
             PickUpCancel(p, t) \/ ShutdownCancel(p, t) \/
             CancelElsewhere(p, t) \/ CancelPending(p, t) \/
             CancelPendingFails(p, t) \/ CancelMark(p, t) \/
             CancelWithdraw(p, t) \/ NoticeLostSlot(p, t)
       PROVE  Goal
  BY <1>4 DEF CancelRead, PickUpCancel, ShutdownCancel, CancelElsewhere,
         CancelPending, CancelPendingFails, CancelMark, CancelWithdraw,
         NoticeLostSlot
<1>5. ASSUME NEW p \in Proc, StartService(p)
       PROVE  Goal
  BY <1>5 DEF StartService
<1>6. ASSUME NEW p \in Proc, BeginShutdown(p) \/ EndShutdown(p) \/
             HeartbeatDies(p) \/ Crash(p)
       PROVE  Goal
  BY <1>6 DEF BeginShutdown, EndShutdown, HeartbeatDies, Crash
<1>7. CASE UNCHANGED vars
  BY <1>7 DEF vars
<1> QED
  BY <1>1, <1>2, <1>3, <1>4, <1>5, <1>6, <1>7
     DEF Next, TaskStep, JobStep, ServiceStep, Worker, Pass, Cancelling

(* Every step keeps the reservations within the two limits.                *)
LEMMA SlotsBoundedStep == TypeOK /\ SlotsBounded /\ [Next]_vars => SlotsBounded'
<1> SUFFICES ASSUME TypeOK, SlotsBounded, [Next]_vars PROVE SlotsBounded'
  OBVIOUS
<1> USE DEF SlotsBounded
<1>1. CASE reserved' \subseteq reserved
  <2>1. IsFiniteSet(reserved')
    BY <1>1, FS_Subset
  <2>2. ASSUME NEW pool \in Pools
        PROVE  Cardinality(reserved' \cap pool.tasks) <= pool.limit
    <3>1. IsFiniteSet(reserved \cap pool.tasks)
      BY FS_Intersection
    <3>2. /\ Cardinality(reserved' \cap pool.tasks)
               <= Cardinality(reserved \cap pool.tasks)
          /\ IsFiniteSet(reserved' \cap pool.tasks)
      BY <1>1, <3>1, FS_Subset
    <3>3. /\ Cardinality(reserved \cap pool.tasks) \in Nat
          /\ Cardinality(reserved' \cap pool.tasks) \in Nat
      BY <3>1, <3>2, FS_CardinalityType
    <3> QED
      BY <3>2, <3>3
  <2> QED
    BY <2>1, <2>2
<1>2. ASSUME NEW t \in Task, Room(t, reserved), reserved' = reserved \cup {t}
      PROVE  SlotsBounded'
  <2>1. IsFiniteSet(reserved')
    BY <1>2, FS_AddElement
  <2>2. ASSUME NEW pool \in Pools
        PROVE  Cardinality(reserved' \cap pool.tasks) <= pool.limit
    <3>1. IsFiniteSet(reserved \cap pool.tasks)
      BY FS_Intersection
    <3>2. Cardinality(reserved \cap pool.tasks) \in Nat
      BY <3>1, FS_CardinalityType
    <3>3. CASE t \in pool.tasks
      <4>1. reserved' \cap pool.tasks = (reserved \cap pool.tasks) \cup {t}
        BY <1>2, <3>3
      <4>2. CASE t \in reserved
        BY <1>2, <4>2
      <4>3. CASE t \notin reserved
        <5>1. Cardinality((reserved \cap pool.tasks) \cup {t})
                = Cardinality(reserved \cap pool.tasks) + 1
          BY <3>1, <4>3, FS_AddElement
        <5>2. Cardinality(reserved \cap pool.tasks) < pool.limit
          BY <1>2, <3>3 DEF Room
        <5>3. pool.limit \in Nat
          OBVIOUS
        <5>4. Cardinality(reserved' \cap pool.tasks)
                = Cardinality(reserved \cap pool.tasks) + 1
          BY <4>1, <5>1
        <5> QED
          BY <3>2, <5>2, <5>3, <5>4
      <4> QED
        BY <4>2, <4>3
    <3>4. CASE t \notin pool.tasks
      <4>1. reserved' \cap pool.tasks = reserved \cap pool.tasks
        BY <1>2, <3>4
      <4> QED
        BY <4>1
    <3> QED
      BY <3>3, <3>4
  <2> QED
    BY <2>1, <2>2
<1> QED
  BY <1>1, <1>2, ReservedStep

-----------------------------------------------------------------------------
(* The strengthened invariant holds in every reachable state.               *)
THEOREM Invariance == Spec => []IInv
<1>1. Init => IInv
  <2> SUFFICES ASSUME Init PROVE IInv
    OBVIOUS
  <2>1. TypeOK
    BY DEF Init, RunInit, SlotsInit, TypeOK, RunTypeOK, SlotsTypeOK, ServiceTypeOK,
           JobTypeOK
  <2>2. RecordInv /\ DependenciesHonoured /\ SlotHeld
    BY DEF Init, RunInit, RecordInv, UnownedUntilSubmitted, OwnerLives,
           OpenUntilRecorded, SettledBadly, WorkerKnows, ResultReadable, Terminal,
           DependenciesHonoured, SlotHeld, AtWork
  <2>3. SlotsBounded
    <3>1. reserved = {} /\ \A pool \in Pools : reserved \cap pool.tasks = {}
      BY DEF Init, SlotsInit
    <3> QED
      BY <3>1, FS_EmptySet DEF SlotsBounded
  <2> QED
    BY <2>1, <2>2, <2>3 DEF IInv, SlotInv
<1>2. IInv /\ [Next]_vars => IInv'
  BY TypeStep, RecordStep, DependenciesStep, SlotHeldStep, SlotsBoundedStep
     DEF IInv, RecordInv, SlotInv
<1> QED
  BY <1>1, <1>2, PTL DEF Spec

(* Every variable keeps to its type, and a record exists for exactly the   *)
(* tasks that were submitted.                                              *)
THEOREM TypeCorrect == Spec => []TypeOK
<1>1. IInv => TypeOK
  BY DEF IInv
<1> QED
  BY <1>1, Invariance, PTL

(* Over all processes no pool is over its limit, but for tasks whose       *)
(* reservation expired under them.                                         *)
THEOREM CapacityKept == Spec => []Capacity
<1>1. IInv => Capacity
  <2> SUFFICES ASSUME IInv, NEW pool \in Pools
               PROVE  Cardinality({t \in pool.tasks : AtWork(t)} \ lost)
                        <= pool.limit
    BY DEF Capacity
  <2> DEFINE Busy == {t \in pool.tasks : AtWork(t)} \ lost
             Held == reserved \cap pool.tasks
  <2>1. Busy \subseteq Held
    BY DEF IInv, SlotInv, SlotHeld
  <2>2. IsFiniteSet(Held) /\ Cardinality(Held) <= pool.limit
    BY FS_Intersection DEF IInv, SlotInv, SlotsBounded
  <2>3. IsFiniteSet(Busy) /\ Cardinality(Busy) <= Cardinality(Held)
    BY <2>1, <2>2, FS_Subset
  <2>4. Cardinality(Busy) \in Nat /\ Cardinality(Held) \in Nat /\ pool.limit \in Nat
    BY <2>2, <2>3, FS_CardinalityType
  <2> QED
    BY <2>2, <2>3, <2>4
<1> QED
  BY <1>1, Invariance, PTL

(* The record of a task stays open until its own worker has recorded what  *)
(* execute returned, whoever cancels, reconciles or shuts down.            *)
THEOREM WorkStaysOpen == Spec => []WorkIsOpen
<1>1. IInv => WorkIsOpen
  BY DEF IInv, RecordInv, OpenUntilRecorded, WorkIsOpen
<1> QED
  BY <1>1, Invariance, PTL

(* A finished task has a readable result that agrees with its record.      *)
THEOREM FinishedIsReadable == Spec => []ResultReadable
<1>1. IInv => ResultReadable
  BY DEF IInv, RecordInv
<1> QED
  BY <1>1, Invariance, PTL

(* A dependent is dispatched only on successes, which nothing but a gate   *)
(* turns down later.                                                       *)
THEOREM DispatchedOnSuccess == Spec => []DependenciesHonoured
<1>1. IInv => DependenciesHonoured
  BY DEF IInv
<1> QED
  BY <1>1, Invariance, PTL

(* No step reopens a finished task or changes how it ended, except for the *)
(* gates and for a late cancel of a job that never ran.                    *)
THEOREM FinishedStays == Spec => TerminalStays
<1>1. IInv /\ [Next]_vars => [KeepsTerminal]_vars
  BY TerminalStep DEF IInv
<1> QED
  BY <1>1, Invariance, PTL DEF Spec, TerminalStays
=============================================================================
