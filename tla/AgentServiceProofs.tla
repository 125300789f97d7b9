------------------------ MODULE AgentServiceProofs ------------------------
(***************************************************************************)
(* Proofs about AgentService, for any number of turns and processes and    *)
(* any number of crashes, stalls and control calls.                        *)
(***************************************************************************)
EXTENDS AgentService, TLAPS

(* What a turn at work may rely on: it has not been disowned, so the row   *)
(* names it and has not run out.                                           *)
LeaseHeld ==
  \A t \in Turn : Working(t) /\ t \notin disowned => leaseOwner = t /\ leaseLive

(* A turn that has ended its provider turn knows how.                      *)
Judged == \A t \in Turn : pc[t] \in {"judged", "saved"} => outcome[t] \in Outcomes

(* Before the insert there are no turns, and until the first turn of a     *)
(* session has begun there is no other one and no final state.             *)
NoTurnBeforeCreate == state = "absent" => \A t \in Turn : pc[t] = "unused"

FirstTurnAlone ==
  \A t \in Turn :
    kind[t] # "send" /\ pc[t] \in {"checked", "leased", "registered"}
      => /\ state \notin {"absent", "idle", "failed"}
         /\ \A u \in Turn \ {t} : pc[u] = "unused"

(* While a turn is at its provider no final state stands, and what it has  *)
(* saved or published is still there.                                      *)
ResultsInOrder ==
  disowned = {} /\ ~saveLost =>
    /\ state \in {"idle", "failed"} => publisher \in Turn /\ result = publisher
    /\ \A t \in Turn :
         /\ pc[t] \in {"running", "judged", "saved"} => state \notin {"idle", "failed"}
         /\ pc[t] = "saved" => result = t
         /\ pc[t] = "published" => publisher = t \/ state \notin {"idle", "failed"}

IInv ==
  /\ TypeOK /\ Judged
  /\ LeaseHeld /\ OwnerIsLocal
  /\ NoTurnBeforeCreate /\ FirstTurnAlone /\ ResultsInOrder
-----------------------------------------------------------------------------
USE NoTurnAssumption, NoProcAssumption, HostedAssumption, BoundsAssumption
USE DEF Goto, OneMoreFault, OneMoreCall, Cleanup, Create, UpdateState,
        RecordEvent, SaveResultRow, LeaseFree, AcquireLease, Heartbeat,
        ReleaseLease, ReconcileExpired, Abandon,
        storeVars, leaseVars, metaVars, procVars, callVars, turnVars,
        historyVars, ActiveStates, TerminalStates, States, Kinds, Outcomes,
        RegisteredPcs, WorkingPcs, OverPcs, Pcs

(* Setting the event of no turn, or of some turn, keeps the types.        *)
LEMMA SetEventType ==
  ASSUME TypeOK, NEW e \in Turn \cup {NoTurn}, SetEventOf(e)
  PROVE  eventSet' \in [Turn -> BOOLEAN]
<1>1. CASE e = NoTurn
  BY <1>1 DEF SetEventOf, TypeOK, TurnTypeOK, HistoryTypeOK
<1>2. CASE e # NoTurn
  BY <1>2 DEF SetEventOf, TypeOK, TurnTypeOK, HistoryTypeOK
<1> QED
  BY <1>1, <1>2

(* Every step keeps the types.  The final state is one only because a turn *)
(* publishes it after it has been judged.                                  *)
LEMMA TypeStep == TypeOK /\ Judged /\ [Next]_vars => TypeOK'
<1> SUFFICES ASSUME TypeOK, Judged, [Next]_vars PROVE TypeOK'
  OBVIOUS
<1> USE DEF TypeOK, StoreTypeOK, ProcTypeOK, TurnTypeOK, HistoryTypeOK, Judged
<1>1. ASSUME NEW p \in Proc, NEW t \in Turn, SendCheck(p, t)
       PROVE  TypeOK'
  BY <1>1 DEF SendCheck
<1>2. ASSUME NEW p \in Proc, NEW t \in Turn, NEW how \in {"start", "async"},
             StartAgent(p, t, how)
       PROVE  TypeOK'
  BY <1>2 DEF StartAgent
<1>3. ASSUME NEW t \in Turn, TakeLease(t)
       PROVE  TypeOK'
  BY <1>3 DEF TakeLease
<1>4. ASSUME NEW t \in Turn, LeaseRefused(t)
       PROVE  TypeOK'
  BY <1>4 DEF LeaseRefused
<1>5. ASSUME NEW t \in Turn, LeaseFails(t)
       PROVE  TypeOK'
  BY <1>5 DEF LeaseFails
<1>6. ASSUME NEW t \in Turn, BeginFails(t)
       PROVE  TypeOK'
  BY <1>6 DEF BeginFails
<1>7. ASSUME NEW t \in Turn, RegisterOwner(t)
       PROVE  TypeOK'
  BY <1>7 DEF RegisterOwner
<1>8. ASSUME NEW t \in Turn, RegisterRefused(t)
       PROVE  TypeOK'
  <2>1. StoreTypeOK'
    BY <1>8 DEF RegisterRefused, Working
  <2>2. ProcTypeOK'
    BY <1>8 DEF RegisterRefused
  <2>3. TurnTypeOK'
    <3>1. CASE kind[t] = "send"
      BY <1>8, <3>1 DEF RegisterRefused
    <3>2. CASE kind[t] # "send"
      <4>1. /\ pc[t] = "leased"
            /\ pc' = [pc EXCEPT ![t] = "running"]
            /\ kind' = [kind EXCEPT ![t] = "unleased"]
            /\ eventSet' = [eventSet EXCEPT ![t] = TRUE]
            /\ UNCHANGED <<home, outcome>>
        BY <1>8, <3>2 DEF RegisterRefused
      <4> QED
        BY <4>1
    <3> QED
      BY <3>1, <3>2
  <2>4. HistoryTypeOK'
    BY <1>8 DEF RegisterRefused, Working
  <2> QED
    BY <2>1, <2>2, <2>3, <2>4
<1>9. ASSUME NEW t \in Turn, ArmCancel(t)
       PROVE  TypeOK'
  BY <1>9 DEF ArmCancel
<1>10. ASSUME NEW t \in Turn, MarkRunning(t)
       PROVE  TypeOK'
  BY <1>10 DEF MarkRunning
<1>11. ASSUME NEW t \in Turn, ProviderEvent(t)
       PROVE  TypeOK'
  BY <1>11 DEF ProviderEvent
<1>12. ASSUME NEW t \in Turn, RenewOnProgress(t)
       PROVE  TypeOK'
  BY <1>12 DEF RenewOnProgress
<1>13. ASSUME NEW t \in Turn, TripBudget(t)
       PROVE  TypeOK'
  BY <1>13 DEF TripBudget
<1>14. ASSUME NEW t \in Turn, ProviderRaises(t)
       PROVE  TypeOK'
  BY <1>14 DEF ProviderRaises
<1>15. ASSUME NEW t \in Turn, SaveResult(t)
       PROVE  TypeOK'
  BY <1>15 DEF SaveResult
<1>16. ASSUME NEW t \in Turn, PublishState(t)
       PROVE  TypeOK'
  BY <1>16 DEF PublishState
<1>17. ASSUME NEW t \in Turn, SaveAgain(t)
       PROVE  TypeOK'
  BY <1>17 DEF SaveAgain
<1>18. ASSUME NEW t \in Turn, SendFails(t)
       PROVE  TypeOK'
  BY <1>18 DEF SendFails
<1>19. ASSUME NEW t \in Turn, StartStoreFails(t)
       PROVE  TypeOK'
  BY <1>19 DEF StartStoreFails
<1>20. ASSUME NEW t \in Turn, StartBindFails(t)
       PROVE  TypeOK'
  BY <1>20 DEF StartBindFails
<1>21. ASSUME NEW t \in Turn, PopCancel(t)
       PROVE  TypeOK'
  BY <1>21 DEF PopCancel
<1>22. ASSUME NEW t \in Turn, EndLease(t)
       PROVE  TypeOK'
  BY <1>22 DEF EndLease
<1>23. ASSUME NEW t \in Turn, EndLeaseFails(t)
       PROVE  TypeOK'
  BY <1>23 DEF EndLeaseFails
<1>24. ASSUME NEW t \in Turn, DropLocal(t)
       PROVE  TypeOK'
  BY <1>24 DEF DropLocal
<1>25. ASSUME NEW t \in Turn, NEW how \in Outcomes, ProviderReturns(t, how)
       PROVE  TypeOK'
  BY <1>25 DEF ProviderReturns
<1>26. ASSUME NEW t \in Turn, NEW how \in Outcomes, BudgetUnread(t, how)
       PROVE  TypeOK'
  BY <1>26 DEF BudgetUnread
<1>27. ASSUME NEW p \in Proc, LeaseBeat(p)
       PROVE  TypeOK'
  BY <1>27 DEF LeaseBeat
<1>28. ASSUME NEW p \in Proc, LeaseBeatFails(p)
       PROVE  TypeOK'
  BY <1>28 DEF LeaseBeatFails
<1>29. ASSUME NEW p \in Proc, DeliverCancel(p)
       PROVE  TypeOK'
  <2>1. StoreTypeOK'
    BY <1>29 DEF DeliverCancel
  <2>2. ProcTypeOK'
    BY <1>29 DEF DeliverCancel
  <2>3. eventSet' \in [Turn -> BOOLEAN]
    BY <1>29, SetEventType DEF DeliverCancel
  <2>4. TurnTypeOK'
    BY <1>29, <2>3 DEF DeliverCancel
  <2>5. HistoryTypeOK'
    BY <1>29, <2>3 DEF DeliverCancel
  <2> QED
    BY <2>1, <2>2, <2>4, <2>5
<1>30. ASSUME NEW p \in Proc, CancelCheck(p)
       PROVE  TypeOK'
  BY <1>30 DEF CancelCheck
<1>31. ASSUME NEW p \in Proc, CancelAct(p)
       PROVE  TypeOK'
  <2>1. StoreTypeOK'
    BY <1>31 DEF CancelAct
  <2>2. ProcTypeOK'
    BY <1>31 DEF CancelAct
  <2>3. eventSet' \in [Turn -> BOOLEAN]
    BY <1>31, SetEventType DEF CancelAct
  <2>4. TurnTypeOK'
    BY <1>31, <2>3 DEF CancelAct
  <2>5. HistoryTypeOK'
    BY <1>31, <2>3 DEF CancelAct
  <2> QED
    BY <2>1, <2>2, <2>4, <2>5
<1>32. ASSUME NEW p \in Proc, CloseCheck(p)
       PROVE  TypeOK'
  BY <1>32 DEF CloseCheck
<1>33. ASSUME NEW p \in Proc, CloseWrite(p)
       PROVE  TypeOK'
  BY <1>33 DEF CloseWrite
<1>34. ASSUME NEW p \in Proc, StartRuntime(p)
       PROVE  TypeOK'
  BY <1>34 DEF StartRuntime
<1>35. ASSUME NEW p \in Proc, StartUnreconciled(p)
       PROVE  TypeOK'
  BY <1>35 DEF StartUnreconciled
<1>36. ASSUME NEW p \in Proc, ShutdownBegin(p)
       PROVE  TypeOK'
  BY <1>36 DEF ShutdownBegin
<1>37. ASSUME NEW p \in Proc, ShutdownEnd(p)
       PROVE  TypeOK'
  BY <1>37 DEF ShutdownEnd
<1>38. ASSUME NEW p \in Proc, Exit(p)
       PROVE  TypeOK'
  BY <1>38 DEF Exit
<1>39. ASSUME NEW p \in Proc, Crash(p)
       PROVE  TypeOK'
  BY <1>39 DEF Crash
<1>40. ASSUME ExpireAbandoned
       PROVE  TypeOK'
  BY <1>40 DEF ExpireAbandoned
<1>41. ASSUME ExpireStalled
       PROVE  TypeOK'
  <2>1. StoreTypeOK'
    BY <1>41 DEF ExpireStalled, Working
  <2>2. ProcTypeOK'
    BY <1>41 DEF ExpireStalled
  <2>3. TurnTypeOK'
    BY <1>41 DEF ExpireStalled
  <2>4. HistoryTypeOK'
    BY <1>41 DEF ExpireStalled, Working
  <2> QED
    BY <2>1, <2>2, <2>3, <2>4
<1>42. ASSUME UNCHANGED vars
       PROVE  TypeOK'
  BY <1>42 DEF vars
<1>43. ASSUME NEW t \in Turn, BeginTurn(t)
       PROVE  TypeOK'
  BY <1>1, <1>2, <1>43 DEF BeginTurn
<1>44. ASSUME NEW t \in Turn, TurnStep(t)
       PROVE  TypeOK'
  BY <1>3, <1>4, <1>7, <1>8, <1>9, <1>10, <1>14, <1>15, <1>16, <1>17, <1>21, <1>22,
     <1>24, <1>25, <1>44 DEF TurnStep
<1>45. ASSUME NEW t \in Turn, TurnMay(t)
       PROVE  TypeOK'
  BY <1>5, <1>6, <1>11, <1>12, <1>13, <1>18, <1>19, <1>20, <1>23, <1>26, <1>45 DEF TurnMay
<1>46. ASSUME NEW p \in Proc, LeaseThread(p) \/ Control(p)
       PROVE  TypeOK'
  BY <1>27, <1>29, <1>30, <1>31, <1>32, <1>33, <1>46 DEF LeaseThread, Control
<1>47. ASSUME NEW p \in Proc, Process(p)
       PROVE  TypeOK'
  BY <1>34, <1>35, <1>36, <1>37, <1>38, <1>39, <1>47 DEF Process
<1> QED
  BY <1>28, <1>40, <1>41, <1>42, <1>43, <1>44, <1>45, <1>46, <1>47 DEF Next

(* A turn at work keeps its lease: nobody takes a live row, nobody but its *)
(* owner deletes one, and whoever lets it run out or gives it up while the *)
(* turn is at work disowns the turn.                                       *)
LEMMA LeaseHeldStep == TypeOK /\ LeaseHeld /\ [Next]_vars => LeaseHeld'
<1> SUFFICES ASSUME TypeOK, LeaseHeld, [Next]_vars PROVE LeaseHeld'
  OBVIOUS
<1> USE DEF TypeOK, StoreTypeOK, ProcTypeOK, TurnTypeOK, HistoryTypeOK, LeaseHeld,
        Working
<1>1. ASSUME NEW p \in Proc, NEW t \in Turn, NEW how \in {"start", "async"},
             StartAgent(p, t, how)
       PROVE  LeaseHeld'
  BY <1>1 DEF StartAgent
<1>2. ASSUME NEW p \in Proc, NEW t \in Turn, SendCheck(p, t)
       PROVE  LeaseHeld'
  BY <1>2 DEF SendCheck
<1>3. ASSUME NEW t \in Turn, TakeLease(t)
       PROVE  LeaseHeld'
  BY <1>3 DEF TakeLease
<1>4. ASSUME NEW t \in Turn, LeaseFails(t)
       PROVE  LeaseHeld'
  BY <1>4 DEF LeaseFails
<1>5. ASSUME NEW t \in Turn, RegisterRefused(t)
       PROVE  LeaseHeld'
  BY <1>5 DEF RegisterRefused
<1>6. ASSUME NEW t \in Turn, RenewOnProgress(t)
       PROVE  LeaseHeld'
  BY <1>6 DEF RenewOnProgress
<1>7. ASSUME NEW t \in Turn, EndLease(t)
       PROVE  LeaseHeld'
  BY <1>7 DEF EndLease
<1>8. ASSUME NEW t \in Turn, LeaseRefused(t) \/ BeginFails(t) \/
             RegisterOwner(t) \/ ArmCancel(t) \/ MarkRunning(t) \/
             ProviderEvent(t) \/ TripBudget(t) \/ ProviderRaises(t) \/
             SaveResult(t) \/ PublishState(t) \/ SaveAgain(t) \/ SendFails(t)
             \/ StartStoreFails(t) \/ StartBindFails(t) \/ PopCancel(t) \/
             EndLeaseFails(t) \/ DropLocal(t)
       PROVE  LeaseHeld'
  BY <1>8 DEF LeaseRefused, BeginFails, RegisterOwner, ArmCancel, MarkRunning,
    ProviderEvent, TripBudget, ProviderRaises, SaveResult, PublishState,
    SaveAgain, SendFails, StartStoreFails, StartBindFails, PopCancel,
    EndLeaseFails, DropLocal
<1>9. ASSUME NEW t \in Turn, NEW how \in Outcomes, ProviderReturns(t, how) \/
             BudgetUnread(t, how)
       PROVE  LeaseHeld'
  BY <1>9 DEF ProviderReturns, BudgetUnread
<1>10. ASSUME NEW p \in Proc, LeaseBeat(p)
       PROVE  LeaseHeld'
  BY <1>10 DEF LeaseBeat
<1>11. ASSUME NEW p \in Proc, LeaseBeatFails(p)
       PROVE  LeaseHeld'
  BY <1>11 DEF LeaseBeatFails
<1>12. ASSUME NEW p \in Proc, StartRuntime(p)
       PROVE  LeaseHeld'
  BY <1>12 DEF StartRuntime
<1>13. ASSUME NEW p \in Proc, ShutdownEnd(p)
       PROVE  LeaseHeld'
  BY <1>13 DEF ShutdownEnd
<1>14. ASSUME NEW p \in Proc, Crash(p)
       PROVE  LeaseHeld'
  BY <1>14 DEF Crash
<1>15. ASSUME NEW p \in Proc, DeliverCancel(p) \/ CancelCheck(p) \/
             CancelAct(p) \/ CloseCheck(p) \/ CloseWrite(p) \/
             StartUnreconciled(p) \/ ShutdownBegin(p) \/ Exit(p)
       PROVE  LeaseHeld'
  BY <1>15 DEF DeliverCancel, CancelCheck, CancelAct, CloseCheck, CloseWrite,
    StartUnreconciled, ShutdownBegin, Exit
<1>16. ASSUME ExpireAbandoned
       PROVE  LeaseHeld'
  BY <1>16 DEF ExpireAbandoned
<1>17. ASSUME ExpireStalled
       PROVE  LeaseHeld'
  BY <1>17 DEF ExpireStalled
<1>18. ASSUME UNCHANGED vars
       PROVE  LeaseHeld'
  BY <1>18 DEF vars
<1> QED
  BY <1>1, <1>2, <1>3, <1>4, <1>5, <1>6, <1>7, <1>8, <1>9, <1>10, <1>11, <1>12,
    <1>13, <1>14, <1>15, <1>16, <1>17, <1>18 DEF Next, BeginTurn, TurnStep,
    TurnMay, LeaseThread, Control, Process

(* The local marker follows the row: it is written before the turn counts  *)
(* as registered and dropped after the row is gone.                        *)
LEMMA OwnerIsLocalStep == TypeOK /\ OwnerIsLocal /\ [Next]_vars => OwnerIsLocal'
<1> SUFFICES ASSUME TypeOK, OwnerIsLocal, [Next]_vars PROVE OwnerIsLocal'
  OBVIOUS
<1> USE DEF TypeOK, StoreTypeOK, ProcTypeOK, TurnTypeOK, HistoryTypeOK,
        OwnerIsLocal, Working
<1>1. ASSUME NEW p \in Proc, NEW t \in Turn, NEW how \in {"start", "async"},
             StartAgent(p, t, how)
       PROVE  OwnerIsLocal'
  BY <1>1 DEF StartAgent
<1>2. ASSUME NEW p \in Proc, NEW t \in Turn, SendCheck(p, t)
       PROVE  OwnerIsLocal'
  BY <1>2 DEF SendCheck
<1>3. ASSUME NEW t \in Turn, TakeLease(t)
       PROVE  OwnerIsLocal'
  BY <1>3 DEF TakeLease
<1>4. ASSUME NEW t \in Turn, LeaseFails(t)
       PROVE  OwnerIsLocal'
  BY <1>4 DEF LeaseFails
<1>5. ASSUME NEW t \in Turn, RegisterOwner(t)
       PROVE  OwnerIsLocal'
  BY <1>5 DEF RegisterOwner
<1>6. ASSUME NEW t \in Turn, RegisterRefused(t)
       PROVE  OwnerIsLocal'
  BY <1>6 DEF RegisterRefused
<1>7. ASSUME NEW t \in Turn, EndLease(t)
       PROVE  OwnerIsLocal'
  BY <1>7 DEF EndLease
<1>8. ASSUME NEW t \in Turn, DropLocal(t)
       PROVE  OwnerIsLocal'
  BY <1>8 DEF DropLocal
<1>9. ASSUME NEW t \in Turn, LeaseRefused(t) \/ BeginFails(t) \/ ArmCancel(t)
             \/ MarkRunning(t) \/ ProviderEvent(t) \/ RenewOnProgress(t) \/
             TripBudget(t) \/ ProviderRaises(t) \/ SaveResult(t) \/
             PublishState(t) \/ SaveAgain(t) \/ SendFails(t) \/
             StartStoreFails(t) \/ StartBindFails(t) \/ PopCancel(t) \/
             EndLeaseFails(t)
       PROVE  OwnerIsLocal'
  BY <1>9 DEF LeaseRefused, BeginFails, ArmCancel, MarkRunning, ProviderEvent,
    RenewOnProgress, TripBudget, ProviderRaises, SaveResult, PublishState,
    SaveAgain, SendFails, StartStoreFails, StartBindFails, PopCancel,
    EndLeaseFails
<1>10. ASSUME NEW t \in Turn, NEW how \in Outcomes, ProviderReturns(t, how) \/
             BudgetUnread(t, how)
       PROVE  OwnerIsLocal'
  BY <1>10 DEF ProviderReturns, BudgetUnread
<1>11. ASSUME NEW p \in Proc, LeaseBeat(p)
       PROVE  OwnerIsLocal'
  BY <1>11 DEF LeaseBeat
<1>12. ASSUME NEW p \in Proc, LeaseBeatFails(p)
       PROVE  OwnerIsLocal'
  BY <1>12 DEF LeaseBeatFails
<1>13. ASSUME NEW p \in Proc, StartRuntime(p)
       PROVE  OwnerIsLocal'
  BY <1>13 DEF StartRuntime
<1>14. ASSUME NEW p \in Proc, ShutdownEnd(p)
       PROVE  OwnerIsLocal'
  BY <1>14 DEF ShutdownEnd
<1>15. ASSUME NEW p \in Proc, Exit(p)
       PROVE  OwnerIsLocal'
  BY <1>15 DEF Exit
<1>16. ASSUME NEW p \in Proc, Crash(p)
       PROVE  OwnerIsLocal'
  BY <1>16 DEF Crash
<1>17. ASSUME NEW p \in Proc, DeliverCancel(p) \/ CancelCheck(p) \/
             CancelAct(p) \/ CloseCheck(p) \/ CloseWrite(p) \/
             StartUnreconciled(p) \/ ShutdownBegin(p)
       PROVE  OwnerIsLocal'
  BY <1>17 DEF DeliverCancel, CancelCheck, CancelAct, CloseCheck, CloseWrite,
    StartUnreconciled, ShutdownBegin
<1>18. ASSUME ExpireAbandoned \/ ExpireStalled
       PROVE  OwnerIsLocal'
  BY <1>18 DEF ExpireAbandoned, ExpireStalled
<1>19. ASSUME UNCHANGED vars
       PROVE  OwnerIsLocal'
  BY <1>19 DEF vars
<1> QED
  BY <1>1, <1>2, <1>3, <1>4, <1>5, <1>6, <1>7, <1>8, <1>9, <1>10, <1>11, <1>12,
    <1>13, <1>14, <1>15, <1>16, <1>17, <1>18, <1>19 DEF Next, BeginTurn,
    TurnStep, TurnMay, LeaseThread, Control, Process

(* The outcome is set on the way to "judged" and kept until it has been    *)
(* published.                                                              *)
LEMMA JudgedStep == TypeOK /\ Judged /\ [Next]_vars => Judged'
<1> SUFFICES ASSUME TypeOK, Judged, [Next]_vars PROVE Judged'
  OBVIOUS
<1> USE DEF TypeOK, StoreTypeOK, ProcTypeOK, TurnTypeOK, HistoryTypeOK, Judged
<1>1. ASSUME NEW p \in Proc, NEW t \in Turn, NEW how \in {"start", "async"},
             StartAgent(p, t, how)
       PROVE  Judged'
  BY <1>1 DEF StartAgent
<1>2. ASSUME NEW p \in Proc, NEW t \in Turn, SendCheck(p, t)
       PROVE  Judged'
  BY <1>2 DEF SendCheck
<1>3. ASSUME NEW t \in Turn, ProviderRaises(t)
       PROVE  Judged'
  BY <1>3 DEF ProviderRaises
<1>4. ASSUME NEW t \in Turn, PublishState(t)
       PROVE  Judged'
  BY <1>4 DEF PublishState
<1>5. ASSUME NEW t \in Turn, StartStoreFails(t)
       PROVE  Judged'
  BY <1>5 DEF StartStoreFails
<1>6. ASSUME NEW t \in Turn, StartBindFails(t)
       PROVE  Judged'
  BY <1>6 DEF StartBindFails
<1>7. ASSUME NEW t \in Turn, TakeLease(t) \/ LeaseRefused(t) \/ LeaseFails(t)
             \/ BeginFails(t) \/ RegisterOwner(t) \/ RegisterRefused(t) \/
             ArmCancel(t) \/ MarkRunning(t) \/ ProviderEvent(t) \/
             RenewOnProgress(t) \/ TripBudget(t) \/ SaveResult(t) \/
             SaveAgain(t) \/ SendFails(t) \/ PopCancel(t) \/ EndLease(t) \/
             EndLeaseFails(t) \/ DropLocal(t)
       PROVE  Judged'
  BY <1>7 DEF TakeLease, LeaseRefused, LeaseFails, BeginFails, RegisterOwner,
    RegisterRefused, ArmCancel, MarkRunning, ProviderEvent, RenewOnProgress,
    TripBudget, SaveResult, SaveAgain, SendFails, PopCancel, EndLease,
    EndLeaseFails, DropLocal
<1>8. ASSUME NEW t \in Turn, NEW how \in Outcomes, ProviderReturns(t, how)
       PROVE  Judged'
  BY <1>8 DEF ProviderReturns
<1>9. ASSUME NEW t \in Turn, NEW how \in Outcomes, BudgetUnread(t, how)
       PROVE  Judged'
  BY <1>9 DEF BudgetUnread
<1>10. ASSUME NEW p \in Proc, Crash(p)
       PROVE  Judged'
  BY <1>10 DEF Crash
<1>11. ASSUME NEW p \in Proc, LeaseBeat(p) \/ LeaseBeatFails(p) \/
             DeliverCancel(p) \/ CancelCheck(p) \/ CancelAct(p) \/
             CloseCheck(p) \/ CloseWrite(p) \/ StartRuntime(p) \/
             StartUnreconciled(p) \/ ShutdownBegin(p) \/ ShutdownEnd(p) \/
             Exit(p)
       PROVE  Judged'
  BY <1>11 DEF LeaseBeat, LeaseBeatFails, DeliverCancel, CancelCheck, CancelAct,
    CloseCheck, CloseWrite, StartRuntime, StartUnreconciled, ShutdownBegin,
    ShutdownEnd, Exit
<1>12. ASSUME ExpireAbandoned \/ ExpireStalled
       PROVE  Judged'
  BY <1>12 DEF ExpireAbandoned, ExpireStalled
<1>13. ASSUME UNCHANGED vars
       PROVE  Judged'
  BY <1>13 DEF vars
<1> QED
  BY <1>1, <1>2, <1>3, <1>4, <1>5, <1>6, <1>7, <1>8, <1>9, <1>10, <1>11, <1>12,
    <1>13 DEF Next, BeginTurn, TurnStep, TurnMay, LeaseThread, Control,
    Process

(* Only Create makes a turn of an absent session, and nothing makes the    *)
(* session absent again.                                                   *)
LEMMA CreateStep == TypeOK /\ Judged /\ NoTurnBeforeCreate /\ [Next]_vars => NoTurnBeforeCreate'
<1> SUFFICES ASSUME TypeOK, Judged, NoTurnBeforeCreate, [Next]_vars PROVE
    NoTurnBeforeCreate'
  OBVIOUS
<1> USE DEF TypeOK, StoreTypeOK, ProcTypeOK, TurnTypeOK, HistoryTypeOK, Judged,
        NoTurnBeforeCreate
<1>1. ASSUME NEW p \in Proc, NEW t \in Turn, SendCheck(p, t)
       PROVE  NoTurnBeforeCreate'
  BY <1>1 DEF SendCheck
<1>2. ASSUME NEW p \in Proc, NEW t \in Turn, NEW how \in {"start", "async"},
             StartAgent(p, t, how)
       PROVE  NoTurnBeforeCreate'
  BY <1>2 DEF StartAgent
<1>3. ASSUME NEW t \in Turn, PublishState(t)
       PROVE  NoTurnBeforeCreate'
  BY <1>3 DEF PublishState
<1>4. ASSUME NEW t \in Turn, TakeLease(t) \/ LeaseRefused(t) \/ LeaseFails(t)
             \/ BeginFails(t) \/ RegisterOwner(t) \/ RegisterRefused(t) \/
             ArmCancel(t) \/ MarkRunning(t) \/ ProviderEvent(t) \/
             RenewOnProgress(t) \/ TripBudget(t) \/ ProviderRaises(t) \/
             SaveResult(t) \/ SaveAgain(t) \/ SendFails(t) \/
             StartStoreFails(t) \/ StartBindFails(t) \/ PopCancel(t) \/
             EndLease(t) \/ EndLeaseFails(t) \/ DropLocal(t)
       PROVE  NoTurnBeforeCreate'
  BY <1>4 DEF TakeLease, LeaseRefused, LeaseFails, BeginFails, RegisterOwner,
    RegisterRefused, ArmCancel, MarkRunning, ProviderEvent, RenewOnProgress,
    TripBudget, ProviderRaises, SaveResult, SaveAgain, SendFails,
    StartStoreFails, StartBindFails, PopCancel, EndLease, EndLeaseFails,
    DropLocal
<1>5. ASSUME NEW t \in Turn, NEW how \in Outcomes, ProviderReturns(t, how) \/
             BudgetUnread(t, how)
       PROVE  NoTurnBeforeCreate'
  BY <1>5 DEF ProviderReturns, BudgetUnread
<1>6. ASSUME NEW p \in Proc, CloseWrite(p)
       PROVE  NoTurnBeforeCreate'
  BY <1>6 DEF CloseWrite
<1>7. ASSUME NEW p \in Proc, StartRuntime(p)
       PROVE  NoTurnBeforeCreate'
  BY <1>7 DEF StartRuntime
<1>8. ASSUME NEW p \in Proc, Crash(p)
       PROVE  NoTurnBeforeCreate'
  BY <1>8 DEF Crash
<1>9. ASSUME NEW p \in Proc, LeaseBeat(p) \/ LeaseBeatFails(p) \/
             DeliverCancel(p) \/ CancelCheck(p) \/ CancelAct(p) \/
             CloseCheck(p) \/ StartUnreconciled(p) \/ ShutdownBegin(p) \/
             ShutdownEnd(p) \/ Exit(p)
       PROVE  NoTurnBeforeCreate'
  BY <1>9 DEF LeaseBeat, LeaseBeatFails, DeliverCancel, CancelCheck, CancelAct,
    CloseCheck, StartUnreconciled, ShutdownBegin, ShutdownEnd, Exit
<1>10. ASSUME ExpireAbandoned \/ ExpireStalled
       PROVE  NoTurnBeforeCreate'
  BY <1>10 DEF ExpireAbandoned, ExpireStalled
<1>11. ASSUME UNCHANGED vars
       PROVE  NoTurnBeforeCreate'
  BY <1>11 DEF vars
<1> QED
  BY <1>1, <1>2, <1>3, <1>4, <1>5, <1>6, <1>7, <1>8, <1>9, <1>10, <1>11 DEF
    Next, BeginTurn, TurnStep, TurnMay, LeaseThread, Control, Process

(* Until the first turn has registered, no state lets another one begin.   *)
LEMMA FirstTurnAloneStep == TypeOK /\ Judged /\ NoTurnBeforeCreate /\ FirstTurnAlone /\ [Next]_vars => FirstTurnAlone'
<1> SUFFICES ASSUME TypeOK, Judged, NoTurnBeforeCreate, FirstTurnAlone,
    [Next]_vars PROVE FirstTurnAlone'
  OBVIOUS
<1> USE DEF TypeOK, StoreTypeOK, ProcTypeOK, TurnTypeOK, HistoryTypeOK, Judged,
        NoTurnBeforeCreate, FirstTurnAlone
<1>1. ASSUME NEW p \in Proc, NEW t \in Turn, SendCheck(p, t)
       PROVE  FirstTurnAlone'
  BY <1>1 DEF SendCheck
<1>2. ASSUME NEW p \in Proc, NEW t \in Turn, NEW how \in {"start", "async"},
             StartAgent(p, t, how)
       PROVE  FirstTurnAlone'
  BY <1>2 DEF StartAgent
<1>3. ASSUME NEW t \in Turn, TakeLease(t)
       PROVE  FirstTurnAlone'
  BY <1>3 DEF TakeLease
<1>4. ASSUME NEW t \in Turn, RegisterOwner(t)
       PROVE  FirstTurnAlone'
  BY <1>4 DEF RegisterOwner
<1>5. ASSUME NEW t \in Turn, ArmCancel(t)
       PROVE  FirstTurnAlone'
  BY <1>5 DEF ArmCancel
<1>6. ASSUME NEW t \in Turn, PublishState(t)
       PROVE  FirstTurnAlone'
  BY <1>6 DEF PublishState
<1>7. ASSUME NEW t \in Turn, LeaseRefused(t) \/ LeaseFails(t) \/ BeginFails(t)
             \/ RegisterRefused(t) \/ MarkRunning(t) \/ ProviderEvent(t) \/
             RenewOnProgress(t) \/ TripBudget(t) \/ ProviderRaises(t) \/
             SaveResult(t) \/ SaveAgain(t) \/ SendFails(t) \/
             StartStoreFails(t) \/ StartBindFails(t) \/ PopCancel(t) \/
             EndLease(t) \/ EndLeaseFails(t) \/ DropLocal(t)
       PROVE  FirstTurnAlone'
  BY <1>7 DEF LeaseRefused, LeaseFails, BeginFails, RegisterRefused,
    MarkRunning, ProviderEvent, RenewOnProgress, TripBudget, ProviderRaises,
    SaveResult, SaveAgain, SendFails, StartStoreFails, StartBindFails,
    PopCancel, EndLease, EndLeaseFails, DropLocal
<1>8. ASSUME NEW t \in Turn, NEW how \in Outcomes, ProviderReturns(t, how) \/
             BudgetUnread(t, how)
       PROVE  FirstTurnAlone'
  BY <1>8 DEF ProviderReturns, BudgetUnread
<1>9. ASSUME NEW p \in Proc, CloseWrite(p)
       PROVE  FirstTurnAlone'
  BY <1>9 DEF CloseWrite
<1>10. ASSUME NEW p \in Proc, StartRuntime(p)
       PROVE  FirstTurnAlone'
  BY <1>10 DEF StartRuntime
<1>11. ASSUME NEW p \in Proc, Crash(p)
       PROVE  FirstTurnAlone'
  BY <1>11 DEF Crash
<1>12. ASSUME NEW p \in Proc, LeaseBeat(p) \/ LeaseBeatFails(p) \/
             DeliverCancel(p) \/ CancelCheck(p) \/ CancelAct(p) \/
             CloseCheck(p) \/ StartUnreconciled(p) \/ ShutdownBegin(p) \/
             ShutdownEnd(p) \/ Exit(p)
       PROVE  FirstTurnAlone'
  BY <1>12 DEF LeaseBeat, LeaseBeatFails, DeliverCancel, CancelCheck, CancelAct,
    CloseCheck, StartUnreconciled, ShutdownBegin, ShutdownEnd, Exit
<1>13. ASSUME ExpireAbandoned \/ ExpireStalled
       PROVE  FirstTurnAlone'
  BY <1>13 DEF ExpireAbandoned, ExpireStalled
<1>14. ASSUME UNCHANGED vars
       PROVE  FirstTurnAlone'
  BY <1>14 DEF vars
<1> QED
  BY <1>1, <1>2, <1>3, <1>4, <1>5, <1>6, <1>7, <1>8, <1>9, <1>10, <1>11, <1>12,
    <1>13, <1>14 DEF Next, BeginTurn, TurnStep, TurnMay, LeaseThread, Control,
    Process

(* Results and final states are written by the one turn at work.           *)
LEMMA ResultsStep == TypeOK /\ Judged /\ LeaseHeld /\ FirstTurnAlone /\ ResultsInOrder /\ [Next]_vars => ResultsInOrder'
<1> SUFFICES ASSUME TypeOK, Judged, LeaseHeld, FirstTurnAlone, ResultsInOrder,
    [Next]_vars PROVE ResultsInOrder'
  OBVIOUS
<1> USE DEF TypeOK, StoreTypeOK, ProcTypeOK, TurnTypeOK, HistoryTypeOK, Judged,
        LeaseHeld, FirstTurnAlone, ResultsInOrder, Working
<1>1. ASSUME NEW p \in Proc, NEW t \in Turn, NEW how \in {"start", "async"},
             StartAgent(p, t, how)
       PROVE  ResultsInOrder'
  BY <1>1 DEF StartAgent
<1>2. ASSUME NEW p \in Proc, NEW t \in Turn, SendCheck(p, t)
       PROVE  ResultsInOrder'
  BY <1>2 DEF SendCheck
<1>3. ASSUME NEW t \in Turn, LeaseFails(t)
       PROVE  ResultsInOrder'
  BY <1>3 DEF LeaseFails
<1>4. ASSUME NEW t \in Turn, RegisterRefused(t)
       PROVE  ResultsInOrder'
  BY <1>4 DEF RegisterRefused
<1>5. ASSUME NEW t \in Turn, ArmCancel(t)
       PROVE  ResultsInOrder'
  BY <1>5 DEF ArmCancel
<1>6. ASSUME NEW t \in Turn, MarkRunning(t)
       PROVE  ResultsInOrder'
  BY <1>6 DEF MarkRunning
<1>7. ASSUME NEW t \in Turn, ProviderRaises(t)
       PROVE  ResultsInOrder'
  BY <1>7 DEF ProviderRaises
<1>8. ASSUME NEW t \in Turn, SaveResult(t)
       PROVE  ResultsInOrder'
  BY <1>8 DEF SaveResult
<1>9. ASSUME NEW t \in Turn, PublishState(t)
       PROVE  ResultsInOrder'
  BY <1>9 DEF PublishState
<1>10. ASSUME NEW t \in Turn, SaveAgain(t)
       PROVE  ResultsInOrder'
  BY <1>10 DEF SaveAgain
<1>11. ASSUME NEW t \in Turn, StartStoreFails(t)
       PROVE  ResultsInOrder'
  BY <1>11 DEF StartStoreFails
<1>12. ASSUME NEW t \in Turn, TakeLease(t) \/ LeaseRefused(t) \/ BeginFails(t)
             \/ RegisterOwner(t) \/ ProviderEvent(t) \/ RenewOnProgress(t) \/
             TripBudget(t) \/ SendFails(t) \/ StartBindFails(t) \/
             PopCancel(t) \/ EndLease(t) \/ EndLeaseFails(t) \/ DropLocal(t)
       PROVE  ResultsInOrder'
  BY <1>12 DEF TakeLease, LeaseRefused, BeginFails, RegisterOwner,
    ProviderEvent, RenewOnProgress, TripBudget, SendFails, StartBindFails,
    PopCancel, EndLease, EndLeaseFails, DropLocal
<1>13. ASSUME NEW t \in Turn, NEW how \in Outcomes, ProviderReturns(t, how)
       PROVE  ResultsInOrder'
  BY <1>13 DEF ProviderReturns
<1>14. ASSUME NEW t \in Turn, NEW how \in Outcomes, BudgetUnread(t, how)
       PROVE  ResultsInOrder'
  BY <1>14 DEF BudgetUnread
<1>15. ASSUME NEW p \in Proc, LeaseBeatFails(p)
       PROVE  ResultsInOrder'
  BY <1>15 DEF LeaseBeatFails
<1>16. ASSUME NEW p \in Proc, CloseWrite(p)
       PROVE  ResultsInOrder'
  BY <1>16 DEF CloseWrite
<1>17. ASSUME NEW p \in Proc, StartRuntime(p)
       PROVE  ResultsInOrder'
  BY <1>17 DEF StartRuntime
<1>18. ASSUME NEW p \in Proc, ShutdownEnd(p)
       PROVE  ResultsInOrder'
  BY <1>18 DEF ShutdownEnd
<1>19. ASSUME NEW p \in Proc, Crash(p)
       PROVE  ResultsInOrder'
  BY <1>19 DEF Crash
<1>20. ASSUME NEW p \in Proc, LeaseBeat(p) \/ DeliverCancel(p) \/
             CancelCheck(p) \/ CancelAct(p) \/ CloseCheck(p) \/
             StartUnreconciled(p) \/ ShutdownBegin(p) \/ Exit(p)
       PROVE  ResultsInOrder'
  BY <1>20 DEF LeaseBeat, DeliverCancel, CancelCheck, CancelAct, CloseCheck,
    StartUnreconciled, ShutdownBegin, Exit
<1>21. ASSUME ExpireStalled
       PROVE  ResultsInOrder'
  BY <1>21 DEF ExpireStalled
<1>22. ASSUME ExpireAbandoned
       PROVE  ResultsInOrder'
  BY <1>22 DEF ExpireAbandoned
<1>23. ASSUME UNCHANGED vars
       PROVE  ResultsInOrder'
  BY <1>23 DEF vars
<1> QED
  BY <1>1, <1>2, <1>3, <1>4, <1>5, <1>6, <1>7, <1>8, <1>9, <1>10, <1>11, <1>12,
    <1>13, <1>14, <1>15, <1>16, <1>17, <1>18, <1>19, <1>20, <1>21, <1>22,
    <1>23 DEF Next, BeginTurn, TurnStep, TurnMay, LeaseThread, Control,
    Process

(* Only StartRuntime and PublishState interrupt a session; the first finds *)
(* an expired row, and the second moves its turn.                          *)
LEMMA SparesStep == TypeOK /\ Judged /\ LeaseHeld /\ [Next]_vars => SparesOwners
<1> SUFFICES ASSUME TypeOK, Judged, LeaseHeld, [Next]_vars PROVE SparesOwners
  OBVIOUS
<1> USE DEF TypeOK, StoreTypeOK, ProcTypeOK, TurnTypeOK, HistoryTypeOK, Judged,
        LeaseHeld, SparesOwners, Working
<1>1. ASSUME NEW p \in Proc, NEW t \in Turn, NEW how \in {"start", "async"},
             StartAgent(p, t, how)
       PROVE  SparesOwners
  BY <1>1 DEF StartAgent
<1>2. ASSUME NEW p \in Proc, NEW t \in Turn, SendCheck(p, t)
       PROVE  SparesOwners
  BY <1>2 DEF SendCheck
<1>3. ASSUME NEW t \in Turn, PublishState(t)
       PROVE  SparesOwners
  BY <1>3 DEF PublishState
<1>4. ASSUME NEW t \in Turn, TakeLease(t) \/ LeaseRefused(t) \/ LeaseFails(t)
             \/ BeginFails(t) \/ RegisterOwner(t) \/ RegisterRefused(t) \/
             ArmCancel(t) \/ MarkRunning(t) \/ ProviderEvent(t) \/
             RenewOnProgress(t) \/ TripBudget(t) \/ ProviderRaises(t) \/
             SaveResult(t) \/ SaveAgain(t) \/ SendFails(t) \/
             StartStoreFails(t) \/ StartBindFails(t) \/ PopCancel(t) \/
             EndLease(t) \/ EndLeaseFails(t) \/ DropLocal(t)
       PROVE  SparesOwners
  BY <1>4 DEF TakeLease, LeaseRefused, LeaseFails, BeginFails, RegisterOwner,
    RegisterRefused, ArmCancel, MarkRunning, ProviderEvent, RenewOnProgress,
    TripBudget, ProviderRaises, SaveResult, SaveAgain, SendFails,
    StartStoreFails, StartBindFails, PopCancel, EndLease, EndLeaseFails,
    DropLocal
<1>5. ASSUME NEW t \in Turn, NEW how \in Outcomes, ProviderReturns(t, how) \/
             BudgetUnread(t, how)
       PROVE  SparesOwners
  BY <1>5 DEF ProviderReturns, BudgetUnread
<1>6. ASSUME NEW p \in Proc, CloseWrite(p)
       PROVE  SparesOwners
  BY <1>6 DEF CloseWrite
<1>7. ASSUME NEW p \in Proc, StartRuntime(p)
       PROVE  SparesOwners
  BY <1>7 DEF StartRuntime
<1>8. ASSUME NEW p \in Proc, LeaseBeat(p) \/ LeaseBeatFails(p) \/
             DeliverCancel(p) \/ CancelCheck(p) \/ CancelAct(p) \/
             CloseCheck(p) \/ StartUnreconciled(p) \/ ShutdownBegin(p) \/
             ShutdownEnd(p) \/ Exit(p) \/ Crash(p)
       PROVE  SparesOwners
  BY <1>8 DEF LeaseBeat, LeaseBeatFails, DeliverCancel, CancelCheck, CancelAct,
    CloseCheck, StartUnreconciled, ShutdownBegin, ShutdownEnd, Exit, Crash
<1>9. ASSUME ExpireAbandoned \/ ExpireStalled
       PROVE  SparesOwners
  BY <1>9 DEF ExpireAbandoned, ExpireStalled
<1>10. ASSUME UNCHANGED vars
       PROVE  SparesOwners
  BY <1>10 DEF vars
<1> QED
  BY <1>1, <1>2, <1>3, <1>4, <1>5, <1>6, <1>7, <1>8, <1>9, <1>10 DEF Next,
    BeginTurn, TurnStep, TurnMay, LeaseThread, Control, Process

-----------------------------------------------------------------------------
(* The strengthened invariant holds in every reachable state.              *)
THEOREM Invariance == Spec => []IInv
<1>1. Init => IInv
  <2> SUFFICES ASSUME Init PROVE IInv
    OBVIOUS
  <2>1. StoreTypeOK /\ ProcTypeOK
    BY DEF Init, StoreInit, StoreTypeOK, ProcTypeOK
  <2>2. TurnTypeOK
    BY DEF Init, TurnTypeOK
  <2>3. HistoryTypeOK
    <3>1. faults = 0 /\ calls = 0 /\ saveLost = FALSE /\ publisher = NoTurn
      BY DEF Init
    <3>2. disowned = {}
      BY DEF Init
    <3> QED
      <4>1. 0 \in 0..MaxFaults /\ 0 \in 0..MaxCalls
        BY SMT
      <4>2. {} \in SUBSET Turn /\ NoTurn \in Turn \cup {NoTurn}
        OBVIOUS
      <4> QED
        BY <3>1, <3>2, <4>1, <4>2 DEF HistoryTypeOK
  <2>4. /\ Judged /\ LeaseHeld /\ OwnerIsLocal
        /\ NoTurnBeforeCreate /\ FirstTurnAlone /\ ResultsInOrder
    BY DEF Init, StoreInit, Judged, LeaseHeld, OwnerIsLocal, Working,
           NoTurnBeforeCreate, FirstTurnAlone, ResultsInOrder
  <2> QED
    BY <2>1, <2>2, <2>3, <2>4 DEF IInv, TypeOK
<1>2. IInv /\ [Next]_vars => IInv'
  BY TypeStep, JudgedStep, LeaseHeldStep, OwnerIsLocalStep, CreateStep,
     FirstTurnAloneStep, ResultsStep DEF IInv
<1> QED
  BY <1>1, <1>2, PTL DEF Spec

(* Every variable keeps to its type, whatever crashes, stalls and fails.   *)
THEOREM TypeCorrect == Spec => []TypeOK
<1>1. IInv => TypeOK
  BY DEF IInv
<1> QED
  BY <1>1, Invariance, PTL

(* At most one turn of a session is at work, turns that were disowned      *)
(* aside: acquire_lease, heartbeat, release_lease and reconcile_expired    *)
(* together are a lock.                                                    *)
THEOREM OneTurnAtATime == Spec => []TurnMutex
<1>1. IInv => TurnMutex
  BY DEF IInv, LeaseHeld, TurnMutex
<1> QED
  BY <1>1, Invariance, PTL

(* wait() may trust the absence of the local marker.                       *)
THEOREM CompletionBarrier == Spec => []OwnerIsLocal
<1>1. IInv => OwnerIsLocal
  BY DEF IInv
<1> QED
  BY <1>1, Invariance, PTL

(* A reader that sees idle or failed finds the result that belongs to it.  *)
THEOREM ResultBeforeState == Spec => []ResultReady
<1>1. IInv => ResultReady
  BY DEF IInv, ResultsInOrder, ResultReady
<1> QED
  BY <1>1, Invariance, PTL

(* reconcile_expired interrupts no session whose turn holds its lease.     *)
THEOREM ReconcileIsSafe == Spec => ReconcileSparesOwners
<1>1. IInv /\ [Next]_vars => [SparesOwners]_vars
  BY SparesStep DEF IInv
<1> QED
  BY <1>1, Invariance, PTL DEF Spec, ReconcileSparesOwners
===========================================================================
