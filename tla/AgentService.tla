---------------------------- MODULE AgentService ----------------------------
(***************************************************************************)
(* Direct agent turns: several MCP processes, each with one AgentService,  *)
(* share the durable rows of AgentStore for one session.  In a process     *)
(* there are turn threads (start, start_async, send), one lease thread,    *)
(* and control calls (cancel, close); processes crash, shut down, start.   *)
(*                                                                         *)
(* A turn's program counter stands between two accesses to shared state.   *)
(* Provider output, messages and metadata nothing reads back are left out. *)
(***************************************************************************)
EXTENDS AgentStore, Naturals

CONSTANTS
  Proc,       \* processes, or successive runs of them
  NoProc,     \* the home of a turn nobody asked for yet
  Hosted,     \* the processes that may also shut down in order
  MaxFaults,  \* bound on crashes, stalled owners and failing store calls
  MaxCalls,   \* bound on cancel and close calls
  MaxEvents   \* bound on both together

ASSUME NoProcAssumption == NoProc \notin Proc
ASSUME HostedAssumption == Hosted \subseteq Proc
ASSUME BoundsAssumption == MaxFaults \in Nat /\ MaxCalls \in Nat /\ MaxEvents \in Nat

VARIABLES
  up,           \* per process: "up", "stopping", "stopped" or "down"
  localOwner,   \* per process: _lease_owners[session]
  cancelEvent,  \* per process: the turn whose event _cancel_events[session] is
  poll,         \* per process: where the lease thread stands
  canceller,    \* per process: a cancel() call that has read an active state
  closer,       \* per process: a close() call that has read an inactive state
  pc, home, kind, outcome, eventSet,  \* per turn
  \* History, read by properties and bounds only:
  disowned,     \* turns at work that lost their lease, or whose process no
                \* longer knows that it owns the lease
  publisher,    \* the turn that last published a final state
  saveLost,     \* a start went on after its save_result had failed
  faults, calls

procVars == <<up, localOwner, cancelEvent, poll>>
callVars == <<canceller, closer>>
turnVars == <<pc, home, kind, outcome, eventSet>>
historyVars == <<disowned, publisher, saveLost, faults, calls>>
vars == <<storeVars, procVars, callVars, turnVars, historyVars>>

Kinds == {"start", "async", "send", "unleased"}
Outcomes == {"success", "interrupted", "failed"}

(* A turn is at work from the moment it owns the lease row until it gives  *)
(* the row up; it is registered once the process knows it as local owner.  *)
RegisteredPcs == {"registered", "armed", "running", "judged", "saved",
                  "published", "popFirst", "releaseLease"}
WorkingPcs == {"leased"} \cup RegisteredPcs
OverPcs == {"dropLocal", "popLast", "done", "dead"}
Pcs == {"unused", "checked"} \cup WorkingPcs \cup OverPcs

Working(t) == pc[t] \in WorkingPcs

ProcTypeOK ==
  /\ up \in [Proc -> {"up", "stopping", "stopped", "down"}]
  /\ localOwner \in [Proc -> Turn \cup {NoTurn}]
  /\ cancelEvent \in [Proc -> Turn \cup {NoTurn}]
  /\ poll \in [Proc -> {"wait", "deliver"}]
  /\ canceller \in [Proc -> BOOLEAN]
  /\ closer \in [Proc -> BOOLEAN]

TurnTypeOK ==
  /\ pc \in [Turn -> Pcs]
  /\ home \in [Turn -> Proc \cup {NoProc}]
  /\ kind \in [Turn -> Kinds]
  /\ \A t \in Turn : IF pc[t] = "unused"
                     THEN home[t] = NoProc /\ kind[t] = "send"
                     ELSE home[t] \in Proc
  /\ outcome \in [Turn -> Outcomes \cup {"none"}]
  /\ eventSet \in [Turn -> BOOLEAN]

HistoryTypeOK ==
  /\ disowned \in SUBSET Turn
  /\ publisher \in Turn \cup {NoTurn}
  /\ saveLost \in BOOLEAN
  /\ faults \in 0..MaxFaults
  /\ calls \in 0..MaxCalls

TypeOK == StoreTypeOK /\ ProcTypeOK /\ TurnTypeOK /\ HistoryTypeOK

Init ==
  /\ StoreInit
  /\ up = [p \in Proc |-> "down"]
  /\ localOwner = [p \in Proc |-> NoTurn]
  /\ cancelEvent = [p \in Proc |-> NoTurn]
  /\ poll = [p \in Proc |-> "wait"]
  /\ canceller = [p \in Proc |-> FALSE]
  /\ closer = [p \in Proc |-> FALSE]
  /\ pc = [t \in Turn |-> "unused"]
  /\ home = [t \in Turn |-> NoProc]
  /\ kind = [t \in Turn |-> "send"]
  /\ outcome = [t \in Turn |-> "none"]
  /\ eventSet = [t \in Turn |-> FALSE]
  /\ disowned = {}
  /\ publisher = NoTurn
  /\ saveLost = FALSE
  /\ faults = 0 /\ calls = 0

-----------------------------------------------------------------------------
Goto(t, label) == pc' = [pc EXCEPT ![t] = label]

OneMoreFault ==
  /\ faults < MaxFaults /\ faults + calls < MaxEvents
  /\ faults' = faults + 1

OneMoreCall ==
  /\ calls < MaxCalls /\ faults + calls < MaxEvents
  /\ calls' = calls + 1

(* Where a turn's cleanup begins: send and start_async drop the cancel     *)
(* event before they end the lease, start does so after it.                *)
Cleanup(t) == CASE kind[t] = "start" -> "releaseLease"
                [] kind[t] = "unleased" -> "popLast"
                [] OTHER -> "popFirst"

-----------------------------------------------------------------------------
(* Variants with one plausible mistake each, used by no specification.     *)

\* The in-process check of _begin_lease is skipped.
RegisterOverPrior(t) ==
  /\ pc[t] = "leased"
  /\ localOwner' = [localOwner EXCEPT ![home[t]] = t]
  /\ Goto(t, "registered")
  /\ UNCHANGED <<storeVars, up, cancelEvent, poll, callVars, home, kind,
                 outcome, eventSet, historyVars>>

\* The final state is published without waiting for the saved result.
PublishUnsaved(t) ==
  /\ pc[t] \in {"judged", "saved"}
  /\ UpdateState(IF outcome[t] = "success" THEN "idle" ELSE outcome[t])
  /\ publisher' = t
  /\ outcome' = [outcome EXCEPT ![t] = "none"]
  /\ Goto(t, IF kind[t] = "send" THEN "popFirst" ELSE "published")
  /\ UNCHANGED <<leaseVars, result, metaVars, procVars, callVars, home, kind,
                 eventSet, disowned, saveLost, faults, calls>>

\* The owner id names the process and not the turn.
TakeLeaseForProcess(t) ==
  /\ pc[t] = "checked"
  /\ LeaseFree(t)
  /\ leaseOwner' = home[t] /\ leaseLive' = TRUE
  /\ Goto(t, "leased")
  /\ UNCHANGED <<state, result, metaVars, procVars, callVars, home, kind,
                 outcome, eventSet, historyVars>>

\* The lease thread renews the lease and skips the cancellation request.
BeatWithoutPoll(p) ==
  /\ up[p] \in {"up", "stopping"} /\ poll[p] = "wait"
  /\ localOwner[p] # NoTurn
  /\ Heartbeat(localOwner[p])
  /\ UNCHANGED <<state, result, metaVars, procVars, callVars, turnVars,
                 historyVars>>

-----------------------------------------------------------------------------
(*                         Beginning a turn                                *)

\* start and start_async: the registry inserts the session, then calls
\* on_started, which takes the lease.
StartAgent(p, t, how) ==
  /\ up[p] = "up" /\ pc[t] = "unused"
  /\ Create
  /\ Goto(t, "checked")
  /\ home' = [home EXCEPT ![t] = p]
  /\ kind' = [kind EXCEPT ![t] = how]
  /\ UNCHANGED <<leaseVars, result, metaVars, procVars, callVars, outcome,
                 eventSet, historyVars>>

\* send reads the session and insists that it is idle.
SendCheck(p, t) ==
  /\ up[p] = "up" /\ pc[t] = "unused"
  /\ state = "idle"
  /\ Goto(t, "checked")
  /\ home' = [home EXCEPT ![t] = p]
  /\ UNCHANGED <<storeVars, procVars, callVars, kind, outcome, eventSet,
                 historyVars>>

TakeLease(t) ==
  /\ pc[t] = "checked"
  /\ AcquireLease(t)
  /\ Goto(t, "leased")
  /\ UNCHANGED <<state, result, metaVars, procVars, callVars, home, kind,
                 outcome, eventSet, historyVars>>

\* A send that finds a live lease of another owner raises.
LeaseRefused(t) ==
  /\ pc[t] = "checked" /\ kind[t] = "send"
  /\ ~LeaseFree(t)
  /\ Goto(t, "done")
  /\ UNCHANGED <<storeVars, procVars, callVars, home, kind, outcome, eventSet,
                 historyVars>>

\* on_started swallows a failing acquire_lease: it sets the event and returns,
\* and the registry runs the provider without a lease.
LeaseFails(t) ==
  /\ pc[t] = "checked" /\ kind[t] # "send"
  /\ OneMoreFault
  /\ Goto(t, "running")
  /\ kind' = [kind EXCEPT ![t] = "unleased"]
  /\ eventSet' = [eventSet EXCEPT ![t] = TRUE]
  /\ disowned' = disowned \cup {t}
  /\ UNCHANGED <<storeVars, procVars, callVars, home, outcome, publisher, saveLost, calls>>

\* A store call that precedes or takes the lease raises: an insert followed by
\* a failing first message leaves a session that nobody will ever run.
BeginFails(t) ==
  /\ pc[t] = "checked"
  /\ OneMoreFault
  /\ Goto(t, "done")
  /\ UNCHANGED <<storeVars, procVars, callVars, home, kind, outcome, eventSet,
                 disowned, publisher, saveLost, calls>>

RegisterOwner(t) ==
  /\ pc[t] = "leased"
  /\ localOwner[home[t]] \in {NoTurn, t}
  /\ localOwner' = [localOwner EXCEPT ![home[t]] = t]
  /\ Goto(t, "registered")
  /\ UNCHANGED <<storeVars, up, cancelEvent, poll, callVars, home, kind,
                 outcome, eventSet, historyVars>>

\* Another turn of this process is local owner: the row is given back.
RegisterRefused(t) ==
  /\ pc[t] = "leased"
  /\ localOwner[home[t]] \notin {NoTurn, t}
  /\ ReleaseLease(t)
  /\ IF kind[t] = "send"
     THEN /\ Goto(t, "done")
          /\ UNCHANGED <<kind, eventSet, disowned>>
     ELSE /\ Goto(t, "running")
          /\ kind' = [kind EXCEPT ![t] = "unleased"]
          /\ eventSet' = [eventSet EXCEPT ![t] = TRUE]
          /\ disowned' = disowned \cup {t}
  /\ UNCHANGED <<state, result, metaVars, procVars, callVars, home, outcome,
                 publisher, saveLost, faults, calls>>

\* The turn's event becomes reachable for local cancel() calls.
ArmCancel(t) ==
  /\ pc[t] = "registered"
  /\ cancelEvent' = [cancelEvent EXCEPT ![home[t]] = t]
  /\ Goto(t, IF kind[t] = "send" THEN "armed" ELSE "running")
  /\ UNCHANGED <<storeVars, up, localOwner, poll, callVars, home, kind,
                 outcome, eventSet, historyVars>>

\* send marks the session running; it does not look at the state again.
MarkRunning(t) ==
  /\ pc[t] = "armed"
  /\ UpdateState("running")
  /\ Goto(t, "running")
  /\ UNCHANGED <<leaseVars, result, metaVars, procVars, callVars, home, kind,
                 outcome, eventSet, historyVars>>

-----------------------------------------------------------------------------
(*                     The provider turn and its end                       *)

ProviderEvent(t) ==
  /\ pc[t] = "running" /\ state = "starting"
  /\ RecordEvent
  /\ UNCHANGED <<leaseVars, result, metaVars, procVars, callVars, turnVars,
                 historyVars>>

RenewOnProgress(t) ==
  /\ pc[t] = "running"
  /\ localOwner[home[t]] # NoTurn
  /\ Heartbeat(localOwner[home[t]])
  /\ UNCHANGED <<state, result, metaVars, procVars, callVars, turnVars,
                 historyVars>>

\* trip_budget runs in the turn's own thread, between two provider lines.
TripBudget(t) ==
  /\ pc[t] = "running"
  /\ ~budgetExceeded
  /\ eventSet' = [eventSet EXCEPT ![t] = TRUE]
  /\ budgetExceeded' = TRUE
  /\ UNCHANGED <<state, leaseVars, result, cancelRequested, procVars,
                 callVars, pc, home, kind, outcome, historyVars>>

\* A turn whose event is set may still end in any way: the provider may have
\* finished first.  The turn then reads whether the budget was exceeded.
ProviderReturns(t, how) ==
  /\ pc[t] = "running"
  /\ outcome' = [outcome EXCEPT ![t] = IF budgetExceeded THEN "interrupted"
                                                         ELSE how]
  /\ Goto(t, "judged")
  /\ UNCHANGED <<storeVars, procVars, callVars, home, kind, eventSet,
                 historyVars>>

\* The provider raises: the error result is saved, the budget is not read.
ProviderRaises(t) ==
  /\ pc[t] = "running"
  /\ outcome' = [outcome EXCEPT ![t] = "failed"]
  /\ Goto(t, "judged")
  /\ UNCHANGED <<storeVars, procVars, callVars, home, kind, eventSet,
                 historyVars>>

\* A start that cannot read the metadata takes the budget as kept.
BudgetUnread(t, how) ==
  /\ pc[t] = "running" /\ kind[t] # "send"
  /\ budgetExceeded
  /\ OneMoreFault
  /\ outcome' = [outcome EXCEPT ![t] = how]
  /\ Goto(t, "judged")
  /\ UNCHANGED <<storeVars, procVars, callVars, home, kind, eventSet, disowned,
                 publisher, saveLost, calls>>

SaveResult(t) ==
  /\ pc[t] = "judged"
  /\ SaveResultRow(t)
  /\ Goto(t, "saved")
  /\ UNCHANGED <<state, leaseVars, metaVars, procVars, callVars, home, kind,
                 outcome, eventSet, historyVars>>

PublishState(t) ==
  /\ pc[t] = "saved"
  /\ UpdateState(IF outcome[t] = "success" THEN "idle" ELSE outcome[t])
  /\ publisher' = t
  /\ outcome' = [outcome EXCEPT ![t] = "none"]
  /\ Goto(t, IF kind[t] = "send" THEN "popFirst" ELSE "published")
  /\ UNCHANGED <<leaseVars, result, metaVars, procVars, callVars, home, kind,
                 eventSet, disowned, saveLost, faults, calls>>

\* A started turn saves its result a second time, with session metadata.
SaveAgain(t) ==
  /\ pc[t] = "published"
  /\ SaveResultRow(t)
  /\ Goto(t, Cleanup(t))
  /\ UNCHANGED <<state, leaseVars, metaVars, procVars, callVars, home, kind,
                 outcome, eventSet, historyVars>>

\* A store call of a send raises after its retries (or, for bind, because the
\* provider handle belongs to another session): finally, and nothing else.
SendFails(t) ==
  /\ kind[t] = "send"
  /\ pc[t] \in {"armed", "judged", "saved"}
  /\ OneMoreFault
  /\ Goto(t, "popFirst")
  /\ UNCHANGED <<storeVars, procVars, callVars, home, kind, outcome, eventSet,
                 disowned, publisher, saveLost, calls>>

\* The same in a start: _finish_agent_session goes on to the next call.
StartStoreFails(t) ==
  /\ kind[t] # "send"
  /\ OneMoreFault
  /\ \/ pc[t] = "judged" /\ Goto(t, "saved")
     \/ pc[t] = "saved" /\ Goto(t, "published")
     \/ pc[t] = "published" /\ Goto(t, Cleanup(t))
  /\ saveLost' = (saveLost \/ pc[t] = "judged")
  /\ UNCHANGED <<storeVars, procVars, callVars, home, kind, outcome, eventSet,
                 disowned, publisher, calls>>

\* A start whose bind_provider_session fails finishes once more, as an error.
StartBindFails(t) ==
  /\ kind[t] # "send"
  /\ pc[t] = "judged" /\ outcome[t] # "failed"
  /\ OneMoreFault
  /\ outcome' = [outcome EXCEPT ![t] = "failed"]
  /\ UNCHANGED <<storeVars, procVars, callVars, pc, home, kind, eventSet,
                 disowned, publisher, saveLost, calls>>

-----------------------------------------------------------------------------
(*                              Cleanup                                    *)

\* pop(session_id, None) removes whatever event is there.
PopCancel(t) ==
  /\ pc[t] \in {"popFirst", "popLast"}
  /\ cancelEvent' = [cancelEvent EXCEPT ![home[t]] = NoTurn]
  /\ Goto(t, IF pc[t] = "popFirst" THEN "releaseLease" ELSE "done")
  /\ UNCHANGED <<storeVars, up, localOwner, poll, callVars, home, kind,
                 outcome, eventSet, historyVars>>

EndLease(t) ==
  /\ pc[t] = "releaseLease"
  /\ ReleaseLease(t)
  /\ Goto(t, "dropLocal")
  /\ UNCHANGED <<state, result, metaVars, procVars, callVars, home, kind,
                 outcome, eventSet, historyVars>>

\* A failing release is swallowed: the row stays until it expires.
EndLeaseFails(t) ==
  /\ pc[t] = "releaseLease"
  /\ OneMoreFault
  /\ Goto(t, "dropLocal")
  /\ UNCHANGED <<storeVars, procVars, callVars, home, kind, outcome, eventSet,
                 disowned, publisher, saveLost, calls>>

DropLocal(t) ==
  /\ pc[t] = "dropLocal"
  /\ localOwner' = IF localOwner[home[t]] = t
                   THEN [localOwner EXCEPT ![home[t]] = NoTurn]
                   ELSE localOwner
  /\ Goto(t, IF kind[t] = "start" THEN "popLast" ELSE "done")
  /\ UNCHANGED <<storeVars, up, cancelEvent, poll, callVars, home, kind,
                 outcome, eventSet, historyVars>>

-----------------------------------------------------------------------------
(*                            Lease thread                                 *)

\* A beat renews the lease, or forgets it when the row is no longer this
\* owner's, and then reads whether another process asked to cancel.
LeaseBeat(p) ==
  /\ up[p] \in {"up", "stopping"} /\ poll[p] = "wait"
  /\ localOwner[p] # NoTurn
  /\ Heartbeat(localOwner[p])
  /\ IF leaseOwner = localOwner[p]
     THEN /\ poll' = [poll EXCEPT ![p] = IF cancelRequested THEN "deliver"
                                                           ELSE "wait"]
          /\ UNCHANGED localOwner
     ELSE /\ localOwner' = [localOwner EXCEPT ![p] = NoTurn]
          /\ UNCHANGED poll
  /\ UNCHANGED <<state, result, metaVars, up, cancelEvent, callVars, turnVars,
                 historyVars>>

\* One heartbeat that raises is taken for a lost lease: the process forgets the
\* turn, and nobody renews the row that the turn still works under.
LeaseBeatFails(p) ==
  /\ up[p] \in {"up", "stopping"} /\ poll[p] = "wait"
  /\ localOwner[p] # NoTurn
  /\ OneMoreFault
  /\ localOwner' = [localOwner EXCEPT ![p] = NoTurn]
  /\ disowned' = disowned \cup {localOwner[p]}
  /\ UNCHANGED <<storeVars, up, cancelEvent, poll, callVars, turnVars, publisher, saveLost, calls>>

\* The event found now may be that of a later turn than the one polled for.
SetEventOf(t) ==
  IF t = NoTurn
  THEN UNCHANGED eventSet
  ELSE eventSet' = [eventSet EXCEPT ![t] = TRUE]

DeliverCancel(p) ==
  /\ poll[p] = "deliver"
  /\ SetEventOf(cancelEvent[p])
  /\ poll' = [poll EXCEPT ![p] = "wait"]
  /\ UNCHANGED <<storeVars, up, localOwner, cancelEvent, callVars, pc, home,
                 kind, outcome, disowned, publisher, saveLost, faults,
                 calls>>

-----------------------------------------------------------------------------
(*                           Control calls                                 *)

\* cancel reads the state; with no active turn it answers at once.
CancelCheck(p) ==
  /\ up[p] = "up" /\ ~canceller[p]
  /\ state \in ActiveStates
  /\ OneMoreCall
  /\ canceller' = [canceller EXCEPT ![p] = TRUE]
  /\ UNCHANGED <<storeVars, procVars, closer, turnVars, disowned, publisher, saveLost, faults>>

\* With a local event it is set; otherwise the request is written down, and
\* nothing ever clears it.
CancelAct(p) ==
  /\ canceller[p]
  /\ SetEventOf(cancelEvent[p])
  /\ cancelRequested' = (cancelRequested \/ cancelEvent[p] = NoTurn)
  /\ canceller' = [canceller EXCEPT ![p] = FALSE]
  /\ UNCHANGED <<state, leaseVars, result, budgetExceeded, procVars, closer,
                 pc, home, kind, outcome, disowned, publisher,
                 saveLost, faults, calls>>

\* close reads the state, then writes "closed" in a second transaction.
CloseCheck(p) ==
  /\ up[p] = "up" /\ ~closer[p]
  /\ state \in TerminalStates
  /\ OneMoreCall
  /\ closer' = [closer EXCEPT ![p] = TRUE]
  /\ UNCHANGED <<storeVars, procVars, canceller, turnVars, disowned, publisher, saveLost, faults>>

CloseWrite(p) ==
  /\ closer[p]
  /\ UpdateState("closed")
  /\ closer' = [closer EXCEPT ![p] = FALSE]
  /\ UNCHANGED <<leaseVars, result, metaVars, procVars, canceller, turnVars,
                 historyVars>>

-----------------------------------------------------------------------------
(*                        Processes and time                               *)

\* AgentService.__init__: the only place that reconciles expired leases.
StartRuntime(p) ==
  /\ up[p] = "down"
  /\ up' = [up EXCEPT ![p] = "up"]
  /\ ReconcileExpired
  /\ UNCHANGED <<result, metaVars, localOwner, cancelEvent, poll, callVars,
                 turnVars, historyVars>>

\* It starts without reconciling when the store raises.
StartUnreconciled(p) ==
  /\ up[p] = "down"
  /\ OneMoreFault
  /\ up' = [up EXCEPT ![p] = "up"]
  /\ UNCHANGED <<storeVars, localOwner, cancelEvent, poll, callVars, turnVars,
                 disowned, publisher, saveLost, calls>>

\* shutdown first sets the events of the turns it knows ...
ShutdownBegin(p) ==
  /\ p \in Hosted
  /\ up[p] = "up"
  /\ up' = [up EXCEPT ![p] = "stopping"]
  /\ eventSet' = IF cancelEvent[p] = NoTurn THEN eventSet
                 ELSE [eventSet EXCEPT ![cancelEvent[p]] = TRUE]
  /\ UNCHANGED <<storeVars, localOwner, cancelEvent, poll, callVars, pc, home,
                 kind, outcome, historyVars>>

\* ... waits for the executor's turns, stops the lease thread and releases
\* every lease still registered, that of a start or send at work included.
ShutdownEnd(p) ==
  /\ up[p] = "stopping"
  /\ \A t \in Turn : home[t] = p /\ kind[t] = "async" => pc[t] \in {"done", "dead"}
  /\ up' = [up EXCEPT ![p] = "stopped"]
  /\ poll' = [poll EXCEPT ![p] = "wait"]
  /\ localOwner' = [localOwner EXCEPT ![p] = NoTurn]
  /\ ReleaseLease(localOwner[p])
  /\ disowned' = disowned \cup {t \in Turn : t = localOwner[p] /\ Working(t)}
  /\ UNCHANGED <<state, result, metaVars, cancelEvent, callVars, turnVars,
                 publisher, saveLost, faults, calls>>

Abandon(p) ==
  /\ up' = [up EXCEPT ![p] = "down"]
  /\ localOwner' = [localOwner EXCEPT ![p] = NoTurn]
  /\ cancelEvent' = [cancelEvent EXCEPT ![p] = NoTurn]
  /\ poll' = [poll EXCEPT ![p] = "wait"]
  /\ canceller' = [canceller EXCEPT ![p] = FALSE]
  /\ closer' = [closer EXCEPT ![p] = FALSE]

\* The interpreter waits for its threads before the process ends.
Exit(p) ==
  /\ up[p] = "stopped"
  /\ \A t \in Turn : home[t] = p => pc[t] \in {"done", "dead"}
  /\ Abandon(p)
  /\ UNCHANGED <<storeVars, turnVars, historyVars>>

Crash(p) ==
  /\ up[p] # "down"
  /\ OneMoreFault
  /\ Abandon(p)
  /\ pc' = [t \in Turn |-> IF home[t] = p /\ pc[t] # "done" THEN "dead" ELSE pc[t]]
  /\ UNCHANGED <<storeVars, home, kind, outcome, eventSet, disowned, publisher, saveLost, calls>>

\* Nobody renews the row of a turn that is over or whose process forgot it.
ExpireAbandoned ==
  /\ leaseOwner # NoTurn /\ leaseLive
  /\ pc[leaseOwner] \in OverPcs \/ leaseOwner \in disowned
  /\ \A p \in Proc : localOwner[p] # leaseOwner
  /\ leaseLive' = FALSE
  /\ UNCHANGED <<state, leaseOwner, result, metaVars, procVars, callVars,
                 turnVars, historyVars>>

\* The owner's process is suspended for longer than the lease's lifetime.
ExpireStalled ==
  /\ leaseOwner # NoTurn /\ leaseLive
  /\ Working(leaseOwner)
  /\ OneMoreFault
  /\ leaseLive' = FALSE
  /\ disowned' = disowned \cup {leaseOwner}
  /\ UNCHANGED <<state, leaseOwner, result, metaVars, procVars, callVars,
                 turnVars, publisher, saveLost, calls>>

-----------------------------------------------------------------------------
BeginTurn(t) ==
  \/ \E p \in Proc : SendCheck(p, t) \/ \E how \in {"start", "async"} : StartAgent(p, t, how)

TurnStep(t) ==
  \/ TakeLease(t) \/ LeaseRefused(t) \/ RegisterOwner(t) \/ RegisterRefused(t)
  \/ ArmCancel(t) \/ MarkRunning(t)
  \/ ProviderRaises(t) \/ \E how \in Outcomes : ProviderReturns(t, how)
  \/ SaveResult(t) \/ PublishState(t) \/ SaveAgain(t)
  \/ PopCancel(t) \/ EndLease(t) \/ DropLocal(t)

TurnMay(t) ==
  \/ ProviderEvent(t) \/ RenewOnProgress(t) \/ TripBudget(t)
  \/ LeaseFails(t) \/ BeginFails(t) \/ SendFails(t) \/ StartStoreFails(t)
  \/ StartBindFails(t) \/ EndLeaseFails(t)
  \/ \E how \in Outcomes : BudgetUnread(t, how)

LeaseThread(p) == LeaseBeat(p) \/ DeliverCancel(p)

Control(p) == CancelCheck(p) \/ CancelAct(p) \/ CloseCheck(p) \/ CloseWrite(p)

Process(p) ==
  \/ StartRuntime(p) \/ StartUnreconciled(p)
  \/ ShutdownBegin(p) \/ ShutdownEnd(p) \/ Exit(p) \/ Crash(p)

Next ==
  \/ \E t \in Turn : BeginTurn(t) \/ TurnStep(t) \/ TurnMay(t)
  \/ \E p \in Proc : LeaseThread(p) \/ LeaseBeatFails(p) \/ Control(p) \/ Process(p)
  \/ ExpireAbandoned \/ ExpireStalled

Spec == Init /\ [][Next]_vars

-----------------------------------------------------------------------------
(*                             Properties                                  *)

(* One turn at a time.  Two turns are at work together only after one of   *)
(* them lost its lease: by a stall longer than the lease's lifetime, by a  *)
(* heartbeat that raised, by a shutdown that did not wait for it, or by a  *)
(* lease it never got.  The stale idle check of send does not break this,  *)
(* because acquire_lease decides.                                          *)
TurnMutex ==
  \A t, u \in Turn :
    t # u /\ Working(t) /\ Working(u) => t \in disowned \/ u \in disowned

(* The completion barrier of wait(): while a registered turn owns the      *)
(* lease row its process has the local marker, so a caller that sees no    *)
(* marker knows that the row is released, unless the turn was disowned.    *)
OwnerIsLocal ==
  \A t \in Turn :
    /\ leaseOwner = t /\ pc[t] \in RegisteredPcs
    /\ t \notin disowned
    => localOwner[home[t]] = t

(* A reader of idle or failed finds the result of the turn that published  *)
(* that state, provided no turn worked without a lease and no save failed. *)
ResultReady ==
  disowned = {} /\ ~saveLost /\ state \in {"idle", "failed"}
    => publisher \in Turn /\ result = publisher

\* A step that interrupts an active session and moves no turn.
SparesOwners ==
  state \in ActiveStates /\ state' = "interrupted" /\ pc' = pc
    => \A t \in Turn : Working(t) => t \in disowned

(* Reconciliation at the start of a runtime interrupts a session only when *)
(* no turn with a lease of its own is at work.                             *)
ReconcileSparesOwners == [][SparesOwners]_vars

-----------------------------------------------------------------------------
(*                       Fairness and liveness                             *)

(* Threads run, the lease thread polls and abandoned leases run out.       *)
ThreadFairness ==
  /\ \A t \in Turn : WF_vars(pc[t] # "running" /\ TurnStep(t))
  /\ \A p \in Proc : WF_vars(LeaseThread(p))
  /\ WF_vars(ExpireAbandoned)

(* A provider whose turn was cancelled is killed; one that is left alone   *)
(* need not answer.                                                        *)
ProviderFairness ==
  \A t \in Turn : WF_vars(pc[t] = "running" /\ eventSet[t] /\ TurnStep(t))

(* Runtimes are started again, and each run of a hosted one ends some day, *)
(* as the host session it serves does.                                     *)
HostFairness ==
  \A p \in Proc : /\ WF_vars(StartRuntime(p))
                 /\ WF_vars(ShutdownBegin(p))
                 /\ WF_vars(ShutdownEnd(p))
                 /\ WF_vars(Exit(p))

LiveSpec == Spec /\ ThreadFairness /\ ProviderFairness /\ HostFairness

(* A request another process wrote down reaches the turn at the next polls *)
(* of its lease thread, even if the provider would never end by itself, as *)
(* long as the turn keeps its lease and its event and the thread is there. *)
CancelDelivered ==
  \A t \in Turn :
    cancelRequested /\ pc[t] = "running" /\ cancelEvent[home[t]] = t
      ~> \/ eventSet[t] \/ pc[t] # "running" \/ t \in disowned
         \/ cancelEvent[home[t]] # t
         \/ up[home[t]] = "stopped"

(* A session whose lease belongs to a turn that died with its process does *)
(* not stay active: the lease runs out and a later start of a runtime      *)
(* reconciles the session.  One restart is not enough, because it may come *)
(* before the lease has run out.                                           *)
NoZombie ==
  \A t \in Turn :
    state \in ActiveStates /\ leaseOwner = t /\ pc[t] = "dead"
      ~> ~(state \in ActiveStates /\ leaseOwner = t)

=============================================================================
