----------------------------- MODULE AgentStore -----------------------------
(***************************************************************************)
(* The rows the SQLite agent store keeps for ONE direct agent session, and *)
(* its transactions.  Every operation of runtime/agent_store.py is a       *)
(* single transaction, so every operator below is one atomic update that   *)
(* an action of AgentService takes as a conjunct.  Rows of different       *)
(* sessions never meet in a transaction that AgentService uses.            *)
(*                                                                         *)
(* Wall-clock time is abstracted to whether the lease row has expired: a   *)
(* lease is written live, and the service decides when it may expire.      *)
(***************************************************************************)
CONSTANTS
  Turn,      \* turn threads; a turn's lease owner id is fresh for each turn
  NoTurn     \* "no row" in agent_leases and agent_results

ASSUME NoTurnAssumption == NoTurn \notin Turn

VARIABLES
  state,            \* agent_sessions.state, "absent" before the insert
  leaseOwner,       \* agent_leases.owner_id
  leaseLive,        \* expires_at lies in the future
  result,           \* the turn whose payload agent_results holds
  cancelRequested,  \* metadata.cancel_requested
  budgetExceeded    \* metadata.budget_exceeded

leaseVars == <<leaseOwner, leaseLive>>
metaVars == <<cancelRequested, budgetExceeded>>
storeVars == <<state, leaseVars, result, metaVars>>

ActiveStates == {"starting", "running"}
TerminalStates == {"idle", "interrupted", "failed", "closed"}
States == {"absent"} \cup ActiveStates \cup TerminalStates

StoreTypeOK ==
  /\ state \in States
  /\ leaseOwner \in Turn \cup {NoTurn}
  /\ leaseLive \in BOOLEAN
  /\ result \in Turn \cup {NoTurn}
  /\ cancelRequested \in BOOLEAN
  /\ budgetExceeded \in BOOLEAN

StoreInit ==
  /\ state = "absent"
  /\ leaseOwner = NoTurn
  /\ leaseLive = FALSE
  /\ result = NoTurn
  /\ cancelRequested = FALSE
  /\ budgetExceeded = FALSE

-----------------------------------------------------------------------------
(***************************************************************************)
(* Variants with one plausible mistake each.  No specification uses them;  *)
(* putting one in the place of the operator it imitates shows that the     *)
(* properties notice the mistake.                                          *)
(***************************************************************************)
\* The expiry test of acquire_lease is forgotten: any caller takes the row.
AcquireAlways(t) == leaseOwner' = t /\ leaseLive' = TRUE

\* DELETE ... WHERE session_id = ?, without the owner.
ReleaseAnyOwner(t) == leaseOwner' = NoTurn /\ leaseLive' = FALSE

\* The expiry clause is missing from the reconciling SELECT.
ReconcileEveryLease ==
  IF state \in ActiveStates /\ leaseOwner # NoTurn
  THEN state' = "interrupted" /\ leaseOwner' = NoTurn /\ leaseLive' = FALSE
  ELSE UNCHANGED <<state, leaseVars>>

\* The reconciling SELECT joins no session that is running.
ReconcileStartingOnly ==
  IF state = "starting" /\ leaseOwner # NoTurn /\ ~leaseLive
  THEN state' = "interrupted" /\ leaseOwner' = NoTurn /\ leaseLive' = FALSE
  ELSE UNCHANGED <<state, leaseVars>>
-----------------------------------------------------------------------------
\* create: INSERT with state "starting"; the session has no lease yet.
Create == state = "absent" /\ state' = "starting"

\* update(state=...): a blind UPDATE, whatever the row held.
UpdateState(s) == state' = s

\* record_event: an event moves a starting session to running.
RecordEvent == state' = IF state = "starting" THEN "running" ELSE state

\* save_result: upsert, the last writer wins.
SaveResultRow(t) == result' = t

\* acquire_lease refuses only a live row of another owner.
LeaseFree(t) == leaseOwner \in {NoTurn, t} \/ ~leaseLive

AcquireLease(t) ==
  /\ LeaseFree(t)
  /\ leaseOwner' = t
  /\ leaseLive' = TRUE

\* heartbeat matches session and owner only, so it revives an expired row.
Heartbeat(t) ==
  /\ leaseLive' = (leaseLive \/ leaseOwner = t)
  /\ UNCHANGED leaseOwner

ReleaseLease(t) ==
  /\ leaseOwner' = IF leaseOwner = t THEN NoTurn ELSE leaseOwner
  /\ leaseLive' = (leaseLive /\ leaseOwner # t)

\* reconcile_expired: an active session JOINed with an expired lease row; a
\* session without a lease row is never touched.
ReconcileExpired ==
  IF state \in ActiveStates /\ leaseOwner # NoTurn /\ ~leaseLive
  THEN /\ state' = "interrupted"
       /\ leaseOwner' = NoTurn
       /\ leaseLive' = FALSE
  ELSE UNCHANGED <<state, leaseVars>>
=============================================================================
