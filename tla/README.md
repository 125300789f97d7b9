# Verification of CortexRelay's control plane

TLA+ models of the core of CortexRelay: direct agent sessions with durable
leases, workflow tasks with shared scheduler capacity, the turn of a provider
process, the chain of candidates a call goes through, the files a task record is
made of, their collection, the handoff of worktrees, and the A2A front end.  TLC
checks the models on small instances; TLAPS proves every safety property of the
passing runs, invariants, action properties and both refinements, for every value of
the constants.

## 1. The system

CortexRelay is a Python control plane (about 16,900 lines in
`src/cortex_relay/`) through which a coding agent delegates work to other
agents.  Each host runs its own MCP server process; every process of a machine
shares one state directory: an SQLite database (`agent-state.sqlite3`) and a
tree of JSON files with lock files beside them.  There is no central server, so
all coordination goes through leases, reservations, owner locks and flags that
some other process polls.

| Component | State it keeps | Operations | Correct when |
|---|---|---|---|
| `runtime/agent_store.py` | sessions, leases, results, events, messages, metadata, scheduler reservations (SQLite) | create, update, acquire/heartbeat/release lease, reconcile, save result, close, gc, reserve/renew/release slot | every operation is one transaction; a live lease has one owner |
| `runtime/agent_service.py` | per process: cancel events, local lease owners, thread pool, lease thread | start, start_async, send, wait, cancel, close, shutdown | one turn at a time; waiters find results; cancels arrive; no zombies |
| `core/registry.py` | provider health; otherwise passes state through the stores | direct sessions, execute, fallback chains, event recording | result before state; one completion per task |
| `observability.py` (`RunStore`) | task records, result files, index, event logs | start/update/complete/reconcile task, cancel requests, gc | a terminal record has its result; a finished task stays finished |
| `runtime/task_service.py` | per process: job table, futures, cancel events, heartbeat thread | submit, scheduling pass, run, gates, cancel, shutdown | dependencies honoured; capacity kept over processes; tasks end |
| `runtime/state_lock.py`, `state_retry.py` | lock files | acquire, release, probe; retry with backoff | exclusion; a call happens or raises |
| `runtime/recovery.py`, `supervision.py` | attempts and deadline of one turn | run a turn with retries; watch budgets | attempts and deadline bounded; no retry after cancel |
| `runtime/worktree*.py`, `artifacts.py` | git worktrees, patches, confirmation tokens | create, diff, apply, discard | apply at most once; discard only what was confirmed |
| `runtime/process.py`, `providers/*` | subprocesses, pipes, app-server sessions | run, stream, kill | a cancelled provider stops |
| `runtime/agent_events.py`, `progress.py` | none | normalise provider output | pure functions |
| `transports/mcp.py`, `a2a.py` | A2A: in-memory task table | expose the services | order of shutdown; A2A cancel |
| `cli.py`, `wizard.py`, `installer.py`, ... | configuration files | set-up and reports | not concurrent |

Who interacts with whom: MCP tools call `AgentService` and `TaskService`; both
call `ProviderRegistry`, which runs providers and writes to `AgentStore` and
`RunStore`; `TaskService` reserves slots in `AgentStore`.  Shared between
processes are only the two stores and the owner lock files.  Inside a process,
turn threads, worker threads, done-callbacks, the lease thread, the heartbeat
thread and the tool calls share dictionaries under a lock that is *not* held
across store calls, except in the scheduling pass and in part of cancel.

Hard behaviours: a check in one transaction and the act in another; leases and
reservations that run out while their owner is suspended; process death between
any two writes; a store error in the middle of a sequence; flags that a
different process must pick up; threads that die of an uncaught exception; the
window between a provider's success and the quality gates; a child process that
forks, closes its pipes or never ends; a cancel or a tripped budget between two
recoveries or two candidates; files removed one by one beside their users.  `PROJECT.json` lists
each at its line, with the properties that would notice it.

## 2. Modules

| Module | Models | Uses |
|---|---|---|
| `AgentStore` | rows and transactions of one agent session | - |
| `AgentService` | the turns, lease threads, control calls and processes on that session | extends `AgentStore` |
| `AgentServiceProofs` | theorems about `AgentService` | extends it and `TLAPS` |
| `MCAgentService` | TLC instances | extends it |
| `RunStore` | task records and result files | - |
| `SchedulerSlots` | the reservation table | extends `RunStore` (reservations are for its tasks) |
| `TaskService` | services, jobs, workers, heartbeats, cancels | extends both |
| `TaskServiceProofs` | theorems about `TaskService` | extends it, `FiniteSetTheorems` and `TLAPS` |
| `MCTaskService` | TLC instances | extends it |
| `ProviderTurn` | one turn of a provider: process, reader threads, loop, supervision, adapter | - |
| `Execution` | one call of the registry: route, candidates, worktree, turns, recoveries, outcome | a turn is the set of outcomes `ProviderTurn` gives it |
| `WorktreeFate` | abstract: what handoff promises for each worktree | - |
| `Handoff` | apply, discard, artifacts, late writers, the user's checkout | instantiates `WorktreeFate` |
| `AtomicRecord` | abstract: a record that is updated at once and confirmed after | - |
| `StateFiles` | one task record as files: lock, retries, event log, reader | instantiates `AtomicRecord` |
| `Collection` | gc and clear_completed beside tasks, artifacts, sessions and their events | - |
| `A2ATransport` | coroutines, cancel events and pool threads of the A2A executor | - |
| `...Proofs` of each of the six above | theorems about it | extend it and `TLAPS` |
| `MC...` of each | TLC instances | extend it |

Operators whose comment says *variant* contain one plausible mistake each.  No
specification uses them; put in the place of the operator they imitate, they
show that the properties notice the mistake (`PROJECT.json`, "mutants").

### AgentStore and AgentService

One session.  `state`, `leaseOwner`, `leaseLive`, `result`, `cancelRequested` and
`budgetExceeded` are the rows that decide something.  Every method of the store
that the service uses is a single transaction, hence one operator.  Time is
reduced to whether the lease has run out: `leaseLive` becomes false when nobody
renews it (`ExpireAbandoned`), or, as a fault, under an owner that is suspended
for longer than the lease lifetime (`ExpireStalled`).

A *turn* is one call of start, start_async or send.  Its `pc` stands between two
accesses to shared state:

    unused -> checked -> leased -> registered -> armed -> running -> judged
           -> saved -> published -> popFirst -> releaseLease -> dropLocal
           -> popLast -> done

`checked` is after the read that lets the turn go on (idle for a send, the insert
for a start); `leased`/`registered` are the two halves of `_begin_lease`, the row
and the process's `_lease_owners`; `armed` is after the cancel event was filed;
`judged` is a provider that answered, `saved` and `published` are save_result and
the final state.  Cleanup differs: send and start_async remove the event before
they end the lease, start does it after.  A start that could not get its lease
runs as kind `unleased`, as `on_started` swallows the error.

A process has its `_lease_owners` entry, its `_cancel_events` entry, its lease
thread (`poll`), and at most one cancel and one close call between their read
and their write.  It starts (reconciling, or not when the store raises), shuts
down in order, or crashes.

History variables (`disowned`, `publisher`, `saveLost`) are read by
properties only, except that expiry needs to know who renews a lease.

### RunStore, SchedulerSlots and TaskService

A record has a `status`, an `owner` (the instance whose owner lock tells whether it
lives) and a `cancelRequested` flag; its result is a second `file`.  Statuses are
reduced to the ones that decide: `failed` stands for error, timeout, unavailable
and budget_exceeded; `routing` for all statuses of a dispatched task.  A record and
a file are each replaced atomically under the task's lock; what can be seen in
between is modelled for workers (`File`/`Record`, `CloseFile`/`CloseRecord`), while
completions inside the service lock are one step.

The limits of workspace, provider and profile are *pools*: a set of tasks and how
many of them may run.  `reserved` holds the reservations that have not expired.

A job's `pc`:

    absent -> pending -> submitted -> executing -> returned -> filed
           -> recorded -> (closing -> closed) -> done -> released

`pending` is a job without a future, looked at by each scheduling pass.  A pass
holds the service lock over all its jobs; the model makes what it does to one job
one action (`Blocked`, `BlockedByTrouble`, `Refuse`, `Waits`, `Dispatch`), which
allows more interleavings than the code and hides none that another process could
see, because the pass acts on jobs one by one.  `returned`/`filed` are the two
halves of complete_task in `execute`; `recorded` is the window in which the record
shows success and the gates have not run; `closing`/`closed` are the two halves of
complete_task in `_run`.  `done` is a finished future whose callback has not run,
`settled` a job that ended without a future, `withdrawn` one whose future was
cancelled before a worker began it, `dead` one whose process crashed.

cancel has three steps, as in the code: read the record; set the event under the
lock (or complete a pending job, or leave a request for another process's
heartbeat); cancel the future.  The same steps serve client calls, the heartbeat
(`PickUpCancel`) and shutdown (`ShutdownCancel`).

### ProviderTurn

One turn of any of the four adapters.  `child`, `helpers` (descendants), `shut` and the
lines in `pipe` are the external side: the provider may print, fork, close its
pipes, exit or never end, and nothing is assumed of it.  `queue` and `readers` are
the threads of `ProcessRunner._stream` (or the client's stdout reader); `pc`, `eofs`,
`exitSeen`, `quiet` and `spent` are its loop: checks (cancel, then silence, then
deadline), a wait for the queue, a grace after an exit.  With the app-server,
`phase` and `asked` follow the requests initialize, thread and turn, and then the
notifications.

The loop ends at `stopping`.  `Terminate`, `Kill` and `Sweep` are what `_terminate` and the
client's `close` do then: ask the process to leave (SIGTERM, which it and its
descendants may ignore; on Windows a forced end, of the tree only while the process runs),
wait, send SIGKILL, wait again, and kill what is left of the group.  `system` is the
operating system and `killed` those that were sent SIGKILL; what was killed does
nothing more but die.  A server that is still there after both waits makes `close`
raise TimeoutExpired, whatever became of the turn.  `Report` makes the adapter's result in the
order of the adapter's own tests; of a read-only task it compares the workspace only
if git could tell it before and after (`compared`).  `system` and `readonly` are chosen when
they first matter, which saves states and changes nothing.  Descendants that left the
process group (setsid) are not modelled: nobody kills them.

A line is a member of a small set: a tool call, a spawned child, a token report,
plain text, a final message of this or another turn, an error.  `tracker` holds the
fields of the supervision tracker and `Observe` is its step; exceeding a budget sets the
cancel event from inside the callback.  `observed`, the lines it was shown, is a history
that only properties read.  Time is a `Tick` of two saturating counters.
A tick passes only when the readers have handed over what there is, because the
code's grace (a poll interval) is long against reading a pipe; a callback may take
time with lines waiting.

### Execution

One call of `execute` or `start_agent`.  `chain` and `i` are the candidates (profiles in
the depth-first order of `fallback_chain`, providers in the order of their health
scores, or a single name); `res` is the result so far; `sess[i]`, `tree[i]` the agent
session and worktree of each attempt; `spent`, `used` and `limit` the time since the
logical deadline was stamped, of this turn, and what it may take; `attempt` the number
of recoveries.  `pc` follows the code from `_execute_provider` through
`_run_provider_turns` to `_finish_agent_session`, and back to the chain.  A turn
returns any outcome `ProviderTurn` allows at that moment.  `health` holds the counts of
turns per provider; all calls of a process share them, so other calls may have had turns
before this one is routed (`OtherTurn`).  `told` is a history of the statuses counted.
Scores are integers in units of 1/2400, exact for up to four turns; the penalty for slow
turns is left out.  It is at most 1/2, and the order HealthyFirst speaks of does not
depend on it: a provider that only failed scores at most 0.35 - 0.75 - 0.2, one that
never failed at least 0 or 1 - 0.5.  Store calls that raise are faults at the step where they raise.

### Handoff and WorktreeFate

Attempts of terminal tasks in one repository.  A call of apply, discard, or artifact
creation stands between two git or store calls (`pc`), with what it read in `view`.
Others act in between: a provider that outlived its server process (`WorkerWrites`), the user
(`UserEdits`, `UserCommits`, `UserReverts`), other calls, failures and crashes.  A patch is the
attempt it comes from; `laid` are uncommitted patches in the checkout, `edited` says that
the user has changes of his own there, `merged` are committed patches, `delivered` all that
were ever laid.  `mishap` is a history of what befell discards: a write between check and
removal, a failure between removal and record.  Refusals that the model does not
distinguish are a free choice to leave.

`WorktreeFate` says that each worktree is kept until it is recorded as applied, after its patch
was laid, or is removed, and not both; and that a patch is laid on no other patch and
after one check that found the checkout clean.  What the user changes between this
check and `git apply` is in both: the code does not exclude it.  The refinement mapping reads
the fate off `tree` and `status`, and `checked` off the calls about to lay a patch.

### StateFiles and AtomicRecord

Calls of `RunStore` from several processes on one record: lock, read, append to the
log where the call is an event, write, return; each file step may fail for a moment
(retried up to `MaxAttempts`) or for good, and a process may die anywhere.  Required
calls raise when they cannot happen, optional ones return silently.  Death during an
append leaves a line without an end (`torn`).  `AtomicRecord` has the confirmed updates
as a subset of the done ones, both growing; the mapping is `done <- record.done`,
`confirmed <- answers`.

### Collection

A workspace's tasks go `none -> active -> terminal -> gone`, with a submit in two steps
(check, record), an artifact in two (files, name), and a completion.  A collection
reads the records one by one (`Read`), decides (`Plan`), and deletes task by task under
each task's lock (`Unlink`, then `UnlinkFiles` or a failure).  A record that cannot be
read is skipped, as in the code, and keeps nothing (`Unreadable`).  `gc` then reads the
session rows of the workspace (`ReadTrees`) and deletes trees later (`Prune`).
`clear_completed` lists the directory again before it deletes.  Beside it, a session
works, records events of its children (`ReadForEvent`, then `CountChild` or
`UpsertChild`: a read and a write in two transactions), starts agents for tasks in
worktrees, and is asked to cancel.

### A2ATransport

Each remote task is a coroutine (`pc`) on one event loop, a call on a pool thread
(`worker`), an entry in the table of cancel events, and a queue of progress events
(`emitted`, of which `shown` were published, at most `Batch` in a pass).  The coroutine can be
interrupted at each await, and each publication may raise (`ProgressRaises` leaves the call
at work with nobody who could cancel it).

## 3. What TLC checks

| Run | Instance | Checks |
|---|---|---|
| AgentSafety | 3 turns, 2 processes, 2 faults, symmetric | TypeOK, TurnMutex, OwnerIsLocal, ResultReady, ReconcileSparesOwners |
| AgentRecovery | 2 turns, 2 processes, one fault or call, shutdown of p1, fairness | CancelDelivered, NoZombie |
| WorkflowSafety | 3 tasks, 2 processes, one crash, stall, store error, cancel or shutdown | TypeOK, Capacity, DependenciesHonoured, ResultReadable |
| WorkflowLive | 2 dependent tasks, 2 processes, two crashes, stalls or cancels, fairness | WorkIsOpen, TerminalStays, TasksEnd, CancelPickedUp, OverlapEnds |
| WorkflowGates | 2 dependent tasks, no fault | the refuted DependentsWaitForGates |
| ProviderTurns | 4 adapters, POSIX and Windows, limits of one tick, two calls, one repeat, one unread line, fairness | StopKillsGroup, OutputComplete, StopsAtBudget, HonestSuccess, CancelStops, TurnEnds |
| Executions | 3 profiles on 2 providers (one unknown), every route, 2 recoveries, one store error, fairness | OneLateTurn, WorktreeKnown, SessionsEnd, RecoveryInTime, BudgetDecides, HealthyFirst, ExecuteReturns |
| Handoffs | 2 worktrees, 3 calls, a user until his first commit, one late write and failure, fairness | KeepsPromise, DiscardAccounted, ArtifactComplete, CallsEnd |
| StateRecords | 4 calls, 2 errors or deaths, pages of one line | RecordIsAtomic, CursorComplete |
| Collections | 2 collections, 2 tasks, 3 sessions, one fault, one event | WholeRecord, RequiredSpared, CancelOutlasts |
| CollectionTrees | one collection, no fault | the refuted WholeTrees |
| A2ACancels | 2 tasks, one pool thread, 2 cancels, interruptions or publications that raise, fairness | ProgressComplete, CancelReaches |

What they show:

- **TurnMutex**: two turns work on a session together only when one was *disowned*:
  it stalled past its lease, a heartbeat of its process raised, its process shut
  down over it, or it runs without a lease.  The stale idle check of send does not
  break this, because acquire_lease decides.
- **OwnerIsLocal**: the completion barrier that `wait` relies on.
- **ResultReady**: idle and failed imply that the result row is the publishing
  turn's, unless some turn was disowned or some save failed.
- **ReconcileSparesOwners**, **NoZombie**: reconciliation hits abandoned sessions with
  a lease row, and only those.
- **CancelDelivered**: a persisted request reaches the turn's event while its lease
  thread is there and the turn has its event.
- **Capacity**: over all processes, a pool's tasks at work stay within its limit, but
  for tasks whose reservation expired under them.
- **WorkIsOpen**: no cancel and no reconciling process closes the record of a task
  before its worker does.
- **ResultReadable**: a terminal record has its result file and they agree, except
  while a gate rejection is between file and record.
- **DependenciesHonoured**: what was dispatched had all its dependencies succeed,
  though gates may since have rejected one.
- **TerminalStays**: how a task ended never changes, with two exceptions: gates
  rejecting a success, and a cancel that read the record before a pass settled the
  job.
- **TasksEnd**: with providers that answer, a queued task whose process's heartbeat
  lives ends, even if owners of its dependencies crash.
- **CancelPickedUp**, **OverlapEnds**: the heartbeat delivers requests of other
  processes, and stops tasks that lost their slot.
- **StopKillsGroup**: after a turn its provider process is gone in the end, and after a
  cancelled or timed-out command line on POSIX its whole process group, whoever ignores
  SIGTERM, forks while being stopped, or outlives its parent.  The app-server client stops only
  the server process; on Windows nobody kills the tree of a process that has exited.
- **CancelStops**, **TurnEnds**: the event alone ends a turn, and time alone does, whatever
  the provider does.
- **OutputComplete**: a run that ended by itself has taken every line, though readers
  lag behind the exit and descendants hold the pipe.
- **StopsAtBudget**: no line is acted upon after the one that exceeded a budget.  Lines
  whose observation a store error dropped are not counted, by the code either.
- **HonestSuccess**: a success has a message of its own turn (antigravity's need not),
  and a read-only task's success left git status as it was, where it could be read before
  and after.
- **OneLateTurn**: after the event is set at most one more turn begins, over all
  candidates and recoveries.
- **RecoveryInTime**, **ExecuteReturns**: the first candidate with its recoveries keeps
  the logical deadline; every call comes to an end.
- **WorktreeKnown**, **SessionsEnd**: no provider starts in a worktree the record does not
  name; a call that returns leaves no session of its attempts at work.
- **BudgetDecides**: a flagged budget decides the outcome of the whole call, but for
  timeouts; of a direct session, if no turn raised and the store could be read.
- **HealthyFirst**: an automatic route puts a provider that never failed before one that
  only failed, the preferred one included.
- **KeepsPromise**: Handoff implements WorktreeFate.  **DiscardAccounted**: git and the
  record agree about each discard: what is gone had been shown with its last token, or was
  written after the check; it is recorded as gone, unless the call was cut off before; and what
  is recorded as gone is.  **ArtifactComplete**: a named artifact has its files.
  **CallsEnd**: a failing holder does not keep the lock.
- **RecordIsAtomic**: StateFiles implements AtomicRecord.  **CursorComplete**: a reader
  gets every line up to its cursor, but those whose number was used again because their
  record was never written.
- **WholeRecord**, **RequiredSpared**: a terminal record has its result and its named
  artifact throughout; a dependency of a task active since the collection began, whose
  record it could read, is not deleted.  **CancelOutlasts**: a cancel request stays with its row, unless it was made
  while an event was between its read and its write.
- **ProgressComplete**, **CancelReaches**: a completed task published all its progress; a
  cancel that found its event ends the call, even one still queued behind another
  (unless that other one never ends).

Operators `TypeOK` of the modules `ProviderTurn`, `Execution`, `Handoff`, `StateFiles`,
`Collection` and `A2ATransport` document the variables; the listed runs do not spend
time on them.  They are proved, but for `Handoff`'s, of which the proofs have the parts
they need.

### Bounds

Bounds are constants: `MaxFaults`, `MaxCalls`, `MaxEvents`, `EventKinds`, `MaxUnread`,
`MaxPast`, `NumCalls`, `MaxEdits`, `MaxCommits`, `MaxCollections`, `MaxProgress`, `MaxCancels`.
Two processes are enough for every interaction of agents and workflows, which is
between an owner and some other process; three turns allow an overtaken turn, its
successor, and a third that meets the leavings of both; two faults allow a crash and
a stall together.  Three tasks give a dependency and a competitor for a slot at once;
only a contest for a slot needs the third, so WorkflowSafety takes one event with
three tasks, and WorkflowLive two events with two.  A store error of a cancel or of a shutdown
counts as part of that event (`Accompanied`).

A pipe and a queue of one line each make readers, loop and process wait for each
other in every order; limits of one tick let silence, deadline, exit and cancel
coincide.  Two calls, one repeat and no child exceed each kind of budget within
four lines.  Three profiles give a repeated and an unknown candidate; one turn of
each provider before the call gives every order of health, and two recoveries a recovery after a
recovery.  Three handoff calls allow a discard, its confirmation, and an intruder; the user's
one commit comes after any number of changes and reverts, at any time.
Four record calls and two errors allow an error, a death, and calls that run into
both.  Two collections meet each other and a submit.  One pool thread for two remote
tasks makes one wait.

A process runs once in the workflow model: a restart is another member of `Proc`,
as a new instance has a new owner id.  In the agent model a process may start
again.  Deadlock is not checked: when all processes are down, calls have ended, and the
bounds are used up, the system really stops.

### Fairness

Agent (`LiveSpec`): threads that can run do run; a provider whose turn was cancelled
is killed and its turn ends (one that is left alone need not answer); the lease thread
polls; abandoned leases run out; and the hosted process is started again and shut
down again some day.  NoZombie needs the last: reconciliation happens only in
`AgentService.__init__`.

Workflow: worker threads and calls go on; the heartbeat of a living
process beats, and each beat ends with a scheduling pass that resolves
dependencies; unrenewed reservations expire.  A provider is *not* assumed to answer
unless its event is set; TasksEnd makes that assumption explicit, because there it
is justified by the timeout of each turn (`ProviderTurn!TurnEnds`), and the other two
properties do without.  Liveness runs have no store errors, because the code has
none of these guarantees then (`HeartbeatDies`, `CloseFails`).

ProviderTurn: the loop and its reader threads run, and the system ends what was sent
SIGKILL; nothing else is assumed of the provider; TurnEnds adds that time passes.  Execution:
the thread of the call runs and each turn ends, which ProviderTurn shows.  Handoff: as long
as some call can go on, one does; the lock is polled for.  A2A: the event loop runs every coroutine; a thread that is free again and again takes a queued
call (strong fairness, as the pool is first in, first out); a provider whose event is
set ends.

## 4. What is proved

Every state invariant and every action property of the passing runs, and both
refinements, for any value of the constants: any sets of turns, tasks, processes,
attempts, profiles and providers, any limits, and any bound on faults and calls.

| Module | Theorems, beside Invariance (`Spec => []IInv`) |
|---|---|
| `AgentServiceProofs` | TypeOK, TurnMutex, OwnerIsLocal, ResultReady, ReconcileSparesOwners |
| `TaskServiceProofs` | TypeOK, Capacity, WorkIsOpen, ResultReadable, DependenciesHonoured, TerminalStays |
| `ProviderTurnProofs` | TypeOK, SurvivorsKilled (the safety half of StopKillsGroup), OutputComplete, HonestSuccess, StopsAtBudget |
| `ExecutionProofs` | TypeOK, OneLateTurn, WorktreeKnown, SessionsEnd (below two faults), RecoveryInTime, BudgetDecides, HealthyFirst |
| `HandoffProofs` | HolderAtWork, DiscardAccounted, ArtifactComplete, KeepsPromise (refinement of `WorktreeFate`) |
| `StateFilesProofs` | RecordIsAtomic (refinement of `AtomicRecord`), CursorComplete |
| `CollectionProofs` | WholeRecord, RequiredSpared, CancelOutlasts |
| `A2ATransportProofs` | ProgressComplete |

Assumptions are the named ones on constants, which say what kind of value each is.
Beyond that:

- `ChainAssumption` (Execution) says that there are finitely many providers and that
  `FallbackChain(FirstProfile)` is a sequence of profiles.  The second part follows from
  `Visit` by an induction, which the prover cannot do; TLC evaluates it.
- `PromiseKept` assumes `OneWorkspace`: with two workspaces in one repository the
  promise fails (section 5, number 10).
- `SessionsAreClosed` is about states with fewer than two faults: two store calls that
  fail, the end of a session and the attempt to mark it failed, leave it at work.  The run
  has one fault, so its SessionsEnd is this statement.

Most lemmas treat one part of an invariant and all actions.  In `HandoffProofs`, where there
are more than twenty kinds of steps, lemma `Outcomes` first reduces a step of a call to two: it leaves,
or it moves on with what it read; the parts of the invariant are then about these.

The properties are seldom inductive.  Each `IInv` was checked by TLC on the instance
of its run before it was proved.

**Agent service.**  `LeaseHeld`: a working turn that was not disowned owns the lease row,
and the row is live.  Two such turns would own the same row, which is TurnMutex; a
reconciliation needs an expired row, which is ReconcileSparesOwners.  `Judged`: a turn
past its provider has an outcome.  `NoTurnBeforeCreate`, `FirstTurnAlone`: while the
first turn of a session begins there is no other and no final state; so a start,
unlike a send, need not look.  `ResultsInOrder`: while a turn is at its provider no final
state stands, and what it saved or published is still there; it contains ResultReady.

**Workflow service.**  `OwnerLives`: a job that waits, works or is to be released has a live
owner, so nobody takes it for an orphan; with `OpenUntilRecorded` this is WorkIsOpen.
`WorkerKnows`: how far a worker has come with the outcome in its hand, so that its
second completion meets an open record or a success the gates turned down; this gives
ResultReadable and TerminalStays.  `SlotHeld` and `SlotsBounded`: a task at work is in
`reserved` unless its reservation expired, and `reserved` is within every limit, which is
Capacity.  `SettledBadly`: a job that ended without running releases no dependent.

**Provider turn.**  `EofMeansEnd`: nothing is behind an end of file, and the last reader
leaves with one.  `GraceInv`: the exit was seen with an empty queue, and after the
grace the readers have handed over what was left.  So when the loop ends by itself pipe and
queue hold no line (`LoopInv`), which is OutputComplete.  `KillInv`: nothing is killed before the
process was asked to leave; after the last wait it has left or was killed, and on POSIX so was
the whole group of a command line, which is SurvivorsKilled; that the killed die is fairness.
`ResultInv` has HonestSuccess and that there is no result before the end.  `Supervised` relates the tracker's fields to the lines it saw:
the number of calls, the repeats as the length of the last run of equal calls, the set
of children.  `BudgetInv`: while it has not objected those lines are within the budget,
and once it has no line is taken, which is StopsAtBudget.  Two parts of `Typed`, the types, are
inductive only together with these: `RoomKept` (each reader has room for its end of file)
and `EofsCounted` (no more than two ends are counted: the loop stops before it takes a third).

**Execution.**  `OneAtWork`: only the current candidate's session is at work, unless two
store calls failed.  `TimeLeft`: what is left of a turn is within what is left of the
deadline.  `NoSecondLate`: after a turn that began with the event set nothing leads to
another: no recovery, for it did not time out; no further candidate of a session, which
was launched; and no candidate of a task gets past its start.  `BudgetSeen`: between the flag
and the outcome there is a step that asks for it.  `TreeRecorded`: a tree's record comes
before everything else of its candidate.  `HealthTrue` relates the counts to the
statuses told, and `RouteSorted` that until its first turn the route is the order that health
gave; lemmas `FailsScoresLess` and `Quotient` do the arithmetic of the scores.  `Typed` holds the
types, among them `BoundsKept`: no more attempts than the policy has, and no turn longer
than the timeout.

**Handoff.**  `HoldsLock`: from its look at the record to its end a call that changes anything
has the lock of its workspace, so what it read of the status is current
(`StatusCurrent`); no one removes a tree whose patch is about to be laid, no other
patch is there then, and what is about to be recorded was laid (`ReadyToPatch`).  The converse is `HolderAtWork`: a lock is held by a call that is at work in
its workspace, so that no failure or crash leaves one behind.  `ShownFirst` follows a discard: the
tree is there until the removal, with what the last token has shown or a late write, and then the
branch goes before the record says so; this gives DiscardAccounted.  `WrittenFirst`: an artifact's files are there before a record names it.

**State files.**  `HoldsLock`, `CopyIsCurrent`: who is past the lock holds it, and what it read is
what the record says; so a write adds one update to the record as it is.  For the log,
`Explained`: a number behind the record's belongs to a line whose record is about to be
written or never was; `LinesInOrder`: only such lines share a number.

**Collection.**  `CheckedIsNew`, `MadeFirst`, `RecordFirst`: a removed record is not written
again, an artifact is made before it is named, and files go after their record.
`KnownSubmitted`, `RequiredKept`: a task active since the collection began, unless its record
could not be read, is still to be read or its dependencies are kept, and once deletion starts
none is on the list.

**A2A.**  `DrainedAtFinish`: the queue is empty when the drain is over, for by then the call
has returned (`CallOfStep`), and the status is the last thing published (`FinalIsLast`).

Only model-checked:

- liveness (CancelDelivered, NoZombie, TasksEnd, CancelPickedUp, OverlapEnds,
  StopKillsGroup, CancelStops, TurnEnds, ExecuteReturns, CallsEnd, CancelReaches): fairness and ENABLED
  are out of the prover's reach;
- the two refuted properties (WholeTrees, DependentsWaitForGates): TLC's counterexample
  is the result;
- the types of `Handoff` in full: the bound `MaxEdits` is on a sum over all worktrees, a
  fold, and what a fold computes is an induction;
- that FallbackChain gives a sequence of profiles (`ChainAssumption`).

## 5. Disagreements with the documentation

Two are shown by runs:

1. Gates run "before dependent tasks are released" (docs/architecture.md:168): the
   record shows success first, and a pass of this or another process dispatches the
   dependent in between (WorkflowGates).
2. Sessions are deleted "by root tree rather than individually so parent/child
   topology never becomes partially orphaned" (agent_store.py:1084; docs/runtime.md:432
   says so, too): gc reads the rows of one workspace and deletes ids later, so that a child in a
   worktree, or one started in between, keeps its row and may be running
   (CollectionTrees).

Others were met while modelling; the models contain the steps, and the properties
state the exceptions they make necessary:

3. `agent_close` rejects active sessions and `agent_send` requires an idle one
   (docs/runtime.md:142): both check in one transaction (agent_service.py:706,
   agent_store.py:1173) and act in another, so a closed session can get a turn.
4. cancel is for "the currently running direct agent turn" (agent_service.py:896):
   the persisted request is never cleared, and the lease loop (101-108) applies it to
   later turns as well.
5. `agent_cancel` "reaches the local owner immediately" (docs/runtime.md:141): a start
   that ends removes the event by session id (agent_service.py:356) after it gave up the
   lease, and so can remove its successor's.
6. No session stays a zombie (transports/mcp.py:556): a crash between the insert of a
   session and its lease leaves `starting` for ever, because reconciliation joins the
   lease table (agent_store.py:1001).  The same holds of a session whose turn ended in
   a store error after the lease was released (agent_service.py:889).
7. "A lost lease must not allow unbounded overlap" (task_service.py:89): one sqlite
   error outside the loop's except clause (task_service.py:94) ends the thread that would
   see to it; what then ends the overlap is the provider's own timeout.
8. "Active tasks, their required dependency records, and Git worktrees are never
   deleted" by gc (docs/runtime.md:432): a task submitted after the collection read the
   records can depend on one that is then deleted (observability.py:1106).
   And the record of an active task that cannot be read, after retries or for bad JSON, is
   skipped (observability.py:1131, :1379): its dependencies are not protected.
   RequiredSpared is about tasks that were active before and could be read.
9. A cancel request is persisted (transports/mcp.py:556), but record_agent_event writes
   back the metadata it read earlier (registry.py:709), and a request in between is lost.
10. The handoff lock is made per workspace path (worktree_handoff.py:302).  Two
    workspaces inside one repository have two locks, and two applies can each find the
    checkout clean.  The run has one workspace, where the promise holds.
11. The deadline is meant as "the single authority for how much runtime a task may still
    consume" (recovery.py:106).  It limits recoveries; a fallback candidate's first turn
    gets the full timeout again.  RecoveryInTime is about the first candidate.
12. "All current runtime adapters compare git status before and after execution"
    (docs/architecture.md:174; :208 and docs/runtime.md:373 say as much): where git is missing,
    fails or takes more than ten seconds, before or after, there is no comparison
    (codex.py:507, :391) and the task can succeed.  A change that leaves the lines of git
    status as they were is not seen either.  HonestSuccess claims only what is compared.
13. A tripped budget of a direct session is read after its turn returned; one that raises ends as
    a plain error (registry.py:1157).
14. task_apply "checks that the source checkout is clean" (docs/runtime.md:493): the last check
    is before `git apply` (worktree_handoff.py:339, :347), and changes the user makes in
    between are patched over where they do not conflict.
15. task_discard refuses "a changed snapshot" (docs/runtime.md:493): what is written between
    the check and `git worktree remove --force` (worktree_handoff.py:414, :418) is removed unseen.
16. A crash or a store error after the removal leaves the record as if the worktree were there
    (worktree_handoff.py:418, :429).  Every later call fails at the missing path, so nothing
    mends it.
17. After a publication of progress raised, execute answers "failed" and drops the cancel event
    without setting it (a2a.py:260-268): the call goes on and cannot be cancelled.

Smaller matters, noted as hazards: a progress callback that takes long counts as
silence of the provider; turn/completed before the answer to turn/start is ignored and
the turn ends by timeout; a failed flag of a tripped budget makes the outcome
`cancelled`; a user's cancels lower a provider's health; an A2A cancel before the
call is registered is answered with "canceled" while the work goes on; an app-server that
does not die within its last wait makes close raise, and its turn a timeout
(codex_app_server.py:246).

## 6. Not modelled

- Several sessions in the agent model: transactions of AgentService touch one session's
  rows.  Parents and children are in Collection; messages and the paging of events are
  not modelled.
- Death of the agent lease thread (see the hazard at agent_service.py:84).
- In the workflow model, retries and file locks: a call happens or raises there; a task
  lock makes a record update atomic (which StateFiles shows of the files), an owner
  lock is held exactly while the process lives.  Task priorities (they order a pass,
  and the model allows every order) and artifact creation at a dependent's dispatch.
- Relay sessions (`start_session`, `end_session`), the index of tasks, reports, and
  `_legacy_diff`: no other component decides anything on them.
- Parsing, normalisation and formatting of provider output, command lines, prompts, discovery of
  models: text.  Their result is a choice among the kinds the control flow tells apart.
- Set-up, configuration and the command line; agent cards and HTTP; reports and
  analytics: data or I/O without shared state.

## 7. Plan

1. Done: all components with concurrent state, two refinements, the proofs of all safety
   properties of the passing runs and of the types of all modules but `Handoff`.
2. Open: the routes without the assumption on `FallbackChain`, if `Visit` can be bounded;
   `SchedulerSlots` and `RunStore` as refinements of a counting semaphore and of a record that
   is written once (Capacity, ResultReadable and TerminalStays say what these would promise
   their caller); how long the turns of a lost lease overlap (that two overlapping turns
   include a disowned one is proved).
3. Not planned: liveness proofs, and proofs about recursive data.
