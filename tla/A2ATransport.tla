----------------------------- MODULE A2ATransport -----------------------------
(***************************************************************************)
(* The A2A executor: execute runs on the event loop, registry.execute on a *)
(* pool thread, and progress passes from the thread to the loop through a  *)
(* queue that the loop polls.  cancel is another coroutine of the same     *)
(* loop; every await of execute is a point where it may run.  The request  *)
(* handler of the A2A library may also cancel the coroutine of execute.    *)
(***************************************************************************)
EXTENDS Naturals, FiniteSets

CONSTANTS
  Task,
  PoolSize,      \* threads of asyncio.to_thread
  Batch,         \* progress events published per poll
  MaxProgress,   \* bound on the progress events of one task
  MaxCancels     \* bound on cancel requests, cancelled coroutines and publications
                 \* that raise

ASSUME A2AAssumption ==
  /\ {PoolSize, Batch} \subseteq Nat \ {0} /\ {MaxProgress, MaxCancels} \subseteq Nat

VARIABLES
  pc,             \* step of execute
  cancelEvents,   \* the tasks in _cancel_events
  event,          \* the tasks whose cancel event is set
  worker,         \* the call of registry.execute
  emitted,        \* progress events the worker has put into the queue
  shown,          \* those that were published as a working status
  final,          \* the last status execute published
  acknowledged,   \* the tasks for which cancel published "canceled"
  reached,        \* history: those for which cancel found the event
  cancels

vars == <<pc, cancelEvents, event, worker, emitted, shown, final, acknowledged, reached, cancels>>
workVars == <<worker, emitted>>
cancelVars == <<acknowledged, reached, cancels>>

Results == {"success", "cancelled", "other"}
Ended == Results \cup {"raised"}

TypeOK ==
  /\ pc \in [Task -> {"new", "submitted", "working", "poll", "drain", "finish", "ended"}]
  /\ cancelEvents \subseteq Task /\ event \subseteq Task
  /\ worker \in [Task -> {"none", "queued", "running", "dropped"} \cup Ended]
  /\ emitted \in [Task -> 0..MaxProgress] /\ shown \in [Task -> 0..MaxProgress]
  /\ final \in [Task -> {"none", "rejected", "completed", "canceled", "failed"}]
  /\ reached \subseteq Task /\ acknowledged \subseteq Task /\ cancels \in 0..MaxCancels

Init ==
  /\ pc = [t \in Task |-> "new"] /\ cancelEvents = {} /\ event = {}
  /\ worker = [t \in Task |-> "none"]
  /\ emitted = [t \in Task |-> 0] /\ shown = [t \in Task |-> 0]
  /\ final = [t \in Task |-> "none"]
  /\ acknowledged = {} /\ reached = {} /\ cancels = 0

Goto(t, p) == pc' = [pc EXCEPT ![t] = p]
Publish(t, status) == final' = [final EXCEPT ![t] = status]

-----------------------------------------------------------------------------
(* execute.                                                                 *)

Submitted(t) ==
  /\ pc[t] = "new" /\ Goto(t, "submitted")
  /\ UNCHANGED <<cancelEvents, event, workVars, shown, final, cancelVars>>

Reject(t) ==
  /\ pc[t] = "submitted" /\ Goto(t, "ended") /\ Publish(t, "rejected")
  /\ UNCHANGED <<cancelEvents, event, workVars, shown, cancelVars>>

StartWork(t) ==
  /\ pc[t] = "submitted" /\ Goto(t, "working")
  /\ UNCHANGED <<cancelEvents, event, workVars, shown, final, cancelVars>>

\* The event is registered and the call handed to the pool, without an await.
Register(t) ==
  /\ pc[t] = "working" /\ Goto(t, "poll")
  /\ cancelEvents' = cancelEvents \cup {t}
  /\ worker' = [worker EXCEPT ![t] = "queued"]
  /\ UNCHANGED <<event, emitted, shown, final, cancelVars>>

Published(t) == IF emitted[t] - shown[t] < Batch THEN emitted[t] ELSE shown[t] + Batch

\* A pass of the loop while the worker is not done, then its sleep.
Poll(t) ==
  /\ pc[t] = "poll" /\ worker[t] \in {"queued", "running"} /\ shown[t] # emitted[t]
  /\ shown' = [shown EXCEPT ![t] = Published(t)]
  /\ UNCHANGED <<pc, cancelEvents, event, workVars, final, cancelVars>>

\* The worker returned, and its result is awaited: what is left is published.
WorkerDone(t) ==
  /\ pc[t] = "poll" /\ worker[t] \in Results
  /\ Goto(t, "drain")
  /\ UNCHANGED <<cancelEvents, event, workVars, shown, final, cancelVars>>

\* The queue is not emptied once more after the worker returned.
DrainNothing(t) ==
  /\ pc[t] = "drain" /\ Goto(t, "finish") /\ cancelEvents' = cancelEvents \ {t}
  /\ UNCHANGED <<event, workVars, shown, final, cancelVars>>

Drain(t) ==
  /\ pc[t] = "drain"
  /\ \/ shown[t] # emitted[t] /\ shown' = [shown EXCEPT ![t] = @ + 1]
        /\ UNCHANGED <<pc, cancelEvents>>
     \/ shown[t] = emitted[t] /\ Goto(t, "finish") /\ cancelEvents' = cancelEvents \ {t}
        /\ UNCHANGED shown
  /\ UNCHANGED <<event, workVars, final, cancelVars>>

\* registry.execute raised.
WorkerFailed(t) ==
  /\ pc[t] = "poll" /\ worker[t] = "raised"
  /\ Goto(t, "ended") /\ Publish(t, "failed") /\ cancelEvents' = cancelEvents \ {t}
  /\ UNCHANGED <<event, workVars, shown, cancelVars>>

\* The artifact, then the status the result calls for.
Finish(t) ==
  /\ pc[t] = "finish" /\ Goto(t, "ended")
  /\ Publish(t, CASE worker[t] = "success" -> "completed"
                  [] worker[t] = "cancelled" -> "canceled"
                  [] OTHER -> "failed")
  /\ UNCHANGED <<cancelEvents, event, workVars, shown, cancelVars>>

Disturbed == cancels < MaxCancels /\ cancels' = cancels + 1

\* The coroutine is cancelled at an await.  A queued call is withdrawn; a thread
\* that runs goes on, with its event set if it was registered.
Interrupted(t) ==
  /\ pc[t] \notin {"new", "ended"} /\ Disturbed
  /\ Goto(t, "ended") /\ cancelEvents' = cancelEvents \ {t}
  /\ event' = IF pc[t] \in {"poll", "drain"} THEN event \cup {t} ELSE event
  /\ worker' = [worker EXCEPT ![t] = IF @ = "queued" THEN "dropped" ELSE @]
  /\ UNCHANGED <<emitted, shown, final, acknowledged, reached>>

\* Publishing progress raises: execute leaves with its event taken out of the
\* table and not set, and says "failed" if it still can.  The call goes on.
ProgressRaises(t) ==
  /\ pc[t] \in {"poll", "drain"} /\ shown[t] # emitted[t] /\ Disturbed
  /\ pc[t] = "poll" => worker[t] \in {"queued", "running"}
  /\ \E n \in shown[t]..(Published(t) - 1) : shown' = [shown EXCEPT ![t] = n]
  /\ Goto(t, "ended") /\ cancelEvents' = cancelEvents \ {t}
  /\ \E status \in {"failed", "none"} : Publish(t, status)
  /\ UNCHANGED <<event, workVars, acknowledged, reached>>

\* So does any other publication, when no event of the task is registered.
PublishRaises(t) ==
  /\ pc[t] \in {"submitted", "finish"} /\ Disturbed /\ Goto(t, "ended")
  /\ UNCHANGED <<cancelEvents, event, workVars, shown, final, acknowledged, reached>>

-----------------------------------------------------------------------------
(* cancel.                                                                  *)

\* The event in a table that a second look-up would find empty is not set.
CancelSilently(t) ==
  /\ pc[t] # "new" /\ t \notin acknowledged /\ Disturbed
  /\ reached' = IF t \in cancelEvents THEN reached \cup {t} ELSE reached
  /\ acknowledged' = acknowledged \cup {t}
  /\ UNCHANGED <<pc, cancelEvents, event, workVars, shown, final>>

\* The event is set if there is one; "canceled" is published in either case.
Cancel(t) ==
  /\ pc[t] # "new" /\ t \notin acknowledged /\ Disturbed
  /\ IF t \in cancelEvents
     THEN event' = event \cup {t} /\ reached' = reached \cup {t}
     ELSE UNCHANGED <<event, reached>>
  /\ acknowledged' = acknowledged \cup {t}
  /\ UNCHANGED <<pc, cancelEvents, workVars, shown, final>>

-----------------------------------------------------------------------------
(* registry.execute on a thread of the pool.                                *)

Begin(t) ==
  /\ worker[t] = "queued" /\ Cardinality({u \in Task : worker[u] = "running"}) < PoolSize
  /\ worker' = [worker EXCEPT ![t] = "running"]
  /\ UNCHANGED <<pc, cancelEvents, event, emitted, shown, final, cancelVars>>

Progress(t) ==
  /\ worker[t] = "running" /\ emitted[t] < MaxProgress
  /\ emitted' = [emitted EXCEPT ![t] = @ + 1]
  /\ UNCHANGED <<pc, cancelEvents, event, worker, shown, final, cancelVars>>

\* It ends of itself, or because its provider saw the event.
Works(t) ==
  /\ worker[t] = "running"
  /\ \E r \in Ended : /\ r = "cancelled" => t \in event
                      /\ worker' = [worker EXCEPT ![t] = r]
  /\ UNCHANGED <<pc, cancelEvents, event, emitted, shown, final, cancelVars>>

Step(t) ==
  \/ Submitted(t) \/ Reject(t) \/ StartWork(t) \/ Register(t) \/ Poll(t) \/ WorkerDone(t)
  \/ Drain(t) \/ WorkerFailed(t) \/ Finish(t)

Next ==
  \E t \in Task :
    \/ Step(t) \/ Interrupted(t) \/ ProgressRaises(t) \/ PublishRaises(t) \/ Cancel(t)
    \/ Begin(t) \/ Progress(t) \/ Works(t)

Spec == Init /\ [][Next]_vars

(* The event loop runs every coroutine, a free thread takes a queued call,  *)
(* and a provider whose event is set ends; one that is not told may go on.  *)
Fairness ==
  \A t \in Task : WF_vars(Step(t)) /\ SF_vars(Begin(t)) /\ WF_vars(t \in event /\ Works(t))

LiveSpec == Spec /\ Fairness

-----------------------------------------------------------------------------
(* A completed task has published every progress event of its worker: the   *)
(* last ones come while the loop sleeps (transports/a2a.py:210-242).        *)
ProgressComplete == \A t \in Task : final[t] = "completed" => shown[t] = emitted[t]

(* A cancel that found the task registered ends its call, also when the     *)
(* call was still waiting for a thread (transports/a2a.py:227).             *)
CancelReaches ==
  \A t \in Task : t \in reached ~> worker[t] \notin {"queued", "running"}
                                   \/ \E u \in Task \ {t} : worker[u] = "running" /\ u \notin event
=============================================================================
