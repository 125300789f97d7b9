------------------------ MODULE A2ATransportProofs ------------------------
(***************************************************************************)
(* Proofs about A2ATransport, for any number of tasks and of pool threads, *)
(* any batch, and any number of progress events and cancel requests.       *)
(***************************************************************************)
EXTENDS A2ATransport, TLAPS

(* Nothing is shown that the worker has not emitted.                       *)
ShownWasEmitted == \A t \in Task : shown[t] <= emitted[t]

(* The call is made by Register, and only a call that has returned is      *)
(* awaited: past the poll the worker can emit nothing more.                *)
CallOfStep ==
  \A t \in Task :
    /\ pc[t] \in {"new", "submitted", "working"} => worker[t] = "none"
    /\ pc[t] \in {"drain", "finish"} => worker[t] \in Results

(* The queue is empty when the drain is over.                              *)
DrainedAtFinish == \A t \in Task : pc[t] = "finish" => shown[t] = emitted[t]

(* A status is the last thing execute publishes, and "completed" is the    *)
(* one of a call that succeeded.                                           *)
FinalIsLast ==
  \A t \in Task :
    /\ final[t] # "none" => pc[t] = "ended"
    /\ final[t] = "completed" => worker[t] = "success"

IInv ==
  /\ TypeOK /\ ShownWasEmitted /\ CallOfStep
  /\ DrainedAtFinish /\ FinalIsLast /\ ProgressComplete
-----------------------------------------------------------------------------
USE A2AAssumption
USE DEF Goto, Publish, workVars, cancelVars, Results, Ended

(* Every step keeps the types and shows no more than was emitted: a poll     *)
(* publishes at most a batch, and the drain stops when nothing is left.     *)
LEMMA TypeStep == TypeOK /\ ShownWasEmitted /\ [Next]_vars => TypeOK' /\ ShownWasEmitted'
<1> SUFFICES ASSUME TypeOK, ShownWasEmitted, [Next]_vars
             PROVE  TypeOK' /\ ShownWasEmitted'
  OBVIOUS
<1> USE DEF TypeOK, ShownWasEmitted
<1>1. ASSUME NEW t \in Task, Submitted(t) \/ Reject(t) \/ StartWork(t) \/ Register(t)
       PROVE  TypeOK' /\ ShownWasEmitted'
  BY <1>1 DEF Submitted, Reject, StartWork, Register
<1>2. ASSUME NEW t \in Task, Poll(t)
       PROVE  TypeOK' /\ ShownWasEmitted'
  <2>1. /\ Published(t) \in 0..MaxProgress
        /\ Published(t) <= emitted[t]
    BY <1>2 DEF Poll, Published
  <2> QED
    BY <1>2, <2>1 DEF Poll
<1>3. ASSUME NEW t \in Task, WorkerDone(t) \/ WorkerFailed(t) \/ Finish(t)
       PROVE  TypeOK' /\ ShownWasEmitted'
  BY <1>3 DEF WorkerDone, WorkerFailed, Finish
<1>4. ASSUME NEW t \in Task, Drain(t)
       PROVE  TypeOK' /\ ShownWasEmitted'
  BY <1>4 DEF Drain
<1>5. ASSUME NEW t \in Task, Interrupted(t) \/ Cancel(t) \/ PublishRaises(t)
       PROVE  TypeOK' /\ ShownWasEmitted'
  BY <1>5 DEF Interrupted, Cancel, PublishRaises, Disturbed
<1>6. ASSUME NEW t \in Task, ProgressRaises(t)
       PROVE  TypeOK' /\ ShownWasEmitted'
  <2>1. PICK n \in shown[t]..(Published(t) - 1) : shown' = [shown EXCEPT ![t] = n]
    BY <1>6 DEF ProgressRaises
  <2>2. n \in 0..MaxProgress /\ n <= emitted[t]
    BY <2>1 DEF Published
  <2> QED
    BY <1>6, <2>1, <2>2 DEF ProgressRaises, Disturbed
<1>7. ASSUME NEW t \in Task, Begin(t) \/ Progress(t) \/ Works(t)
       PROVE  TypeOK' /\ ShownWasEmitted'
  BY <1>7 DEF Begin, Progress, Works
<1>8. CASE UNCHANGED vars
  BY <1>8 DEF vars
<1> QED
  BY <1>1, <1>2, <1>3, <1>4, <1>5, <1>6, <1>7, <1>8 DEF Next, Step

(* A step of one task leaves the promises to the others alone, and its own *)
(* are kept because execute takes its steps in order.                      *)
LEMMA InvStep == IInv /\ [Next]_vars => IInv'
<1> SUFFICES ASSUME IInv, [Next]_vars PROVE IInv'
  OBVIOUS
<1>0. TypeOK' /\ ShownWasEmitted'
  BY TypeStep DEF IInv
<1> DEFINE Others == CallOfStep /\ DrainedAtFinish /\ FinalIsLast /\ ProgressComplete
<1> USE DEF IInv, TypeOK, ShownWasEmitted, CallOfStep, DrainedAtFinish, FinalIsLast,
            ProgressComplete
<1>1. ASSUME NEW t \in Task, Submitted(t) \/ Reject(t) \/ StartWork(t) \/ Register(t)
       PROVE  Others'
  BY <1>1 DEF Submitted, Reject, StartWork, Register
<1>2. ASSUME NEW t \in Task, Poll(t)
       PROVE  Others'
  BY <1>2 DEF Poll
<1>3. ASSUME NEW t \in Task, WorkerDone(t) \/ WorkerFailed(t)
       PROVE  Others'
  BY <1>3 DEF WorkerDone, WorkerFailed
<1>4. ASSUME NEW t \in Task, Drain(t)
       PROVE  Others'
  BY <1>4 DEF Drain
<1>5. ASSUME NEW t \in Task, Finish(t)
       PROVE  Others'
  BY <1>5 DEF Finish
<1>6. ASSUME NEW t \in Task, Interrupted(t)
       PROVE  Others'
  BY <1>6 DEF Interrupted
<1>7. ASSUME NEW t \in Task, Cancel(t)
       PROVE  Others'
  BY <1>7 DEF Cancel
<1>8. ASSUME NEW t \in Task, Begin(t) \/ Progress(t)
       PROVE  Others'
  BY <1>8 DEF Begin, Progress
<1>9. ASSUME NEW t \in Task, Works(t)
       PROVE  Others'
  BY <1>9 DEF Works
<1>10. ASSUME NEW t \in Task, ProgressRaises(t)
       PROVE  Others'
  <2>1. /\ pc' = [pc EXCEPT ![t] = "ended"] /\ final'[t] # "completed"
        /\ UNCHANGED workVars
        /\ \A u \in Task \ {t} : shown'[u] = shown[u] /\ final'[u] = final[u]
    BY <1>10 DEF ProgressRaises
  <2> QED
    BY <2>1
<1>11. ASSUME NEW t \in Task, PublishRaises(t)
       PROVE  Others'
  BY <1>11 DEF PublishRaises
<1>12. CASE UNCHANGED vars
  BY <1>12 DEF vars
<1> QED
  BY <1>0, <1>1, <1>2, <1>3, <1>4, <1>5, <1>6, <1>7, <1>8, <1>9, <1>10, <1>11,
     <1>12
     DEF Next, Step

-----------------------------------------------------------------------------
(* The strengthened invariant holds in every reachable state.               *)
THEOREM Invariance == Spec => []IInv
<1>1. Init => IInv
  BY DEF Init, IInv, TypeOK, ShownWasEmitted, CallOfStep, DrainedAtFinish, FinalIsLast,
         ProgressComplete
<1> QED
  BY <1>1, InvStep, PTL DEF Spec

(* Whatever is cancelled or interrupted, and however the worker and the poll  *)
(* interleave, a task that is reported as completed has had every progress    *)
(* event of its worker published.                                             *)
THEOREM NoProgressLost == Spec => []ProgressComplete
<1>1. IInv => ProgressComplete
  BY DEF IInv
<1> QED
  BY <1>1, Invariance, PTL
=============================================================================
