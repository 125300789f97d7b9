---------------------------- MODULE HandoffProofs ----------------------------
(***************************************************************************)
(* Proofs about Handoff, for any attempts and workspaces, any number of    *)
(* calls in parallel, crashes, failures, edits, commits and reverts.       *)
(***************************************************************************)
EXTENDS Handoff, TLAPS

(* The types, without the bound of WorkerWrites on the versions: that one  *)
(* is a sum over all worktrees.                                            *)
Statuses == {"kept", "applied", "discarded", "branch_remains"}
LockedOps == {"apply", "discard", "confirm"}
Types ==
  /\ content \in [Attempts -> Nat] /\ tree \in [Attempts -> BOOLEAN]
  /\ branch \in [Attempts -> BOOLEAN] /\ status \in [Attempts -> Statuses]
  /\ tokens \in [Attempts -> Seq(Nat)]
  /\ artifact \in [Attempts -> Calls \cup {NoArtifact}]
  /\ files \subseteq Calls \X {"patch", "metadata"}
  /\ mishap \in [Attempts -> SUBSET {"late", "cut"}]
  /\ laid \subseteq Attempts /\ merged \subseteq Attempts /\ delivered \subseteq Attempts
  /\ edited \in BOOLEAN /\ head \in Nat
  /\ lock \in [Keys -> Calls \cup {Free}]
  /\ pc \in [Calls -> {"new", "lock", "examine", "recheck", "patch", "offer",
                       "remove", "branch", "record", "save", "describe", "name",
                       "ended"}]
  /\ op \in [Calls -> [kind : Ops \cup {"none"}, on : Attempts \cup {NoCall.on},
                       token : Nat]]
  /\ view \in [Calls -> [status : Statuses, shown : Nat, head : Nat]]
  /\ faults \in Nat

(* A call works on a recorded attempt, and each step belongs to one kind.  *)
KindOfStep ==
  \A c \in Calls :
    /\ op[c].kind # "none" => On(c) \in Attempts
    /\ pc[c] = "lock" => op[c].kind \in LockedOps
    /\ pc[c] \in {"recheck", "patch"} => op[c].kind = "apply"
    /\ pc[c] = "offer" => op[c].kind = "discard"
    /\ pc[c] \in {"remove", "branch"} => op[c].kind = "confirm"
    /\ pc[c] = "record" => op[c].kind \in {"apply", "confirm"}
    /\ pc[c] \in {"new", "ended"} => op[c].kind = "none"

(* From its look at the record to its end a call that changes anything has *)
(* the lock of its workspace, whatever fails.                              *)
Decided == {"recheck", "patch", "offer", "remove", "branch", "record"}
HoldsLock ==
  \A c \in Calls : op[c].kind \in LockedOps /\ pc[c] \in Decided \cup {"examine"} =>
    lock[Key(c)] = c

(* And a lock has a holder at work: neither an end nor a failure leaves    *)
(* one behind.                                                             *)
HolderAtWork ==
  \A k \in Keys : lock[k] # Free =>
    /\ op[lock[k]].kind \in LockedOps /\ Key(lock[k]) = k
    /\ pc[lock[k]] \in Decided \cup {"examine"}

(* So what it read there of the status is what the record says.            *)
StatusCurrent ==
  \A c \in Calls : op[c].kind \in LockedOps =>
    /\ pc[c] = "examine" => status[On(c)] = view[c].status
    /\ pc[c] \in Decided => status[On(c)] \notin {"applied", "discarded"}

(* Nobody removes a worktree whose patch is about to be laid or recorded,  *)
(* and, where all attempts have one workspace, no other patch is there then.*)
OneWorkspace == \A v, w \in Attempts : Workspace[v] = Workspace[w]
Patching(c) == op[c].kind = "apply" /\ pc[c] \in {"patch", "record"}
ReadyToPatch ==
  \A c \in Calls : Patching(c) =>
    /\ tree[On(c)]
    /\ pc[c] = "patch" /\ OneWorkspace => laid = {}
    /\ pc[c] = "record" => On(c) \in delivered

(* A discard finds the worktree there until it removes it, with what its   *)
(* last token has shown, but for a late write; then the branch goes too.   *)
Shown(c) ==
  /\ pc[c] \in {"offer", "remove"} => tree[On(c)]
  /\ pc[c] = "remove" =>
       "late" \in mishap[On(c)] \/ content[On(c)] = Last(tokens[On(c)])
  /\ HasRemoved(c) => ~tree[On(c)] /\ (pc[c] = "record" => ~branch[On(c)])
ShownFirst == \A c \in Calls : Shown(c)

(* The files of an artifact are written before a record names it.          *)
WrittenFirst ==
  \A c \in Calls : /\ pc[c] = "describe" => <<c, "patch">> \in files
                   /\ pc[c] = "name" => Readable(c)

LockInv == KindOfStep /\ HoldsLock /\ StatusCurrent
DiscardInv == ShownFirst /\ DiscardAccounted
ArtifactInv == WrittenFirst /\ ArtifactComplete
IInv == Types /\ LockInv /\ HolderAtWork /\ ReadyToPatch /\ DiscardInv /\ ArtifactInv
-----------------------------------------------------------------------------
USE HandoffAssumption
USE DEF Calls, Keys, Free, NoArtifact, Ops, NoView, On, Key, Clean, Inspected,
        CallStep, ConfirmsLast, RecheckIf, BranchRemainsAs, Readable, WriteFile,
        Busy, FailAs, HasRemoved, Statuses, LockedOps, Decided,
        worktreeVars, recordVars, checkoutVars, callVars

(* The record of no call has the type of a call and no kind.               *)
LEMMA NoCallType ==
  /\ NoCall.kind = "none"
  /\ NoCall \in [kind : Ops \cup {"none"}, on : Attempts \cup {NoCall.on}, token : Nat]
BY DEF NoCall

WorktreeTypes ==
  /\ content \in [Attempts -> Nat] /\ tree \in [Attempts -> BOOLEAN]
  /\ branch \in [Attempts -> BOOLEAN] /\ mishap \in [Attempts -> SUBSET {"late", "cut"}]
RecordTypes ==
  /\ status \in [Attempts -> Statuses] /\ tokens \in [Attempts -> Seq(Nat)]
  /\ artifact \in [Attempts -> Calls \cup {NoArtifact}]
  /\ files \subseteq Calls \X {"patch", "metadata"}
CheckoutTypes ==
  /\ laid \subseteq Attempts /\ merged \subseteq Attempts /\ delivered \subseteq Attempts
  /\ edited \in BOOLEAN /\ head \in Nat
  /\ faults \in Nat
CallTypes ==
  /\ lock \in [Keys -> Calls \cup {Free}]
  /\ pc \in [Calls -> {"new", "lock", "examine", "recheck", "patch", "offer",
                       "remove", "branch", "record", "save", "describe", "name",
                       "ended"}]
  /\ op \in [Calls -> [kind : Ops \cup {"none"}, on : Attempts \cup {NoCall.on},
                       token : Nat]]
  /\ view \in [Calls -> [status : Statuses, shown : Nat, head : Nat]]

(* What the three ways to go on do to the calls: out of the lock, to a     *)
(* step, and to a step with a look at the worktree and the checkout.       *)
Steps == {"new", "lock", "examine", "recheck", "patch", "offer", "remove", "branch",
          "record", "save", "describe", "name", "ended"}
OthersKept(c) ==
  \A d \in Calls \ {c} : pc'[d] = pc[d] /\ op'[d] = op[d] /\ view'[d] = view[d]

(* A call that leaves gives its own lock back and no other.                *)
LEMMA Leaving ==
  ASSUME CallTypes, NEW c \in Calls, Leave(c)
  PROVE  /\ CallTypes' /\ pc'[c] = "ended" /\ op'[c].kind = "none" /\ OthersKept(c)
         /\ \A k \in Keys : lock'[k] = IF lock[k] = c THEN Free ELSE lock[k]
<1>1. lock' \in [Keys -> Calls \cup {Free}]
  BY DEF CallTypes, Leave
<1>2. pc' \in [Calls -> Steps] /\ pc'[c] = "ended"
  BY DEF CallTypes, Leave, Steps
<1>3. /\ op' \in [Calls -> [kind : Ops \cup {"none"},
                            on : Attempts \cup {NoCall.on}, token : Nat]]
      /\ op'[c].kind = "none"
  BY NoCallType DEF CallTypes, Leave
<1>4. view' \in [Calls -> [status : Statuses, shown : Nat, head : Nat]]
  BY DEF CallTypes, Leave
<1> QED
  BY <1>1, <1>2, <1>3, <1>4 DEF CallTypes, Leave, OthersKept, Steps

(* A call that goes on to a step keeps its request and what it saw.        *)
LEMMA Going ==
  ASSUME CallTypes, NEW c \in Calls, NEW p \in Steps, Goto(c, p)
  PROVE  /\ CallTypes' /\ pc'[c] = p /\ op'[c] = op[c] /\ view'[c] = view[c]
         /\ OthersKept(c) /\ lock' = lock
BY DEF CallTypes, Goto, OthersKept, Steps

(* A call that looks sees the worktree and the head as they are now.       *)
LEMMA Looking ==
  ASSUME Types, NEW c \in Calls, NEW p \in Steps, On(c) \in Attempts, LookAndGoto(c, p)
  PROVE  /\ CallTypes' /\ pc'[c] = p /\ op'[c] = op[c]
         /\ view'[c].status = view[c].status /\ view'[c].shown = content[On(c)]
         /\ OthersKept(c) /\ lock' = lock
<1>1. content[On(c)] \in Nat /\ head \in Nat
  BY DEF Types
<1>2. CallTypes
  BY DEF Types, CallTypes
<1>3. /\ view' = [view EXCEPT ![c].shown = content[On(c)], ![c].head = head]
      /\ pc' = [pc EXCEPT ![c] = p] /\ UNCHANGED <<lock, op>>
  BY DEF LookAndGoto
<1>4. view' \in [Calls -> [status : Statuses, shown : Nat, head : Nat]]
  BY <1>1, <1>2, <1>3 DEF CallTypes
<1>5. CallTypes'
  BY <1>2, <1>3, <1>4 DEF CallTypes, Steps
<1>6. /\ view'[c].status = view[c].status /\ view'[c].shown = content[On(c)]
      /\ \A d \in Calls \ {c} : view'[d] = view[d]
  BY <1>2, <1>3 DEF CallTypes
<1> QED
  BY <1>2, <1>3, <1>5, <1>6 DEF CallTypes, OthersKept

(* A call that begins has seen the status, and confirms only a token there *)
(* is.                                                                     *)
LEMMA Beginning ==
  ASSUME Types, NEW c \in Calls, Begin(c)
  PROVE  /\ CallTypes' /\ OthersKept(c) /\ lock' = lock
         /\ pc[c] = "new" /\ op'[c].kind \in Ops /\ op'[c].on \in Attempts
         /\ op'[c].kind = "confirm" => op'[c].token \in 1..Len(tokens[op'[c].on])
         /\ view'[c].status = status[op'[c].on]
         /\ pc'[c] = IF op'[c].kind = "artifact" THEN "examine" ELSE "lock"
         /\ UNCHANGED <<worktreeVars, recordVars, files, checkoutVars>>
<1>1. CallTypes
  BY DEF Types, CallTypes
<1>2. PICK kind \in Ops, w \in Attempts :
        /\ \E n \in (IF kind = "confirm" THEN 1..Len(tokens[w]) ELSE {0}) :
             op' = [op EXCEPT ![c] = [kind |-> kind, on |-> w, token |-> n]]
        /\ view' = [view EXCEPT ![c].status = status[w]]
        /\ pc' = [pc EXCEPT ![c] = IF kind = "artifact" THEN "examine" ELSE "lock"]
  BY Zenon DEF Begin
<1>3. PICK n \in (IF kind = "confirm" THEN 1..Len(tokens[w]) ELSE {0}) :
        op' = [op EXCEPT ![c] = [kind |-> kind, on |-> w, token |-> n]]
  BY <1>2
<1>4. n \in Nat /\ status[w] \in Statuses
  BY DEF Types
<1>5. pc[c] = "new" /\ UNCHANGED <<lock, worktreeVars, recordVars, files, checkoutVars>>
  BY DEF Begin
<1>6. CallTypes'
  <2>1. [kind |-> kind, on |-> w, token |-> n] \in
          [kind : Ops \cup {"none"}, on : Attempts \cup {NoCall.on}, token : Nat]
    BY <1>4
  <2>2. op' \in [Calls -> [kind : Ops \cup {"none"}, on : Attempts \cup {NoCall.on},
                          token : Nat]]
    BY <1>1, <1>3, <2>1 DEF CallTypes
  <2>3. view' \in [Calls -> [status : Statuses, shown : Nat, head : Nat]]
    <3>1. view \in [Calls -> [status : Statuses, shown : Nat, head : Nat]]
      BY <1>1 DEF CallTypes
    <3>2. [view[c] EXCEPT !.status = status[w]] \in
            [status : Statuses, shown : Nat, head : Nat]
      BY <1>4, <3>1
    <3>3. view' = [view EXCEPT ![c] = [view[c] EXCEPT !.status = status[w]]]
      BY <1>2, <3>1
    <3> QED
      BY <3>1, <3>2, <3>3
  <2>4. pc' \in [Calls -> Steps]
    BY <1>1, <1>2 DEF CallTypes, Steps
  <2> QED
    BY <1>1, <1>5, <2>2, <2>3, <2>4 DEF CallTypes, Steps
<1>7. op'[c] = [kind |-> kind, on |-> w, token |-> n]
  BY <1>1, <1>3 DEF CallTypes
<1>8. view'[c].status = status[w]
  BY <1>1, <1>2 DEF CallTypes
<1>9. pc'[c] = (IF kind = "artifact" THEN "examine" ELSE "lock") /\ OthersKept(c)
  BY <1>1, <1>2, <1>3 DEF CallTypes, OthersKept
<1> QED
  BY <1>3, <1>5, <1>6, <1>7, <1>8, <1>9

(* A call that gets the lock found it free, and reads the status again.    *)
LEMMA Locking ==
  ASSUME Types, KindOfStep, NEW c \in Calls, Lock(c)
  PROVE  /\ CallTypes' /\ OthersKept(c) /\ pc[c] = "lock" /\ pc'[c] = "examine"
         /\ op' = op /\ view'[c].status = status[On(c)]
         /\ lock[Key(c)] = Free /\ lock'[Key(c)] = c
         /\ \A k \in Keys \ {Key(c)} : lock'[k] = lock[k]
         /\ UNCHANGED <<worktreeVars, recordVars, files, checkoutVars>>
<1>1. On(c) \in Attempts
  BY DEF KindOfStep, Lock
<1>2. CallTypes /\ status[On(c)] \in Statuses /\ Key(c) \in Keys
  BY <1>1 DEF Types, CallTypes
<1> QED
  BY <1>1, <1>2 DEF Lock, CallTypes, OthersKept

(* Every step keeps the types of the worktrees.                            *)
LEMMA WorktreeTypesStep == Types /\ KindOfStep /\ [Next]_vars => WorktreeTypes'
<1> SUFFICES ASSUME Types, KindOfStep, [Next]_vars
             PROVE  WorktreeTypes'
  OBVIOUS
<1> USE DEF Types, KindOfStep
<1>1. ASSUME NEW w \in Attempts, WorkerWrites(w)
      PROVE  WorktreeTypes'
  <2>1. content' = [content EXCEPT ![w] = @ + 1] /\ UNCHANGED <<tree, branch>>
    BY <1>1 DEF WorkerWrites
  <2>2. mishap' = [mishap EXCEPT ![w] = @ \cup IF BeingRemoved(w) THEN {"late"} ELSE {}]
    BY <1>1 DEF WorkerWrites
  <2>3. mishap' \in [Attempts -> SUBSET {"late", "cut"}]
    BY <2>2
  <2>4. content' \in [Attempts -> Nat]
    BY <2>1
  <2> QED
    BY <2>1, <2>3, <2>4 DEF WorktreeTypes
<1>2. ASSUME NEW c \in Calls, RemoveTree(c)
      PROVE  WorktreeTypes'
  BY <1>2 DEF RemoveTree, WorktreeTypes
<1>3. ASSUME NEW c \in Calls, DeleteBranch(c)
      PROVE  WorktreeTypes'
  BY <1>3 DEF DeleteBranch, WorktreeTypes
<1>4. CASE UNCHANGED worktreeVars
  BY <1>4 DEF WorktreeTypes
<1>5. ASSUME NEW c \in Calls, Fail(c)
      PROVE  WorktreeTypes'
  <2>1. mishap' \in [Attempts -> SUBSET {"late", "cut"}]
    BY <1>5 DEF Fail
  <2> QED
    BY <1>5, <2>1 DEF Fail, WorktreeTypes
<1> QED
  BY <1>1, <1>2, <1>3, <1>4, <1>5
     DEF Next, CallNext, vars, Begin, Lock, ExamineApply, Recheck, Patch,
         ExamineDiscard, Offer, BranchRemains, Record, ExamineArtifact,
         Save, Describe, Name, UserEdits, UserCommits, UserReverts

(* Every step keeps the types of the records, tokens and files.            *)
LEMMA RecordTypesStep == Types /\ KindOfStep /\ [Next]_vars => RecordTypes'
<1> SUFFICES ASSUME Types, KindOfStep, [Next]_vars
             PROVE  RecordTypes'
  OBVIOUS
<1> USE DEF Types, KindOfStep
<1>1. ASSUME NEW c \in Calls, Offer(c)
      PROVE  RecordTypes'
  <2>1. On(c) \in Attempts /\ view[c].shown \in Nat
    BY <1>1 DEF Offer
  <2>2. Append(tokens[On(c)], view[c].shown) \in Seq(Nat)
    BY <2>1
  <2> QED
    BY <1>1, <2>2 DEF Offer, RecordTypes
<1>2. ASSUME NEW c \in Calls, BranchRemains(c)
      PROVE  RecordTypes'
  BY <1>2 DEF BranchRemains, RecordTypes
<1>3. ASSUME NEW c \in Calls, Record(c)
      PROVE  RecordTypes'
  BY <1>3 DEF Record, RecordTypes
<1>4. ASSUME NEW c \in Calls, Save(c)
      PROVE  RecordTypes'
  <2>1. files' = files \cup {<<c, "patch">>}
    BY <1>4 DEF Save
  <2>2. <<c, "patch">> \in Calls \X {"patch", "metadata"}
    OBVIOUS
  <2>3. files' \subseteq Calls \X {"patch", "metadata"}
    BY <2>1, <2>2
  <2> QED
    BY <1>4, <2>3 DEF Save, RecordTypes
<1>5. ASSUME NEW c \in Calls, Describe(c)
      PROVE  RecordTypes'
  <2>1. files' = files \cup {<<c, "metadata">>}
    BY <1>5 DEF Describe
  <2>2. <<c, "metadata">> \in Calls \X {"patch", "metadata"}
    OBVIOUS
  <2>3. files' \subseteq Calls \X {"patch", "metadata"}
    BY <2>1, <2>2
  <2> QED
    BY <1>5, <2>3 DEF Describe, RecordTypes
<1>6. ASSUME NEW c \in Calls, Name(c)
      PROVE  RecordTypes'
  BY <1>6 DEF Name, RecordTypes
<1>7. CASE UNCHANGED <<recordVars, files>>
  BY <1>7 DEF RecordTypes
<1> QED
  BY <1>1, <1>2, <1>3, <1>4, <1>5, <1>6, <1>7
     DEF Next, CallNext, vars, Begin, Lock, ExamineApply, Recheck, Patch,
         ExamineDiscard, RemoveTree, DeleteBranch, ExamineArtifact, Fail,
         WorkerWrites, UserEdits, UserCommits, UserReverts

(* Every step keeps the types of the checkout of the user.                 *)
LEMMA CheckoutTypesStep == Types /\ KindOfStep /\ [Next]_vars => CheckoutTypes'
<1> SUFFICES ASSUME Types, KindOfStep, [Next]_vars
             PROVE  CheckoutTypes'
  OBVIOUS
<1> USE DEF KindOfStep
<1>0. CheckoutTypes
  BY DEF Types, CheckoutTypes
<1>1. ASSUME NEW c \in Calls, Patch(c)
      PROVE  CheckoutTypes'
  BY <1>1, <1>0 DEF Patch, CheckoutTypes
<1>2. ASSUME NEW c \in Calls, BranchRemains(c)
      PROVE  CheckoutTypes'
  BY <1>2, <1>0 DEF BranchRemains, CheckoutTypes
<1>3. ASSUME NEW c \in Calls, Fail(c)
      PROVE  CheckoutTypes'
  BY <1>3, <1>0 DEF Fail, CheckoutTypes
<1>4. CASE UserCommits
  <2>1. /\ head' = head + 1 /\ merged' = merged \cup laid /\ laid' = {}
        /\ edited' = FALSE /\ UNCHANGED <<delivered, faults>>
    BY <1>4 DEF UserCommits
  <2>2. head' \in Nat
    BY <2>1, <1>0 DEF CheckoutTypes
  <2> QED
    BY <2>1, <2>2, <1>0 DEF CheckoutTypes
<1>5. CASE UserReverts \/ UserEdits
  BY <1>5, <1>0 DEF UserReverts, UserEdits, CheckoutTypes
<1>6. CASE UNCHANGED <<checkoutVars, faults>>
  BY <1>6, <1>0 DEF CheckoutTypes
<1> QED
  BY <1>1, <1>2, <1>3, <1>4, <1>5, <1>6
     DEF Next, CallNext, vars, Begin, Lock, ExamineApply, Recheck,
         ExamineDiscard, Offer, RemoveTree, DeleteBranch, Record,
         ExamineArtifact, Save, Describe, Name, WorkerWrites

(* A call that has begun leaves, or moves on to the step that follows in   *)
(* its kind with what it read of the record, and no other call moves.      *)
Left(c) ==
  /\ pc'[c] = "ended" /\ op'[c].kind = "none"
  /\ \A k \in Keys : lock'[k] = IF lock[k] = c THEN Free ELSE lock[k]
Moved(c) ==
  /\ op'[c] = op[c] /\ lock' = lock /\ view'[c].status = view[c].status
  /\ \/ /\ op[c].kind = "apply"
        /\ \/ pc[c] = "examine" /\ pc'[c] = "recheck"
                /\ view[c].status \notin {"applied", "discarded"}
           \/ pc[c] = "recheck" /\ pc'[c] = "patch"
           \/ pc[c] = "patch" /\ pc'[c] = "record"
     \/ /\ op[c].kind \in {"discard", "confirm"} /\ pc[c] = "examine"
        /\ pc'[c] = IF op[c].kind = "confirm" THEN "remove" ELSE "offer"
        /\ view[c].status \notin {"applied", "discarded"}
     \/ /\ op[c].kind = "confirm"
        /\ \/ pc[c] = "remove" /\ pc'[c] = "branch"
           \/ pc[c] = "branch" /\ pc'[c] = "record"
     \/ /\ op[c].kind = "artifact"
        /\ \/ pc[c] = "examine" /\ pc'[c] = "save"
           \/ pc[c] = "save" /\ pc'[c] = "describe"
           \/ pc[c] = "describe" /\ pc'[c] = "name"
GivesUp(c) ==
  ExamineApply(c) \/ Recheck(c) \/ Patch(c) \/ ExamineDiscard(c) \/ Offer(c)
    \/ RemoveTree(c) \/ DeleteBranch(c) \/ BranchRemains(c) \/ Record(c)
    \/ ExamineArtifact(c) \/ Save(c) \/ Describe(c) \/ Name(c) \/ Fail(c)
OtherLocks(c) == \A k \in Keys : lock[k] # c => lock'[k] = lock[k]
Outcome(c) == CallTypes' /\ OthersKept(c) /\ OtherLocks(c) /\ (Left(c) \/ Moved(c))

(* Whoever leaves the lock has that outcome.                               *)
LEMMA LeftOutcome ==
  ASSUME CallTypes, NEW c \in Calls, Leave(c)
  PROVE  Outcome(c)
BY Leaving DEF Outcome, OtherLocks, Left

(* Every step of a call that has begun and has no lock to wait for has one *)
(* of these outcomes.                                                      *)
LEMMA Outcomes ==
  ASSUME Types, KindOfStep, NEW c \in Calls, GivesUp(c)
  PROVE  Outcome(c)
<1> USE DEF Steps
<1>0. CallTypes
  BY DEF Types, CallTypes
<1>1. CASE Leave(c)
  BY <1>0, <1>1, LeftOutcome
<1>2. CASE ExamineApply(c) /\ ~Leave(c)
  <2>1. /\ op[c].kind = "apply" /\ pc[c] = "examine" /\ LookAndGoto(c, "recheck")
        /\ view[c].status \notin {"applied", "discarded"}
    BY <1>2 DEF ExamineApply
  <2>2. On(c) \in Attempts
    BY <2>1 DEF KindOfStep
  <2>3. /\ CallTypes' /\ OthersKept(c) /\ lock' = lock /\ op'[c] = op[c]
        /\ pc'[c] = "recheck" /\ view'[c].status = view[c].status
    BY <2>1, <2>2, Looking
  <2> QED
    BY <2>1, <2>3 DEF Outcome, OtherLocks, Moved
<1>3. CASE Recheck(c) /\ ~Leave(c)
  <2>1. op[c].kind = "apply" /\ pc[c] = "recheck" /\ Goto(c, "patch")
    BY <1>3 DEF Recheck
  <2>3. /\ CallTypes' /\ OthersKept(c) /\ lock' = lock /\ op'[c] = op[c]
        /\ pc'[c] = "patch" /\ view'[c] = view[c]
    BY <1>0, <2>1, Going
  <2> QED
    BY <2>1, <2>3 DEF Outcome, OtherLocks, Moved
<1>4. CASE Patch(c) /\ ~Leave(c)
  <2>1. op[c].kind = "apply" /\ pc[c] = "patch" /\ Goto(c, "record")
    BY <1>4 DEF Patch
  <2>3. /\ CallTypes' /\ OthersKept(c) /\ lock' = lock /\ op'[c] = op[c]
        /\ pc'[c] = "record" /\ view'[c] = view[c]
    BY <1>0, <2>1, Going
  <2> QED
    BY <2>1, <2>3 DEF Outcome, OtherLocks, Moved
<1>5. CASE ExamineDiscard(c) /\ ~Leave(c)
  <2>1. /\ op[c].kind \in {"discard", "confirm"} /\ pc[c] = "examine"
        /\ view[c].status \notin {"applied", "discarded"}
        /\ LookAndGoto(c, IF op[c].kind = "confirm" THEN "remove" ELSE "offer")
    BY <1>5 DEF ExamineDiscard
  <2>2. On(c) \in Attempts
    BY <2>1 DEF KindOfStep
  <2>3. /\ CallTypes' /\ OthersKept(c) /\ lock' = lock /\ op'[c] = op[c]
        /\ pc'[c] = (IF op[c].kind = "confirm" THEN "remove" ELSE "offer")
        /\ view'[c].status = view[c].status
    BY <2>1, <2>2, Looking
  <2> QED
    BY <2>1, <2>3 DEF Outcome, OtherLocks, Moved
<1>6. CASE RemoveTree(c) /\ ~Leave(c)
  <2>1. op[c].kind = "confirm" /\ pc[c] = "remove" /\ Goto(c, "branch")
    BY <1>6 DEF RemoveTree
  <2>3. /\ CallTypes' /\ OthersKept(c) /\ lock' = lock /\ op'[c] = op[c]
        /\ pc'[c] = "branch" /\ view'[c] = view[c]
    BY <1>0, <2>1, Going
  <2> QED
    BY <2>1, <2>3 DEF Outcome, OtherLocks, Moved
<1>7. CASE DeleteBranch(c) /\ ~Leave(c)
  <2>1. op[c].kind = "confirm" /\ pc[c] = "branch" /\ Goto(c, "record")
    BY <1>7 DEF DeleteBranch
  <2>3. /\ CallTypes' /\ OthersKept(c) /\ lock' = lock /\ op'[c] = op[c]
        /\ pc'[c] = "record" /\ view'[c] = view[c]
    BY <1>0, <2>1, Going
  <2> QED
    BY <2>1, <2>3 DEF Outcome, OtherLocks, Moved
<1>8. CASE ExamineArtifact(c) /\ ~Leave(c)
  <2>1. op[c].kind = "artifact" /\ pc[c] = "examine" /\ LookAndGoto(c, "save")
    BY <1>8 DEF ExamineArtifact
  <2>2. On(c) \in Attempts
    BY <2>1 DEF KindOfStep
  <2>3. /\ CallTypes' /\ OthersKept(c) /\ lock' = lock /\ op'[c] = op[c]
        /\ pc'[c] = "save" /\ view'[c].status = view[c].status
    BY <2>1, <2>2, Looking
  <2> QED
    BY <2>1, <2>3 DEF Outcome, OtherLocks, Moved
<1>9. CASE Save(c) /\ ~Leave(c)
  <2>1. op[c].kind = "artifact" /\ pc[c] = "save" /\ Goto(c, "describe")
    BY <1>9 DEF Save
  <2>3. /\ CallTypes' /\ OthersKept(c) /\ lock' = lock /\ op'[c] = op[c]
        /\ pc'[c] = "describe" /\ view'[c] = view[c]
    BY <1>0, <2>1, Going
  <2> QED
    BY <2>1, <2>3 DEF Outcome, OtherLocks, Moved
<1>10. CASE Describe(c) /\ ~Leave(c)
  <2>1. op[c].kind = "artifact" /\ pc[c] = "describe" /\ Goto(c, "name")
    BY <1>10 DEF Describe
  <2>3. /\ CallTypes' /\ OthersKept(c) /\ lock' = lock /\ op'[c] = op[c]
        /\ pc'[c] = "name" /\ view'[c] = view[c]
    BY <1>0, <2>1, Going
  <2> QED
    BY <2>1, <2>3 DEF Outcome, OtherLocks, Moved
<1>11. CASE Offer(c) \/ BranchRemains(c) \/ Record(c) \/ Name(c) \/ Fail(c)
  BY <1>1, <1>11 DEF Offer, BranchRemains, Record, Name, Fail
<1> QED
  BY <1>1, <1>2, <1>3, <1>4, <1>5, <1>6, <1>7, <1>8, <1>9, <1>10, <1>11 DEF GivesUp

(* A step that leaves the calls and the records alone.                     *)
Aside == UNCHANGED <<callVars, recordVars, files>>

(* A step is one of a call, which begins, gets the lock or has an outcome, *)
(* or it leaves the calls and the records alone.                           *)
LEMMA StepKinds ==
  ASSUME [Next]_vars
  PROVE  Aside \/ \E c \in Calls : Begin(c) \/ Lock(c) \/ GivesUp(c)
<1>1. ASSUME NEW c \in Calls, CallNext(c) \/ Fail(c)
      PROVE  Lock(c) \/ GivesUp(c)
  BY <1>1 DEF CallNext, GivesUp
<1>2. ASSUME NEW w \in Attempts, WorkerWrites(w)
      PROVE  Aside
  BY <1>2 DEF WorkerWrites, Aside
<1>3. CASE UserEdits \/ UserCommits \/ UserReverts
  BY <1>3 DEF UserEdits, UserCommits, UserReverts, Aside
<1>4. CASE UNCHANGED vars
  BY <1>4 DEF vars, Aside
<1> QED
  BY <1>1, <1>2, <1>3, <1>4 DEF Next

(* Every step keeps the types of the calls and the locks.                  *)
LEMMA CallTypesStep == Types /\ KindOfStep /\ [Next]_vars => CallTypes'
<1> SUFFICES ASSUME Types, KindOfStep, [Next]_vars
             PROVE  CallTypes'
  OBVIOUS
<1>1. ASSUME NEW c \in Calls, Begin(c) \/ Lock(c)
      PROVE  CallTypes'
  BY <1>1, Beginning, Locking
<1>2. ASSUME NEW c \in Calls, GivesUp(c)
      PROVE  CallTypes'
  BY <1>2, Outcomes DEF Outcome
<1>3. CASE Aside
  BY <1>3 DEF Aside, Types, CallTypes
<1> QED
  BY <1>1, <1>2, <1>3, StepKinds

(* Every step keeps all the types.                                         *)
LEMMA TypeStep == Types /\ KindOfStep /\ [Next]_vars => Types'
BY WorktreeTypesStep, RecordTypesStep, CheckoutTypesStep, CallTypesStep
   DEF Types, WorktreeTypes, RecordTypes, CheckoutTypes, CallTypes

(* What the lock gives one call; the others keep it when their status and  *)
(* their lock stay.                                                        *)
LockInvOf(c) ==
  /\ op[c].kind # "none" => On(c) \in Attempts
  /\ pc[c] = "lock" => op[c].kind \in LockedOps
  /\ pc[c] \in {"recheck", "patch"} => op[c].kind = "apply"
  /\ pc[c] = "offer" => op[c].kind = "discard"
  /\ pc[c] \in {"remove", "branch"} => op[c].kind = "confirm"
  /\ pc[c] = "record" => op[c].kind \in {"apply", "confirm"}
  /\ pc[c] \in {"new", "ended"} => op[c].kind = "none"
  /\ op[c].kind \in LockedOps /\ pc[c] \in Decided \cup {"examine"} => lock[Key(c)] = c
  /\ op[c].kind \in LockedOps =>
       /\ pc[c] = "examine" => status[On(c)] = view[c].status
       /\ pc[c] \in Decided => status[On(c)] \notin {"applied", "discarded"}

(* The invariant of the lock is that of each call.                         *)
LEMMA LockByCall == LockInv <=> \A c \in Calls : LockInvOf(c)
BY DEF LockInv, LockInvOf, KindOfStep, HoldsLock, StatusCurrent

(* A step of one call keeps it for the others.                             *)
LEMMA LockKept ==
  ASSUME LockInv, NEW c \in Calls, OthersKept(c), OtherLocks(c), LockInvOf(c)',
         \A d \in Calls \ {c} :
           op[d].kind \in LockedOps /\ pc[d] \in Decided \cup {"examine"} =>
             status'[On(d)] = status[On(d)]
  PROVE  LockInv'
<1>1. ASSUME NEW d \in Calls \ {c}
      PROVE  LockInvOf(d)'
  <2>1. LockInvOf(d) /\ pc'[d] = pc[d] /\ op'[d] = op[d] /\ view'[d] = view[d]
    BY <1>1, LockByCall DEF OthersKept
  <2>2. op[d].kind \in LockedOps /\ pc[d] \in Decided \cup {"examine"} =>
          lock'[Key(d)] = d /\ status'[On(d)] = status[On(d)]
    BY <2>1 DEF LockInvOf, OtherLocks
  <2> QED
    BY <2>1, <2>2 DEF LockInvOf
<1>2. \A d \in Calls : LockInvOf(d)'
  BY <1>1
<1> QED
  BY <1>2 DEF LockInv, LockInvOf, KindOfStep, HoldsLock, StatusCurrent

(* So does a step with one of the outcomes that leaves the statuses alone. *)
LEMMA LockOutcome ==
  ASSUME LockInv, NEW c \in Calls, Outcome(c), UNCHANGED status
  PROVE  LockInv'
<1>1. LockInvOf(c)
  BY LockByCall
<1>2. CASE Left(c)
  <2>1. LockInvOf(c)'
    BY <1>2 DEF Left, LockInvOf
  <2> QED
    BY <2>1, LockKept DEF Outcome
<1>3. CASE Moved(c)
  <2>1. On(c) \in Attempts /\ op[c].kind # "none"
    BY <1>1, <1>3 DEF Moved, LockInvOf
  <2>2. op[c].kind \in LockedOps =>
          /\ pc[c] \in Decided \cup {"examine"} /\ lock[Key(c)] = c
          /\ status[On(c)] \notin {"applied", "discarded"}
    BY <1>1, <1>3 DEF Moved, LockInvOf
  <2>3. LockInvOf(c)'
    BY <1>3, <2>1, <2>2 DEF Moved, LockInvOf
  <2> QED
    BY <2>3, LockKept DEF Outcome
<1> QED
  BY <1>2, <1>3 DEF Outcome

(* And a step that ends a call in its lock, whatever it writes of its own  *)
(* worktree: nobody else is at work in that workspace.                     *)
LEMMA LockWrites ==
  ASSUME LockInv, NEW c \in Calls, Outcome(c), Left(c), pc[c] \in Decided,
         op[c].kind \in LockedOps, \A w \in Attempts \ {On(c)} : status'[w] = status[w]
  PROVE  LockInv'
<1>1. lock[Key(c)] = c
  BY DEF LockInv, HoldsLock
<1>2. ASSUME NEW d \in Calls \ {c}, op[d].kind \in LockedOps,
             pc[d] \in Decided \cup {"examine"}
      PROVE  status'[On(d)] = status[On(d)]
  <2>1. lock[Key(d)] = d /\ On(d) \in Attempts
    BY <1>2 DEF LockInv, HoldsLock, KindOfStep
  <2> QED
    BY <1>1, <2>1
<1>3. LockInvOf(c)'
  BY DEF Left, LockInvOf
<1> QED
  BY <1>2, <1>3, LockKept DEF Outcome

(* Every step keeps the lock where it belongs.                             *)
LEMMA LockStep == Types /\ LockInv /\ [Next]_vars => LockInv'
<1> SUFFICES ASSUME Types, LockInv, [Next]_vars
             PROVE  LockInv'
  OBVIOUS
<1>0. KindOfStep
  BY DEF LockInv
<1>1. ASSUME NEW c \in Calls, Begin(c)
      PROVE  LockInv'
  <2>1. /\ OthersKept(c) /\ lock' = lock /\ status' = status
        /\ op'[c].kind \in Ops /\ op'[c].on \in Attempts
        /\ view'[c].status = status[op'[c].on]
        /\ pc'[c] = IF op'[c].kind = "artifact" THEN "examine" ELSE "lock"
    BY <1>1, Beginning
  <2>2. LockInvOf(c)'
    BY <2>1 DEF LockInvOf
  <2> QED
    BY <2>1, <2>2, LockKept DEF OtherLocks
<1>2. ASSUME NEW c \in Calls, Lock(c)
      PROVE  LockInv'
  <2>1. /\ OthersKept(c) /\ pc[c] = "lock" /\ pc'[c] = "examine" /\ op' = op
        /\ view'[c].status = status[On(c)] /\ status' = status
        /\ lock[Key(c)] = Free /\ lock'[Key(c)] = c
        /\ \A k \in Keys \ {Key(c)} : lock'[k] = lock[k]
    BY <1>0, <1>2, Locking
  <2>2. LockInvOf(c)
    BY LockByCall
  <2>3. LockInvOf(c)'
    BY <2>1, <2>2 DEF LockInvOf
  <2>4. ASSUME NEW d \in Calls \ {c}
        PROVE  LockInvOf(d)'
    <3>1. LockInvOf(d) /\ pc'[d] = pc[d] /\ op'[d] = op[d] /\ view'[d] = view[d]
      BY <2>1, <2>4, LockByCall DEF OthersKept
    <3>2. op[d].kind \in LockedOps /\ pc[d] \in Decided \cup {"examine"} =>
            lock'[Key(d)] = d
      BY <2>1, <3>1 DEF LockInvOf
    <3> QED
      BY <2>1, <3>1, <3>2 DEF LockInvOf
  <2>5. \A d \in Calls : LockInvOf(d)'
    BY <2>3, <2>4
  <2> QED
    BY <2>5 DEF LockInv, LockInvOf, KindOfStep, HoldsLock, StatusCurrent
<1>3. ASSUME NEW c \in Calls, GivesUp(c), UNCHANGED status
      PROVE  LockInv'
  BY <1>0, <1>3, Outcomes, LockOutcome
<1>4. ASSUME NEW c \in Calls, BranchRemains(c) \/ Record(c)
      PROVE  LockInv'
  <2>1. /\ pc[c] \in Decided /\ op[c].kind \in LockedOps /\ Leave(c)
        /\ \E s : status' = [status EXCEPT ![On(c)] = s]
    BY <1>4 DEF BranchRemains, Record
  <2>2. \A w \in Attempts \ {On(c)} : status'[w] = status[w]
    BY <2>1 DEF Types
  <2>3. CallTypes
    BY DEF Types, CallTypes
  <2>4. Outcome(c) /\ Left(c)
    BY <2>1, <2>3, LeftOutcome, Leaving DEF Left
  <2> QED
    BY <2>1, <2>2, <2>4, LockWrites
<1>5. ASSUME NEW c \in Calls, GivesUp(c)
      PROVE  UNCHANGED status \/ BranchRemains(c) \/ Record(c)
  BY <1>5 DEF GivesUp, ExamineApply, Recheck, Patch, ExamineDiscard, Offer,
     RemoveTree, DeleteBranch, ExamineArtifact, Save, Describe, Name, Fail
<1>6. CASE Aside
  BY <1>6 DEF Aside, LockInv, KindOfStep, HoldsLock, StatusCurrent
<1> QED
  BY <1>1, <1>2, <1>3, <1>4, <1>5, <1>6, StepKinds

(* Two calls that have decided about the same worktree are one: they have  *)
(* the same lock.  Where all have one workspace, so are any two.           *)
LEMMA OneDecides ==
  ASSUME LockInv, NEW c \in Calls, NEW d \in Calls, pc[c] \in Decided, pc[d] \in Decided,
         op[c].kind \in LockedOps, op[d].kind \in LockedOps,
         On(c) = On(d) \/ OneWorkspace
  PROVE  c = d
<1>1. lock[Key(c)] = c /\ lock[Key(d)] = d
  BY DEF LockInv, HoldsLock
<1>2. On(c) \in Attempts /\ On(d) \in Attempts
  BY DEF LockInv, KindOfStep
<1>3. Key(c) = Key(d)
  BY <1>2 DEF OneWorkspace
<1> QED
  BY <1>1, <1>3

(* What a patch needs stays there while no other worktree goes.            *)
LEMMA PatchKept ==
  ASSUME ReadyToPatch, NEW c \in Calls, OthersKept(c), ~Patching(c)',
         laid' \subseteq laid, delivered \subseteq delivered',
         \A d \in Calls \ {c} : Patching(d) => tree'[On(d)] = tree[On(d)]
  PROVE  ReadyToPatch'
<1>1. ASSUME NEW d \in Calls, Patching(d)'
      PROVE  /\ tree'[op'[d].on]
             /\ pc'[d] = "patch" /\ OneWorkspace => laid' = {}
             /\ pc'[d] = "record" => op'[d].on \in delivered'
  <2>1. d # c /\ Patching(d) /\ op'[d] = op[d] /\ pc'[d] = pc[d]
    BY <1>1 DEF OthersKept, Patching
  <2> QED
    BY <2>1 DEF ReadyToPatch
<1> QED
  BY <1>1 DEF ReadyToPatch

(* Every step keeps what a patch needs to be laid and recorded.            *)
LEMMA PatchStep == Types /\ LockInv /\ ReadyToPatch /\ [Next]_vars => ReadyToPatch'
<1> SUFFICES ASSUME Types, LockInv, ReadyToPatch, [Next]_vars
             PROVE  ReadyToPatch'
  OBVIOUS
<1>0. KindOfStep /\ CallTypes
  BY DEF LockInv, Types, CallTypes
<1>1. ASSUME NEW c \in Calls, Begin(c) \/ Lock(c)
      PROVE  ReadyToPatch'
  <2>1. OthersKept(c) /\ ~Patching(c)' /\ UNCHANGED <<tree, laid, delivered>>
    BY <1>0, <1>1, Beginning, Locking DEF Patching
  <2> QED
    BY <2>1, PatchKept
<1>2. ASSUME NEW c \in Calls, GivesUp(c), UNCHANGED <<tree, laid, delivered>>
      PROVE  ReadyToPatch'
  <2>1. OthersKept(c)
    BY <1>0, <1>2, Outcomes DEF Outcome
  <2>2. CASE Patching(c)' /\ ~Patch(c)
    <3>1. Moved(c) /\ op[c].kind = "apply" /\ pc[c] \in {"recheck", "patch"}
      BY <1>0, <1>2, <2>2, Outcomes DEF Outcome, Left, Moved, Patching
    <3>2. ~Leave(c) /\ pc'[c] # "ended"
      BY <1>0, <2>2, Leaving DEF Patching
    <3>3. Recheck(c) \/ Fail(c)
      BY <1>2, <2>2, <3>1
         DEF GivesUp, ExamineApply, ExamineDiscard, Offer, RemoveTree, DeleteBranch,
             BranchRemains, Record, ExamineArtifact, Save, Describe, Name
    <3>4. Inspected(c) /\ laid = {} /\ pc'[c] = "patch"
      BY <1>0, <3>2, <3>3, Going DEF Recheck, Fail, Steps
    <3>5. op'[c] = op[c]
      BY <3>1 DEF Moved
    <3>6. ASSUME NEW d \in Calls, Patching(d)', d # c
          PROVE  /\ Patching(d) /\ op'[d] = op[d] /\ pc'[d] = pc[d]
      BY <2>1, <3>6 DEF OthersKept, Patching
    <3> QED
      BY <1>2, <3>4, <3>5, <3>6 DEF ReadyToPatch
  <2>3. CASE ~Patching(c)'
    BY <1>2, <2>1, <2>3, PatchKept
  <2>4. CASE Patch(c) /\ Patching(c)'
    <3>1. ~Leave(c)
      BY <1>0, <2>4, Leaving DEF Patching
    <3>2. /\ pc[c] = "patch" /\ op[c].kind = "apply" /\ On(c) \notin laid
          /\ laid' = laid \cup {On(c)}
      BY <2>4, <3>1 DEF Patch
    <3> QED
      BY <1>2, <3>2
  <2> QED
    BY <2>2, <2>3, <2>4
<1>3. ASSUME NEW c \in Calls, Patch(c)
      PROVE  ReadyToPatch'
  <2>1. /\ pc[c] = "patch" /\ op[c].kind = "apply" /\ UNCHANGED tree
        /\ \/ Leave(c) /\ UNCHANGED delivered
           \/ Goto(c, "record") /\ delivered' = delivered \cup {On(c)}
    BY <1>3 DEF Patch
  <2>0. delivered \subseteq delivered' /\ tree[On(c)]
    BY <2>1 DEF ReadyToPatch, Patching
  <2>2. /\ OthersKept(c) /\ pc'[c] # "patch"
        /\ pc'[c] = "record" => op'[c] = op[c] /\ On(c) \in delivered'
    BY <1>0, <2>1, Leaving, Going DEF Steps
  <2>3. ASSUME NEW d \in Calls, Patching(d)'
        PROVE  /\ tree'[op'[d].on]
               /\ pc'[d] = "patch" /\ OneWorkspace => laid' = {}
               /\ pc'[d] = "record" => op'[d].on \in delivered'
    <3>1. CASE d = c
      BY <2>0, <2>1, <2>2, <2>3, <3>1 DEF Patching
    <3>2. CASE d # c
      <4>1. Patching(d) /\ op'[d] = op[d] /\ pc'[d] = pc[d]
        BY <2>2, <2>3, <3>2 DEF OthersKept, Patching
      <4>2. pc[d] = "patch" => ~OneWorkspace
        BY <2>1, <3>2, <4>1, OneDecides DEF Patching
      <4> QED
        BY <2>0, <2>1, <4>1, <4>2 DEF ReadyToPatch
    <3> QED
      BY <3>1, <3>2
  <2> QED
    BY <2>3 DEF ReadyToPatch
<1>4. ASSUME NEW c \in Calls, RemoveTree(c)
      PROVE  ReadyToPatch'
  <2>1. /\ pc[c] = "remove" /\ op[c].kind = "confirm"
        /\ tree' = [tree EXCEPT ![On(c)] = FALSE] /\ UNCHANGED <<laid, delivered>>
    BY <1>4 DEF RemoveTree
  <2>2. ASSUME NEW d \in Calls \ {c}, Patching(d)
        PROVE  tree'[On(d)] = tree[On(d)]
    <3>1. On(d) # On(c) /\ On(d) \in Attempts
      BY <1>0, <2>1, <2>2, OneDecides DEF Patching, KindOfStep
    <3> QED
      BY <2>1, <3>1 DEF Types
  <2>3. OthersKept(c) /\ pc'[c] = "branch"
    BY <1>0, <1>4, Going DEF RemoveTree, Steps
  <2> QED
    BY <2>1, <2>2, <2>3, PatchKept DEF Patching
<1>5. ASSUME NEW c \in Calls, GivesUp(c)
      PROVE  UNCHANGED <<tree, laid, delivered>> \/ Patch(c) \/ RemoveTree(c)
  BY <1>5 DEF GivesUp, ExamineApply, Recheck, ExamineDiscard, Offer, DeleteBranch,
     BranchRemains, Record, ExamineArtifact, Save, Describe, Name, Fail
<1>6. CASE UNCHANGED <<pc, op, tree, delivered>> /\ laid' \subseteq laid
  BY <1>6 DEF ReadyToPatch, Patching
<1>7. ASSUME ~ \E c \in Calls : Begin(c) \/ Lock(c) \/ GivesUp(c)
      PROVE  UNCHANGED <<pc, op, tree, delivered>> /\ laid' \subseteq laid
  <2>1. \A c \in Calls : ~ (Begin(c) \/ CallNext(c) \/ Fail(c))
    BY <1>7 DEF CallNext, GivesUp
  <2> QED
    BY <2>1 DEF Next, vars, WorkerWrites, UserEdits, UserCommits, UserReverts
<1> QED
  BY <1>1, <1>2, <1>3, <1>4, <1>5, <1>6, <1>7

(* What a discard leaves of a worktree w, and a step that leaves it alone. *)
Accounted(w) ==
  /\ ~tree[w] => /\ "late" \in mishap[w] \/ content[w] = Last(tokens[w])
                 /\ \/ status[w] \in {"discarded", "branch_remains"}
                    \/ "cut" \in mishap[w]
                    \/ \E c \in Calls : HasRemoved(c) /\ On(c) = w
  /\ status[w] = "discarded" => ~tree[w] /\ ~branch[w]
  /\ status[w] = "branch_remains" => ~tree[w]
Same(w) ==
  /\ tree'[w] = tree[w] /\ branch'[w] = branch[w] /\ content'[w] = content[w]
  /\ mishap'[w] = mishap[w] /\ status'[w] = status[w] /\ tokens'[w] = tokens[w]

(* A step of one call keeps the account of the worktrees it leaves alone.  *)
LEMMA AccountKept ==
  ASSUME DiscardInv, NEW c \in Calls, OthersKept(c), NEW w \in Attempts, Same(w),
         ~(HasRemoved(c) /\ On(c) = w)
  PROVE  Accounted(w)'
<1>1. Accounted(w)
  BY DEF DiscardInv, DiscardAccounted, Accounted
<1>2. ASSUME NEW d \in Calls, HasRemoved(d), On(d) = w
      PROVE  HasRemoved(d)' /\ On(d)' = w
  BY <1>2 DEF OthersKept
<1>3. (\E d \in Calls : HasRemoved(d) /\ On(d) = w) =>
        (\E d \in Calls : HasRemoved(d) /\ On(d) = w)'
  BY <1>2
<1> QED
  BY <1>1, <1>3 DEF Accounted, Same

(* So it keeps what a discard needs when the only worktree it changes is   *)
(* that of a call that has decided.                                        *)
LEMMA DiscardKept ==
  ASSUME Types, LockInv, DiscardInv, NEW c \in Calls, OthersKept(c), Shown(c)',
         \A w \in Attempts :
           \/ Same(w) /\ ~(HasRemoved(c) /\ On(c) = w)
           \/ w = On(c) /\ pc[c] \in Decided /\ op[c].kind \in LockedOps /\ Accounted(w)'
  PROVE  DiscardInv'
<1>1. \A w \in Attempts : Accounted(w)'
  BY AccountKept
<1>2. ASSUME NEW d \in Calls, d # c
      PROVE  Shown(d)'
  <2>1. Shown(d) /\ pc'[d] = pc[d] /\ op'[d] = op[d]
    BY <1>2 DEF DiscardInv, ShownFirst, OthersKept
  <2>2. ASSUME pc[d] \in {"offer", "remove"} \/ HasRemoved(d)
        PROVE  Same(On(d))
    <3>1. pc[d] \in Decided /\ op[d].kind \in LockedOps /\ On(d) \in Attempts
      BY <2>2 DEF LockInv, KindOfStep
    <3>2. ~(On(d) = On(c) /\ pc[c] \in Decided /\ op[c].kind \in LockedOps)
      BY <1>2, <3>1, OneDecides
    <3> QED
      BY <3>1, <3>2
  <2> QED
    BY <2>1, <2>2 DEF Shown, Same
<1>3. \A d \in Calls : Shown(d)'
  BY <1>2
<1> QED
  BY <1>1, <1>3 DEF DiscardInv, ShownFirst, DiscardAccounted, Accounted

(* A write to a worktree that is there is seen, or late.                   *)
LEMMA DiscardWrites ==
  ASSUME Types, KindOfStep, DiscardInv, NEW v \in Attempts, WorkerWrites(v)
  PROVE  DiscardInv'
<1>1. /\ tree[v] /\ content' = [content EXCEPT ![v] = @ + 1]
      /\ mishap' = [mishap EXCEPT ![v] = @ \cup IF BeingRemoved(v) THEN {"late"} ELSE {}]
      /\ UNCHANGED <<tree, branch, recordVars, callVars>>
  BY DEF WorkerWrites
<1>2. \A w \in Attempts \ {v} : content'[w] = content[w] /\ mishap'[w] = mishap[w]
  BY <1>1 DEF Types
<1>3. BeingRemoved(v) => "late" \in mishap'[v]
  BY <1>1 DEF Types
<1>4. ASSUME NEW c \in Calls
      PROVE  Shown(c)'
  <2>1. Shown(c)
    BY DEF DiscardInv, ShownFirst
  <2>2. ASSUME pc[c] = "remove"
        PROVE  "late" \in mishap'[On(c)] \/ content'[On(c)] = Last(tokens[On(c)])
    <3>1. On(c) \in Attempts
      BY <2>2 DEF KindOfStep
    <3>2. CASE On(c) = v
      BY <1>3, <2>2, <3>2 DEF BeingRemoved
    <3>3. CASE On(c) # v
      BY <1>2, <2>1, <2>2, <3>1, <3>3 DEF Shown
    <3> QED
      BY <3>2, <3>3
  <2> QED
    BY <1>1, <2>1, <2>2 DEF Shown
<1>5. ASSUME NEW w \in Attempts
      PROVE  Accounted(w)'
  <2>1. Accounted(w)
    BY DEF DiscardInv, DiscardAccounted, Accounted
  <2>2. CASE w = v
    BY <1>1, <2>1, <2>2 DEF Accounted
  <2>3. CASE w # v
    BY <1>1, <1>2, <2>1, <2>3 DEF Accounted
  <2> QED
    BY <2>2, <2>3
<1> QED
  BY <1>4, <1>5 DEF DiscardInv, ShownFirst, DiscardAccounted, Accounted

(* Every step keeps the account of what was discarded.                     *)
LEMMA DiscardStep ==
  Types /\ LockInv /\ ReadyToPatch /\ DiscardInv /\ [Next]_vars => DiscardInv'
<1> SUFFICES ASSUME Types, LockInv, ReadyToPatch, DiscardInv, [Next]_vars
             PROVE  DiscardInv'
  OBVIOUS
<1>0. KindOfStep /\ CallTypes
  BY DEF LockInv, Types, CallTypes
<1>1. ASSUME NEW c \in Calls, Begin(c) \/ Lock(c)
      PROVE  DiscardInv'
  <2>1. /\ OthersKept(c) /\ pc[c] \in {"new", "lock"} /\ pc'[c] \in {"examine", "lock"}
        /\ UNCHANGED <<worktreeVars, recordVars>>
    BY <1>0, <1>1, Beginning, Locking
  <2>2. Shown(c)' /\ ~HasRemoved(c) /\ \A w \in Attempts : Same(w)
    BY <2>1 DEF Shown, Same
  <2> QED
    BY <2>1, <2>2, DiscardKept
<1>2. ASSUME NEW c \in Calls, GivesUp(c), UNCHANGED <<worktreeVars, status, tokens>>,
             ~HasRemoved(c), pc'[c] \notin {"offer", "remove"}, ~HasRemoved(c)'
      PROVE  DiscardInv'
  <2>1. OthersKept(c) /\ Shown(c)' /\ \A w \in Attempts : Same(w)
    BY <1>0, <1>2, Outcomes DEF Outcome, Shown, Same
  <2> QED
    BY <1>2, <2>1, DiscardKept
<1>3. ASSUME NEW c \in Calls, ExamineDiscard(c)
      PROVE  DiscardInv'
  <2>1. OthersKept(c) /\ ~HasRemoved(c) /\ \A w \in Attempts : Same(w)
    BY <1>0, <1>3, Outcomes DEF Outcome, GivesUp, ExamineDiscard, Same
  <2>2. CASE Leave(c)
    <3>1. Shown(c)'
      BY <1>0, <2>2, Leaving DEF Shown
    <3> QED
      BY <2>1, <3>1, DiscardKept
  <2>3. CASE ~Leave(c)
    <3>1. /\ op[c].kind \in {"discard", "confirm"} /\ Inspected(c)
          /\ op[c].kind = "confirm" => content[On(c)] = Last(tokens[On(c)])
          /\ LookAndGoto(c, IF op[c].kind = "confirm" THEN "remove" ELSE "offer")
          /\ UNCHANGED <<worktreeVars, recordVars>>
      BY <1>3, <2>3 DEF ExamineDiscard
    <3>2. On(c) \in Attempts
      BY <1>0, <3>1 DEF KindOfStep
    <3>3. op'[c] = op[c] /\ pc'[c] = IF op[c].kind = "confirm" THEN "remove" ELSE "offer"
      BY <3>1, <3>2, Looking DEF Steps
    <3>4. Shown(c)'
      BY <3>1, <3>3 DEF Shown
    <3> QED
      BY <2>1, <3>4, DiscardKept
  <2> QED
    BY <2>2, <2>3
<1>4. ASSUME NEW c \in Calls, Offer(c)
      PROVE  DiscardInv'
  <2>1. /\ pc[c] = "offer" /\ op[c].kind = "discard" /\ Leave(c)
        /\ tokens' = [tokens EXCEPT ![On(c)] = Append(@, view[c].shown)]
        /\ UNCHANGED <<worktreeVars, status>>
    BY <1>4 DEF Offer
  <2>2. OthersKept(c) /\ Shown(c)'
    BY <1>0, <2>1, Leaving DEF Shown
  <2>3. tree[On(c)] /\ On(c) \in Attempts /\ Accounted(On(c))
    BY <1>0, <2>1
       DEF DiscardInv, ShownFirst, Shown, KindOfStep, DiscardAccounted, Accounted
  <2>4. ASSUME NEW w \in Attempts, w = On(c)
        PROVE  Accounted(w)'
    BY <2>1, <2>3, <2>4 DEF Accounted
  <2>5. \A w \in Attempts \ {On(c)} : Same(w)
    BY <2>1 DEF Same, Types
  <2> QED
    BY <2>1, <2>2, <2>4, <2>5, DiscardKept
<1>5. ASSUME NEW c \in Calls, RemoveTree(c)
      PROVE  DiscardInv'
  <2>1. /\ pc[c] = "remove" /\ op[c].kind = "confirm" /\ Goto(c, "branch")
        /\ tree' = [tree EXCEPT ![On(c)] = FALSE]
        /\ UNCHANGED <<content, branch, mishap, recordVars>>
    BY <1>5 DEF RemoveTree
  <2>2. OthersKept(c) /\ pc'[c] = "branch" /\ op'[c] = op[c]
    BY <1>0, <2>1, Going DEF Steps
  <2>3. On(c) \in Attempts /\ Shown(c) /\ Accounted(On(c))
    BY <1>0, <2>1 DEF KindOfStep, DiscardInv, ShownFirst, DiscardAccounted, Accounted
  <2>4. ~tree'[On(c)] /\ \A w \in Attempts \ {On(c)} : tree'[w] = tree[w]
    BY <2>1, <2>3 DEF Types
  <2>5. HasRemoved(c)' /\ On(c)' = On(c) /\ Shown(c)'
    BY <2>1, <2>2, <2>4 DEF Shown
  <2>6. Accounted(On(c))'
    BY <2>1, <2>2, <2>3, <2>4, <2>5 DEF Accounted, Shown
  <2>7. \A w \in Attempts \ {On(c)} : Same(w)
    BY <2>1, <2>4 DEF Same
  <2> QED
    BY <2>1, <2>2, <2>5, <2>6, <2>7, DiscardKept
<1>6. ASSUME NEW c \in Calls, DeleteBranch(c)
      PROVE  DiscardInv'
  <2>1. /\ pc[c] = "branch" /\ op[c].kind = "confirm" /\ Goto(c, "record")
        /\ branch' = [branch EXCEPT ![On(c)] = FALSE]
        /\ UNCHANGED <<content, tree, mishap, recordVars>>
    BY <1>6 DEF DeleteBranch
  <2>2. OthersKept(c) /\ pc'[c] = "record" /\ op'[c] = op[c]
    BY <1>0, <2>1, Going DEF Steps
  <2>3. On(c) \in Attempts /\ Shown(c) /\ Accounted(On(c))
    BY <1>0, <2>1 DEF KindOfStep, DiscardInv, ShownFirst, DiscardAccounted, Accounted
  <2>4. ~branch'[On(c)] /\ \A w \in Attempts \ {On(c)} : branch'[w] = branch[w]
    BY <2>1, <2>3 DEF Types
  <2>5. HasRemoved(c)' /\ On(c)' = On(c) /\ Shown(c)'
    BY <2>1, <2>2, <2>3, <2>4 DEF Shown
  <2>6. Accounted(On(c))'
    BY <2>1, <2>2, <2>3, <2>4, <2>5 DEF Accounted
  <2>7. \A w \in Attempts \ {On(c)} : Same(w)
    BY <2>1, <2>4 DEF Same
  <2> QED
    BY <2>1, <2>2, <2>5, <2>6, <2>7, DiscardKept
<1>7. ASSUME NEW c \in Calls, BranchRemains(c) \/ Record(c)
      PROVE  DiscardInv'
  <2>1. /\ op[c].kind \in {"apply", "confirm"} /\ pc[c] \in {"branch", "record"}
        /\ Leave(c) /\ UNCHANGED <<worktreeVars, tokens>>
        /\ \E s : status' = [status EXCEPT ![On(c)] = s]
    BY <1>7 DEF BranchRemains, Record
  <2>2. OthersKept(c) /\ Shown(c)'
    BY <1>0, <2>1, Leaving DEF Shown
  <2>3. On(c) \in Attempts /\ Shown(c) /\ Accounted(On(c))
    BY <1>0, <2>1 DEF KindOfStep, DiscardInv, ShownFirst, DiscardAccounted, Accounted
  <2>4. CASE op[c].kind = "apply"
    <3>1. Record(c) /\ status' = [status EXCEPT ![On(c)] = "applied"]
      BY <1>7, <2>4 DEF BranchRemains, Record
    <3>2. tree[On(c)] /\ status'[On(c)] = "applied"
      BY <2>3, <2>4, <3>1 DEF ReadyToPatch, Patching, Record, Types
    <3>3. ASSUME NEW w \in Attempts, w = On(c)
          PROVE  Accounted(w)'
      BY <2>1, <3>2, <3>3 DEF Accounted
    <3>4. \A w \in Attempts \ {On(c)} : Same(w)
      BY <2>1 DEF Same, Types
    <3> QED
      BY <2>1, <2>2, <3>3, <3>4, DiscardKept
  <2>5. CASE op[c].kind = "confirm"
    <3>1. ~tree[On(c)] /\ (pc[c] = "record" => ~branch[On(c)])
      BY <2>1, <2>3, <2>5 DEF Shown
    <3>2. \/ pc[c] = "branch" /\ status' = [status EXCEPT ![On(c)] = "branch_remains"]
          \/ pc[c] = "record" /\ status' = [status EXCEPT ![On(c)] = "discarded"]
      BY <1>7, <2>5 DEF BranchRemains, Record
    <3>3. \/ pc[c] = "branch" /\ status'[On(c)] = "branch_remains"
          \/ pc[c] = "record" /\ status'[On(c)] = "discarded"
      BY <2>3, <3>2 DEF Types
    <3>4. ASSUME NEW w \in Attempts, w = On(c)
          PROVE  Accounted(w)'
      BY <2>1, <2>3, <3>1, <3>3, <3>4 DEF Accounted
    <3>5. \A w \in Attempts \ {On(c)} : Same(w)
      BY <2>1 DEF Same, Types
    <3> QED
      BY <2>1, <2>2, <3>4, <3>5, DiscardKept
  <2> QED
    BY <2>1, <2>4, <2>5
<1>8. ASSUME NEW c \in Calls, Fail(c)
      PROVE  DiscardInv'
  <2>1. /\ Leave(c) /\ UNCHANGED <<content, tree, branch, recordVars>>
        /\ mishap' = [w \in Attempts |->
                        mishap[w] \cup IF HasRemoved(c) /\ w = On(c) THEN {"cut"} ELSE {}]
    BY <1>8 DEF Fail
  <2>2. OthersKept(c) /\ Shown(c)'
    BY <1>0, <2>1, Leaving DEF Shown
  <2>3. \A w \in Attempts : ~(HasRemoved(c) /\ On(c) = w) => Same(w)
    BY <2>1 DEF Same
  <2>4. ASSUME NEW w \in Attempts, HasRemoved(c), w = On(c)
        PROVE  Accounted(w)' /\ pc[c] \in Decided /\ op[c].kind \in LockedOps
    <3>1. mishap'[w] = mishap[w] \cup {"cut"}
      BY <2>1, <2>4
    <3>2. Accounted(w)
      BY DEF DiscardInv, DiscardAccounted, Accounted
    <3> QED
      BY <2>1, <2>4, <3>1, <3>2 DEF Accounted
  <2> QED
    BY <2>2, <2>3, <2>4, DiscardKept
<1>9. ASSUME NEW c \in Calls, GivesUp(c)
      PROVE  \/ /\ UNCHANGED <<worktreeVars, status, tokens>> /\ ~HasRemoved(c)
                /\ op[c].kind \in {"apply", "artifact"}
             \/ ExamineDiscard(c) \/ Offer(c) \/ RemoveTree(c) \/ DeleteBranch(c)
             \/ BranchRemains(c) \/ Record(c) \/ Fail(c)
  BY <1>9 DEF GivesUp, ExamineApply, Recheck, Patch, ExamineArtifact, Save, Describe, Name
<1>10. ASSUME NEW c \in Calls, GivesUp(c), op[c].kind \in {"apply", "artifact"}
       PROVE  pc'[c] \notin {"offer", "remove"} /\ ~HasRemoved(c)'
  BY <1>0, <1>10, Outcomes DEF Outcome, Left, Moved
<1>11. ASSUME NEW v \in Attempts, WorkerWrites(v)
       PROVE  DiscardInv'
  BY <1>0, <1>11, DiscardWrites
<1>12. ASSUME UNCHANGED <<worktreeVars, recordVars, callVars>>
       PROVE  DiscardInv'
  BY <1>12 DEF DiscardInv, ShownFirst, Shown, DiscardAccounted
<1>13. \/ \E c \in Calls : Begin(c) \/ Lock(c) \/ GivesUp(c)
       \/ \E v \in Attempts : WorkerWrites(v)
       \/ UNCHANGED <<worktreeVars, recordVars, callVars>>
  <2>1. \A c \in Calls : CallNext(c) \/ Fail(c) => Lock(c) \/ GivesUp(c)
    BY DEF CallNext, GivesUp
  <2> QED
    BY <2>1 DEF Next, vars, UserEdits, UserCommits, UserReverts
<1> QED
  BY <1>1, <1>2, <1>3, <1>4, <1>5, <1>6, <1>7, <1>8, <1>9, <1>10, <1>11, <1>12, <1>13

(* A file that is there stays, and with it what the steps that follow need. *)
LEMMA ArtifactKept ==
  ASSUME ArtifactInv, NEW c \in Calls, OthersKept(c), files \subseteq files',
         pc'[c] = "describe" => <<c, "patch">> \in files',
         pc'[c] = "name" => Readable(c)',
         \A w \in Attempts : \/ artifact'[w] = artifact[w]
                             \/ artifact'[w] = c /\ Readable(c)'
  PROVE  ArtifactInv'
<1>1. ASSUME NEW d \in Calls
      PROVE  /\ pc'[d] = "describe" => <<d, "patch">> \in files'
             /\ pc'[d] = "name" => Readable(d)'
  <2>1. CASE d = c
    BY <2>1
  <2>2. CASE d # c
    BY <2>2 DEF ArtifactInv, WrittenFirst, OthersKept
  <2> QED
    BY <2>1, <2>2
<1>2. ASSUME NEW w \in Attempts, artifact'[w] # NoArtifact
      PROVE  <<artifact'[w], "patch">> \in files' /\ <<artifact'[w], "metadata">> \in files'
  <2>1. CASE artifact'[w] = artifact[w]
    BY <1>2, <2>1 DEF ArtifactInv, ArtifactComplete
  <2>2. CASE artifact'[w] = c /\ Readable(c)'
    BY <2>2
  <2> QED
    BY <2>1, <2>2
<1> QED
  BY <1>1, <1>2 DEF ArtifactInv, WrittenFirst, ArtifactComplete

(* Every step keeps the files a record names.                              *)
LEMMA ArtifactStep == Types /\ KindOfStep /\ ArtifactInv /\ [Next]_vars => ArtifactInv'
<1> SUFFICES ASSUME Types, KindOfStep, ArtifactInv, [Next]_vars
             PROVE  ArtifactInv'
  OBVIOUS
<1>0. CallTypes
  BY DEF Types, CallTypes
<1>1. ASSUME NEW c \in Calls, Begin(c) \/ Lock(c)
      PROVE  ArtifactInv'
  <2>1. /\ OthersKept(c) /\ pc'[c] \in {"examine", "lock"}
        /\ UNCHANGED <<files, artifact>>
    BY <1>1, Beginning, Locking
  <2> QED
    BY <2>1, ArtifactKept
<1>2. ASSUME NEW c \in Calls, GivesUp(c), UNCHANGED <<files, artifact>>,
             pc'[c] \notin {"describe", "name"}
      PROVE  ArtifactInv'
  <2>1. OthersKept(c)
    BY <1>2, Outcomes DEF Outcome
  <2> QED
    BY <1>2, <2>1, ArtifactKept
<1>3. ASSUME NEW c \in Calls, Save(c)
      PROVE  ArtifactInv'
  <2>1. Goto(c, "describe") /\ files' = files \cup {<<c, "patch">>} /\ UNCHANGED artifact
    BY <1>3 DEF Save
  <2>2. OthersKept(c) /\ pc'[c] = "describe"
    BY <1>0, <2>1, Going DEF Steps
  <2> QED
    BY <2>1, <2>2, ArtifactKept
<1>4. ASSUME NEW c \in Calls, Describe(c)
      PROVE  ArtifactInv'
  <2>1. /\ Goto(c, "name") /\ files' = files \cup {<<c, "metadata">>} /\ UNCHANGED artifact
        /\ pc[c] = "describe"
    BY <1>4 DEF Describe
  <2>2. OthersKept(c) /\ pc'[c] = "name"
    BY <1>0, <2>1, Going DEF Steps
  <2>3. <<c, "patch">> \in files
    BY <2>1 DEF ArtifactInv, WrittenFirst
  <2> QED
    BY <2>1, <2>2, <2>3, ArtifactKept
<1>5. ASSUME NEW c \in Calls, Name(c)
      PROVE  ArtifactInv'
  <2>1. /\ pc[c] = "name" /\ Leave(c) /\ UNCHANGED files
        /\ artifact' = [artifact EXCEPT ![On(c)] = c]
    BY <1>5 DEF Name
  <2>2. OthersKept(c) /\ pc'[c] = "ended"
    BY <1>0, <2>1, Leaving
  <2>3. Readable(c)'
    BY <2>1 DEF ArtifactInv, WrittenFirst
  <2>4. \A w \in Attempts : artifact'[w] = artifact[w] \/ artifact'[w] = c
    BY <2>1 DEF Types
  <2> QED
    BY <2>1, <2>2, <2>3, <2>4, ArtifactKept
<1>6. ASSUME NEW c \in Calls, GivesUp(c)
      PROVE  UNCHANGED <<files, artifact>> \/ Save(c) \/ Describe(c) \/ Name(c)
  BY <1>6 DEF GivesUp, ExamineApply, Recheck, Patch, ExamineDiscard, Offer, RemoveTree,
     DeleteBranch, BranchRemains, Record, ExamineArtifact, Fail
<1>7. ASSUME NEW c \in Calls, GivesUp(c), pc'[c] \in {"describe", "name"}
      PROVE  Save(c) \/ Describe(c)
  <2>1. op[c].kind = "artifact" /\ pc[c] \in {"save", "describe"}
    BY <1>7, Outcomes DEF Outcome, Left, Moved
  <2> QED
    BY <1>0, <1>7, <2>1, Leaving
       DEF GivesUp, ExamineApply, Recheck, Patch, ExamineDiscard, Offer, RemoveTree,
           DeleteBranch, BranchRemains, Record, ExamineArtifact, Name, Fail
<1>8. CASE Aside
  BY <1>8 DEF Aside, ArtifactInv, WrittenFirst, ArtifactComplete
<1> QED
  BY <1>1, <1>2, <1>3, <1>4, <1>5, <1>6, <1>7, <1>8, StepKinds

(* Every step keeps the holders of the locks at work.                      *)
LEMMA HolderStep ==
  Types /\ KindOfStep /\ HolderAtWork /\ [Next]_vars => HolderAtWork'
<1> SUFFICES ASSUME Types, KindOfStep, HolderAtWork, [Next]_vars,
                    NEW k \in Keys, lock'[k] # Free
             PROVE  /\ op'[lock'[k]].kind \in LockedOps
                    /\ Workspace[op'[lock'[k]].on] = k
                    /\ pc'[lock'[k]] \in Decided \cup {"examine"}
  BY DEF HolderAtWork
<1>0. lock[k] \in Calls \cup {Free}
  BY DEF Types
<1>1. ASSUME lock[k] # Free
      PROVE  /\ lock[k] \in Calls /\ op[lock[k]].kind \in LockedOps
             /\ Workspace[op[lock[k]].on] = k
             /\ pc[lock[k]] \in Decided \cup {"examine"}
  BY <1>0, <1>1 DEF HolderAtWork
<1>2. ASSUME NEW c \in Calls, OthersKept(c), lock'[k] = lock[k], lock[k] # c
      PROVE  /\ op'[lock'[k]].kind \in LockedOps
             /\ Workspace[op'[lock'[k]].on] = k
             /\ pc'[lock'[k]] \in Decided \cup {"examine"}
  <2>1. lock[k] \in Calls \ {c}
    BY <1>1, <1>2
  <2>2. pc'[lock[k]] = pc[lock[k]] /\ op'[lock[k]] = op[lock[k]]
    BY <1>2, <2>1 DEF OthersKept
  <2> QED
    BY <1>1, <1>2, <2>2
<1>3. ASSUME NEW c \in Calls, Begin(c)
      PROVE  lock'[k] = lock[k] /\ lock[k] # c /\ OthersKept(c)
  <2>1. lock' = lock /\ OthersKept(c) /\ pc[c] = "new"
    BY <1>3, Beginning
  <2> QED
    BY <1>1, <2>1
<1>4. ASSUME NEW c \in Calls, Lock(c)
      PROVE  /\ op'[lock'[k]].kind \in LockedOps
             /\ Workspace[op'[lock'[k]].on] = k
             /\ pc'[lock'[k]] \in Decided \cup {"examine"}
  <2>1. /\ OthersKept(c) /\ pc[c] = "lock" /\ pc'[c] = "examine" /\ op' = op
        /\ lock'[Key(c)] = c /\ (k # Key(c) => lock'[k] = lock[k])
    BY <1>4, Locking
  <2>2. CASE k = Key(c)
    <3>1. op[c].kind \in LockedOps
      BY <2>1 DEF KindOfStep
    <3> QED
      BY <2>1, <2>2, <3>1
  <2>3. CASE k # Key(c)
    <3>1. lock[k] # c
      BY <1>1, <2>1, <2>3
    <3> QED
      BY <1>2, <2>1, <2>3, <3>1
  <2> QED
    BY <2>2, <2>3
<1>5. ASSUME NEW c \in Calls, GivesUp(c)
      PROVE  /\ op'[lock'[k]].kind \in LockedOps
             /\ Workspace[op'[lock'[k]].on] = k
             /\ pc'[lock'[k]] \in Decided \cup {"examine"}
  <2>1. OthersKept(c) /\ (Left(c) \/ Moved(c))
    BY <1>5, Outcomes DEF Outcome
  <2>2. CASE Left(c)
    <3>1. lock[k] # c /\ lock'[k] = lock[k]
      BY <2>2 DEF Left
    <3> QED
      BY <1>2, <2>1, <3>1
  <2>3. CASE Moved(c) /\ lock[k] # c
    BY <1>2, <2>1, <2>3 DEF Moved
  <2>4. CASE Moved(c) /\ lock[k] = c
    <3>1. op'[c] = op[c] /\ lock'[k] = c
      BY <2>4 DEF Moved
    <3>2. op[c].kind \in LockedOps /\ Workspace[op[c].on] = k
      BY <1>1, <2>4
    <3>3. pc'[c] \in Decided
      BY <2>4, <3>2 DEF Moved
    <3> QED
      BY <3>1, <3>2, <3>3
  <2> QED
    BY <2>1, <2>2, <2>3, <2>4
<1>6. CASE Aside
  BY <1>1, <1>6 DEF Aside
<1> QED
  BY <1>2, <1>3, <1>4, <1>5, <1>6, StepKinds

(* The inductive invariant holds of every behaviour.                       *)
THEOREM Invariance == Spec => []IInv
<1>1. Init => IInv
  <2> SUFFICES ASSUME Init
               PROVE  IInv
    OBVIOUS
  <2>1. /\ WorktreeTypes /\ RecordTypes /\ CheckoutTypes
        /\ \A c \in Calls : pc[c] = "new" /\ op[c].kind = "none"
        /\ \A w \in Attempts : artifact[w] = NoArtifact
    <3>1. WorktreeTypes
      BY DEF Init, WorktreeTypes
    <3>2. RecordTypes
      BY DEF Init, RecordTypes
    <3>3. CheckoutTypes
      BY DEF Init, CheckoutTypes
    <3> QED
      BY <3>1, <3>2, <3>3, NoCallType DEF Init
  <2>2. CallTypes
    BY NoCallType DEF Init, CallTypes
  <2>3. Types
    BY <2>1, <2>2 DEF Types, WorktreeTypes, RecordTypes, CheckoutTypes,
       CallTypes
  <2>4. HolderAtWork
    BY DEF Init, HolderAtWork
  <2>5. \A w \in Attempts : tree[w] /\ status[w] = "kept"
    BY DEF Init
  <2>6. LockInv /\ ReadyToPatch /\ ArtifactInv
    BY <2>1 DEF LockInv, KindOfStep, HoldsLock, StatusCurrent, ReadyToPatch, Patching,
       ArtifactInv, WrittenFirst, ArtifactComplete
  <2>7. DiscardInv
    BY <2>1, <2>5 DEF DiscardInv, ShownFirst, Shown, DiscardAccounted
  <2> QED
    BY <2>3, <2>4, <2>6, <2>7 DEF IInv
<1>2. IInv /\ [Next]_vars => IInv'
  BY TypeStep, LockStep, HolderStep, PatchStep, DiscardStep, ArtifactStep DEF IInv, LockInv
<1> QED
  BY <1>1, <1>2, PTL DEF Spec

(* After any failure git and the record agree about a discard: what was    *)
(* removed had been shown or was written after the check, a worktree that  *)
(* is gone is recorded so unless its discard was cut off, and none is      *)
(* recorded so that is there (worktree_handoff.py, discard).               *)
THEOREM DiscardsAccountedFor == Spec => []DiscardAccounted
BY Invariance, PTL DEF IInv, DiscardInv

(* A lock of the handoff is held by a call at work in that workspace: one  *)
(* that ended, raised or crashed has given it back                         *)
(* (worktree_handoff.py, _handoff_lock).                                *)
THEOREM NoLockLeftBehind == Spec => []HolderAtWork
BY Invariance, PTL DEF IInv

(* The artifact that a record names can be read, whoever else makes one,   *)
(* and whatever fails (artifacts.py, create).                              *)
THEOREM NamedIsReadable == Spec => []ArtifactComplete
BY Invariance, PTL DEF IInv, ArtifactInv

(* Of the calls only one that leaves a patch undone, or finds the checkout *)
(* clean, changes whether a patch may follow.                              *)
CheckedNow == \E c \in Calls : pc[c] = "patch"

(* A step of a call that leaves the worktrees' fates and the checkout      *)
(* alone is a stutter, a check or a check given up.                        *)
LEMMA PromiseChecks ==
  ASSUME Types, KindOfStep, NEW c \in Calls, GivesUp(c),
         UNCHANGED <<Fate, laid, edited, delivered>>
  PROVE  [Promise!Next]_(Promise!vars)
<1>1. CASE CheckedNow' = CheckedNow
  BY <1>1 DEF Promise!vars, CheckedNow
<1>2. CASE CheckedNow /\ ~CheckedNow'
  <2>1. Promise!GiveUp
    BY <1>2 DEF Promise!GiveUp, CheckedNow
  <2> QED
    BY <2>1 DEF Promise!Next
<1>3. CASE ~CheckedNow /\ CheckedNow'
  <2>1. OthersKept(c) /\ (Left(c) \/ Moved(c))
    BY Outcomes DEF Outcome
  <2>2. pc'[c] = "patch" /\ Moved(c)
    BY <1>3, <2>1 DEF CheckedNow, OthersKept, Left
  <2>3. op[c].kind = "apply" /\ pc[c] = "recheck"
    BY <2>2 DEF Moved
  <2>4. ~Leave(c)
    <3>1. CallTypes
      BY DEF Types, CallTypes
    <3> QED
      BY <2>2, <3>1, Leaving
  <2>5. Recheck(c)
    BY <2>3, <2>4
       DEF GivesUp, ExamineApply, Patch, ExamineDiscard, Offer, RemoveTree, DeleteBranch,
           BranchRemains, Record, ExamineArtifact, Save, Describe, Name, Fail
  <2>6. laid = {} /\ ~edited
    BY <2>4, <2>5 DEF Recheck
  <2>7. Promise!Check
    BY <1>3, <2>6 DEF Promise!Check, CheckedNow
  <2> QED
    BY <2>7 DEF Promise!Next
<1> QED
  BY <1>1, <1>2, <1>3 DEF CheckedNow

(* A step of a call that is not at its patch leaves alone who is.          *)
LEMMA CheckedKept ==
  ASSUME NEW c \in Calls, OthersKept(c), pc[c] # "patch", pc'[c] # "patch"
  PROVE  CheckedNow' = CheckedNow
BY DEF CheckedNow, OthersKept

(* The step of the promise that a step of the calls makes.                 *)
LEMMA PromiseStep ==
  ASSUME IInv, [Next]_vars, OneWorkspace
  PROVE  [Promise!Next]_(Promise!vars)
<1>0. Types /\ LockInv /\ KindOfStep /\ CallTypes /\ ReadyToPatch
  BY DEF IInv, LockInv, Types, CallTypes
<1>1. ASSUME NEW c \in Calls, Patch(c)
      PROVE  [Promise!Next]_(Promise!vars)
  <2>1. /\ UNCHANGED <<Fate, edited>> /\ pc[c] = "patch" /\ op[c].kind = "apply"
        /\ \/ Leave(c) /\ UNCHANGED <<laid, delivered>>
           \/ /\ Goto(c, "record") /\ laid' = laid \cup {On(c)}
              /\ delivered' = delivered \cup {On(c)}
    BY <1>1 DEF Patch, Fate
  <2>2. CASE Leave(c) /\ UNCHANGED <<laid, delivered>>
    BY <1>0, <1>1, <2>1, <2>2, PromiseChecks DEF GivesUp
  <2>3. CASE /\ Goto(c, "record") /\ laid' = laid \cup {On(c)}
             /\ delivered' = delivered \cup {On(c)}
    <3>1. On(c) \in Attempts
      BY <1>0, <2>1 DEF KindOfStep
    <3>2. laid = {} /\ Fate[On(c)] = "kept"
      BY <1>0, <2>1, <3>1 DEF ReadyToPatch, Patching, LockInv, StatusCurrent, Fate
    <3>3. CheckedNow
      BY <2>1 DEF CheckedNow
    <3>4. ASSUME NEW d \in Calls
          PROVE  pc'[d] # "patch"
      <4>1. OthersKept(c) /\ pc'[c] = "record"
        BY <1>0, <2>3, Going DEF Steps
      <4>2. CASE d # c
        <5>1. pc[d] = "patch" => op[d].kind = "apply"
          BY <1>0 DEF KindOfStep
        <5>2. pc[d] # "patch"
          BY <1>0, <2>1, <4>2, <5>1, OneDecides
        <5> QED
          BY <4>1, <4>2, <5>2 DEF OthersKept
      <4> QED
        BY <4>1, <4>2
    <3>5. PICK w \in Attempts : w = On(c)
      BY <3>1
    <3>6. Promise!Lay(w)
      BY <2>1, <2>3, <3>2, <3>3, <3>4, <3>5 DEF Promise!Lay, CheckedNow
    <3> QED
      BY <3>6 DEF Promise!Next
  <2> QED
    BY <2>1, <2>2, <2>3
<1>2. ASSUME NEW c \in Calls, RemoveTree(c)
      PROVE  [Promise!Next]_(Promise!vars)
  <2>1. /\ op[c].kind = "confirm" /\ pc[c] = "remove" /\ Goto(c, "branch")
        /\ tree' = [tree EXCEPT ![On(c)] = FALSE] /\ UNCHANGED <<status, checkoutVars>>
    BY <1>2 DEF RemoveTree
  <2>2. On(c) \in Attempts /\ status[On(c)] # "applied" /\ CheckedNow' = CheckedNow
    BY <1>0, <2>1, Going, CheckedKept DEF LockInv, KindOfStep, StatusCurrent, Steps
  <2>3. Fate' = [Fate EXCEPT ![On(c)] = "removed"]
    BY <1>0, <2>1, <2>2 DEF Fate, Types
  <2>4. CASE tree[On(c)]
    <3>1. Promise!Remove(On(c))
      BY <2>1, <2>2, <2>3, <2>4 DEF Promise!Remove, Promise!Settle, Fate, CheckedNow
    <3> QED
      BY <2>2, <3>1 DEF Promise!Next
  <2>5. CASE ~tree[On(c)]
    BY <2>1, <2>2, <2>3, <2>5 DEF Fate, Promise!vars, CheckedNow
  <2> QED
    BY <2>4, <2>5
<1>3. ASSUME NEW c \in Calls, BranchRemains(c)
      PROVE  [Promise!Next]_(Promise!vars)
  <2>1. /\ op[c].kind = "confirm" /\ pc[c] = "branch"
        /\ status' = [status EXCEPT ![On(c)] = "branch_remains"]
        /\ UNCHANGED <<tree, checkoutVars>>
    BY <1>3 DEF BranchRemains
  <2>2. On(c) \in Attempts /\ status[On(c)] # "applied"
    BY <1>0, <2>1 DEF LockInv, KindOfStep, StatusCurrent
  <2>3. UNCHANGED Fate
    BY <1>0, <2>1, <2>2 DEF Fate, Types
  <2> QED
    BY <1>0, <1>3, <2>1, <2>3, PromiseChecks DEF GivesUp
<1>4. ASSUME NEW c \in Calls, Record(c)
      PROVE  [Promise!Next]_(Promise!vars)
  <2>1. /\ op[c].kind \in {"apply", "confirm"} /\ pc[c] = "record" /\ Leave(c)
        /\ UNCHANGED <<tree, checkoutVars>>
        /\ status' = [status EXCEPT ![On(c)] =
                        IF op[c].kind = "apply" THEN "applied" ELSE "discarded"]
    BY <1>4 DEF Record
  <2>2. On(c) \in Attempts /\ status[On(c)] # "applied" /\ CheckedNow' = CheckedNow
    BY <1>0, <2>1, Leaving, CheckedKept DEF LockInv, KindOfStep, StatusCurrent
  <2>3. CASE op[c].kind = "apply"
    <3>1. tree[On(c)] /\ On(c) \in delivered
      BY <1>0, <2>1, <2>3 DEF ReadyToPatch, Patching
    <3>2. status' = [status EXCEPT ![On(c)] = "applied"] /\ tree' = tree
      BY <2>1, <2>3
    <3>3. Fate[On(c)] = "kept"
      BY <2>2, <3>1 DEF Fate
    <3>4. Fate' = [Fate EXCEPT ![On(c)] = "applied"]
      <4>1. /\ status'[On(c)] = "applied"
            /\ \A w \in Attempts \ {On(c)} : status'[w] = status[w]
        BY <1>0, <2>2, <3>2 DEF Types
      <4> QED
        BY <2>2, <3>1, <3>2, <4>1 DEF Fate
    <3>5. Promise!Apply(On(c))
      BY <2>1, <2>2, <3>1, <3>3, <3>4 DEF Promise!Apply, Promise!Settle, CheckedNow
    <3> QED
      BY <2>2, <3>5 DEF Promise!Next
  <2>4. CASE op[c].kind = "confirm"
    <3>1. status' = [status EXCEPT ![On(c)] = "discarded"] /\ tree' = tree
      BY <2>1, <2>4
    <3>2. UNCHANGED Fate
      BY <1>0, <2>2, <3>1 DEF Fate, Types
    <3> QED
      BY <1>0, <1>4, <2>1, <3>2, PromiseChecks DEF GivesUp
  <2> QED
    BY <2>1, <2>3, <2>4
<1>5. CASE UserCommits \/ UserReverts
  <2>1. Promise!Clear
    BY <1>5 DEF UserCommits, UserReverts, Promise!Clear, Fate
  <2> QED
    BY <2>1 DEF Promise!Next
<1>6. CASE UserEdits
  <2>1. Promise!Edit
    BY <1>6 DEF UserEdits, Promise!Edit, Fate
  <2> QED
    BY <2>1 DEF Promise!Next
<1>7. ASSUME NEW c \in Calls, GivesUp(c)
      PROVE  \/ Patch(c) \/ RemoveTree(c) \/ BranchRemains(c) \/ Record(c)
             \/ UNCHANGED <<tree, status, laid, edited, delivered>>
  BY <1>7 DEF GivesUp, ExamineApply, Recheck, ExamineDiscard, Offer, DeleteBranch,
     ExamineArtifact, Save, Describe, Name, Fail
<1>8. ASSUME NEW c \in Calls, GivesUp(c), UNCHANGED <<tree, status, laid, edited, delivered>>
      PROVE  [Promise!Next]_(Promise!vars)
  <2>1. UNCHANGED Fate
    BY <1>8 DEF Fate
  <2> QED
    BY <1>0, <1>8, <2>1, PromiseChecks
<1>9. ASSUME NEW c \in Calls, Begin(c) \/ Lock(c)
      PROVE  [Promise!Next]_(Promise!vars)
  <2>1. /\ OthersKept(c) /\ pc[c] # "patch" /\ pc'[c] # "patch"
        /\ UNCHANGED <<worktreeVars, recordVars, checkoutVars>>
    BY <1>0, <1>9, Beginning, Locking
  <2>2. CheckedNow' = CheckedNow /\ UNCHANGED Fate
    BY <2>1, CheckedKept DEF Fate
  <2> QED
    BY <2>1, <2>2 DEF Promise!vars, CheckedNow
<1>10. ASSUME UNCHANGED <<pc, tree, status, checkoutVars>>
       PROVE  [Promise!Next]_(Promise!vars)
  BY <1>10 DEF Promise!vars, Fate
<1>11. \/ \E c \in Calls : Begin(c) \/ Lock(c) \/ GivesUp(c)
       \/ UserEdits \/ UserCommits \/ UserReverts
       \/ UNCHANGED <<pc, tree, status, checkoutVars>>
  <2>1. \A c \in Calls : CallNext(c) \/ Fail(c) => Lock(c) \/ GivesUp(c)
    BY DEF CallNext, GivesUp
  <2> QED
    BY <2>1 DEF Next, vars, WorkerWrites
<1> QED
  BY <1>1, <1>2, <1>3, <1>4, <1>5, <1>6, <1>7, <1>8, <1>9, <1>10, <1>11

(* Where the attempts of a repository have one workspace, and so one lock, *)
(* each worktree is treated as WorktreeFate says: recorded as applied,     *)
(* after its patch was laid, or removed, never both; a patch is laid on no *)
(* other one and after one check that found the checkout clean, whatever   *)
(* the user does to it before and after that check (worktree_handoff.py,   *)
(* apply and discard).                                                     *)
THEOREM PromiseKept ==
  ASSUME OneWorkspace
  PROVE  Spec => KeepsPromise
<1>1. Init => Promise!Init
  BY DEF Init, Promise!Init, Fate
<1>2. IInv /\ [Next]_vars => [Promise!Next]_(Promise!vars)
  BY PromiseStep
<1> QED
  BY <1>1, <1>2, Invariance, PTL DEF Spec, KeepsPromise, Promise!Spec
=============================================================================
