------------------------------- MODULE Handoff -------------------------------
(***************************************************************************)
(* The worktrees that finished attempts left behind in one repository, and *)
(* the calls that inspect, apply and discard them and make artifacts of    *)
(* them.  Each call is a sequence of git commands and store calls; others  *)
(* act in between: calls of other threads and processes, the user in the   *)
(* source checkout, and a provider that outlives its server process and    *)
(* still writes to the worktree of a task recorded as interrupted.         *)
(***************************************************************************)
EXTENDS Naturals, SequencesExt, Functions

CONSTANTS
  Attempts,          \* the recorded attempts of terminal tasks
  NumCalls,          \* bound on the calls
  Workspace,         \* of each attempt; all are in the one repository
  MaxEdits,          \* bound on the changes to the worktrees after their tasks ended
  MaxCommits,        \* bound on the user's commits; he changes nothing after the last
  MaxFaults          \* bound on crashes and on store and git failures

ASSUME HandoffAssumption ==
  /\ DOMAIN Workspace = Attempts /\ NumCalls \in Nat
  /\ MaxEdits \in Nat /\ MaxCommits \in Nat /\ MaxFaults \in Nat

VARIABLES
  content, tree, branch,   \* of each worktree: version of its files; whether it
                           \* and its branch are there
  mishap,                  \* of each worktree, what befell a discard of it: "late",
                           \* a write after the check; "cut", a failure after the removal
  status, tokens,          \* in its record: handoff_status; versions shown with each
                           \* token that was issued, the last of which counts
  artifact,                \* the artifact the record names: the call that made it
  files,                   \* the artifact files on disk, of <<call, name>>
  laid, edited, merged,    \* the checkout: patches laid on it, whether the user
  delivered, head,         \* changed it too, patches committed, patches laid at some
                           \* time, number of commits
  lock,                    \* holder of the handoff lock, by workspace
  pc, op, view,            \* of each call; view is what it read
  faults

worktreeVars == <<content, tree, branch, mishap>>
recordVars == <<status, tokens, artifact>>
checkoutVars == <<laid, edited, merged, delivered, head>>
callVars == <<lock, pc, op, view>>
vars == <<worktreeVars, recordVars, files, checkoutVars, callVars, faults>>

Calls == 1..NumCalls   \* in the order in which they begin
Keys == {Workspace[w] : w \in Attempts}
Free == 0
NoArtifact == 0
Ops == {"apply", "discard", "confirm", "artifact"}
NoCall == [kind |-> "none", on |-> CHOOSE w \in Attempts : TRUE, token |-> 0]
NoView == [status |-> "kept", shown |-> 0, head |-> 0]

TypeOK ==
  /\ content \in [Attempts -> 0..MaxEdits] /\ tree \in [Attempts -> BOOLEAN]
  /\ branch \in [Attempts -> BOOLEAN] /\ mishap \in [Attempts -> SUBSET {"late", "cut"}]
  /\ status \in [Attempts -> {"kept", "applied", "discarded", "branch_remains"}]
  /\ tokens \in [Attempts -> Seq(0..MaxEdits)]
  /\ artifact \in [Attempts -> Calls \cup {NoArtifact}]
  /\ files \subseteq Calls \X {"patch", "metadata"}
  /\ laid \subseteq Attempts /\ merged \subseteq Attempts /\ delivered \subseteq Attempts
  /\ edited \in BOOLEAN /\ head \in 0..MaxCommits
  /\ lock \in [Keys -> Calls \cup {Free}]
  /\ pc \in [Calls -> {"new", "lock", "examine", "recheck", "patch", "offer", "remove",
                       "branch", "record", "save", "describe", "name", "ended"}]
  /\ op \in [Calls -> [kind : Ops \cup {"none"}, on : Attempts, token : Nat]]
  /\ view \in [Calls -> [status : {"kept", "applied", "discarded", "branch_remains"},
                         shown : 0..MaxEdits, head : 0..MaxCommits]]
  /\ faults \in 0..MaxFaults
  /\ \A k \in Keys : lock[k] # Free =>
       Workspace[op[lock[k]].on] = k /\ pc[lock[k]] \notin {"new", "lock", "ended"}

Init ==
  /\ content = [w \in Attempts |-> 0] /\ tree = [w \in Attempts |-> TRUE]
  /\ branch = [w \in Attempts |-> TRUE] /\ mishap = [w \in Attempts |-> {}]
  /\ status = [w \in Attempts |-> "kept"] /\ tokens = [w \in Attempts |-> <<>>]
  /\ artifact = [w \in Attempts |-> NoArtifact] /\ files = {}
  /\ laid = {} /\ edited = FALSE /\ merged = {} /\ delivered = {} /\ head = 0
  /\ lock = [k \in Keys |-> Free]
  /\ pc = [c \in Calls |-> "new"] /\ view = [c \in Calls |-> NoView]
  /\ op = [c \in Calls |-> NoCall]
  /\ faults = 0

-----------------------------------------------------------------------------
(* A call: _select, the lock, _select again.                                *)

On(c) == op[c].on
Key(c) == Workspace[On(c)]
\* git status of the checkout, which does not tell whose the changes are.
Clean == laid = {} /\ ~edited
Goto(c, p) == pc' = [pc EXCEPT ![c] = p] /\ UNCHANGED <<lock, op, view>>

\* Return or raise, out of the lock.
Leave(c) ==
  /\ pc' = [pc EXCEPT ![c] = "ended"]
  /\ lock' = [k \in Keys |-> IF lock[k] = c THEN Free ELSE lock[k]]
  /\ op' = [op EXCEPT ![c] = NoCall] /\ view' = [view EXCEPT ![c] = NoView]

Begin(c) ==
  /\ pc[c] = "new" /\ \A d \in 1..(c - 1) : pc[d] # "new"
  /\ \E kind \in Ops, w \in Attempts :
       /\ \E n \in (IF kind = "confirm" THEN 1..Len(tokens[w]) ELSE {0}) :
            op' = [op EXCEPT ![c] = [kind |-> kind, on |-> w, token |-> n]]
       /\ view' = [view EXCEPT ![c].status = status[w]]
       /\ pc' = [pc EXCEPT ![c] = IF kind = "artifact" THEN "examine" ELSE "lock"]
  /\ UNCHANGED <<worktreeVars, recordVars, files, checkoutVars, lock, faults>>

\* The record is read again inside the lock.
Lock(c) ==
  /\ pc[c] = "lock" /\ lock[Key(c)] = Free
  /\ lock' = [lock EXCEPT ![Key(c)] = c]
  /\ pc' = [pc EXCEPT ![c] = "examine"]
  /\ view' = [view EXCEPT ![c].status = status[On(c)]] /\ UNCHANGED op
  /\ UNCHANGED <<worktreeVars, recordVars, files, checkoutVars, faults>>

\* _inspect of a managed worktree, and _snapshot; no changes at all, and reported
\* files that git ignores, are refusals.
Inspected(c) == tree[On(c)] /\ branch[On(c)]
LookAndGoto(c, p) ==
  /\ view' = [view EXCEPT ![c].shown = content[On(c)], ![c].head = head]
  /\ pc' = [pc EXCEPT ![c] = p] /\ UNCHANGED <<lock, op>>

CallStep(c, kind, at) == op[c].kind \in kind /\ pc[c] = at

\* apply: any refusal leaves everything as it was.
ExamineApply(c) ==
  /\ CallStep(c, {"apply"}, "examine")
  /\ \/ Leave(c)
     \/ /\ view[c].status \notin {"applied", "discarded"} /\ Inspected(c) /\ Clean
        /\ LookAndGoto(c, "recheck")
  /\ UNCHANGED <<worktreeVars, recordVars, files, checkoutVars, faults>>

\* git apply --check; then the checkout and the worker's snapshot once more.  A
\* patch that is in the checkout already does not apply again.
RecheckIf(c, unchanged) ==
  /\ CallStep(c, {"apply"}, "recheck")
  /\ \/ Leave(c)
     \/ /\ On(c) \notin merged \cup laid /\ unchanged
        /\ Inspected(c) /\ content[On(c)] = view[c].shown
        /\ Goto(c, "patch")
  /\ UNCHANGED <<worktreeVars, recordVars, files, checkoutVars, faults>>

\* Variant: only the worker's snapshot is taken again.
RecheckWorker(c) == RecheckIf(c, TRUE)
Recheck(c) == RecheckIf(c, Clean /\ head = view[c].head)

\* The user may have changed the checkout since; git refuses what does not fit.
Patch(c) ==
  /\ CallStep(c, {"apply"}, "patch")
  /\ \/ Leave(c) /\ UNCHANGED <<laid, delivered>>
     \/ /\ On(c) \notin merged \cup laid /\ Goto(c, "record")
        /\ laid' = laid \cup {On(c)} /\ delivered' = delivered \cup {On(c)}
  /\ UNCHANGED <<worktreeVars, recordVars, files, edited, merged, head, faults>>

\* discard: the digest of the first call is kept with the token.
ConfirmsLast(c) == op[c].token = Len(tokens[On(c)])
ExamineDiscard(c) ==
  /\ CallStep(c, {"discard", "confirm"}, "examine")
  /\ \/ Leave(c)
     \/ /\ view[c].status \notin {"applied", "discarded"} /\ Inspected(c)
        /\ op[c].kind = "confirm" =>
             ConfirmsLast(c) /\ Last(tokens[On(c)]) = content[On(c)]
        /\ LookAndGoto(c, IF op[c].kind = "confirm" THEN "remove" ELSE "offer")
  /\ UNCHANGED <<worktreeVars, recordVars, files, checkoutVars, faults>>

Offer(c) ==
  /\ CallStep(c, {"discard"}, "offer") /\ Leave(c)
  /\ tokens' = [tokens EXCEPT ![On(c)] = Append(@, view[c].shown)]
  /\ UNCHANGED <<worktreeVars, status, artifact, files, checkoutVars, faults>>

\* git worktree remove --force: whatever is in the tree now goes.
RemoveTree(c) ==
  /\ CallStep(c, {"confirm"}, "remove")
  /\ tree' = [tree EXCEPT ![On(c)] = FALSE] /\ Goto(c, "branch")
  /\ UNCHANGED <<content, branch, mishap, recordVars, files, checkoutVars, faults>>

DeleteBranch(c) ==
  /\ CallStep(c, {"confirm"}, "branch")
  /\ branch' = [branch EXCEPT ![On(c)] = FALSE] /\ Goto(c, "record")
  /\ UNCHANGED <<content, tree, mishap, recordVars, files, checkoutVars, faults>>

BranchRemainsAs(c, s) ==
  /\ CallStep(c, {"confirm"}, "branch") /\ faults < MaxFaults /\ faults' = faults + 1
  /\ status' = [status EXCEPT ![On(c)] = s] /\ Leave(c)
  /\ UNCHANGED <<worktreeVars, tokens, artifact, files, checkoutVars>>

\* Variant: the failure to delete the branch is raised before anything is recorded.
BranchUnrecorded(c) == BranchRemainsAs(c, status[On(c)])
BranchRemains(c) == BranchRemainsAs(c, "branch_remains")

Record(c) ==
  /\ CallStep(c, {"apply", "confirm"}, "record") /\ Leave(c)
  /\ status' = [status EXCEPT ![On(c)] =
                  IF op[c].kind = "apply" THEN "applied" ELSE "discarded"]
  /\ UNCHANGED <<worktreeVars, tokens, artifact, files, checkoutVars, faults>>

-----------------------------------------------------------------------------
(* ArtifactStore.create, which takes no lock but one of its own artifact.   *)

Readable(c) == <<c, "patch">> \in files /\ <<c, "metadata">> \in files

\* An artifact that is there is returned.
ExamineArtifact(c) ==
  /\ CallStep(c, {"artifact"}, "examine")
  /\ \/ Leave(c)
     \/ artifact[On(c)] = NoArtifact /\ Inspected(c) /\ LookAndGoto(c, "save")
  /\ UNCHANGED <<worktreeVars, recordVars, files, checkoutVars, faults>>

WriteFile(c, at, name, next) ==
  /\ CallStep(c, {"artifact"}, at) /\ Goto(c, next)
  /\ files' = files \cup {<<c, name>>}
  /\ UNCHANGED <<worktreeVars, recordVars, checkoutVars, faults>>

Save(c) == WriteFile(c, "save", "patch", "describe")

\* Variant: the record is updated before the metadata file is there.
NameFirst(c) ==
  \/ artifact[On(c)] = c /\ WriteFile(c, "describe", "metadata", "name")
  \/ /\ CallStep(c, {"artifact"}, "describe") /\ artifact[On(c)] # c
     /\ artifact' = [artifact EXCEPT ![On(c)] = c] /\ Goto(c, "describe")
     /\ UNCHANGED <<worktreeVars, status, tokens, files, checkoutVars, faults>>
Describe(c) == WriteFile(c, "describe", "metadata", "name")

Name(c) ==
  /\ CallStep(c, {"artifact"}, "name") /\ Leave(c)
  /\ artifact' = [artifact EXCEPT ![On(c)] = c]
  /\ UNCHANGED <<worktreeVars, status, tokens, files, checkoutVars, faults>>

-----------------------------------------------------------------------------
(* Failures, the user and the provider.                                     *)

\* A git command or a store call that raises ends the call, and so does a crash:
\* the operating system releases the lock.
Busy(c) == pc[c] \notin {"new", "ended"}
HasRemoved(c) == op[c].kind = "confirm" /\ pc[c] \in {"branch", "record"}
FailAs(c, release) ==
  /\ Busy(c) /\ faults < MaxFaults /\ faults' = faults + 1
  /\ IF release THEN Leave(c) ELSE Goto(c, "ended")
  /\ mishap' = [w \in Attempts |->
                  mishap[w] \cup IF HasRemoved(c) /\ w = On(c) THEN {"cut"} ELSE {}]
  /\ UNCHANGED <<content, tree, branch, recordVars, files, checkoutVars>>

\* Variant: the lock is the existence of its file.
FailLocked(c) == FailAs(c, FALSE)
Fail(c) == FailAs(c, TRUE)

Edits == FoldFunction(+, 0, content)
BeingRemoved(w) == \E c \in Calls : pc[c] = "remove" /\ On(c) = w
WorkerWrites(w) ==
  /\ tree[w] /\ Edits < MaxEdits /\ content' = [content EXCEPT ![w] = @ + 1]
  /\ mishap' = [mishap EXCEPT ![w] = @ \cup IF BeingRemoved(w) THEN {"late"} ELSE {}]
  /\ UNCHANGED <<tree, branch, recordVars, files, checkoutVars, callVars, faults>>

\* The user changes files at any time, between a check and its patch as well.
UserEdits ==
  /\ ~edited /\ head < MaxCommits /\ edited' = TRUE
  /\ UNCHANGED <<worktreeVars, recordVars, files, laid, merged, delivered, head, callVars,
                 faults>>

UserCommits ==
  /\ ~Clean /\ head < MaxCommits /\ head' = head + 1
  /\ merged' = merged \cup laid /\ laid' = {} /\ edited' = FALSE
  /\ UNCHANGED <<worktreeVars, recordVars, files, delivered, callVars, faults>>

UserReverts ==
  /\ ~Clean /\ laid' = {} /\ edited' = FALSE
  /\ UNCHANGED <<worktreeVars, recordVars, files, merged, delivered, head, callVars, faults>>

CallNext(c) ==
  \/ Lock(c) \/ ExamineApply(c) \/ Recheck(c) \/ Patch(c)
  \/ ExamineDiscard(c) \/ Offer(c) \/ RemoveTree(c) \/ DeleteBranch(c) \/ BranchRemains(c)
  \/ Record(c) \/ ExamineArtifact(c) \/ Save(c) \/ Describe(c) \/ Name(c)

Next ==
  \/ \E c \in Calls : Begin(c) \/ CallNext(c) \/ Fail(c)
  \/ \E w \in Attempts : WorkerWrites(w)
  \/ UserEdits \/ UserCommits \/ UserReverts

Spec == Init /\ [][Next]_vars

\* The threads of the calls run, which poll for the lock: as long as some call can go
\* on, one does.  Each takes finitely many steps, so this is all that is needed.
LiveSpec == Spec /\ WF_vars(\E c \in Calls : CallNext(c))

-----------------------------------------------------------------------------
Fate == [w \in Attempts |->
           IF ~tree[w] THEN "removed"
           ELSE IF status[w] = "applied" THEN "applied" ELSE "kept"]
Promise == INSTANCE WorktreeFate WITH
  fate <- Fate, laid <- laid, edited <- edited, delivered <- delivered,
  checked <- \E c \in Calls : pc[c] = "patch"

\* Under one lock for all of them, calls that interleave, fail and are repeated
\* treat each worktree as WorktreeFate says: recorded as applied, once its patch was
\* laid, or removed, and not both; a patch is laid after a check that found the
\* checkout clean, and on top of no other one, whatever the user does meanwhile.
KeepsPromise == Promise!Spec

\* Git and the record agree about a discard, whichever step of it fails.  What was
\* removed had been shown with the last token, but for a write after the check.  The
\* record of a worktree that is gone says so, but for a failure between the removal
\* and the record, which no later call mends.  It says that only when it is true.
DiscardAccounted ==
  \A w \in Attempts :
    /\ ~tree[w] => /\ "late" \in mishap[w] \/ content[w] = Last(tokens[w])
                   /\ \/ status[w] \in {"discarded", "branch_remains"}
                      \/ "cut" \in mishap[w]
                      \/ \E c \in Calls : HasRemoved(c) /\ On(c) = w
    /\ status[w] = "discarded" => ~tree[w] /\ ~branch[w]
    /\ status[w] = "branch_remains" => ~tree[w]

\* The artifact a record names can be read by the tasks that inherit it, whoever
\* else made one and whatever failed.
ArtifactComplete ==
  \A w \in Attempts : artifact[w] # NoArtifact => Readable(artifact[w])

\* No call waits for ever for a lock whose holder failed: again and again all calls
\* that have begun have ended, and as there are finitely many of them, each ends.
CallsEnd == []<>(\A c \in Calls : ~Busy(c))
=============================================================================
