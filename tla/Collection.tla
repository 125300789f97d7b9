------------------------------ MODULE Collection ------------------------------
(***************************************************************************)
(* Collection of finished state beside the calls that make and use it.     *)
(* RunStore.gc and RunStore.clear_completed list the task records of a     *)
(* workspace, read them one by one, and delete some of them file by file;  *)
(* gc then deletes finished trees of direct agent sessions.  Meanwhile     *)
(* tasks are submitted, end and get artifacts, a session works, reports    *)
(* events of child agents and is asked to cancel.                          *)
(*                                                                         *)
(* One workspace is collected.  The tree of sessions has Root, child       *)
(* agents its provider reports, and agents started for tasks with Root as  *)
(* parent, which may work in a worktree, another workspace.  Ages, counts  *)
(* and log sizes only choose which candidates a collection takes, and any  *)
(* subset may be chosen.                                                   *)
(***************************************************************************)
EXTENDS Naturals, FiniteSets

CONSTANTS
  Task, DependsOn,     \* the dependencies a task is submitted with
  Inherited,           \* the tasks whose artifact somebody asks for
  Root, Native, Started,   \* sessions: the parent, reported and started children
  Here,                \* the sessions in the collected workspace
  MaxCollections,      \* bound on calls of gc and clear_completed
  MaxFaults,           \* bound on file errors and deaths of a collector
  MaxEvents            \* bound on turns, agents and events of the session

Sessions == {Root} \cup Native \cup Started

ASSUME CollectionAssumption ==
  /\ DependsOn \in [Task -> SUBSET Task] /\ Root \notin Native \cup Started
  /\ Here \subseteq Sessions /\ Inherited \subseteq Task
  /\ MaxCollections \in Nat /\ MaxFaults \in Nat /\ MaxEvents \in Nat

Collector == 1..MaxCollections

VARIABLES
  record, named,           \* "none", "active", "terminal" or "gone"; artifact_id is set
  result, artifact,        \* the files a record refers to exist
  checked, making,         \* tasks between two steps of submit, of artifacts.create
  lock,                    \* of each task: its collector, 0 when free
  phase, kind,             \* of each collection: its step, and the method
  todo, keep, picks,       \* paths still to visit, active dependencies, candidates
  current,                 \* the tasks whose files it is removing
  trees,                   \* the session rows it read and will delete
  known,                   \* history: the tasks that were active when it began, but
                           \* for those whose record it could not read
  row, cancelFlag,         \* of each session: state ("idle" for every state in
                           \* _TERMINAL_STATES), metadata.cancel_requested
  event,                   \* the event being recorded: step, session, metadata read
  faults, events

taskVars == <<record, named, result, artifact, checked, making>>
sessionVars == <<row, cancelFlag, event, events>>
planVars == <<kind, todo, keep, picks, known>>
vars == <<taskVars, lock, phase, planVars, current, trees, sessionVars, faults>>

Present == {t \in Task : record[t] \in {"active", "terminal"}}
Active == {t \in Task : record[t] = "active"}

NoEvent == [step |-> "none", session |-> Root, found |-> FALSE, flag |-> FALSE]

TypeOK ==
  /\ record \in [Task -> {"none", "active", "terminal", "gone"}]
  /\ named \in [Task -> BOOLEAN] /\ result \in [Task -> BOOLEAN]
  /\ artifact \in [Task -> BOOLEAN] /\ checked \subseteq Task /\ making \subseteq Task
  /\ lock \in [Task -> 0..MaxCollections]
  /\ phase \in [Collector -> {"new", "scan", "delete", "unlink", "trees", "prune", "ended"}]
  /\ kind \in [Collector -> {"gc", "clear"}]
  /\ \A f \in {todo, keep, picks, current} : f \in [Collector -> SUBSET Task]
  /\ known \in [Collector -> SUBSET Task]
  /\ trees \in [Collector -> SUBSET Sessions]
  /\ row \in [Sessions -> {"none", "running", "idle"}]
  /\ cancelFlag \in [Sessions -> BOOLEAN]
  /\ event \in [step : {"none", "count", "child"}, session : Sessions,
                found : BOOLEAN, flag : BOOLEAN]
  /\ faults \in 0..MaxFaults /\ events \in 0..MaxEvents

Init ==
  /\ record = [t \in Task |-> "none"] /\ named = [t \in Task |-> FALSE]
  /\ result = [t \in Task |-> FALSE] /\ artifact = [t \in Task |-> FALSE]
  /\ checked = {} /\ making = {}
  /\ lock = [t \in Task |-> 0]
  /\ phase = [c \in Collector |-> "new"] /\ kind = [c \in Collector |-> "gc"]
  /\ todo = [c \in Collector |-> {}] /\ keep = todo /\ picks = todo
  /\ current = todo /\ known = todo
  /\ trees = [c \in Collector |-> {}]
  /\ row = [s \in Sessions |-> IF s = Root THEN "running" ELSE "none"]
  /\ cancelFlag = [s \in Sessions |-> FALSE]
  /\ event = NoEvent /\ faults = 0 /\ events = 0

collectorVars == <<lock, phase, planVars, current, trees>>

-----------------------------------------------------------------------------
(* Tasks.                                                                   *)

\* submit looks at the dependencies, and records the task later.
SubmitCheck(t) ==
  /\ record[t] = "none" /\ t \notin checked /\ DependsOn[t] \subseteq Present
  /\ checked' = checked \cup {t}
  /\ UNCHANGED <<record, named, result, artifact, making, collectorVars, sessionVars, faults>>

SubmitRecord(t) ==
  /\ t \in checked /\ checked' = checked \ {t}
  /\ record' = [record EXCEPT ![t] = "active"]
  /\ UNCHANGED <<named, result, artifact, making, collectorVars, sessionVars, faults>>

\* complete_task under the task's lock: output and result, then the record.
Complete(t) ==
  /\ record[t] = "active" /\ lock[t] = 0
  /\ result' = [result EXCEPT ![t] = TRUE]
  /\ record' = [record EXCEPT ![t] = "terminal"]
  /\ UNCHANGED <<named, artifact, checked, making, collectorVars, sessionVars, faults>>

\* TaskArtifacts.create: the files first, then artifact_id in the record.
MakeArtifact(t) ==
  /\ t \in Inherited \ making /\ record[t] = "terminal" /\ ~named[t]
  /\ artifact' = [artifact EXCEPT ![t] = TRUE] /\ making' = making \cup {t}
  /\ UNCHANGED <<record, named, result, checked, collectorVars, sessionVars, faults>>

\* A record that is gone, or a lock that is not free in time, leaves the files
\* without a name.
NameArtifact(t) ==
  /\ t \in making /\ making' = making \ {t}
  /\ \/ named' = [named EXCEPT ![t] = record[t] = "terminal" /\ lock[t] = 0]
     \/ lock[t] # 0 /\ UNCHANGED named
  /\ UNCHANGED <<record, result, artifact, checked, collectorVars, sessionVars, faults>>

-----------------------------------------------------------------------------
(* Collections of task records.                                             *)

Goto(c, p) == phase' = [phase EXCEPT ![c] = p]

Begin(c) ==
  /\ phase[c] = "new" /\ \A d \in 1..(c - 1) : phase[d] # "new"
  /\ Goto(c, "scan") /\ \E k \in {"gc", "clear"} : kind' = [kind EXCEPT ![c] = k]
  /\ todo' = [todo EXCEPT ![c] = Present]
  /\ known' = [known EXCEPT ![c] = Active]
  /\ UNCHANGED <<keep, picks, lock, current, trees, taskVars, sessionVars, faults>>

\* A record that cannot be read (_read_record gives None).
Unreadable == faults < MaxFaults /\ faults' = faults + 1

\* The record of one path.  A path whose record was deleted since, or cannot be
\* read, is skipped: nothing is kept for a task that may be active.
Read(c, t) ==
  /\ phase[c] = "scan" /\ t \in todo[c]
  /\ todo' = [todo EXCEPT ![c] = @ \ {t}]
  /\ \/ /\ keep' = [keep EXCEPT ![c] = IF record[t] = "active" THEN @ \cup DependsOn[t] ELSE @]
        /\ picks' = [picks EXCEPT ![c] = IF record[t] = "terminal" THEN @ \cup {t} ELSE @]
        /\ UNCHANGED <<known, faults>>
     \/ /\ Unreadable /\ known' = [known EXCEPT ![c] = @ \ {t}]
        /\ UNCHANGED <<keep, picks>>
  /\ UNCHANGED <<phase, kind, lock, current, trees, taskVars, sessionVars>>

\* The paths to delete: gc takes those candidates that no active record needed
\* and that are too old or too many; clear_completed lists the directory again.
Planned(c) ==
  IF kind[c] = "gc" THEN SUBSET (picks[c] \ keep[c]) ELSE {Present \ keep[c]}

\* A single pass, which deletes before it has read every record.
PlanWhileReading(c) ==
  /\ phase[c] = "scan" /\ Goto(c, "delete")
  /\ \E ts \in Planned(c) : todo' = [todo EXCEPT ![c] = ts]
  /\ keep' = [keep EXCEPT ![c] = {}] /\ picks' = [picks EXCEPT ![c] = {}]
  /\ UNCHANGED <<kind, known, lock, current, trees, taskVars, sessionVars, faults>>

Plan(c) ==
  /\ phase[c] = "scan" /\ todo[c] = {} /\ Goto(c, "delete")
  /\ \E ts \in Planned(c) : todo' = [todo EXCEPT ![c] = ts]
  /\ keep' = [keep EXCEPT ![c] = {}] /\ picks' = [picks EXCEPT ![c] = {}]
  /\ UNCHANGED <<kind, known, lock, current, trees, taskVars, sessionVars, faults>>

\* The files that belong to the record go first.
UnlinkResultFirst(c, t) ==
  /\ phase[c] = "delete" /\ t \in todo[c] /\ lock[t] = 0 /\ record[t] = "terminal"
  /\ lock' = [lock EXCEPT ![t] = c] /\ current' = [current EXCEPT ![c] = {t}]
  /\ result' = [result EXCEPT ![t] = FALSE]
  /\ Goto(c, "unlink") /\ todo' = [todo EXCEPT ![c] = @ \ {t}]
  /\ UNCHANGED <<kind, keep, picks, known, named, record, artifact, checked, making,
                 trees, sessionVars, faults>>

\* Under the lock the record is read again, and removed if it is terminal.
Unlink(c, t) ==
  /\ phase[c] = "delete" /\ t \in todo[c] /\ lock[t] = 0 /\ record[t] = "terminal"
  /\ lock' = [lock EXCEPT ![t] = c] /\ current' = [current EXCEPT ![c] = {t}]
  /\ record' = [record EXCEPT ![t] = "gone"]
  /\ Goto(c, "unlink") /\ todo' = [todo EXCEPT ![c] = @ \ {t}]
  /\ UNCHANGED <<kind, keep, picks, known, named, result, artifact, checked, making,
                 trees, sessionVars, faults>>

\* A lock that is not free within its short time, or a record that is not
\* terminal or cannot be read.
Skip(c, t) ==
  /\ phase[c] = "delete" /\ t \in todo[c] /\ todo' = [todo EXCEPT ![c] = @ \ {t}]
  /\ \/ (lock[t] # 0 \/ record[t] # "terminal") /\ UNCHANGED faults
     \/ Unreadable
  /\ UNCHANGED <<phase, kind, keep, picks, known, lock, current, trees, taskVars, sessionVars>>

\* Events, result and output; then the artifact the record named.
UnlinkFiles(c) ==
  /\ phase[c] = "unlink"
  /\ result' = [t \in Task |-> result[t] /\ t \notin current[c]]
  /\ artifact' = [t \in Task |-> artifact[t] /\ ~(t \in current[c] /\ named[t])]
  /\ named' = [t \in Task |-> named[t] /\ t \notin current[c]]
  /\ lock' = [t \in Task |-> IF lock[t] = c THEN 0 ELSE lock[t]]
  /\ current' = [current EXCEPT ![c] = {}] /\ Goto(c, "delete")
  /\ UNCHANGED <<record, checked, making, planVars, trees, sessionVars, faults>>

\* A file that cannot be removed: the rest of this task's files stay.
UnlinkFails(c) ==
  /\ phase[c] = "unlink" /\ faults < MaxFaults /\ faults' = faults + 1
  /\ lock' = [t \in Task |-> IF lock[t] = c THEN 0 ELSE lock[t]]
  /\ named' = [t \in Task |-> named[t] /\ t \notin current[c]]
  /\ current' = [current EXCEPT ![c] = {}] /\ Goto(c, "delete")
  /\ UNCHANGED <<record, result, artifact, checked, making, planVars, trees, sessionVars>>

\* The process dies; the system frees its lock.
Die(c) ==
  /\ phase[c] \notin {"new", "ended"} /\ faults < MaxFaults /\ faults' = faults + 1
  /\ lock' = [t \in Task |-> IF lock[t] = c THEN 0 ELSE lock[t]]
  /\ named' = [t \in Task |-> named[t] /\ t \notin current[c]]
  /\ Goto(c, "ended") /\ kind' = [kind EXCEPT ![c] = "gc"]
  /\ todo' = [todo EXCEPT ![c] = {}] /\ keep' = [keep EXCEPT ![c] = {}]
  /\ picks' = [picks EXCEPT ![c] = {}] /\ known' = [known EXCEPT ![c] = {}]
  /\ current' = [current EXCEPT ![c] = {}] /\ trees' = [trees EXCEPT ![c] = {}]
  /\ UNCHANGED <<record, result, artifact, checked, making, sessionVars>>

Deleted(c) ==
  /\ phase[c] = "delete" /\ todo[c] = {}
  /\ Goto(c, IF kind[c] = "gc" THEN "trees" ELSE "ended")
  /\ known' = [known EXCEPT ![c] = {}] /\ kind' = [kind EXCEPT ![c] = "gc"]
  /\ UNCHANGED <<todo, keep, picks, lock, current, trees, taskVars, sessionVars, faults>>

-----------------------------------------------------------------------------
(* AgentStore.gc, the last part of gc.                                      *)

\* One query for the rows of the workspace.  A tree is a candidate when no row
\* of it is starting or running, among the rows that were read.
ReadTrees(c) ==
  /\ phase[c] = "trees" /\ Goto(c, "prune")
  /\ LET rows == {s \in Here : row[s] # "none"}
         busy == \E s \in rows : row[s] = "running"
     IN \E chosen \in {{}, rows} :
          trees' = [trees EXCEPT ![c] = IF busy THEN {} ELSE chosen]
  /\ UNCHANGED <<planVars, lock, current, taskVars, sessionVars, faults>>

\* One transaction deletes the rows by their ids; what refers to them cascades.
Prune(c) ==
  /\ phase[c] = "prune" /\ Goto(c, "ended") /\ trees' = [trees EXCEPT ![c] = {}]
  /\ row' = [s \in Sessions |-> IF s \in trees[c] THEN "none" ELSE row[s]]
  /\ cancelFlag' = [s \in Sessions |-> cancelFlag[s] /\ s \notin trees[c]]
  /\ UNCHANGED <<event, events, planVars, lock, current, taskVars, faults>>

-----------------------------------------------------------------------------
(* The session.                                                             *)

Happens == events < MaxEvents /\ events' = events + 1

BeginTurn ==
  /\ row[Root] = "idle" /\ Happens
  /\ row' = [row EXCEPT ![Root] = "running"]
  /\ UNCHANGED <<cancelFlag, event, taskVars, collectorVars, faults>>

\* The update of a row that is gone raises; otherwise the turn has ended.
EndTurn ==
  /\ row[Root] = "running" /\ event = NoEvent
  /\ row' = [row EXCEPT ![Root] = "idle"]
  /\ UNCHANGED <<cancelFlag, event, events, taskVars, collectorVars, faults>>

\* An agent session for a task whose parent is Root's task.
StartAgent(s) ==
  /\ s \in Started /\ row[s] = "none" /\ row[Root] # "none" /\ Happens
  /\ row' = [row EXCEPT ![s] = "running"]
  /\ UNCHANGED <<cancelFlag, event, taskVars, collectorVars, faults>>

FinishAgent(s) ==
  /\ s \in Started /\ row[s] = "running"
  /\ row' = [row EXCEPT ![s] = "idle"]
  /\ UNCHANGED <<cancelFlag, event, events, taskVars, collectorVars, faults>>

\* AgentService.cancel in another process: merge_metadata, one transaction.  The
\* agents of tasks are left out, for no event of theirs is recorded here.
Cancel(s) ==
  /\ s \notin Started /\ row[s] = "running" /\ ~cancelFlag[s]
  /\ cancelFlag' = [cancelFlag EXCEPT ![s] = TRUE]
  /\ UNCHANGED <<row, event, events, taskVars, collectorVars, faults>>

\* record_agent_event: an uncorrelated child is counted in the metadata of the
\* session, which is read here and written back later; a correlated child is
\* looked for.
ReadForEvent ==
  /\ row[Root] = "running" /\ event = NoEvent /\ Happens
  /\ \/ event' = [step |-> "count", session |-> Root, found |-> TRUE, flag |-> cancelFlag[Root]]
     \/ \E s \in Native :
          event' = [step |-> "child", session |-> s, found |-> row[s] # "none",
                    flag |-> cancelFlag[s]]
  /\ UNCHANGED <<row, cancelFlag, taskVars, collectorVars, faults>>

\* The metadata is written anew.
CountChildAnew ==
  /\ event.step = "count" /\ event' = NoEvent
  /\ cancelFlag' = [cancelFlag EXCEPT ![Root] = FALSE]
  /\ UNCHANGED <<row, events, taskVars, collectorVars, faults>>

CountChild ==
  /\ event.step = "count" /\ event' = NoEvent
  /\ cancelFlag' = [cancelFlag EXCEPT ![Root] = IF row[Root] = "none" THEN FALSE ELSE event.flag]
  /\ UNCHANGED <<row, events, taskVars, collectorVars, faults>>

\* upsert_child: the row found before is updated and its metadata merged with
\* what was read; a row that is gone raises.  One that was not found is inserted.
UpsertChild ==
  /\ event.step = "child" /\ event' = NoEvent
  /\ LET s == event.session IN
       IF event.found /\ row[s] = "none" THEN UNCHANGED <<row, cancelFlag>>
       ELSE /\ \E new \in {"running", "idle"} : row' = [row EXCEPT ![s] = new]
            /\ cancelFlag' = [cancelFlag EXCEPT ![s] = event.flag]
  /\ UNCHANGED <<events, taskVars, collectorVars, faults>>

-----------------------------------------------------------------------------
TaskNext ==
  \E t \in Task : SubmitCheck(t) \/ SubmitRecord(t) \/ Complete(t) \/ MakeArtifact(t) \/ NameArtifact(t)

CollectorNext ==
  \E c \in Collector :
    \/ Begin(c) \/ Plan(c) \/ UnlinkFiles(c) \/ UnlinkFails(c) \/ Die(c) \/ Deleted(c)
    \/ ReadTrees(c) \/ Prune(c)
    \/ \E t \in Task : Read(c, t) \/ Unlink(c, t) \/ Skip(c, t)

SessionNext ==
  \/ BeginTurn \/ EndTurn \/ ReadForEvent \/ CountChild \/ UpsertChild
  \/ \E s \in Sessions : StartAgent(s) \/ FinishAgent(s) \/ Cancel(s)

Next == TaskNext \/ CollectorNext \/ SessionNext

Spec == Init /\ [][Next]_vars

-----------------------------------------------------------------------------
(* A dependency of a task that was active when a collection began, and that *)
(* still is, is not deleted by that collection, although the records are    *)
(* read one by one while tasks are submitted and end (the two passes of     *)
(* gc, observability.py:1106, and of clear_completed, :1016).  The tasks    *)
(* whose record the collection cannot read are excepted: for those the code *)
(* keeps nothing (:1131, :1379).                                            *)
RequiredSpared ==
  [][\A c \in Collector : \A t \in current'[c] \ current[c] :
       \A a \in known[c] : record[a] = "active" => t \notin DependsOn[a]]_vars

(* Who finds a finished record finds its result and the artifact it names,  *)
(* at every step of completions, collections, their faults and deaths.      *)
WholeRecord ==
  \A t \in Task : record[t] = "terminal" => result[t] /\ (named[t] => artifact[t])

(* transports/mcp.py:556: "cancellation intent is persisted".  A request in *)
(* the metadata of a session stays as long as its row, but for one made     *)
(* between the two steps of an event that was being recorded                *)
(* (core/registry.py:710, agent_store.py:534).                              *)
CancelOutlasts ==
  [][\A s \in Sessions : cancelFlag[s] /\ row'[s] # "none" /\ ~cancelFlag'[s] =>
       event.session = s /\ event # NoEvent /\ ~event.flag]_vars

(* agent_store.py:1084: "Sessions are retained/deleted by root tree rather  *)
(* than individually so parent/child topology never becomes partially       *)
(* orphaned."                                                               *)
WholeTrees ==
  [][\A c \in Collector : phase[c] = "prune" /\ phase'[c] = "ended" =>
       \A s, r \in Sessions : row[s] # "none" /\ row'[s] = "none" => row'[r] = "none"]_vars
=============================================================================
