-------------------------- MODULE CollectionProofs --------------------------
(***************************************************************************)
(* Proofs about Collection, for any tasks, dependencies and sessions, any  *)
(* number of collections side by side, file errors, deaths and events.     *)
(***************************************************************************)
EXTENDS Collection, TLAPS

(* A dependency check only precedes a record; a record that a collection   *)
(* removed is never written again.                                         *)
CheckedIsNew == \A t \in checked : record[t] = "none"

(* An artifact belongs to a task that ended, and is made before it is      *)
(* named: while the record can be found, its files are there.              *)
NamedEnded == \A t \in Task : named[t] => record[t] \in {"terminal", "gone"}
MadeFirst ==
  \A t \in making : record[t] = "gone" \/ (record[t] = "terminal" /\ artifact[t])

(* The files a collection removes are those of a record already removed.   *)
RecordFirst == \A c \in Collector : \A t \in current[c] : record[t] = "gone"

(* What was active when a collection began was submitted, so if it is      *)
(* active now, it has been active at every step between.                   *)
KnownSubmitted == \A c \in Collector : \A a \in known[c] : record[a] # "none"

(* While it reads, an active task is still to be read or its dependencies  *)
(* are kept; once it deletes, none of them is on its list.                 *)
RequiredKept ==
  \A c \in Collector : \A a \in known[c] :
    record[a] = "active" =>
      /\ phase[c] = "scan" => a \in todo[c] \/ DependsOn[a] \subseteq keep[c]
      /\ phase[c] \in {"delete", "unlink"} => DependsOn[a] \cap todo[c] = {}

(* The event that counts a child is about the session itself.              *)
CountsRoot == event.step = "count" => event.session = Root

FilesInv == CheckedIsNew /\ NamedEnded /\ MadeFirst /\ RecordFirst /\ WholeRecord
PlanInv == KnownSubmitted /\ RequiredKept
IInv == TypeOK /\ FilesInv /\ PlanInv /\ CountsRoot
-----------------------------------------------------------------------------
USE CollectionAssumption
USE DEF Sessions, Collector, Present, Active, NoEvent, taskVars, sessionVars,
        planVars, collectorVars, Goto, Happens

(* The types in three parts, of tasks, collectors and sessions.            *)
TaskTypes ==
  /\ record \in [Task -> {"none", "active", "terminal", "gone"}]
  /\ named \in [Task -> BOOLEAN] /\ result \in [Task -> BOOLEAN]
  /\ artifact \in [Task -> BOOLEAN] /\ checked \subseteq Task /\ making \subseteq Task
PlanTypes ==
  /\ lock \in [Task -> 0..MaxCollections]
  /\ phase \in [Collector -> {"new", "scan", "delete", "unlink", "trees", "prune", "ended"}]
  /\ kind \in [Collector -> {"gc", "clear"}]
  /\ todo \in [Collector -> SUBSET Task] /\ keep \in [Collector -> SUBSET Task]
  /\ picks \in [Collector -> SUBSET Task] /\ current \in [Collector -> SUBSET Task]
  /\ known \in [Collector -> SUBSET Task] /\ trees \in [Collector -> SUBSET Sessions]
SessionTypes ==
  /\ row \in [Sessions -> {"none", "running", "idle"}]
  /\ cancelFlag \in [Sessions -> BOOLEAN]
  /\ event \in [step : {"none", "count", "child"}, session : Sessions,
                found : BOOLEAN, flag : BOOLEAN]
  /\ faults \in 0..MaxFaults /\ events \in 0..MaxEvents
Types == TaskTypes /\ PlanTypes /\ SessionTypes

(* Which steps leave the tasks and their files, or the sessions, alone.    *)
LEMMA CollectorFrame ==
  ASSUME NEW c \in Collector
  PROVE  /\ Begin(c) \/ Plan(c) \/ Deleted(c) \/ ReadTrees(c) \/ Prune(c)
              => UNCHANGED <<taskVars, current>>
         /\ (\E t \in Task : Read(c, t) \/ Skip(c, t)) => UNCHANGED <<taskVars, current>>
         /\ Begin(c) \/ Plan(c) \/ Deleted(c) \/ ReadTrees(c) \/ UnlinkFiles(c)
              => UNCHANGED <<sessionVars, faults>>
         /\ (\E t \in Task : Unlink(c, t)) => UNCHANGED <<sessionVars, faults>>
         /\ (\E t \in Task : Read(c, t) \/ Skip(c, t)) => UNCHANGED sessionVars
         /\ UnlinkFails(c) \/ Die(c) => UNCHANGED sessionVars
<1>1. Begin(c) \/ Plan(c) => UNCHANGED <<taskVars, current, sessionVars, faults>>
  BY DEF Begin, Plan
<1>2. Deleted(c) \/ ReadTrees(c) => UNCHANGED <<taskVars, current, sessionVars, faults>>
  BY DEF Deleted, ReadTrees
<1>3. Prune(c) => UNCHANGED <<taskVars, current>>
  BY DEF Prune
<1>4. ASSUME NEW t \in Task
      PROVE  /\ Read(c, t) \/ Skip(c, t) => UNCHANGED <<taskVars, current, sessionVars>>
             /\ Unlink(c, t) => UNCHANGED <<sessionVars, faults>>
  BY DEF Read, Skip, Unlink
<1>5. UnlinkFiles(c) => UNCHANGED <<sessionVars, faults>>
  BY DEF UnlinkFiles
<1>6. UnlinkFails(c) \/ Die(c) => UNCHANGED sessionVars
  BY DEF UnlinkFails, Die
<1> QED
  BY <1>1, <1>2, <1>3, <1>4, <1>5, <1>6

(* A session's steps leave the tasks and their files alone.                *)
LEMMA SessionFrame == SessionNext => UNCHANGED <<taskVars, current>>
BY DEF SessionNext, BeginTurn, EndTurn, ReadForEvent, CountChild, UpsertChild, StartAgent,
       FinishAgent, Cancel

(* A task's steps leave the sessions alone.                                *)
LEMMA TaskFrame == TaskNext => UNCHANGED <<sessionVars, faults>>
BY DEF TaskNext, SubmitCheck, SubmitRecord, Complete, MakeArtifact, NameArtifact

(* Every step keeps the types of the tasks and their files.                *)
LEMMA TaskTypesStep == Types /\ [Next]_vars => TaskTypes'
<1> SUFFICES ASSUME Types, [Next]_vars
             PROVE  TaskTypes'
  OBVIOUS
<1> USE DEF Types, PlanTypes
<1>1. ASSUME NEW t \in Task, SubmitCheck(t)
      PROVE  TaskTypes'
  BY <1>1 DEF SubmitCheck, TaskTypes
<1>2. ASSUME NEW t \in Task, SubmitRecord(t)
      PROVE  TaskTypes'
  BY <1>2 DEF SubmitRecord, TaskTypes
<1>3. ASSUME NEW t \in Task, Complete(t)
      PROVE  TaskTypes'
  BY <1>3 DEF Complete, TaskTypes
<1>4. ASSUME NEW t \in Task, MakeArtifact(t)
      PROVE  TaskTypes'
  BY <1>4 DEF MakeArtifact, TaskTypes
<1>5. ASSUME NEW t \in Task, NameArtifact(t)
      PROVE  TaskTypes'
  BY <1>5 DEF NameArtifact, TaskTypes
<1>6. ASSUME NEW c \in Collector, NEW t \in Task, Unlink(c, t)
      PROVE  TaskTypes'
  BY <1>6 DEF Unlink, TaskTypes
<1>7. ASSUME NEW c \in Collector, UnlinkFiles(c)
      PROVE  TaskTypes'
  BY <1>7 DEF UnlinkFiles, TaskTypes
<1>8. ASSUME NEW c \in Collector, UnlinkFails(c)
      PROVE  TaskTypes'
  BY <1>8 DEF UnlinkFails, TaskTypes
<1>9. ASSUME NEW c \in Collector, Die(c)
      PROVE  TaskTypes'
  BY <1>9 DEF Die, TaskTypes
<1>10. CASE UNCHANGED taskVars
  BY <1>10 DEF TaskTypes
<1>11. CASE TaskNext
  BY <1>1, <1>2, <1>3, <1>4, <1>5, <1>11 DEF TaskNext
<1>12. CASE CollectorNext
  BY <1>6, <1>7, <1>8, <1>9, <1>10, <1>12, CollectorFrame DEF CollectorNext
<1>13. CASE SessionNext
  <2>1. UNCHANGED <<taskVars, current>>
    BY <1>13, SessionFrame
  <2> QED
    BY <1>10, <2>1
<1>14. CASE UNCHANGED vars
  BY <1>10, <1>14 DEF vars, collectorVars
<1> QED
  BY <1>11, <1>12, <1>13, <1>14 DEF Next

(* Every step keeps the types of the collector's plan and position.        *)
LEMMA PlanTypesStep == Types /\ [Next]_vars => PlanTypes'
<1> SUFFICES ASSUME Types, [Next]_vars
             PROVE  PlanTypes'
  OBVIOUS
<1> USE DEF Types
<1>1. ASSUME NEW c \in Collector, Begin(c)
      PROVE  PlanTypes'
  BY <1>1 DEF Begin, PlanTypes
<1>2. ASSUME NEW c \in Collector, Plan(c)
      PROVE  PlanTypes'
  BY <1>2 DEF Plan, Planned, PlanTypes
<1>3. ASSUME NEW c \in Collector, UnlinkFiles(c)
      PROVE  PlanTypes'
  BY <1>3 DEF UnlinkFiles, PlanTypes
<1>4. ASSUME NEW c \in Collector, UnlinkFails(c)
      PROVE  PlanTypes'
  BY <1>4 DEF UnlinkFails, PlanTypes
<1>5. ASSUME NEW c \in Collector, Die(c)
      PROVE  PlanTypes'
  BY <1>5 DEF Die, PlanTypes
<1>6. ASSUME NEW c \in Collector, Deleted(c)
      PROVE  PlanTypes'
  BY <1>6 DEF Deleted, PlanTypes
<1>7. ASSUME NEW c \in Collector, ReadTrees(c)
      PROVE  PlanTypes'
  BY <1>7 DEF ReadTrees, PlanTypes
<1>8. ASSUME NEW c \in Collector, Prune(c)
      PROVE  PlanTypes'
  BY <1>8 DEF Prune, PlanTypes
<1>9. ASSUME NEW c \in Collector, NEW t \in Task, Read(c, t)
      PROVE  PlanTypes'
  BY <1>9 DEF Read, PlanTypes
<1>10. ASSUME NEW c \in Collector, NEW t \in Task, Unlink(c, t)
      PROVE  PlanTypes'
  BY <1>10 DEF Unlink, PlanTypes
<1>11. ASSUME NEW c \in Collector, NEW t \in Task, Skip(c, t)
      PROVE  PlanTypes'
  BY <1>11 DEF Skip, PlanTypes
<1>12. CASE UNCHANGED collectorVars
  BY <1>12 DEF PlanTypes
<1> QED
  BY <1>1, <1>2, <1>3, <1>4, <1>5, <1>6, <1>7, <1>8, <1>9, <1>10, <1>11,
     <1>12
     DEF Next, TaskNext, CollectorNext, SessionNext, vars, SubmitCheck,
         SubmitRecord, Complete, MakeArtifact, NameArtifact, BeginTurn,
         EndTurn, ReadForEvent, CountChild, UpsertChild, StartAgent,
         FinishAgent, Cancel

(* Every step keeps the types of the session and of its callers.           *)
LEMMA SessionTypesStep == Types /\ [Next]_vars => SessionTypes'
<1> SUFFICES ASSUME Types, [Next]_vars
             PROVE  SessionTypes'
  OBVIOUS
<1> USE DEF Types, PlanTypes
<1>1. CASE BeginTurn
  BY <1>1 DEF BeginTurn, SessionTypes
<1>2. CASE EndTurn
  BY <1>2 DEF EndTurn, SessionTypes
<1>3. CASE ReadForEvent
  <2>1. UNCHANGED <<row, cancelFlag, faults>> /\ events' \in 0..MaxEvents
    BY <1>3 DEF ReadForEvent, SessionTypes
  <2>2. PICK step \in {"count", "child"}, s \in Sessions, found \in BOOLEAN :
          event' = [step |-> step, session |-> s, found |-> found, flag |-> cancelFlag[s]]
    BY <1>3 DEF ReadForEvent
  <2>3. cancelFlag[s] \in BOOLEAN
    BY DEF SessionTypes
  <2> QED
    BY <2>1, <2>2, <2>3 DEF SessionTypes
<1>4. CASE CountChild
  BY <1>4 DEF CountChild, SessionTypes
<1>5. CASE UpsertChild
  <2>1. event' = NoEvent /\ UNCHANGED <<events, faults>>
    BY <1>5 DEF UpsertChild
  <2>2. \/ UNCHANGED <<row, cancelFlag>>
        \/ \E new \in {"running", "idle"} :
             /\ row' = [row EXCEPT ![event.session] = new]
             /\ cancelFlag' = [cancelFlag EXCEPT ![event.session] = event.flag]
    BY <1>5 DEF UpsertChild
  <2>3. event.session \in Sessions /\ event.flag \in BOOLEAN
    BY DEF SessionTypes
  <2>4. row' \in [Sessions -> {"none", "running", "idle"}] /\ cancelFlag' \in [Sessions -> BOOLEAN]
    BY <2>2, <2>3 DEF SessionTypes
  <2>5. NoEvent \in [step : {"none", "count", "child"}, session : Sessions,
                     found : BOOLEAN, flag : BOOLEAN]
    BY CollectionAssumption
  <2> HIDE DEF NoEvent
  <2> QED
    BY <2>1, <2>4, <2>5 DEF SessionTypes
<1>6. ASSUME NEW s \in Sessions, StartAgent(s)
      PROVE  SessionTypes'
  BY <1>6 DEF StartAgent, SessionTypes
<1>7. ASSUME NEW s \in Sessions, FinishAgent(s)
      PROVE  SessionTypes'
  BY <1>7 DEF FinishAgent, SessionTypes
<1>8. ASSUME NEW s \in Sessions, Cancel(s)
      PROVE  SessionTypes'
  BY <1>8 DEF Cancel, SessionTypes
<1>9. ASSUME NEW c \in Collector, Prune(c)
      PROVE  SessionTypes'
  BY <1>9 DEF Prune, SessionTypes
<1>10. ASSUME NEW c \in Collector, UnlinkFails(c)
      PROVE  SessionTypes'
  BY <1>10 DEF UnlinkFails, SessionTypes
<1>11. ASSUME NEW c \in Collector, Die(c)
      PROVE  SessionTypes'
  BY <1>11 DEF Die, SessionTypes
<1>12. ASSUME NEW c \in Collector, NEW t \in Task, Read(c, t) \/ Skip(c, t)
      PROVE  SessionTypes'
  <2>1. faults' \in 0..MaxFaults
    BY <1>12 DEF Read, Skip, Unreadable, SessionTypes
  <2>2. UNCHANGED sessionVars
    BY <1>12, CollectorFrame
  <2> QED
    BY <2>1, <2>2 DEF SessionTypes
<1>13. CASE UNCHANGED <<sessionVars, faults>>
  BY <1>13 DEF SessionTypes
<1>14. CASE TaskNext
  <2>1. UNCHANGED <<sessionVars, faults>>
    BY <1>14, TaskFrame
  <2> QED
    BY <1>13, <2>1
<1>15. CASE CollectorNext
  BY <1>9, <1>10, <1>11, <1>13, <1>12, <1>15, CollectorFrame DEF CollectorNext
<1>16. CASE SessionNext
  BY <1>1, <1>2, <1>3, <1>4, <1>5, <1>6, <1>7, <1>8, <1>16 DEF SessionNext
<1>17. CASE UNCHANGED vars
  BY <1>13, <1>17 DEF vars
<1> QED
  BY <1>14, <1>15, <1>16, <1>17 DEF Next

(* Every step keeps all the types, TypeOK of the module included.          *)
LEMMA TypeStep == TypeOK /\ [Next]_vars => TypeOK'
<1>1. TypeOK => Types
  BY DEF TypeOK, Types, TaskTypes, PlanTypes, SessionTypes
<1>2. Types' => TypeOK'
  BY DEF TypeOK, Types, TaskTypes, PlanTypes, SessionTypes
<1> QED
  BY <1>1, <1>2, TaskTypesStep, PlanTypesStep, SessionTypesStep DEF Types

(* Every step keeps the records and their files together.                  *)
LEMMA FilesStep == TypeOK /\ FilesInv /\ [Next]_vars => FilesInv'
<1> SUFFICES ASSUME TypeOK, FilesInv, [Next]_vars
             PROVE  FilesInv'
  OBVIOUS
<1> USE DEF TypeOK, CheckedIsNew, NamedEnded, MadeFirst, RecordFirst,
        WholeRecord
<1>1. ASSUME NEW t \in Task, SubmitCheck(t)
      PROVE  FilesInv'
  BY <1>1 DEF SubmitCheck, FilesInv
<1>2. ASSUME NEW t \in Task, SubmitRecord(t)
      PROVE  FilesInv'
  BY <1>2 DEF SubmitRecord, FilesInv
<1>3. ASSUME NEW t \in Task, Complete(t)
      PROVE  FilesInv'
  BY <1>3 DEF Complete, FilesInv
<1>4. ASSUME NEW t \in Task, MakeArtifact(t)
      PROVE  FilesInv'
  BY <1>4 DEF MakeArtifact, FilesInv
<1>5. ASSUME NEW t \in Task, NameArtifact(t)
      PROVE  FilesInv'
  <2>1. \A u \in Task : named'[u] => named[u] \/ (u = t /\ record[u] = "terminal")
    BY <1>5 DEF NameArtifact
  <2>2. t \in making /\ making' = making \ {t} /\ UNCHANGED <<record, result, artifact, checked, current>>
    BY <1>5 DEF NameArtifact
  <2>3. NamedEnded' /\ WholeRecord'
    BY <2>1, <2>2 DEF FilesInv
  <2> QED
    BY <2>2, <2>3 DEF FilesInv
<1>6. ASSUME NEW c \in Collector, NEW t \in Task, Unlink(c, t)
      PROVE  FilesInv'
  BY <1>6 DEF Unlink, FilesInv
<1>7. ASSUME NEW c \in Collector, UnlinkFiles(c)
      PROVE  FilesInv'
  BY <1>7 DEF UnlinkFiles, FilesInv
<1>8. ASSUME NEW c \in Collector, UnlinkFails(c)
      PROVE  FilesInv'
  BY <1>8 DEF UnlinkFails, FilesInv
<1>9. ASSUME NEW c \in Collector, Die(c)
      PROVE  FilesInv'
  BY <1>9 DEF Die, FilesInv
<1>10. CASE UNCHANGED <<taskVars, current>>
  BY <1>10 DEF FilesInv
<1>11. CASE TaskNext
  BY <1>1, <1>2, <1>3, <1>4, <1>5, <1>11 DEF TaskNext
<1>12. CASE CollectorNext
  BY <1>6, <1>7, <1>8, <1>9, <1>10, <1>12, CollectorFrame DEF CollectorNext
<1>13. CASE SessionNext
  <2>1. UNCHANGED <<taskVars, current>>
    BY <1>13, SessionFrame
  <2> QED
    BY <1>10, <2>1
<1>14. CASE UNCHANGED vars
  BY <1>10, <1>14 DEF vars, collectorVars
<1> QED
  BY <1>11, <1>12, <1>13, <1>14 DEF Next

(* Every step keeps what a collection knows of the tasks it must spare.    *)
LEMMA PlanStep ==
  TypeOK /\ CheckedIsNew /\ PlanInv /\ [Next]_vars => PlanInv'
<1> SUFFICES ASSUME TypeOK, CheckedIsNew, PlanInv, [Next]_vars
             PROVE  PlanInv'
  OBVIOUS
<1> USE DEF TypeOK, CheckedIsNew, KnownSubmitted, RequiredKept
<1>1. ASSUME NEW t \in Task, SubmitRecord(t)
      PROVE  PlanInv'
  BY <1>1 DEF SubmitRecord, PlanInv
<1>2. ASSUME NEW t \in Task, Complete(t)
      PROVE  PlanInv'
  BY <1>2 DEF Complete, PlanInv
<1>3. ASSUME NEW c \in Collector, Begin(c)
      PROVE  PlanInv'
  BY <1>3 DEF Begin, PlanInv
<1>4. ASSUME NEW c \in Collector, Plan(c)
      PROVE  PlanInv'
  BY <1>4 DEF Plan, Planned, PlanInv
<1>5. ASSUME NEW c \in Collector, UnlinkFiles(c)
      PROVE  PlanInv'
  BY <1>5 DEF UnlinkFiles, PlanInv
<1>6. ASSUME NEW c \in Collector, UnlinkFails(c)
      PROVE  PlanInv'
  BY <1>6 DEF UnlinkFails, PlanInv
<1>7. ASSUME NEW c \in Collector, Die(c)
      PROVE  PlanInv'
  BY <1>7 DEF Die, PlanInv
<1>8. ASSUME NEW c \in Collector, Deleted(c)
      PROVE  PlanInv'
  BY <1>8 DEF Deleted, PlanInv
<1>9. ASSUME NEW c \in Collector, ReadTrees(c)
      PROVE  PlanInv'
  BY <1>9 DEF ReadTrees, PlanInv
<1>10. ASSUME NEW c \in Collector, Prune(c)
      PROVE  PlanInv'
  BY <1>10 DEF Prune, PlanInv
<1>11. ASSUME NEW c \in Collector, NEW t \in Task, Read(c, t)
      PROVE  PlanInv'
  <2>1. /\ phase[c] = "scan" /\ todo' = [todo EXCEPT ![c] = @ \ {t}]
        /\ UNCHANGED <<record, phase>>
    BY <1>11 DEF Read
  <2>2. CASE /\ keep' = [keep EXCEPT ![c] = IF record[t] = "active" THEN @ \cup DependsOn[t] ELSE @]
             /\ UNCHANGED known
    BY <2>1, <2>2 DEF PlanInv
  <2>3. CASE known' = [known EXCEPT ![c] = @ \ {t}] /\ UNCHANGED keep
    BY <2>1, <2>3 DEF PlanInv
  <2> QED
    BY <1>11, <2>2, <2>3 DEF Read
<1>12. ASSUME NEW c \in Collector, NEW t \in Task, Unlink(c, t)
      PROVE  PlanInv'
  <2>1. /\ phase[c] = "delete" /\ phase' = [phase EXCEPT ![c] = "unlink"]
        /\ todo' = [todo EXCEPT ![c] = @ \ {t}]
        /\ record' = [record EXCEPT ![t] = "gone"] /\ UNCHANGED <<keep, known>>
    BY <1>12 DEF Unlink
  <2>2. KnownSubmitted'
    BY <2>1 DEF PlanInv
  <2>3. RequiredKept'
    BY <2>1 DEF PlanInv
  <2> QED
    BY <2>2, <2>3 DEF PlanInv
<1>13. ASSUME NEW c \in Collector, NEW t \in Task, Skip(c, t)
      PROVE  PlanInv'
  BY <1>13 DEF Skip, PlanInv
<1>14. CASE UNCHANGED <<record, collectorVars>>
  BY <1>14 DEF PlanInv
<1> QED
  BY <1>1, <1>2, <1>3, <1>4, <1>5, <1>6, <1>7, <1>8, <1>9, <1>10, <1>11,
     <1>12, <1>13, <1>14
     DEF Next, TaskNext, CollectorNext, SessionNext, vars, SubmitCheck,
         MakeArtifact, NameArtifact, BeginTurn, EndTurn, ReadForEvent,
         CountChild, UpsertChild, StartAgent, FinishAgent, Cancel

(* An event is read and written back about the same session.               *)
LEMMA EventStep == CountsRoot /\ [Next]_vars => CountsRoot'
<1> SUFFICES ASSUME CountsRoot, [Next]_vars
             PROVE  CountsRoot'
  OBVIOUS
<1>1. CASE ReadForEvent
  BY <1>1 DEF ReadForEvent, CountsRoot
<1>2. CASE CountChild
  BY <1>2 DEF CountChild, CountsRoot
<1>3. CASE UpsertChild
  BY <1>3 DEF UpsertChild, CountsRoot
<1>4. CASE UNCHANGED event
  BY <1>4 DEF CountsRoot
<1>5. TaskNext => UNCHANGED event
  BY DEF TaskNext, SubmitCheck, SubmitRecord, Complete, MakeArtifact, NameArtifact
<1>6. CollectorNext => UNCHANGED event
  BY DEF CollectorNext, Begin, Plan, UnlinkFiles, UnlinkFails, Die, Deleted,
     ReadTrees, Prune, Read, Unlink, Skip
<1>7. CASE SessionNext
  BY <1>1, <1>2, <1>3, <1>4, <1>7
     DEF SessionNext, BeginTurn, EndTurn, StartAgent, FinishAgent, Cancel
<1> QED
  BY <1>4, <1>5, <1>6, <1>7 DEF Next, vars

(* The inductive invariant holds of every behaviour.                       *)
THEOREM Invariance == Spec => []IInv
<1>1. Init => IInv
  BY DEF Init, IInv, TypeOK, FilesInv, CheckedIsNew, NamedEnded, MadeFirst,
         RecordFirst, WholeRecord, PlanInv, KnownSubmitted, RequiredKept,
         CountsRoot
<1>2. IInv /\ [Next]_vars => IInv'
  BY TypeStep, FilesStep, PlanStep, EventStep DEF IInv, FilesInv
<1> QED
  BY <1>1, <1>2, PTL DEF Spec

(* Whoever finds a finished record finds its result, and the artifact it   *)
(* names, whatever collections run, fail or die meanwhile                  *)
(* (observability.py, complete_task and _remove_task; runtime/artifacts.py,*)
(* create).                                                                *)
THEOREM FinishedIsWhole == Spec => []WholeRecord
BY Invariance, PTL DEF IInv, FilesInv

(* No collection deletes a dependency of a task that was active when it    *)
(* began and still is, and whose record it could read: the record was      *)
(* among those listed, was read before the first deletion, and its         *)
(* dependencies were kept.                                                 *)
THEOREM ActiveKeepsDependencies == Spec => RequiredSpared
<1> DEFINE Spared == \A c \in Collector : \A t \in current'[c] \ current[c] :
                       \A a \in known[c] : record[a] = "active" => t \notin DependsOn[a]
<1>1. IInv /\ [Next]_vars => Spared
  <2> SUFFICES ASSUME IInv, [Next]_vars
               PROVE  Spared
    OBVIOUS
  <2> USE DEF IInv, TypeOK
  <2>1. ASSUME NEW c \in Collector, NEW t \in Task, Unlink(c, t)
        PROVE  Spared
    BY <2>1 DEF Unlink, PlanInv, RequiredKept
  <2>2. ASSUME NEW c \in Collector, UnlinkFiles(c) \/ UnlinkFails(c) \/ Die(c)
        PROVE  Spared
    BY <2>2 DEF UnlinkFiles, UnlinkFails, Die
  <2>3. CASE UNCHANGED current
    BY <2>3
  <2>4. CASE TaskNext
    BY <2>3, <2>4
       DEF TaskNext, SubmitCheck, SubmitRecord, Complete, MakeArtifact, NameArtifact
  <2>5. CASE CollectorNext
    BY <2>1, <2>2, <2>3, <2>5, CollectorFrame DEF CollectorNext
  <2>6. CASE SessionNext
    BY <2>3, <2>6, SessionFrame
  <2>7. CASE UNCHANGED vars
    BY <2>3, <2>7 DEF vars
  <2> QED
    BY <2>4, <2>5, <2>6, <2>7 DEF Next
<1>2. IInv /\ [Next]_vars => [Spared]_vars
  BY <1>1
<1> QED
  BY <1>2, Invariance, PTL DEF Spec, RequiredSpared

(* A request to cancel stays in the metadata of its session as long as the *)
(* row does, but for one that falls between the read and the write of an   *)
(* event about that session.                                               *)
THEOREM RequestOutlasts == Spec => CancelOutlasts
<1> DEFINE Outlasts ==
      \A s \in Sessions : cancelFlag[s] /\ row'[s] # "none" /\ ~cancelFlag'[s] =>
        event.session = s /\ event # NoEvent /\ ~event.flag
<1>1. IInv /\ [Next]_vars => Outlasts
  <2> SUFFICES ASSUME IInv, [Next]_vars
               PROVE  Outlasts
    OBVIOUS
  <2> USE DEF IInv, TypeOK
  <2>1. ASSUME NEW c \in Collector, Prune(c)
        PROVE  Outlasts
    BY <2>1 DEF Prune
  <2>2. CASE CountChild
    BY <2>2 DEF CountChild, CountsRoot
  <2>3. CASE UpsertChild
    BY <2>3 DEF UpsertChild
  <2>4. ASSUME NEW s \in Sessions, Cancel(s)
        PROVE  Outlasts
    BY <2>4 DEF Cancel
  <2>5. CASE UNCHANGED cancelFlag
    BY <2>5
  <2>6. CASE TaskNext
    BY <2>5, <2>6, TaskFrame
  <2>7. CASE CollectorNext
    BY <2>1, <2>5, <2>7, CollectorFrame DEF CollectorNext
  <2>8. CASE SessionNext
    BY <2>2, <2>3, <2>4, <2>5, <2>8
       DEF SessionNext, BeginTurn, EndTurn, ReadForEvent, StartAgent, FinishAgent
  <2>9. CASE UNCHANGED vars
    BY <2>5, <2>9 DEF vars
  <2> QED
    BY <2>6, <2>7, <2>8, <2>9 DEF Next
<1>2. IInv /\ [Next]_vars => [Outlasts]_vars
  BY <1>1
<1> QED
  BY <1>2, Invariance, PTL DEF Spec, CancelOutlasts
=============================================================================
