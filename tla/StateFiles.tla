------------------------------ MODULE StateFiles ------------------------------
(***************************************************************************)
(* One task record as files: the JSON record, replaced as a whole; the     *)
(* lock file beside it; and the event log, to which lines are appended.    *)
(* Calls of RunStore from several processes read the record, change it and *)
(* write it back under the lock.  Files can fail for a moment or for good, *)
(* and a process can die between any two steps.  A reader follows the log  *)
(* with a cursor and takes no lock.                                        *)
(***************************************************************************)
EXTENDS Naturals, FiniteSets, SequencesExt

CONSTANTS
  NumCalls,      \* bound on the calls
  MaxAttempts,   \* of StateRetryPolicy
  MaxFaults,     \* bound on file errors and deaths
  PageLimit      \* the limit list_events is called with

ASSUME FilesAssumption ==
  /\ NumCalls \in Nat /\ MaxFaults \in Nat
  /\ MaxAttempts \in Nat \ {0} /\ PageLimit \in Nat \ {0}

VARIABLES
  record,         \* [seq, terminal, done]: progress_sequence, whether the status is
                  \* a terminal one, and the calls whose change is in it
  lock,           \* the call that holds the lock, or 0
  log, torn,      \* sequence numbers of the lines; the last line has no end
  pc, kind, copy, tries,   \* of each call: step, method, the record it read, and
                           \* the attempts at the present file operation
  answers,        \* the required calls that returned without raising
  cursor, got,    \* the reader's next_sequence, and the lines it was given
  unsaved,        \* numbers of lines whose record was never written
  faults

callVars == <<pc, kind, copy, tries>>
readVars == <<cursor, got>>
vars == <<record, lock, log, torn, callVars, answers, readVars, unsaved, faults>>

Calls == 1..NumCalls   \* in the order in which they begin
Required == {"update", "complete"}
Logged == {"progress", "recovery"}
Kinds == Required \cup Logged \cup {"heartbeat"}
Records == [seq : Nat, terminal : BOOLEAN, done : SUBSET Calls]
Record0 == [seq |-> 0, terminal |-> FALSE, done |-> {}]

TypeOK ==
  /\ record \in Records /\ lock \in 0..NumCalls
  /\ log \in Seq(Nat) /\ torn \in BOOLEAN
  /\ pc \in [Calls -> {"new", "lock", "read", "append", "write", "return", "ended"}]
  /\ kind \in [Calls -> Kinds \cup {"none"}] /\ copy \in [Calls -> Records]
  /\ tries \in [Calls -> 0..MaxAttempts]
  /\ answers \subseteq Calls /\ cursor \in Nat /\ got \subseteq 1..Len(log)
  /\ unsaved \subseteq Nat /\ faults \in 0..MaxFaults

Init ==
  /\ record = Record0 /\ lock = 0 /\ log = <<>> /\ torn = FALSE
  /\ pc = [c \in Calls |-> "new"] /\ kind = [c \in Calls |-> "none"]
  /\ copy = [c \in Calls |-> Record0] /\ tries = [c \in Calls |-> 0]
  /\ answers = {} /\ cursor = 0 /\ got = {} /\ unsaved = {} /\ faults = 0

-----------------------------------------------------------------------------
(* The steps of a locked method.                                            *)

Goto(c, p) == pc' = [pc EXCEPT ![c] = p] /\ tries' = [tries EXCEPT ![c] = 0] /\ UNCHANGED kind
IsRequired(c) == kind[c] \in Required

\* Return or raise: the lock is released, if it is this call's.
Leave(c) ==
  /\ Goto(c, "ended") /\ copy' = [copy EXCEPT ![c] = Record0]
  /\ lock' = IF lock = c THEN 0 ELSE lock

Begin(c) ==
  /\ pc[c] = "new" /\ \A d \in 1..(c - 1) : pc[d] # "new"
  /\ \E k \in Kinds : kind' = [kind EXCEPT ![c] = k]
  /\ pc' = [pc EXCEPT ![c] = "lock"]
  /\ UNCHANGED <<record, lock, log, torn, copy, tries, answers, readVars, unsaved, faults>>

Acquire(c) ==
  /\ pc[c] = "lock" /\ lock = 0
  /\ lock' = c /\ Goto(c, "read")
  /\ UNCHANGED <<record, log, torn, copy, answers, readVars, unsaved, faults>>

\* Variant: a required call goes on without the lock.
TimesOutAnyway(c) ==
  /\ pc[c] = "lock" /\ lock # 0
  /\ IF IsRequired(c) THEN Goto(c, "read") /\ UNCHANGED <<lock, copy>> ELSE Leave(c)
  /\ UNCHANGED <<record, log, torn, answers, readVars, unsaved, faults>>

\* Contention lasts beyond the deadline: a required call raises, an optional one
\* does nothing.
TimesOut(c) ==
  /\ pc[c] = "lock" /\ lock # 0
  /\ Leave(c)
  /\ UNCHANGED <<record, log, torn, answers, readVars, unsaved, faults>>

\* A record that is terminal takes no more progress and no heartbeat.
Read(c) ==
  /\ pc[c] = "read"
  /\ IF record.terminal /\ kind[c] \in {"progress", "heartbeat"}
     THEN Leave(c)
     ELSE /\ copy' = [copy EXCEPT ![c] = record]
          /\ Goto(c, IF kind[c] \in Logged THEN "append" ELSE "write") /\ UNCHANGED lock
  /\ UNCHANGED <<record, log, torn, answers, readVars, unsaved, faults>>

\* _append_event: after a line without an end the new one is unreadable, too.
NextSeq(c) == copy[c].seq + 1
AppendEvent(c) ==
  /\ pc[c] = "append" /\ Goto(c, "write")
  /\ IF torn THEN torn' = FALSE /\ UNCHANGED log
             ELSE log' = Append(log, NextSeq(c)) /\ UNCHANGED torn
  /\ UNCHANGED <<record, lock, copy, answers, readVars, unsaved, faults>>

Changed(c) ==
  [seq |-> IF kind[c] \in Logged THEN NextSeq(c) ELSE copy[c].seq,
   terminal |-> copy[c].terminal \/ kind[c] = "complete",
   done |-> IF IsRequired(c) THEN copy[c].done \cup {c} ELSE copy[c].done]

\* _publish replaces the record at once.
Write(c) ==
  /\ pc[c] = "write" /\ record' = Changed(c)
  /\ Goto(c, "return") /\ UNCHANGED <<lock, copy>>
  /\ UNCHANGED <<log, torn, answers, readVars, unsaved, faults>>

Return(c) ==
  /\ pc[c] = "return" /\ Leave(c)
  /\ answers' = answers \cup (IF IsRequired(c) THEN {c} ELSE {})
  /\ UNCHANGED <<record, log, torn, readVars, unsaved, faults>>

-----------------------------------------------------------------------------
(* File errors, death, and the reader.                                      *)

Fault == faults < MaxFaults /\ faults' = faults + 1

\* A line whose record is not written keeps its number, and so does the next one.
GivesUp(c) ==
  unsaved' = IF pc[c] = "write" /\ kind[c] \in Logged THEN unsaved \cup {NextSeq(c)}
             ELSE unsaved

\* retry_state_operation: a transient error is tried again, with a pause.
Transient(c) ==
  /\ pc[c] \in {"lock", "read", "write"} /\ tries[c] + 1 < MaxAttempts
  /\ Fault /\ tries' = [tries EXCEPT ![c] = @ + 1]
  /\ UNCHANGED <<record, lock, log, torn, pc, kind, copy, answers, readVars, unsaved>>

\* An error that is permanent, or the last of too many: required calls raise.
\* Optional ones return, and the event that cannot be appended is passed over.
Persistent(c) ==
  /\ pc[c] \in {"lock", "read", "write", "append"}
  /\ Fault
  /\ IF pc[c] = "append" THEN Goto(c, "write") /\ UNCHANGED <<lock, copy, unsaved>>
                         ELSE Leave(c) /\ GivesUp(c)
  /\ UNCHANGED <<record, log, torn, answers, readVars>>

\* Death of the process; the operating system releases the lock.
Die(c) ==
  /\ pc[c] \notin {"new", "ended"} /\ Fault
  /\ Leave(c) /\ GivesUp(c)
  /\ torn' \in {torn, torn \/ pc[c] = "append"}
  /\ UNCHANGED <<record, log, answers, readVars>>

\* list_events: lines beyond the cursor, in the order of the file.
Beyond == {k \in 1..Len(log) : log[k] > cursor}
Page(n) == {k \in Beyond : Cardinality({j \in Beyond : j <= k}) <= n}

\* Variant: the cursor moves to the record's number, beyond the page.
PollToRecord ==
  /\ Beyond # {}
  /\ got' = got \cup Page(PageLimit)
  /\ cursor' = record.seq
  /\ UNCHANGED <<record, lock, log, torn, callVars, answers, unsaved, faults>>

Poll ==
  /\ Beyond # {}
  /\ got' = got \cup Page(PageLimit)
  /\ cursor' = log[CHOOSE k \in Page(PageLimit) : \A j \in Page(PageLimit) : j <= k]
  /\ UNCHANGED <<record, lock, log, torn, callVars, answers, unsaved, faults>>

Next ==
  \/ \E c \in Calls :
       \/ Begin(c) \/ Acquire(c) \/ TimesOut(c) \/ Read(c) \/ AppendEvent(c) \/ Write(c)
       \/ Return(c) \/ Transient(c) \/ Persistent(c) \/ Die(c)
  \/ Poll

Spec == Init /\ [][Next]_vars

-----------------------------------------------------------------------------
Atomic == INSTANCE AtomicRecord WITH
            Updates <- Calls, done <- record.done, confirmed <- answers

\* "A lost write can never masquerade as success": with the lock, the retries and
\* the replacing write, every update is at once or not at all, stays, and is
\* confirmed only if it happened, whatever fails in between.
RecordIsAtomic == Atomic!Spec

\* The reader is given every line up to its cursor but those that share their
\* number with another one, because the record was not written after them.
CursorComplete ==
  \A k \in 1..Len(log) : log[k] <= cursor => k \in got \/ log[k] \in unsaved
=============================================================================
