------------------------- MODULE StateFilesProofs -------------------------
(***************************************************************************)
(* Proofs about StateFiles, for any number of calls, attempts, file errors *)
(* and deaths, and any page size.                                          *)
(***************************************************************************)
EXTENDS StateFiles, FiniteSetTheorems, WellFoundedInduction, TLAPS

(* A call that is past the lock holds it.                                  *)
HoldsLock ==
  \A c \in Calls : pc[c] \in {"read", "append", "write", "return"} => lock = c

(* Only a call that is to log appends.                                     *)
LoggedAppends == \A c \in Calls : pc[c] = "append" => kind[c] \in Logged

(* What the holder has read is still what the record says.                 *)
CopyIsCurrent == \A c \in Calls : pc[c] \in {"append", "write"} => copy[c] = record

(* A change is in the record from its write on, and not before.            *)
DoneFromWrite ==
  \A c \in Calls :
    /\ pc[c] = "return" /\ IsRequired(c) => c \in record.done
    /\ c \in record.done => pc[c] \in {"return", "ended"}

(* An answer is given only for what is in the record.                      *)
AnswersAreDone == answers \subseteq record.done

(* The number behind the record's is that of a line whose record is about  *)
(* to be written, or was never written.                                    *)
Pending == \E c \in Calls : pc[c] = "write" /\ kind[c] \in Logged
Explained(n) ==
  /\ n <= record.seq + 1
  /\ n = record.seq + 1 => n \in unsaved \/ Pending

(* The lines are in order, two with one number have an unsaved one, and    *)
(* neither a line nor the cursor is beyond the next number.                *)
LinesInOrder ==
  \A j, k \in 1..Len(log) :
    j < k => log[j] <= log[k] /\ (log[j] = log[k] => log[k] \in unsaved)
LinesExplained == \A k \in 1..Len(log) : Explained(log[k])

AtomicInv ==
  /\ TypeOK /\ HoldsLock /\ LoggedAppends /\ CopyIsCurrent
  /\ DoneFromWrite /\ AnswersAreDone
LogInv == LinesInOrder /\ LinesExplained /\ Explained(cursor) /\ CursorComplete
IInv == AtomicInv /\ LogInv
-----------------------------------------------------------------------------
USE FilesAssumption
USE DEF Fault, GivesUp, IsRequired, callVars, readVars,
        Calls, Required, Logged, Kinds

(* The types of what a call's steps change together.                      *)
Steps == {"new", "lock", "read", "append", "write", "return", "ended"}

CallsTyped ==
  /\ pc \in [Calls -> Steps] /\ kind \in [Calls -> Kinds \cup {"none"}]
  /\ tries \in [Calls -> 0..MaxAttempts]

(* What moving on and leaving do to the variables of a call.               *)
LEMMA GotoTypes ==
  ASSUME TypeOK, NEW c \in Calls, NEW p \in Steps, Goto(c, p)
  PROVE  CallsTyped'
BY DEF TypeOK, CallsTyped, Goto, Steps

(* The same of a call that leaves, with the lock and its copy.             *)
LEMMA LeaveTypes ==
  ASSUME TypeOK, NEW c \in Calls, Leave(c)
  PROVE  CallsTyped' /\ copy' \in [Calls -> Records] /\ lock' \in 0..NumCalls
<1>1. "ended" \in Steps /\ Goto(c, "ended")
  BY DEF Leave, Steps
<1>2. Record0 \in Records
  BY DEF Record0, Records
<1>3. lock' \in 0..NumCalls /\ copy' \in [Calls -> Records]
  BY <1>2 DEF TypeOK, Leave
<1> QED
  BY <1>1, <1>3, GotoTypes

(* A nonempty set of numbers has a least one.                              *)
LEMMA NatMin ==
  ASSUME NEW S \in SUBSET Nat, S # {}
  PROVE  \E m \in S : \A k \in S : m <= k
<1> DEFINE R == OpToRel(<, Nat)
<1>1. IsWellFoundedOn(R, Nat)
  BY NatLessThanWellFounded
<1>2. \A x, y \in Nat : <<x, y>> \in R <=> x < y
  BY DEF OpToRel
<1> HIDE DEF R
<1>3. PICK m \in S : \A k \in S : ~ (<<k, m>> \in R)
  BY <1>1, WFMin
<1>4. ASSUME NEW k \in S PROVE m <= k
  <2>1. m \in Nat /\ k \in Nat /\ ~(<<k, m>> \in R)
    BY <1>3
  <2>2. ~(k < m)
    BY <1>2, <2>1
  <2> QED
    BY <2>1, <2>2
<1> QED
  BY <1>4

(* A nonempty set of numbers up to some bound has a greatest one.          *)
LEMMA BoundedMax ==
  ASSUME NEW n \in Nat, NEW S \in SUBSET (1..n), S # {}
  PROVE  \E m \in S : \A k \in S : k <= m
<1> DEFINE D == {n - k : k \in S}
<1>1. D \in SUBSET Nat /\ D # {}
  <2>1. \A k \in S : n - k \in Nat
    OBVIOUS
  <2> QED
    BY <2>1
<1>2. PICK d \in D : \A e \in D : d <= e
  <2> HIDE DEF D
  <2> QED
    BY <1>1, NatMin
<1>3. PICK m \in S : d = n - m
  OBVIOUS
<1>4. ASSUME NEW k \in S PROVE k <= m
  <2>1. n - m <= n - k
    BY <1>2, <1>3
  <2> QED
    BY <2>1
<1> QED
  BY <1>4

LastOf(P) == CHOOSE k \in P : \A j \in P : j <= k

(* A page is the first lines beyond the cursor: it is not empty, it has a  *)
(* last line, and no line beyond the cursor is passed over.                *)
LEMMA PageFacts ==
  ASSUME TypeOK, Beyond # {}
  PROVE  LET P == Page(PageLimit) IN
         /\ P \subseteq Beyond /\ LastOf(P) \in P
         /\ \A j \in P : j <= LastOf(P)
         /\ \A k \in Beyond : k <= LastOf(P) => k \in P
<1> DEFINE P == Page(PageLimit)
           Upto(k) == {j \in Beyond : j <= k}
<1>1. Beyond \subseteq 1..Len(log) /\ Len(log) \in Nat
  BY DEF Beyond, TypeOK
<1>2. \A k : IsFiniteSet(Upto(k)) /\ Cardinality(Upto(k)) \in Nat
  <2>1. IsFiniteSet(1..Len(log))
    BY <1>1, FS_Interval
  <2>2. IsFiniteSet(Beyond)
    BY <1>1, <2>1, FS_Subset
  <2> TAKE k
  <2>3. Upto(k) \in SUBSET Beyond
    OBVIOUS
  <2> HIDE DEF Upto
  <2> QED
    BY <2>2, <2>3, FS_Subset, FS_CardinalityType
<1>3. \A k \in Beyond : k \in P <=> Cardinality(Upto(k)) <= PageLimit
  BY DEF Page
<1>4. P \subseteq Beyond
  BY DEF Page
<1>5. P # {}
  <2>1. PICK m \in Beyond : \A k \in Beyond : m <= k
    <3>1. Beyond \in SUBSET Nat
      BY <1>1
    <3> QED
      BY <3>1, NatMin
  <2>2. Upto(m) = {m}
    <3>1. \A j \in Beyond : j <= m <=> j = m
      BY <1>1, <2>1
    <3> QED
      BY <2>1, <3>1
  <2>3. Cardinality(Upto(m)) = 1
    BY <2>2, FS_Singleton
  <2> QED
    BY <1>3, <2>1, <2>3
<1>6. \E m \in P : \A k \in P : k <= m
  <2>1. P \in SUBSET (1..Len(log))
    BY <1>1, <1>4
  <2> HIDE DEF P
  <2> QED
    BY <1>1, <1>5, <2>1, BoundedMax
<1>7. LastOf(P) \in P /\ \A j \in P : j <= LastOf(P)
  BY <1>6 DEF LastOf
<1>8. ASSUME NEW k \in Beyond, k <= LastOf(P)
      PROVE  k \in P
  <2>1. Upto(k) \in SUBSET Upto(LastOf(P))
    <3>1. ASSUME NEW j \in Beyond, j <= k
          PROVE  j <= LastOf(P)
      <4> HIDE DEF P
      <4>1. LastOf(P) \in Beyond
        BY <1>4, <1>7
      <4>2. \A l \in Beyond : l \in Nat
        BY <1>1
      <4> QED
        BY <1>8, <3>1, <4>1, <4>2
    <3> QED
      BY <3>1
  <2>2. Cardinality(Upto(k)) <= Cardinality(Upto(LastOf(P)))
    <3> HIDE DEF Upto, P
    <3> QED
      BY <1>2, <2>1, FS_Subset
  <2>3. Cardinality(Upto(LastOf(P))) <= PageLimit
    BY <1>3, <1>4, <1>7
  <2> HIDE DEF Upto, P
  <2> QED
    BY <1>2, <1>3, <2>2, <2>3
<1> QED
  BY <1>4, <1>7, <1>8

(* What a call writes is a record, and what it appends a number.           *)
LEMMA ChangedType ==
  ASSUME TypeOK, NEW c \in Calls
  PROVE  Changed(c) \in Records /\ NextSeq(c) \in Nat
BY DEF TypeOK, Records, Changed, NextSeq

(* Every step keeps the types.                                             *)
LEMMA TypeStep == TypeOK /\ [Next]_vars => TypeOK'
<1> SUFFICES ASSUME TypeOK, [Next]_vars PROVE TypeOK'
  OBVIOUS
<1>1. ASSUME NEW c \in Calls, Begin(c)
       PROVE  TypeOK'
  BY <1>1 DEF Begin, TypeOK
<1>2. ASSUME NEW c \in Calls, Acquire(c)
       PROVE  TypeOK'
  <2>1. "read" \in Steps /\ Goto(c, "read")
    BY <1>2 DEF Acquire, Steps
  <2>2. CallsTyped'
    BY <2>1, GotoTypes
  <2> QED
    BY <1>2, <2>2 DEF TypeOK, CallsTyped, Steps, Acquire
<1>3. ASSUME NEW c \in Calls, TimesOut(c)
       PROVE  TypeOK'
  <2>1. CallsTyped' /\ copy' \in [Calls -> Records] /\ lock' \in 0..NumCalls
    BY <1>3, LeaveTypes DEF TimesOut
  <2> QED
    BY <1>3, <2>1 DEF TypeOK, CallsTyped, Steps, TimesOut
<1>4. ASSUME NEW c \in Calls, Read(c)
       PROVE  TypeOK'
  <2>1. CASE Leave(c) /\ UNCHANGED record
    <3>1. CallsTyped' /\ copy' \in [Calls -> Records] /\ lock' \in 0..NumCalls
      BY <2>1, LeaveTypes
    <3> QED
      BY <1>4, <3>1 DEF TypeOK, CallsTyped, Steps, Read
  <2>2. CASE ~Leave(c)
    <3>1. PICK p \in {"append", "write"} : Goto(c, p)
      BY <1>4, <2>2 DEF Read
    <3>2. CallsTyped'
      BY <3>1, GotoTypes DEF Steps
    <3>3. copy' \in [Calls -> Records] /\ UNCHANGED lock
      BY <1>4, <2>2 DEF Read, TypeOK
    <3> QED
      BY <1>4, <3>2, <3>3 DEF TypeOK, CallsTyped, Steps, Read
  <2> QED
    BY <1>4, <2>1, <2>2 DEF Read
<1>5. ASSUME NEW c \in Calls, AppendEvent(c)
       PROVE  TypeOK'
  <2>1. "write" \in Steps /\ Goto(c, "write")
    BY <1>5 DEF AppendEvent, Steps
  <2>2. CallsTyped'
    BY <2>1, GotoTypes
  <2>3. torn' \in BOOLEAN
    BY <1>5 DEF AppendEvent, TypeOK
  <2>4. /\ log' \in Seq(Nat) /\ Len(log) \in Nat
        /\ Len(log') \in {Len(log), Len(log) + 1}
    <3>1. log \in Seq(Nat) /\ NextSeq(c) \in Nat
      BY ChangedType DEF TypeOK
    <3>2. log' = log \/ log' = Append(log, NextSeq(c))
      BY <1>5 DEF AppendEvent
    <3> QED
      BY <3>1, <3>2
  <2>5. UNCHANGED <<record, lock, copy, answers, cursor, got, unsaved, faults>>
    BY <1>5 DEF AppendEvent
  <2>6. got \subseteq 1..Len(log')
    BY <2>4 DEF TypeOK
  <2> QED
    BY <2>2, <2>3, <2>4, <2>5, <2>6 DEF TypeOK, CallsTyped, Steps
<1>6. ASSUME NEW c \in Calls, Write(c)
       PROVE  TypeOK'
  <2>1. "return" \in Steps /\ Goto(c, "return")
    BY <1>6 DEF Write, Steps
  <2>2. CallsTyped' /\ Changed(c) \in Records
    BY <2>1, GotoTypes, ChangedType
  <2> QED
    BY <1>6, <2>2 DEF TypeOK, CallsTyped, Steps, Write
<1>7. ASSUME NEW c \in Calls, Return(c)
       PROVE  TypeOK'
  <2>1. CallsTyped' /\ copy' \in [Calls -> Records] /\ lock' \in 0..NumCalls
    BY <1>7, LeaveTypes DEF Return
  <2> QED
    BY <1>7, <2>1 DEF TypeOK, CallsTyped, Steps, Return
<1>8. ASSUME NEW c \in Calls, Transient(c)
       PROVE  TypeOK'
  <2>1. UNCHANGED <<record, log, torn, answers, cursor, got, unsaved>>
    BY <1>8 DEF Transient
  <2>2. /\ pc' \in [Calls -> Steps] /\ kind' \in [Calls -> Kinds \cup {"none"}]
        /\ copy' \in [Calls -> Records] /\ lock' \in 0..NumCalls
    BY <1>8 DEF Transient, TypeOK, Steps
  <2>3. tries' \in [Calls -> 0..MaxAttempts] /\ faults' \in 0..MaxFaults
    BY <1>8 DEF Transient, TypeOK
  <2> QED
    BY <2>1, <2>2, <2>3 DEF TypeOK, Steps
<1>9. ASSUME NEW c \in Calls, Persistent(c)
       PROVE  TypeOK'
  <2>1. unsaved' \in SUBSET Nat
    <3>1. unsaved \subseteq Nat /\ NextSeq(c) \in Nat
      BY ChangedType DEF TypeOK
    <3>2. unsaved' \in {unsaved, unsaved \cup {NextSeq(c)}}
      BY <1>9 DEF Persistent
    <3> QED
      BY <3>1, <3>2
  <2>2. CASE pc[c] = "append"
    <3>1. "write" \in Steps /\ Goto(c, "write")
      BY <1>9, <2>2 DEF Persistent, Steps
    <3>2. CallsTyped'
      BY <3>1, GotoTypes
    <3>3. UNCHANGED <<record, lock, copy, log, torn, answers, cursor, got>>
      BY <1>9, <2>2 DEF Persistent
    <3>4. faults' \in 0..MaxFaults
      BY <1>9 DEF Persistent, TypeOK
    <3> QED
      BY <2>1, <3>2, <3>3, <3>4 DEF TypeOK, CallsTyped, Steps
  <2>3. CASE pc[c] # "append"
    <3>1. CallsTyped' /\ copy' \in [Calls -> Records] /\ lock' \in 0..NumCalls
      BY <1>9, <2>3, LeaveTypes DEF Persistent
    <3>2. UNCHANGED <<record, log, torn, cursor, got>> /\ answers' \subseteq Calls
      BY <1>9, <2>3 DEF Persistent, TypeOK
    <3>3. faults' \in 0..MaxFaults
      BY <1>9 DEF Persistent, TypeOK
    <3> QED
      BY <2>1, <3>1, <3>2, <3>3 DEF TypeOK, CallsTyped, Steps
  <2> QED
    BY <2>2, <2>3
<1>10. ASSUME NEW c \in Calls, Die(c)
       PROVE  TypeOK'
  <2>1. CallsTyped' /\ copy' \in [Calls -> Records] /\ lock' \in 0..NumCalls
    BY <1>10, LeaveTypes DEF Die
  <2>2. unsaved' \subseteq Nat
    BY <1>10, ChangedType DEF Die, TypeOK
  <2>3. torn' \in BOOLEAN /\ faults' \in 0..MaxFaults
    <3>1. torn \in BOOLEAN /\ torn' \in {torn, torn \/ pc[c] = "append"}
      BY <1>10 DEF Die, TypeOK
    <3>2. faults' \in 0..MaxFaults
      BY <1>10 DEF Die, TypeOK
    <3> QED
      BY <3>1, <3>2
  <2>4. UNCHANGED <<record, log, answers, cursor, got>>
    BY <1>10 DEF Die
  <2> QED
    BY <2>1, <2>2, <2>3, <2>4 DEF TypeOK, CallsTyped, Steps
<1>11. ASSUME Poll
       PROVE  TypeOK'
  <2>1. /\ Beyond \subseteq 1..Len(log) /\ Page(PageLimit) \subseteq Beyond
        /\ LastOf(Page(PageLimit)) \in Beyond
    BY <1>11, PageFacts DEF Poll, Beyond
  <2>2. cursor' = log[LastOf(Page(PageLimit))] /\ got' = got \cup Page(PageLimit)
    BY <1>11 DEF Poll, LastOf
  <2>3. UNCHANGED <<record, lock, log, torn, callVars, answers, unsaved, faults>>
    BY <1>11 DEF Poll
  <2>4. cursor' \in Nat /\ got' \subseteq 1..Len(log)
    <3>1. log \in Seq(Nat) /\ got \subseteq 1..Len(log)
      BY DEF TypeOK
    <3>2. /\ LastOf(Page(PageLimit)) \in 1..Len(log)
          /\ Page(PageLimit) \subseteq 1..Len(log)
      BY <2>1
    <3>3. log[LastOf(Page(PageLimit))] \in Nat
      BY <3>1, <3>2
    <3>4. got' \subseteq 1..Len(log)
      BY <2>2, <3>1, <3>2
    <3> QED
      BY <2>2, <3>3, <3>4
  <2> QED
    BY <2>3, <2>4 DEF TypeOK
<1>12. CASE UNCHANGED vars
  BY <1>12 DEF vars, TypeOK
<1> QED
  BY <1>1, <1>2, <1>3, <1>4, <1>5, <1>6, <1>7, <1>8, <1>9, <1>10, <1>11,
     <1>12 DEF Next

(* What a call that leaves does to who holds the lock and who has read what.*)
LEMMA LeaveKeeps ==
  ASSUME AtomicInv, NEW c \in Calls, Leave(c), UNCHANGED record
  PROVE  HoldsLock' /\ LoggedAppends' /\ CopyIsCurrent' /\ DoneFromWrite'
<1>1. /\ \A d \in Calls : d # c => pc'[d] = pc[d] /\ copy'[d] = copy[d]
      /\ pc'[c] = "ended" /\ UNCHANGED kind
  BY DEF AtomicInv, TypeOK, Leave, Goto
<1>2. LoggedAppends' /\ CopyIsCurrent' /\ DoneFromWrite'
  BY <1>1 DEF AtomicInv, LoggedAppends, CopyIsCurrent, DoneFromWrite
<1>3. HoldsLock'
  BY <1>1 DEF AtomicInv, HoldsLock, Leave
<1> QED
  BY <1>2, <1>3

(* The lock makes read, change and write of a record one step.             *)
LEMMA AtomicStep == AtomicInv /\ [Next]_vars => AtomicInv'
<1> SUFFICES ASSUME AtomicInv, [Next]_vars PROVE AtomicInv'
  OBVIOUS
<1>0. TypeOK'
  BY TypeStep DEF AtomicInv
<1> USE DEF AtomicInv, TypeOK, HoldsLock, LoggedAppends, CopyIsCurrent,
        DoneFromWrite,
        AnswersAreDone, Goto, Leave
<1> DEFINE Others == /\ HoldsLock /\ LoggedAppends /\ CopyIsCurrent
                     /\ DoneFromWrite /\ AnswersAreDone
<1>1. ASSUME NEW c \in Calls, Begin(c)
       PROVE  Others'
  BY <1>1 DEF Begin
<1>2. ASSUME NEW c \in Calls, Acquire(c)
       PROVE  Others'
  BY <1>2 DEF Acquire
<1>3. ASSUME NEW c \in Calls, TimesOut(c)
       PROVE  Others'
  <2>1. Leave(c) /\ UNCHANGED <<record, answers>>
    BY <1>3 DEF TimesOut
  <2> HIDE DEF Leave
  <2> QED
    BY <2>1, LeaveKeeps
<1>4. ASSUME NEW c \in Calls, Read(c)
       PROVE  Others'
  <2>1. CASE Leave(c) /\ UNCHANGED <<record, answers>>
    <3> HIDE DEF Leave
    <3> QED
      BY <2>1, LeaveKeeps
  <2>2. CASE ~Leave(c)
    <3>1. PICK p \in {"append", "write"} :
            /\ p = "append" => kind[c] \in Logged
            /\ pc' = [pc EXCEPT ![c] = p] /\ copy' = [copy EXCEPT ![c] = record]
            /\ UNCHANGED <<record, lock, kind, answers>> /\ pc[c] = "read"
      <4> HIDE DEF Leave
      <4> QED
        BY <1>4, <2>2 DEF Read
    <3> QED
      BY <3>1
  <2>3. UNCHANGED <<record, answers>>
    BY <1>4 DEF Read
  <2> QED
    BY <2>1, <2>2, <2>3
<1>5. ASSUME NEW c \in Calls, AppendEvent(c)
       PROVE  Others'
  BY <1>5 DEF AppendEvent
<1>6. ASSUME NEW c \in Calls, Write(c)
       PROVE  Others'
  BY <1>6 DEF Write, Changed
<1>7. ASSUME NEW c \in Calls, Return(c)
       PROVE  Others'
  <2>1. Leave(c) /\ UNCHANGED record
    BY <1>7 DEF Return
  <2>2. AnswersAreDone'
    BY <1>7 DEF Return
  <2> HIDE DEF Leave
  <2> QED
    BY <2>1, <2>2, LeaveKeeps
<1>8. ASSUME NEW c \in Calls, Transient(c)
       PROVE  Others'
  <2>1. UNCHANGED <<record, lock, pc, kind, copy, answers>>
    BY <1>8 DEF Transient
  <2> QED
    BY <2>1
<1>9. ASSUME NEW c \in Calls, Persistent(c)
       PROVE  Others'
  <2>1. UNCHANGED <<record, answers>>
    BY <1>9 DEF Persistent
  <2>2. CASE pc[c] = "append"
    <3>1. pc' = [pc EXCEPT ![c] = "write"] /\ UNCHANGED <<lock, copy, kind>>
      BY <1>9, <2>2 DEF Persistent
    <3> QED
      BY <2>1, <2>2, <3>1
  <2>3. CASE Leave(c)
    <3> HIDE DEF Leave
    <3> QED
      BY <2>1, <2>3, LeaveKeeps
  <2> QED
    BY <1>9, <2>2, <2>3 DEF Persistent
<1>10. ASSUME NEW c \in Calls, Die(c)
       PROVE  Others'
  <2>1. Leave(c) /\ UNCHANGED <<record, answers>>
    BY <1>10 DEF Die
  <2> HIDE DEF Leave
  <2> QED
    BY <2>1, LeaveKeeps
<1>11. ASSUME Poll
       PROVE  Others'
  BY <1>11 DEF Poll
<1>12. CASE UNCHANGED vars
  BY <1>12 DEF vars
<1> QED
  BY <1>0, <1>1, <1>2, <1>3, <1>4, <1>5, <1>6, <1>7, <1>8, <1>9, <1>10, <1>11,
     <1>12 DEF Next

(* Every step of the calls is a step of the abstract store, or none.       *)
LEMMA Refines == AtomicInv /\ [Next]_vars => [Atomic!Next]_<<record.done, answers>>
<1> SUFFICES ASSUME AtomicInv, [Next]_vars
             PROVE  [Atomic!Next]_<<record.done, answers>>
  OBVIOUS
<1> USE DEF AtomicInv, TypeOK, CopyIsCurrent, DoneFromWrite
<1> DEFINE Step == [Atomic!Next]_<<record.done, answers>>
<1>1. ASSUME NEW c \in Calls, Write(c)
      PROVE  Step
  <2>1. pc[c] = "write" /\ copy[c] = record /\ UNCHANGED answers
    BY <1>1 DEF Write
  <2>2. c \notin record.done
    BY <2>1
  <2>3. CASE IsRequired(c)
    <3>1. record'.done = record.done \cup {c}
      BY <1>1, <2>1, <2>3 DEF Write, Changed
    <3>2. Atomic!Happen(c)
      BY <2>1, <2>2, <3>1 DEF Atomic!Happen
    <3> QED
      BY <3>2 DEF Atomic!Next
  <2>4. CASE ~IsRequired(c)
    <3>1. record'.done = record.done
      BY <1>1, <2>1, <2>4 DEF Write, Changed
    <3> QED
      BY <2>1, <3>1
  <2> QED
    BY <2>3, <2>4
<1>2. ASSUME NEW c \in Calls, Return(c)
      PROVE  Step
  <2>1. CASE IsRequired(c)
    <3>1. c \in record.done /\ answers' = answers \cup {c} /\ UNCHANGED record
      BY <1>2, <2>1 DEF Return
    <3>2. Atomic!Confirm(c)
      BY <3>1 DEF Atomic!Confirm
    <3> QED
      BY <3>2 DEF Atomic!Next
  <2>2. CASE ~IsRequired(c)
    <3>1. answers' = answers /\ UNCHANGED record
      BY <1>2, <2>2 DEF Return
    <3> QED
      BY <3>1
  <2> QED
    BY <2>1, <2>2
<1>3. ASSUME NEW c \in Calls, Begin(c) \/ Acquire(c) \/ TimesOut(c) \/ Read(c) \/
             AppendEvent(c) \/ Transient(c) \/ Persistent(c) \/ Die(c)
      PROVE  Step
  BY <1>3 DEF Begin, Acquire, TimesOut, Read, AppendEvent, Transient,
     Persistent, Die
<1>4. CASE Poll \/ UNCHANGED vars
  BY <1>4 DEF Poll, vars
<1> QED
  BY <1>1, <1>2, <1>3, <1>4 DEF Next

(* A step that leaves log and reader alone need only account for the       *)
(* number of the line that waits for its record.                           *)
LEMMA LogKept ==
  ASSUME IInv, UNCHANGED <<log, cursor, got>>, record'.seq = record.seq,
         unsaved \subseteq unsaved',
         Pending => Pending' \/ record.seq + 1 \in unsaved'
  PROVE  LogInv'
<1> USE DEF IInv, LogInv, AtomicInv, TypeOK, LinesInOrder, LinesExplained,
        CursorComplete
<1>1. ASSUME NEW n \in Nat, Explained(n)
      PROVE  Explained(n)'
  BY <1>1 DEF Explained
<1>2. LinesInOrder'
  <2>1. ASSUME NEW j \in 1..Len(log), NEW k \in 1..Len(log), j < k
        PROVE  log[j] <= log[k] /\ (log[j] = log[k] => log[k] \in unsaved')
    BY <2>1
  <2> QED
    BY <2>1
<1>4. CursorComplete'
  <2>1. ASSUME NEW k \in 1..Len(log), log[k] <= cursor
        PROVE  k \in got \/ log[k] \in unsaved'
    BY <2>1
  <2> QED
    BY <2>1
<1>3. LinesExplained' /\ Explained(cursor)'
  BY <1>1
<1> QED
  BY <1>2, <1>3, <1>4

(* The log grows at its end only, with the next number, and only while no  *)
(* line is waiting for its record.                                         *)
LEMMA LogStep == IInv /\ [Next]_vars => LogInv'
<1> SUFFICES ASSUME IInv, [Next]_vars PROVE LogInv'
  OBVIOUS
<1>0. TypeOK'
  BY TypeStep DEF IInv, AtomicInv
<1>1. ASSUME NEW c \in Calls, Begin(c) \/ Acquire(c) \/ TimesOut(c) \/
             Read(c) \/ Return(c) \/ Transient(c)
       PROVE  LogInv'
  <2>1. /\ UNCHANGED <<log, cursor, got, record>>
        /\ unsaved \subseteq unsaved'
        /\ Pending => Pending' \/ record.seq + 1 \in unsaved'
    BY <1>1 DEF Begin, Acquire, TimesOut, Read, Return, Transient, Goto,
       Leave, Pending, IInv, AtomicInv, TypeOK
  <2> QED
    BY <2>1, LogKept
<1>2. ASSUME NEW c \in Calls, AppendEvent(c)
       PROVE  LogInv'
  <2> USE DEF IInv, AtomicInv, TypeOK, LogInv
  <2>1. /\ UNCHANGED <<cursor, got, record, unsaved>> /\ copy[c] = record
        /\ pc[c] = "append" /\ pc' = [pc EXCEPT ![c] = "write"] /\ UNCHANGED kind
    BY <1>2 DEF AppendEvent, Goto, CopyIsCurrent
  <2>2. Pending' /\ ~Pending
    BY <2>1 DEF Pending, LoggedAppends, HoldsLock
  <2>3. CASE UNCHANGED log
    BY <2>1, <2>2, <2>3, LogKept
  <2>4. CASE log' = Append(log, record.seq + 1)
    <3>1. /\ log \in Seq(Nat) /\ log' \in Seq(Nat) /\ record.seq + 1 \in Nat
          /\ record.seq \in Nat /\ cursor \in Nat
      BY <1>0, <2>1 DEF Records
    <3>2. /\ Len(log) \in Nat /\ Len(log') = Len(log) + 1
          /\ log'[Len(log) + 1] = record.seq + 1
          /\ \A k \in 1..Len(log) : log'[k] = log[k] /\ log[k] \in Nat
      BY <2>4, <3>1
    <3>3. \A n \in Nat : Explained(n) => /\ Explained(n)' /\ n <= record.seq + 1
                                         /\ n = record.seq + 1 => n \in unsaved
      BY <2>1, <2>2 DEF Explained
    <3>4. LinesExplained' /\ Explained(cursor)'
      <4>1. \A k \in 1..Len(log') : log'[k] <= record.seq + 1
        <5>1. ASSUME NEW k \in 1..Len(log)
              PROVE  log'[k] <= record.seq + 1
          BY <3>2, <3>3 DEF LinesExplained
        <5>2. log'[Len(log) + 1] <= record.seq + 1
          BY <3>1, <3>2
        <5>3. \A k \in 1..Len(log') : k \in 1..Len(log) \/ k = Len(log) + 1
          <6>1. Len(log) \in Nat /\ Len(log') = Len(log) + 1
            BY <3>2
          <6> QED
            BY <6>1
        <5> QED
          BY <5>1, <5>2, <5>3
      <4>2. cursor <= record.seq + 1
        BY <3>1, <3>3
      <4> QED
        BY <2>1, <2>2, <4>1, <4>2 DEF LinesExplained, Explained
    <3>5. LinesInOrder'
      <4>1. ASSUME NEW j \in 1..Len(log'), NEW k \in 1..Len(log'), j < k
            PROVE  log'[j] <= log'[k] /\ (log'[j] = log'[k] => log'[k] \in unsaved)
        <5>0. k <= Len(log) \/ k = Len(log) + 1
          <6>1. Len(log) \in Nat /\ Len(log') = Len(log) + 1
            BY <3>2
          <6> QED
            BY <4>1, <6>1
        <5>1. CASE k <= Len(log)
          <6>1. j \in 1..Len(log) /\ k \in 1..Len(log)
            BY <3>2, <4>1, <5>1
          <6>2. log[j] <= log[k] /\ (log[j] = log[k] => log[k] \in unsaved)
            BY <4>1, <6>1 DEF LinesInOrder
          <6> QED
            BY <3>2, <6>1, <6>2
        <5>2. CASE k = Len(log) + 1
          <6>1. j \in 1..Len(log)
            BY <3>2, <4>1, <5>2
          <6>2. log[j] \in Nat /\ Explained(log[j]) /\ log'[j] = log[j]
            BY <3>2, <6>1 DEF LinesExplained
          <6>3. /\ log[j] <= record.seq + 1
                /\ log[j] = record.seq + 1 => log[j] \in unsaved
            BY <3>3, <6>2
          <6>4. log'[k] = record.seq + 1
            BY <3>2, <5>2
          <6> QED
            BY <6>2, <6>3, <6>4
        <5> QED
          BY <5>0, <5>1, <5>2, Zenon
      <4> QED
        BY <2>1, <4>1 DEF LinesInOrder
    <3>6. CursorComplete'
      <4>1. ASSUME NEW k \in 1..Len(log'), log'[k] <= cursor
            PROVE  k \in got \/ log'[k] \in unsaved
        <5>1. CASE k <= Len(log)
          BY <3>2, <4>1, <5>1 DEF CursorComplete
        <5>2. CASE k = Len(log) + 1
          BY <3>1, <3>2, <3>3, <4>1, <5>2
        <5> QED
          BY <3>2, <5>1, <5>2
      <4> QED
        BY <2>1, <4>1 DEF CursorComplete
    <3> QED
      BY <3>4, <3>5, <3>6
  <2> QED
    BY <1>2, <2>1, <2>3, <2>4 DEF AppendEvent, NextSeq
<1>3. ASSUME NEW c \in Calls, Write(c)
       PROVE  LogInv'
  <2> USE DEF IInv, AtomicInv, TypeOK, LogInv
  <2>1. /\ UNCHANGED <<log, cursor, got, unsaved, kind>> /\ copy[c] = record
        /\ pc[c] = "write" /\ pc' = [pc EXCEPT ![c] = "return"]
        /\ record' = Changed(c) /\ record.seq \in Nat
    BY <1>3 DEF Write, Goto, CopyIsCurrent, Records
  <2>2. CASE kind[c] \notin Logged
    <3>1. record'.seq = record.seq
      BY <2>1, <2>2 DEF Changed
    <3>2. ~Pending
      BY <2>1, <2>2 DEF Pending, HoldsLock
    <3> QED
      BY <2>1, <3>1, <3>2, LogKept
  <2>3. CASE kind[c] \in Logged
    <3>1. record'.seq = record.seq + 1
      BY <2>1, <2>3 DEF Changed, NextSeq
    <3>2. \A n \in Nat : Explained(n) => Explained(n)'
      BY <2>1, <3>1 DEF Explained
    <3>3. LinesExplained' /\ Explained(cursor)'
      BY <2>1, <3>2 DEF LinesExplained
    <3>4. LinesInOrder' /\ CursorComplete'
      BY <2>1 DEF LinesInOrder, CursorComplete
    <3> QED
      BY <3>3, <3>4
  <2> QED
    BY <2>2, <2>3
<1>4. ASSUME NEW c \in Calls, Persistent(c)
       PROVE  LogInv'
  <2>1. /\ UNCHANGED <<log, cursor, got, record>>
        /\ unsaved \subseteq unsaved'
        /\ Pending => Pending' \/ record.seq + 1 \in unsaved'
    BY <1>4 DEF Persistent, Goto, Leave, Pending, IInv, AtomicInv, TypeOK,
       CopyIsCurrent, NextSeq
  <2> QED
    BY <2>1, LogKept
<1>5. ASSUME NEW c \in Calls, Die(c)
       PROVE  LogInv'
  <2>1. /\ UNCHANGED <<log, cursor, got, record>>
        /\ unsaved \subseteq unsaved'
        /\ Pending => Pending' \/ record.seq + 1 \in unsaved'
    BY <1>5 DEF Die, Goto, Leave, Pending, IInv, AtomicInv, TypeOK,
       CopyIsCurrent, NextSeq
  <2> QED
    BY <2>1, LogKept
<1>6. ASSUME Poll
       PROVE  LogInv'
  <2> USE DEF IInv, AtomicInv, TypeOK, LogInv
  <2> DEFINE P == Page(PageLimit)
             last == LastOf(P)
  <2>1. /\ P \subseteq Beyond /\ last \in P
        /\ \A k \in Beyond : k <= last => k \in P
        /\ Beyond \subseteq 1..Len(log)
    BY <1>6, PageFacts DEF Poll, Beyond
  <2>2. cursor' = log[last] /\ got' = got \cup P
    BY <1>6 DEF Poll, LastOf
  <2>3. UNCHANGED <<record, log, pc, kind, unsaved>>
    BY <1>6 DEF Poll, callVars
  <2> HIDE DEF P, last
  <2>4. last \in 1..Len(log) /\ log \in Seq(Nat) /\ cursor \in Nat
    BY <2>1
  <2>5. \A n \in Nat : Explained(n) => Explained(n)'
    BY <2>3 DEF Explained, Pending
  <2>6. LinesExplained' /\ Explained(cursor)'
    <3>1. \A k \in 1..Len(log) : log[k] \in Nat
      BY <2>4
    <3> QED
      BY <2>2, <2>3, <2>4, <2>5, <3>1 DEF LinesExplained
  <2>7. LinesInOrder'
    BY <2>3 DEF LinesInOrder
  <2>8. ASSUME NEW k \in 1..Len(log), log[k] <= log[last]
        PROVE  k \in got \cup P \/ log[k] \in unsaved
    <3>1. CASE log[k] <= cursor
      BY <3>1 DEF CursorComplete
    <3>2. CASE k \in Beyond /\ k <= last
      BY <2>1, <3>2
    <3>3. CASE last < k
      <4>1. log[last] <= log[k] /\ (log[last] = log[k] => log[k] \in unsaved)
        BY <2>4, <3>3 DEF LinesInOrder
      <4>2. log[last] \in Nat /\ log[k] \in Nat
        BY <2>4
      <4> QED
        BY <2>8, <4>1, <4>2
    <3>4. k \in Beyond \/ log[k] <= cursor
      <4>1. log[k] \in Nat
        BY <2>4
      <4> QED
        BY <2>4, <4>1 DEF Beyond
    <3> QED
      BY <2>4, <3>1, <3>2, <3>3, <3>4
  <2>9. CursorComplete'
    BY <2>2, <2>3, <2>8 DEF CursorComplete
  <2> QED
    BY <2>6, <2>7, <2>9
<1>7. CASE UNCHANGED vars
  <2>1. UNCHANGED <<log, cursor, got, record, unsaved, pc, kind>>
    BY <1>7 DEF vars
  <2>2. Pending => Pending'
    BY <2>1 DEF Pending
  <2> QED
    BY <2>1, <2>2, LogKept
<1> QED
  BY <1>1, <1>2, <1>3, <1>4, <1>5, <1>6, <1>7 DEF Next

-----------------------------------------------------------------------------
(* The strengthened invariant holds in every reachable state.               *)
THEOREM Invariance == Spec => []IInv
<1>1. Init => IInv
  <2> SUFFICES ASSUME Init PROVE IInv
    OBVIOUS
  <2>1. TypeOK
    <3>1. Record0 \in Records
      BY DEF Records, Record0
    <3>2. log \in Seq(Nat) /\ got \subseteq 1..Len(log)
      BY DEF Init
    <3>3. torn \in BOOLEAN
      BY DEF Init
    <3>4. /\ tries \in [Calls -> 0..MaxAttempts]
          /\ faults \in 0..MaxFaults /\ lock \in 0..NumCalls
      BY DEF Init
    <3> QED
      BY <3>1, <3>2, <3>3, <3>4 DEF Init, TypeOK
  <2>2. HoldsLock /\ LoggedAppends /\ CopyIsCurrent /\ DoneFromWrite /\ AnswersAreDone
    BY DEF Init, HoldsLock, LoggedAppends, CopyIsCurrent, DoneFromWrite,
       AnswersAreDone,
           Record0
  <2>3. LogInv
    BY DEF Init, LogInv, LinesInOrder, LinesExplained, Explained,
       CursorComplete, Record0
  <2> QED
    BY <2>1, <2>2, <2>3 DEF IInv, AtomicInv
<1>2. IInv /\ [Next]_vars => IInv'
  BY AtomicStep, LogStep DEF IInv
<1> QED
  BY <1>1, <1>2, PTL DEF Spec

(* Whatever fails and dies in between, the store of records is the atomic  *)
(* one: no update is lost, and none is confirmed that did not happen.      *)
THEOREM StoreIsAtomic == Spec => RecordIsAtomic
<1>1. Init => Atomic!Init
  BY DEF Init, Atomic!Init, Record0
<1>2. IInv /\ [Next]_vars => [Atomic!Next]_<<record.done, answers>>
  BY Refines DEF IInv
<1> QED
  BY <1>1, <1>2, Invariance, PTL DEF Spec, RecordIsAtomic, Atomic!Spec

(* A reader that follows the log with its cursor misses no line but those  *)
(* that share their number with one whose record was never written.        *)
THEOREM NoLineMissed == Spec => []CursorComplete
<1>1. IInv => CursorComplete
  BY DEF IInv, LogInv
<1> QED
  BY <1>1, Invariance, PTL
=============================================================================
