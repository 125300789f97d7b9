--------------------------- MODULE ExecutionProofs ---------------------------
(***************************************************************************)
(* Proofs about Execution, for any providers, profiles and fallbacks, any  *)
(* deadline and recovery policy, and any number of failing store calls.    *)
(***************************************************************************)
EXTENDS Execution, FiniteSetTheorems, TLAPS

(* The types the other parts need: a call is at a candidate of its chain   *)
(* until its result is final, and has used no more of a turn than it has.  *)
Steps == {"route", "candidate", "begin", "record", "inherit", "prelaunch", "session",
          "launch", "turn", "decide", "finish", "after", "override", "done", "raised"}
Before == {"candidate", "begin", "record", "inherit", "prelaunch", "session"}
AtWork == {"launch", "turn", "decide", "finish"}
CountsOK ==
  /\ spent \in Nat /\ used \in Nat /\ limit \in Nat /\ used <= limit
  /\ late \in Nat /\ faults \in Nat /\ attempt \in Nat
PlaceOK ==
  /\ kind \in {"profile", "auto", "named"}
  /\ pc \in Steps /\ i \in Nat /\ Len(chain) \in Nat
  /\ pc = "route" => i = 0
  /\ pc \in Before \cup AtWork \cup {"after"} => i \in Index
PerCandidateOK ==
  /\ sess \in [Index -> {"none", "running", "idle", "interrupted", "failed"}]
  /\ tree \in [Index -> {"none", "made", "recorded"}]
Types == CountsOK /\ PlaceOK /\ PerCandidateOK

(* A launched candidate has a session.  Only that one is at work, and only *)
(* while its turns last, unless a second store call failed.                *)
OneAtWork ==
  /\ pc \in AtWork => sess[i] # "none"
  /\ faults < 2 => \A k \in Index :
       sess[k] = "running" => k = i /\ pc \in AtWork \cup {"raised"}

(* The first candidate has all the time before it is launched, and what is *)
(* left of its turn is within what is left of the deadline.                *)
TimeLeft ==
  /\ pc \in Before \cup {"route", "after"} => used = 0 /\ limit = 0
  /\ pc \in Before \cup {"route"} /\ i <= 1 => spent = 0
  /\ i = 1 => spent + (limit - used) <= Timeout

(* After a turn that began with the event set nothing leads to another     *)
(* one: no recovery, for it did not time out; no further candidate of a    *)
(* session, which was launched; and no other candidate gets past its start.*)
NoSecondLate ==
  /\ late <= 1
  /\ late = 1 =>
       /\ cancel
       /\ pc \in {"decide", "finish", "after", "candidate", "begin", "override", "done",
                  "raised"}
       /\ pc = "decide" => res.status # "timeout"
       /\ direct => pc \notin {"candidate", "begin"}
       /\ direct /\ pc = "after" => sess[i] # "none"

(* A budget trips while a provider works.  The end of a task asks for it,  *)
(* and for a session the end of its turns does, the last it will have.     *)
BudgetSeen ==
  /\ pc = "route" => ~flagged
  /\ ~direct /\ pc = "done" /\ flagged => res.status \in {"budget_exceeded", "timeout"}
  /\ direct /\ flagged /\ faults = 0 =>
       /\ pc \in AtWork \cup {"after", "done", "raised"}
       /\ pc \in {"after", "done"} /\ ~Raised => res.status = "budget_exceeded"
       /\ pc = "after" => sess[i] # "none"

(* Between the start of a candidate and its turns the record of a worktree *)
(* comes before everything else.                                           *)
TreeRecorded ==
  NeedsTree /\ pc \in {"inherit", "prelaunch", "session", "launch", "turn", "decide"} =>
    tree[i] = "recorded"

(* The counts agree with what they were told: failures only, or successes  *)
(* only.                                                                   *)
Agrees(h, t) ==
  /\ t # {} => h.attempts > 0
  /\ t \subseteq {"error", "timeout", "unavailable"} =>
       /\ h.successes = 0 /\ h.timeouts + h.failures = h.attempts
       /\ h.consecutive = h.attempts
  /\ t \subseteq {"success"} =>
       h.successes = h.attempts /\ h.timeouts = 0 /\ h.failures = 0 /\ h.consecutive = 0
HealthTrue ==
  /\ health \in [Providers -> Counts] /\ told \in [Providers -> SUBSET ProviderResults]
  /\ \A p \in Providers : Agrees(health[p], told[p])

(* Until its first turn a call has the route that health made then.        *)
RouteSorted ==
  kind = "auto" /\ i = 1 /\ pc \in {"candidate", "begin"} =>
    \A j, k \in Index : j < k => ~(Fails(chain[j]) /\ Clean(chain[k]))

(* What else the types say: a call has a result when its turns are over, *)
(* and its bounds are kept by the recoveries, not by the clock alone.      *)
Outcome == {"decide", "finish", "after", "override", "done"}
FlagsTyped ==
  /\ direct \in BOOLEAN /\ write \in BOOLEAN /\ isolate \in BOOLEAN
  /\ inherits \in BOOLEAN /\ cancel \in BOOLEAN /\ flagged \in BOOLEAN
ChainTyped == chain \in Seq(Profiles \cup Providers)
ResultTyped ==
  /\ res.status \in ProviderResults \cup {"none", "budget_exceeded"}
  /\ pc \in Outcome => res.status # "none"
BoundsKept == attempt <= MaxAttempts /\ limit <= Timeout /\ faults <= MaxFaults
Typed == FlagsTyped /\ ChainTyped /\ ResultTyped /\ BoundsKept

IInv ==
  /\ Types /\ OneAtWork /\ TimeLeft /\ NoSecondLate /\ BudgetSeen /\ TreeRecorded
  /\ HealthTrue /\ RouteSorted /\ Typed
-----------------------------------------------------------------------------
(* The counts are counts after another turn, however it ended.             *)
LEMMA CountsType ==
  ASSUME NEW h \in Counts, NEW s
  PROVE  RecordHealth(h, s) \in Counts
<1>1. /\ h.attempts \in Nat /\ h.successes \in Nat /\ h.timeouts \in Nat
      /\ h.failures \in Nat /\ h.consecutive \in Nat
  BY DEF Counts
<1> QED
  BY <1>1 DEF RecordHealth, Counts

(* What the proof needs of integer division.                               *)
LEMMA Quotient ==
  ASSUME NEW n \in Nat, NEW d \in Nat \ {0}
  PROVE  n \div d \in Nat /\ 0 \div d = 0 /\ (n >= 1800 * d => n \div d >= 1800)
<1>1. n \div d \in Nat
  OBVIOUS
<1>2. 0 \div d = 0
  OBVIOUS
<1>3. n >= 1800 * d => n \div d >= 1800
  OBVIOUS
<1> QED
  BY <1>1, <1>2, <1>3

(* A provider that only failed has a lower score than one that never did,  *)
(* preferred or not.                                                       *)
LEMMA FailsScoresLess ==
  ASSUME HealthTrue, NEW p \in Providers, NEW q \in Providers, NEW preferred,
         Fails(p), Clean(q)
  PROVE  ~ScoresAtLeast(p, q, preferred)
<1> DEFINE a == health[p].attempts
           b == health[q].attempts
<1>0. health[p] \in Counts /\ health[q] \in Counts
  BY DEF HealthTrue
<1>1. a \in Nat \ {0} /\ b \in Nat /\ health[p].timeouts \in Nat
      /\ health[p].failures \in Nat
  <2>1. a > 0
    BY DEF HealthTrue, Agrees, Fails
  <2> QED
    BY <1>0, <2>1 DEF Counts
<1>2. /\ health[p].successes = 0 /\ health[p].consecutive = a
      /\ health[p].timeouts + health[p].failures = a
  BY DEF HealthTrue, Agrees, Fails
<1>3. /\ health[q].successes = b /\ health[q].timeouts = 0 /\ health[q].failures = 0
      /\ health[q].consecutive = 0
  BY DEF HealthTrue, Agrees, Clean
<1>4. Gain(p, preferred) = Bonus(p, preferred)
  <2>1. (2400 * 0) \div a = 0
    BY <1>1, Quotient
  <2>2. Bonus(p, preferred) \in Nat
    BY DEF Bonus
  <2> QED
    BY <1>1, <1>2, <2>1, <2>2 DEF Gain
<1>5. Gain(q, preferred) \in Nat
  <2>1. b # 0 => (2400 * b) \div b \in Nat
    BY <1>1, Quotient
  <2> QED
    BY <1>1, <1>3, <2>1 DEF Gain, Bonus
<1>6. Loss(q) = 0
  <2>1. b # 0 => (3000 * 0 + 1800 * 0) \div b = 0
    BY <1>1, Quotient
  <2> QED
    BY <1>1, <1>3, <2>1 DEF Loss, AtMost
<1>7. Loss(p) \in Nat /\ Loss(p) >= 1800
  <2> DEFINE n == 3000 * health[p].timeouts + 1800 * health[p].failures
  <2>1. n \in Nat /\ n >= 1800 * a
    BY <1>1, <1>2
  <2>2. AtMost(480 * a, 1920) \in Nat
    BY <1>1 DEF AtMost
  <2>3. n \div a \in Nat /\ n \div a >= 1800
    BY <1>1, <2>1, Quotient
  <2>4. Loss(p) = n \div a + AtMost(480 * a, 1920)
    BY <1>1, <1>2 DEF Loss
  <2> HIDE DEF n
  <2> QED
    BY <2>2, <2>3, <2>4
<1>8. Bonus(p, preferred) \in 0..840
  BY DEF Bonus
<1> QED
  BY <1>4, <1>5, <1>6, <1>7, <1>8 DEF ScoresAtLeast

USE ExecutionAssumption, ChainAssumption
USE DEF taskVars, turnVars, healthVars, Res, NoResult, Index, Quiet, Returns,
        Steps, Before, AtWork

(* Every route that a call may take has a first candidate.                 *)
LEMMA RoutesHaveFirst ==
  ASSUME PlaceOK
  PROVE  \A c \in Routes : Len(c) \in Nat \ {0}
<1>1. \A a \in SUBSET Providers : \A c \in Ordered(a) : Len(c) \in Nat \ {0}
  <2> SUFFICES ASSUME NEW a \in SUBSET Providers, NEW c \in Ordered(a)
               PROVE  Len(c) \in Nat \ {0}
    OBVIOUS
  <2>1. CASE c \in SetToSeqs(a) /\ c # <<>>
    <3>1. Cardinality(a) \in Nat
      BY FS_Subset, FS_CardinalityType
    <3>2. c \in [1..Cardinality(a) -> a]
      BY <2>1 DEF SetToSeqs
    <3>3. \A n \in Nat : [1..n -> a] \subseteq Seq(a)
      OBVIOUS
    <3>4. c \in Seq(a)
      BY <3>1, <3>2, <3>3
    <3> QED
      BY <2>1, <3>4
  <2>2. CASE \E p : c = <<p>>
    BY <2>2
  <2> QED
    BY <2>1, <2>2 DEF Ordered
<1>2. kind = "profile" => \A c \in Routes : Len(c) \in Nat \ {0}
  <2>1. kind = "profile" => Routes \subseteq Seq(Profiles) \ {<<>>}
    BY DEF Routes
  <2>2. \A c \in Seq(Profiles) \ {<<>>} : Len(c) \in Nat \ {0}
    OBVIOUS
  <2> QED
    BY <2>1, <2>2
<1>3. kind = "named" => \A c \in Routes : Len(c) \in Nat \ {0}
  <2>1. kind = "named" => Routes = {<<p>> : p \in Providers}
    BY DEF Routes
  <2>2. ASSUME kind = "named", NEW c \in Routes
        PROVE  Len(c) \in Nat \ {0}
    <3>1. PICK p \in Providers : c = <<p>>
      BY <2>1, <2>2
    <3> QED
      BY <3>1
  <2> QED
    BY <2>2
<1>4. kind = "auto" => \A c \in Routes : Len(c) \in Nat \ {0}
  BY <1>1 DEF Routes
<1> QED
  BY <1>2, <1>3, <1>4 DEF PlaceOK

(* The call begins with the first candidate of a chain that nobody tried.  *)
LEMMA Routing ==
  ASSUME PlaceOK, Route
  PROVE  /\ pc = "route" /\ pc' \in {"candidate", "begin"} /\ i' = 1 /\ i' \in Index'
         /\ Len(chain') \in Nat
         /\ sess' = [k \in Index' |-> "none"] /\ tree' = [k \in Index' |-> "none"]
         /\ UNCHANGED <<taskVars, res, healthVars, turnVars, cancel, flagged, faults>>
<1>1. PICK c \in Routes : RouteTo(IF direct /\ kind = "auto" THEN <<Head(c)>> ELSE c)
  BY DEF Route
<1>2. Len(chain') \in Nat \ {0}
  BY <1>1, RoutesHaveFirst DEF RouteTo
<1> QED
  BY <1>1, <1>2 DEF Route, RouteTo

(* Every step keeps the counters.                                          *)
LEMMA CountsStep ==
  CountsOK /\ TimeLeft /\ [Next]_vars => CountsOK'
<1> SUFFICES ASSUME CountsOK, TimeLeft, [Next]_vars
             PROVE  CountsOK'
  OBVIOUS
<1>1. CASE StartSession
  BY <1>1 DEF StartSession, CountsOK, TimeLeft
<1>2. CASE StoreFails
  BY <1>2 DEF StoreFails, CountsOK
<1>3. CASE Launch
  BY <1>3 DEF Launch, CountsOK
<1>4. CASE Resume
  <2>1. /\ attempt' = attempt + 1 /\ limit' = AtMost(limit, Remaining) /\ used' = 0
        /\ UNCHANGED <<spent, late, faults>>
    BY <1>4 DEF Resume, ResumeAs
  <2>2. Remaining \in Nat
    BY DEF Remaining, CountsOK
  <2>3. AtMost(limit, Remaining) \in Nat
    BY <2>2 DEF AtMost, CountsOK
  <2> QED
    BY <2>1, <2>3 DEF CountsOK
<1>5. CASE Finish
  <2>1. /\ attempt' = 0 /\ used' = 0 /\ limit' = 0 /\ UNCHANGED <<spent, late>>
        /\ \E n \in 0..2, read \in BOOLEAN : faults' = faults + n + (IF read THEN 0 ELSE 1)
    BY <1>5 DEF Finish, TurnsOver
  <2>2. faults' \in Nat
    BY <2>1 DEF CountsOK
  <2> QED
    BY <2>1, <2>2 DEF CountsOK
<1>6. CASE ProviderRaises
  BY <1>6 DEF ProviderRaises, CountsOK
<1>7. CASE TripBudget
  BY <1>7 DEF TripBudget, CountsOK
<1>8. CASE Tick
  BY <1>8 DEF Tick, CountsOK
<1>9. CASE UNCHANGED <<turnVars, faults>>
  BY <1>9 DEF CountsOK
<1> QED
  BY <1>1, <1>2, <1>3, <1>4, <1>5, <1>6, <1>7, <1>8, <1>9
     DEF Next, Others, OtherTurn, Registry, BeginUnless, ResumeAs, vars,
     Route, RouteFails,
         Consider, Begin, RecordTree, Inherit, PreLaunch, Settle, After,
         Override, ProviderReturns, Cancel

(* Every step keeps the place of the call in its chain.                    *)
LEMMA PlaceStep ==
  PlaceOK /\ [Next]_vars => PlaceOK'
<1> SUFFICES ASSUME PlaceOK, [Next]_vars
             PROVE  PlaceOK'
  OBVIOUS
<1>1. CASE Route
  BY <1>1, Routing DEF PlaceOK
<1>2. CASE RouteFails
  BY <1>2 DEF RouteFails, Settled, PlaceOK
<1>3. CASE Consider
  BY <1>3 DEF Consider, PlaceOK
<1>4. CASE Begin
  BY <1>4 DEF Begin, BeginUnless, PlaceOK
<1>5. CASE RecordTree
  BY <1>5 DEF RecordTree, PlaceOK
<1>6. CASE Inherit
  BY <1>6 DEF Inherit, PlaceOK
<1>7. CASE PreLaunch
  BY <1>7 DEF PreLaunch, PlaceOK
<1>8. CASE StartSession
  BY <1>8 DEF StartSession, PlaceOK
<1>9. CASE StoreFails
  BY <1>9 DEF StoreFails, PlaceOK
<1>10. CASE Launch
  BY <1>10 DEF Launch, PlaceOK
<1>11. CASE Resume
  BY <1>11 DEF Resume, ResumeAs, Resumable, Remaining, AtMost, PlaceOK
<1>12. CASE Settle
  BY <1>12 DEF Settle, Resumable, Remaining, PlaceOK
<1>13. CASE Finish
  BY <1>13 DEF Finish, TurnsOver, Judged, SessionState, PlaceOK
<1>14. CASE After
  BY <1>14 DEF After, Settled, PlaceOK
<1>15. CASE Override
  BY <1>15 DEF Override, PlaceOK
<1>16. CASE ProviderReturns
  BY <1>16 DEF ProviderReturns, PlaceOK
<1>17. CASE ProviderRaises
  BY <1>17 DEF ProviderRaises, PlaceOK
<1>18. CASE UNCHANGED <<kind, pc, chain, i>>
  BY <1>18 DEF PlaceOK
<1> QED
  BY <1>1, <1>2, <1>3, <1>4, <1>5, <1>6, <1>7, <1>8, <1>9, <1>10, <1>11,
     <1>12, <1>13, <1>14, <1>15, <1>16, <1>17, <1>18
     DEF Next, Others, OtherTurn, Registry, BeginUnless, ResumeAs, vars, TripBudget, Cancel,
         Tick

(* Every step keeps what it knows of each candidate.                       *)
LEMMA PerCandidateStep ==
  PlaceOK /\ PerCandidateOK /\ [Next]_vars => PerCandidateOK'
<1> SUFFICES ASSUME PlaceOK, PerCandidateOK, [Next]_vars
             PROVE  PerCandidateOK'
  OBVIOUS
<1>1. CASE Route
  BY <1>1, Routing DEF PerCandidateOK
<1>2. CASE Begin
  BY <1>2 DEF Begin, BeginUnless, PerCandidateOK
<1>3. CASE RecordTree
  BY <1>3 DEF RecordTree, PerCandidateOK
<1>4. CASE StartSession
  BY <1>4 DEF StartSession, PerCandidateOK
<1>5. CASE StoreFails
  BY <1>5 DEF StoreFails, PerCandidateOK
<1>6. CASE Finish
  BY <1>6 DEF Finish, TurnsOver, Judged, SessionState, PerCandidateOK
<1>7. CASE UNCHANGED <<chain, sess, tree>>
  BY <1>7 DEF PerCandidateOK
<1> QED
  BY <1>1, <1>2, <1>3, <1>4, <1>5, <1>6, <1>7
     DEF Next, Others, OtherTurn, Registry, BeginUnless, ResumeAs, vars,
     RouteFails, Consider,
         Inherit, PreLaunch, Launch, Resume, Settle, After, Override,
         ProviderReturns, ProviderRaises, TripBudget, Cancel, Tick

(* Every step keeps all the types; only the time left needs an argument.   *)
LEMMA TypesStep == Types /\ TimeLeft /\ [Next]_vars => Types'
BY CountsStep, PlaceStep, PerCandidateStep DEF Types

(* Every step keeps the session at work apart from the others.             *)
LEMMA AtWorkStep ==
  Types /\ OneAtWork /\ [Next]_vars => OneAtWork'
<1> SUFFICES ASSUME Types, OneAtWork, [Next]_vars
             PROVE  OneAtWork'
  OBVIOUS
<1> USE DEF Types, PlaceOK, PerCandidateOK, CountsOK
<1>1. CASE Route
  BY <1>1, Routing DEF OneAtWork
<1>2. CASE RouteFails
  BY <1>2 DEF RouteFails, Settled, OneAtWork
<1>3. CASE Consider
  BY <1>3 DEF Consider, OneAtWork
<1>4. CASE Begin
  BY <1>4 DEF Begin, BeginUnless, OneAtWork
<1>5. CASE RecordTree
  BY <1>5 DEF RecordTree, OneAtWork
<1>6. CASE Inherit
  BY <1>6 DEF Inherit, OneAtWork
<1>7. CASE PreLaunch
  BY <1>7 DEF PreLaunch, OneAtWork
<1>8. CASE StartSession
  BY <1>8 DEF StartSession, OneAtWork
<1>9. CASE StoreFails
  BY <1>9 DEF StoreFails, OneAtWork
<1>10. CASE Launch
  BY <1>10 DEF Launch, OneAtWork
<1>11. CASE Resume
  BY <1>11 DEF Resume, ResumeAs, Resumable, Remaining, AtMost, OneAtWork
<1>12. CASE Settle
  BY <1>12 DEF Settle, Resumable, Remaining, OneAtWork
<1>13. CASE Finish
  <2>1. PICK n \in 0..2, read \in BOOLEAN :
          /\ faults' = faults + n + (IF read THEN 0 ELSE 1) /\ faults' <= MaxFaults
          /\ ~read => direct /\ ~Raised
          /\ res' = Judged(read)
          /\ IF n = 2 THEN UNCHANGED sess
             ELSE sess' = [sess EXCEPT ![i] = SessionState(res'.status)]
    BY <1>13, Zenon DEF Finish
  <2>2. SessionState(res'.status) \in {"idle", "interrupted", "failed"}
    BY DEF SessionState
  <2>3. pc = "finish" /\ pc' = "after" /\ UNCHANGED <<chain, i, direct, flagged>>
    BY <1>13 DEF Finish, TurnsOver
  <2>4. sess'[i] # "none"
    <3>1. i \in Index /\ sess[i] # "none"
      BY <2>3 DEF OneAtWork
    <3>2. UNCHANGED sess \/ sess' = [sess EXCEPT ![i] = SessionState(res'.status)]
      BY <2>1
    <3> QED
      BY <2>2, <3>1, <3>2
  <2>5. faults' < 2 => n < 2 /\ faults < 2
    BY <2>1
  <2> QED
    BY <2>1, <2>2, <2>3, <2>4, <2>5 DEF OneAtWork
<1>14. CASE After
  BY <1>14 DEF After, Settled, OneAtWork
<1>15. CASE Override
  BY <1>15 DEF Override, OneAtWork
<1>16. CASE ProviderReturns
  BY <1>16 DEF ProviderReturns, OneAtWork
<1>17. CASE ProviderRaises
  BY <1>17 DEF ProviderRaises, OneAtWork
<1>18. CASE TripBudget
  BY <1>18 DEF TripBudget, OneAtWork
<1>19. CASE Cancel
  BY <1>19 DEF Cancel, OneAtWork
<1>20. CASE Tick
  BY <1>20 DEF Tick, OneAtWork
<1>21. CASE UNCHANGED <<chain, pc, i, sess, faults>>
  BY <1>21 DEF OneAtWork
<1> QED
  BY <1>1, <1>2, <1>3, <1>4, <1>5, <1>6, <1>7, <1>8, <1>9, <1>10, <1>11,
     <1>12, <1>13, <1>14, <1>15, <1>16, <1>17, <1>18, <1>19, <1>20, <1>21
     DEF Next, Others, OtherTurn, Registry, BeginUnless, ResumeAs, vars

(* Every step keeps the time that is left.                                 *)
LEMMA TimeStep ==
  Types /\ TimeLeft /\ [Next]_vars => TimeLeft'
<1> SUFFICES ASSUME Types, TimeLeft, [Next]_vars
             PROVE  TimeLeft'
  OBVIOUS
<1> USE DEF Types, PlaceOK, CountsOK
<1>1. CASE Route
  BY <1>1, Routing DEF TimeLeft
<1>2. CASE RouteFails
  BY <1>2 DEF RouteFails, Settled, TimeLeft
<1>3. CASE Consider
  BY <1>3 DEF Consider, TimeLeft
<1>4. CASE Begin
  BY <1>4 DEF Begin, BeginUnless, TimeLeft
<1>5. CASE RecordTree
  BY <1>5 DEF RecordTree, TimeLeft
<1>6. CASE Inherit
  BY <1>6 DEF Inherit, TimeLeft
<1>7. CASE PreLaunch
  BY <1>7 DEF PreLaunch, TimeLeft
<1>8. CASE StartSession
  BY <1>8 DEF StartSession, TimeLeft
<1>9. CASE StoreFails
  BY <1>9 DEF StoreFails, TimeLeft
<1>10. CASE Launch
  BY <1>10 DEF Launch, TimeLeft
<1>11. CASE Resume
  BY <1>11 DEF Resume, ResumeAs, Resumable, Remaining, AtMost, TimeLeft
<1>12. CASE Settle
  BY <1>12 DEF Settle, Resumable, Remaining, TimeLeft
<1>13. CASE Finish
  <2>1. pc = "finish" /\ TurnsOver /\ UNCHANGED <<i, spent>>
    BY <1>13 DEF Finish
  <2> QED
    BY <2>1 DEF TurnsOver, TimeLeft
<1>14. CASE After
  BY <1>14 DEF After, Settled, TimeLeft
<1>15. CASE Override
  BY <1>15 DEF Override, TimeLeft
<1>16. CASE ProviderReturns
  BY <1>16 DEF ProviderReturns, TimeLeft
<1>17. CASE ProviderRaises
  BY <1>17 DEF ProviderRaises, TimeLeft
<1>18. CASE TripBudget
  BY <1>18 DEF TripBudget, TimeLeft
<1>19. CASE Cancel
  BY <1>19 DEF Cancel, TimeLeft
<1>20. CASE Tick
  BY <1>20 DEF Tick, TimeLeft
<1>21. CASE UNCHANGED <<pc, i, spent, used, limit>>
  BY <1>21 DEF TimeLeft
<1> QED
  BY <1>1, <1>2, <1>3, <1>4, <1>5, <1>6, <1>7, <1>8, <1>9, <1>10, <1>11,
     <1>12, <1>13, <1>14, <1>15, <1>16, <1>17, <1>18, <1>19, <1>20, <1>21
     DEF Next, Others, OtherTurn, Registry, BeginUnless, ResumeAs, vars

(* Every step keeps a late turn the last one.                              *)
LEMMA LateStep ==
  Types /\ OneAtWork /\ NoSecondLate /\ [Next]_vars => NoSecondLate'
<1> SUFFICES ASSUME Types, OneAtWork, NoSecondLate, [Next]_vars
             PROVE  NoSecondLate'
  OBVIOUS
<1> USE DEF Types, PlaceOK, CountsOK, PerCandidateOK, OneAtWork
<1>1. CASE Route
  BY <1>1, Routing DEF NoSecondLate
<1>2. CASE RouteFails
  BY <1>2 DEF RouteFails, Settled, NoSecondLate
<1>3. CASE Consider
  BY <1>3 DEF Consider, NoSecondLate
<1>4. CASE Begin
  BY <1>4 DEF Begin, BeginUnless, NoSecondLate
<1>5. CASE RecordTree
  BY <1>5 DEF RecordTree, NoSecondLate
<1>6. CASE Inherit
  BY <1>6 DEF Inherit, NoSecondLate
<1>7. CASE PreLaunch
  BY <1>7 DEF PreLaunch, NoSecondLate
<1>8. CASE StartSession
  BY <1>8 DEF StartSession, NoSecondLate
<1>9. CASE StoreFails
  BY <1>9 DEF StoreFails, NoSecondLate
<1>10. CASE Launch
  BY <1>10 DEF Launch, NoSecondLate
<1>11. CASE Resume
  BY <1>11 DEF Resume, ResumeAs, Resumable, Remaining, AtMost, NoSecondLate
<1>12. CASE Settle
  BY <1>12 DEF Settle, Resumable, Remaining, NoSecondLate
<1>13. CASE Finish
  BY <1>13 DEF Finish, TurnsOver, Judged, SessionState, NoSecondLate
<1>14. CASE After
  BY <1>14 DEF After, Settled, NoSecondLate
<1>15. CASE Override
  BY <1>15 DEF Override, NoSecondLate
<1>16. CASE ProviderReturns
  BY <1>16 DEF ProviderReturns, NoSecondLate
<1>17. CASE ProviderRaises
  BY <1>17 DEF ProviderRaises, NoSecondLate
<1>18. CASE TripBudget
  BY <1>18 DEF TripBudget, NoSecondLate
<1>19. CASE Cancel
  BY <1>19 DEF Cancel, NoSecondLate
<1>20. CASE Tick
  BY <1>20 DEF Tick, NoSecondLate
<1>21. CASE UNCHANGED <<pc, i, res, direct, sess, late, cancel>>
  BY <1>21 DEF NoSecondLate
<1> QED
  BY <1>1, <1>2, <1>3, <1>4, <1>5, <1>6, <1>7, <1>8, <1>9, <1>10, <1>11,
     <1>12, <1>13, <1>14, <1>15, <1>16, <1>17, <1>18, <1>19, <1>20, <1>21
     DEF Next, Others, OtherTurn, Registry, BeginUnless, ResumeAs, vars

(* Every step keeps a tripped budget to be seen at the end.                *)
LEMMA BudgetStep ==
  Types /\ OneAtWork /\ BudgetSeen /\ [Next]_vars => BudgetSeen'
<1> SUFFICES ASSUME Types, OneAtWork, BudgetSeen, [Next]_vars
             PROVE  BudgetSeen'
  OBVIOUS
<1> USE DEF Types, PlaceOK, CountsOK, PerCandidateOK, OneAtWork, Raised
<1>1. CASE Route
  BY <1>1, Routing DEF BudgetSeen
<1>2. CASE RouteFails
  BY <1>2 DEF RouteFails, Settled, BudgetSeen
<1>3. CASE Consider
  BY <1>3 DEF Consider, BudgetSeen
<1>4. CASE Begin
  BY <1>4 DEF Begin, BeginUnless, BudgetSeen
<1>5. CASE RecordTree
  BY <1>5 DEF RecordTree, BudgetSeen
<1>6. CASE Inherit
  BY <1>6 DEF Inherit, BudgetSeen
<1>7. CASE PreLaunch
  BY <1>7 DEF PreLaunch, BudgetSeen
<1>8. CASE StartSession
  BY <1>8 DEF StartSession, BudgetSeen
<1>9. CASE StoreFails
  BY <1>9 DEF StoreFails, BudgetSeen
<1>10. CASE Launch
  BY <1>10 DEF Launch, BudgetSeen
<1>11. CASE Resume
  BY <1>11 DEF Resume, ResumeAs, Resumable, Remaining, AtMost, BudgetSeen
<1>12. CASE Settle
  BY <1>12 DEF Settle, Resumable, Remaining, BudgetSeen
<1>13. CASE Finish
  <2>1. PICK n \in 0..2, read \in BOOLEAN :
          /\ faults' = faults + n + (IF read THEN 0 ELSE 1) /\ faults' <= MaxFaults
          /\ ~read => direct /\ ~Raised
          /\ res' = Judged(read)
          /\ IF n = 2 THEN UNCHANGED sess
             ELSE sess' = [sess EXCEPT ![i] = SessionState(res'.status)]
    BY <1>13, Zenon DEF Finish
  <2>2. SessionState(res'.status) \in {"idle", "interrupted", "failed"}
    BY DEF SessionState
  <2>3. pc = "finish" /\ pc' = "after" /\ UNCHANGED <<chain, i, direct, flagged>>
    BY <1>13 DEF Finish, TurnsOver
  <2>4. sess'[i] # "none"
    <3>1. i \in Index /\ sess[i] # "none"
      BY <2>3 DEF OneAtWork
    <3>2. UNCHANGED sess \/ sess' = [sess EXCEPT ![i] = SessionState(res'.status)]
      BY <2>1
    <3> QED
      BY <2>2, <3>1, <3>2
  <2>5. faults' = 0 => faults = 0 /\ read
    BY <2>1
  <2>6. direct /\ flagged /\ faults' = 0 /\ ~Raised' => res'.status = "budget_exceeded"
    BY <2>1, <2>5, <2>3 DEF Judged
  <2> QED
    BY <2>3, <2>4, <2>5, <2>6 DEF BudgetSeen
<1>14. CASE After
  BY <1>14 DEF After, Settled, BudgetSeen
<1>15. CASE Override
  BY <1>15 DEF Override, BudgetSeen
<1>16. CASE ProviderReturns
  BY <1>16 DEF ProviderReturns, BudgetSeen
<1>17. CASE ProviderRaises
  BY <1>17 DEF ProviderRaises, BudgetSeen
<1>18. CASE TripBudget
  BY <1>18 DEF TripBudget, BudgetSeen
<1>19. CASE Cancel
  BY <1>19 DEF Cancel, BudgetSeen
<1>20. CASE Tick
  BY <1>20 DEF Tick, BudgetSeen
<1>21. CASE UNCHANGED <<pc, i, res, direct, sess, flagged, faults>>
  BY <1>21 DEF BudgetSeen
<1> QED
  BY <1>1, <1>2, <1>3, <1>4, <1>5, <1>6, <1>7, <1>8, <1>9, <1>10, <1>11,
     <1>12, <1>13, <1>14, <1>15, <1>16, <1>17, <1>18, <1>19, <1>20, <1>21
     DEF Next, Others, OtherTurn, Registry, BeginUnless, ResumeAs, vars

(* Every step keeps the record of a worktree before its use.               *)
LEMMA TreeStep ==
  Types /\ TreeRecorded /\ [Next]_vars => TreeRecorded'
<1> SUFFICES ASSUME Types, TreeRecorded, [Next]_vars
             PROVE  TreeRecorded'
  OBVIOUS
<1> USE DEF Types, PlaceOK, PerCandidateOK
<1>1. CASE Route
  BY <1>1, Routing DEF TreeRecorded, NeedsTree
<1>2. CASE RouteFails
  BY <1>2 DEF RouteFails, Settled, TreeRecorded, NeedsTree
<1>3. CASE Consider
  BY <1>3 DEF Consider, TreeRecorded, NeedsTree
<1>4. CASE Begin
  BY <1>4 DEF Begin, BeginUnless, TreeRecorded, NeedsTree
<1>5. CASE RecordTree
  BY <1>5 DEF RecordTree, TreeRecorded, NeedsTree
<1>6. CASE Inherit
  BY <1>6 DEF Inherit, TreeRecorded, NeedsTree
<1>7. CASE PreLaunch
  BY <1>7 DEF PreLaunch, TreeRecorded, NeedsTree
<1>8. CASE StartSession
  BY <1>8 DEF StartSession, TreeRecorded, NeedsTree
<1>9. CASE StoreFails
  BY <1>9 DEF StoreFails, TreeRecorded, NeedsTree
<1>10. CASE Launch
  BY <1>10 DEF Launch, TreeRecorded, NeedsTree
<1>11. CASE Resume
  BY <1>11 DEF Resume, ResumeAs, Resumable, Remaining, AtMost, TreeRecorded,
     NeedsTree
<1>12. CASE Settle
  BY <1>12 DEF Settle, Resumable, Remaining, TreeRecorded, NeedsTree
<1>13. CASE Finish
  BY <1>13 DEF Finish, TurnsOver, Judged, SessionState, TreeRecorded,
     NeedsTree
<1>14. CASE After
  BY <1>14 DEF After, Settled, TreeRecorded, NeedsTree
<1>15. CASE Override
  BY <1>15 DEF Override, TreeRecorded, NeedsTree
<1>16. CASE ProviderReturns
  BY <1>16 DEF ProviderReturns, TreeRecorded, NeedsTree
<1>17. CASE ProviderRaises
  BY <1>17 DEF ProviderRaises, TreeRecorded, NeedsTree
<1>18. CASE TripBudget
  BY <1>18 DEF TripBudget, TreeRecorded, NeedsTree
<1>19. CASE Cancel
  BY <1>19 DEF Cancel, TreeRecorded, NeedsTree
<1>20. CASE Tick
  BY <1>20 DEF Tick, TreeRecorded, NeedsTree
<1>21. CASE UNCHANGED <<taskVars, pc, i, tree>>
  BY <1>21 DEF TreeRecorded, NeedsTree
<1> QED
  BY <1>1, <1>2, <1>3, <1>4, <1>5, <1>6, <1>7, <1>8, <1>9, <1>10, <1>11,
     <1>12, <1>13, <1>14, <1>15, <1>16, <1>17, <1>18, <1>19, <1>20, <1>21
     DEF Next, Others, OtherTurn, Registry, BeginUnless, ResumeAs, vars

(* What health is told keeps the counts true.                              *)
LEMMA TellKeeps ==
  ASSUME HealthTrue, NEW p, NEW s \in ProviderResults, Tell(p, s)
  PROVE  HealthTrue'
<1> DEFINE h == RecordHealth(health[p], s)
<1>1. CASE UNCHANGED healthVars
  BY <1>1 DEF HealthTrue
<1>2. CASE p \notin Providers
  <2>1. health' = health /\ told' = told
    BY <1>2 DEF HealthTrue, Tell
  <2> QED
    BY <2>1 DEF HealthTrue
<1>3. CASE /\ p \in Providers /\ health' = [health EXCEPT ![p] = h]
           /\ told' = [told EXCEPT ![p] = @ \cup {s}]
  <2>1. health[p] \in Counts /\ told[p] \in SUBSET ProviderResults
        /\ Agrees(health[p], told[p])
    BY <1>3 DEF HealthTrue
  <2>2. h \in Counts
    BY <2>1, CountsType
  <2>3. Agrees(h, told[p] \cup {s})
    <3>1. h.attempts > 0
      BY <2>1 DEF RecordHealth, Counts
    <3>2. told[p] \cup {s} \subseteq {"error", "timeout", "unavailable"} =>
            /\ h.successes = 0 /\ h.timeouts + h.failures = h.attempts
            /\ h.consecutive = h.attempts
      <4> SUFFICES ASSUME told[p] \subseteq {"error", "timeout", "unavailable"},
                          s \in {"error", "timeout", "unavailable"}
                   PROVE  /\ h.successes = 0 /\ h.timeouts + h.failures = h.attempts
                          /\ h.consecutive = h.attempts
        OBVIOUS
      <4> QED
        BY <2>1 DEF RecordHealth, Counts, Agrees
    <3>3. told[p] \cup {s} \subseteq {"success"} =>
            /\ h.successes = h.attempts /\ h.timeouts = 0 /\ h.failures = 0
            /\ h.consecutive = 0
      <4> SUFFICES ASSUME told[p] \subseteq {"success"}, s = "success"
                   PROVE  /\ h.successes = h.attempts /\ h.timeouts = 0
                          /\ h.failures = 0 /\ h.consecutive = 0
        OBVIOUS
      <4> QED
        BY <2>1 DEF RecordHealth, Counts, Agrees
    <3> QED
      BY <3>1, <3>2, <3>3 DEF Agrees
  <2> HIDE DEF h
  <2> QED
    BY <1>3, <2>2, <2>3 DEF HealthTrue
<1> QED
  BY <1>1, <1>2, <1>3 DEF Tell

(* Every step keeps health true to what it was told.                       *)
LEMMA HealthStep == HealthTrue /\ [Next]_vars => HealthTrue'
<1> SUFFICES ASSUME HealthTrue, [Next]_vars
             PROVE  HealthTrue'
  OBVIOUS
<1>1. CASE Others
  BY <1>1, TellKeeps DEF Others, OtherTurn, ProviderResults
<1>2. CASE Launch
  BY <1>2, TellKeeps DEF Launch, ProviderResults, HealthTrue
<1>3. CASE ProviderReturns
  BY <1>3, TellKeeps DEF ProviderReturns, Outcomes, ProviderResults
<1>4. CASE ProviderRaises
  BY <1>4, TellKeeps DEF ProviderRaises, ProviderResults
<1>5. CASE UNCHANGED healthVars
  BY <1>5 DEF HealthTrue
<1> QED
  BY <1>1, <1>2, <1>3, <1>4, <1>5, Routing
     DEF Next, Registry, vars, Route, RouteFails, Consider, Begin, BeginUnless,
         RecordTree, Inherit, PreLaunch, StartSession, StoreFails, Resume,
         ResumeAs,
         Settle, Finish, TurnsOver, After, Override, TripBudget, Cancel, Tick

(* A route begins in the order of health, and stays as it is until a turn. *)
LEMMA SortedStep == Types /\ HealthTrue /\ RouteSorted /\ [Next]_vars => RouteSorted'
<1> SUFFICES ASSUME Types, HealthTrue, RouteSorted, [Next]_vars
             PROVE  RouteSorted'
  OBVIOUS
<1> USE DEF Types, PlaceOK
<1>1. CASE Route
  <2> SUFFICES ASSUME kind = "auto"
               PROVE  \A j, k \in 1..Len(chain') :
                        j < k => ~(Fails(chain'[j]) /\ Clean(chain'[k]))
    BY <1>1 DEF Route, RouteSorted, Fails, Clean
  <2>1. PICK c \in Routes : chain' = IF direct THEN <<Head(c)>> ELSE c
    BY <1>1 DEF Route, RouteTo
  <2>2. PICK av \in SUBSET Providers : c \in Ordered(av)
    BY <2>1 DEF Routes
  <2>3. CASE Len(chain') = 1
    BY <2>3
  <2>4. CASE Len(chain') # 1
    <3>1. chain' = c
      BY <2>1, <2>4
    <3>2. \A x : c # <<x>>
      <4>1. \A x : Len(<<x>>) = 1
        OBVIOUS
      <4>2. Len(c) # 1
        BY <2>4, <3>1
      <4> QED
        BY <4>1, <4>2
    <3> DEFINE preferred == IF Preferred \in av \/ av = {} THEN Preferred
                            ELSE CHOOSE p \in av : TRUE
    <3>3. /\ c \in SetToSeqs(av)
          /\ \A j, k \in 1..Len(c) : j < k => ScoresAtLeast(c[j], c[k], preferred)
      BY <2>2, <3>2 DEF Ordered
    <3> HIDE DEF preferred
    <3>4. \A j \in 1..Len(c) : c[j] \in Providers
      <4>1. c \in [1..Cardinality(av) -> av] /\ Cardinality(av) \in Nat
        BY <3>3, FS_Subset, FS_CardinalityType DEF SetToSeqs
      <4>2. Len(c) = Cardinality(av)
        BY <4>1
      <4> QED
        BY <4>1, <4>2
    <3> QED
      BY <3>1, <3>3, <3>4, FailsScoresLess
  <2> QED
    BY <2>3, <2>4
<1>2. CASE Consider
  BY <1>2 DEF Consider, RouteSorted, Fails, Clean
<1>3. CASE After
  BY <1>3 DEF After, Settled, RouteSorted
<1>4. CASE Others
  BY <1>4 DEF Others, OtherTurn, RouteSorted
<1>5. CASE pc' \notin {"candidate", "begin"}
  BY <1>5 DEF RouteSorted
<1>6. CASE UNCHANGED <<kind, pc, i, chain, told>>
  BY <1>6 DEF RouteSorted, Fails, Clean
<1> QED
  BY <1>1, <1>2, <1>3, <1>4, <1>5, <1>6
     DEF Next, Registry, vars, RouteFails, Settled, Begin, BeginUnless,
     RecordTree,
         Inherit, PreLaunch, StartSession, StoreFails, Launch, Resume, ResumeAs,
         Settle, Finish, TurnsOver, Override, ProviderReturns, ProviderRaises,
         TripBudget, Cancel, Tick

(* The task of a call stays the same, and its flags stay flags.            *)
LEMMA FlagsStep == FlagsTyped /\ [Next]_vars => FlagsTyped'
<1> SUFFICES ASSUME FlagsTyped, [Next]_vars
             PROVE  FlagsTyped'
  OBVIOUS
<1>1. CASE TripBudget
  <2>1. cancel' = TRUE /\ flagged' \in {flagged, TRUE} /\ UNCHANGED taskVars
    BY <1>1 DEF TripBudget
  <2> QED
    BY <2>1 DEF FlagsTyped
<1>2. CASE Cancel
  BY <1>2 DEF Cancel, FlagsTyped
<1>3. CASE UNCHANGED <<taskVars, cancel, flagged>>
  BY <1>3 DEF FlagsTyped
<1>4. ASSUME ~TripBudget, ~Cancel
      PROVE  UNCHANGED <<taskVars, cancel, flagged>>
  <2>1. ASSUME Registry
        PROVE  UNCHANGED <<taskVars, cancel, flagged>>
    BY <2>1 DEF Registry, Route, RouteFails, Consider, Begin, BeginUnless, RecordTree,
       Inherit, PreLaunch, StartSession, StoreFails, Launch, Resume, ResumeAs, Settle,
       Finish, After, Override
  <2>2. ASSUME Others \/ ProviderReturns \/ ProviderRaises \/ Tick \/ UNCHANGED vars
        PROVE  UNCHANGED <<taskVars, cancel, flagged>>
    BY <2>2 DEF Others, OtherTurn, ProviderReturns, ProviderRaises, Tick, vars
  <2> QED
    BY <1>4, <2>1, <2>2 DEF Next
<1> QED
  BY <1>1, <1>2, <1>3, <1>4

(* Every route that a call may take is one of profiles or of providers.    *)
LEMMA RoutesTyped ==
  ASSUME PlaceOK
  PROVE  \A c \in Routes : c \in Seq(Profiles \cup Providers)
<1>1. ASSUME NEW a \in SUBSET Providers, NEW c \in Ordered(a)
      PROVE  c \in Seq(Providers)
  <2> DEFINE preferred == IF Preferred \in a \/ a = {} THEN Preferred
                          ELSE CHOOSE p \in a : TRUE
  <2>1. preferred \in Providers
    OBVIOUS
  <2> HIDE DEF preferred
  <2>2. CASE c = <<preferred>>
    BY <2>1, <2>2
  <2>3. CASE c \in SetToSeqs(a)
    <3>1. Cardinality(a) \in Nat
      BY FS_Subset, FS_CardinalityType
    <3>2. c \in [1..Cardinality(a) -> a]
      BY <2>3 DEF SetToSeqs
    <3>3. c \in [1..Cardinality(a) -> Providers]
      BY <3>2
    <3>4. \A n \in Nat : [1..n -> Providers] \subseteq Seq(Providers)
      OBVIOUS
    <3> QED
      BY <3>1, <3>3, <3>4
  <2> QED
    BY <2>2, <2>3 DEF Ordered, preferred
<1>2. ASSUME NEW c \in Routes
      PROVE  c \in Seq(Profiles) \/ c \in Seq(Providers)
  <2>1. CASE kind = "profile"
    BY <1>2, <2>1 DEF Routes
  <2>2. CASE kind = "named"
    <3>1. PICK p \in Providers : c = <<p>>
      BY <1>2, <2>2 DEF Routes
    <3> QED
      BY <3>1
  <2>3. CASE kind = "auto"
    <3>1. PICK a \in SUBSET Providers : c \in Ordered(a)
      BY <1>2, <2>3 DEF Routes
    <3> QED
      BY <1>1, <3>1
  <2> QED
    BY <2>1, <2>2, <2>3 DEF PlaceOK
<1>3. Seq(Profiles) \subseteq Seq(Profiles \cup Providers)
      /\ Seq(Providers) \subseteq Seq(Profiles \cup Providers)
  OBVIOUS
<1> QED
  BY <1>2, <1>3

(* The chain is that of the route, or its head.                            *)
LEMMA ChainStep == PlaceOK /\ ChainTyped /\ [Next]_vars => ChainTyped'
<1> SUFFICES ASSUME PlaceOK, ChainTyped, [Next]_vars
             PROVE  ChainTyped'
  OBVIOUS
<1>1. CASE Route
  <2>1. PICK c \in Routes : chain' = IF direct /\ kind = "auto" THEN <<Head(c)>> ELSE c
    BY <1>1 DEF Route, RouteTo
  <2>2. c \in Seq(Profiles \cup Providers) /\ Len(c) \in Nat \ {0}
    BY <2>1, RoutesTyped, RoutesHaveFirst
  <2>3. <<Head(c)>> \in Seq(Profiles \cup Providers)
    BY <2>2
  <2> QED
    BY <2>1, <2>2, <2>3 DEF ChainTyped
<1>2. CASE UNCHANGED chain
  BY <1>2 DEF ChainTyped
<1>3. ASSUME ~Route
      PROVE  UNCHANGED chain
  <2>1. ASSUME Registry
        PROVE  UNCHANGED chain
    BY <1>3, <2>1 DEF Registry, RouteFails, Consider, Begin, BeginUnless, RecordTree,
       Inherit, PreLaunch, StartSession, StoreFails, Launch, Resume, ResumeAs, Settle,
       Finish, After, Override
  <2>2. ASSUME ~Registry
        PROVE  UNCHANGED chain
    BY <2>2 DEF Next, Others, OtherTurn, ProviderReturns, ProviderRaises, TripBudget,
       Cancel, Tick, vars
  <2> QED
    BY <2>1, <2>2
<1> QED
  BY <1>1, <1>2, <1>3

(* A call that has an outcome keeps it or gets another.                    *)
LEMMA ResultStep == ResultTyped /\ [Next]_vars => ResultTyped'
<1> SUFFICES ASSUME ResultTyped, [Next]_vars
             PROVE  ResultTyped'
  OBVIOUS
<1> DEFINE Good == res'.status \in ProviderResults \cup {"budget_exceeded"}
<1>0. Good => ResultTyped'
  BY DEF ResultTyped, ProviderResults
<1>1. ASSUME UNCHANGED res, pc' \in Outcome => pc \in Outcome
      PROVE  ResultTyped'
  BY <1>1 DEF ResultTyped
<1>2. CASE RouteFails
  BY <1>0, <1>2 DEF RouteFails, ProviderResults
<1>3. CASE Consider
  BY <1>0, <1>1, <1>3 DEF Consider, Outcome, ProviderResults
<1>4. CASE Begin
  BY <1>0, <1>1, <1>4 DEF Begin, BeginUnless, Outcome, ProviderResults
<1>5. CASE Inherit
  BY <1>0, <1>1, <1>5 DEF Inherit, Outcome, ProviderResults
<1>6. CASE PreLaunch
  BY <1>0, <1>1, <1>6 DEF PreLaunch, Outcome, ProviderResults
<1>7. CASE Launch
  <2>1. Good \/ (UNCHANGED res /\ pc' = "turn")
    BY <1>7 DEF Launch, ProviderResults
  <2> QED
    BY <1>0, <1>1, <2>1 DEF Outcome
<1>8. CASE ProviderReturns
  <2>1. PICK o \in Outcomes : res' = o
    BY <1>8 DEF ProviderReturns
  <2>2. o.status \in ProviderResults
    BY DEF Outcomes, ProviderResults
  <2> QED
    BY <1>0, <2>1, <2>2
<1>9. CASE ProviderRaises
  <2>1. Good \/ (UNCHANGED res /\ pc' = "raised")
    BY <1>9 DEF ProviderRaises, ProviderResults
  <2> QED
    BY <1>0, <1>1, <2>1 DEF Outcome
<1>10. CASE Finish
  <2>1. pc = "finish" /\ \E read \in BOOLEAN : res' = Judged(read)
    BY <1>10 DEF Finish
  <2>2. res' = res \/ res' = Res("budget_exceeded", "supervisor_budget")
    BY <2>1 DEF Judged
  <2>3. Good
    BY <2>1, <2>2 DEF ResultTyped, Outcome
  <2> QED
    BY <1>0, <2>3
<1>11. CASE Override
  <2>1. pc = "override" /\ (res' = res \/ res' = Res("budget_exceeded", "supervisor_budget"))
    BY <1>11 DEF Override
  <2>2. Good
    BY <2>1 DEF ResultTyped, Outcome
  <2> QED
    BY <1>0, <2>2
<1>12. CASE Route \/ RecordTree \/ StartSession \/ StoreFails \/ Resume \/ Settle \/ After
  <2>1. UNCHANGED res /\ (pc' \in Outcome => pc \in Outcome)
    <3>1. CASE Route \/ RecordTree \/ StartSession \/ StoreFails
      BY <3>1 DEF Route, RecordTree, StartSession, StoreFails, Outcome
    <3>2. CASE Resume \/ Settle \/ After
      BY <3>2 DEF Resume, ResumeAs, Settle, After, Outcome
    <3> QED
      BY <1>12, <3>1, <3>2
  <2> QED
    BY <1>1, <2>1
<1>13. CASE Others \/ TripBudget \/ Cancel \/ Tick \/ UNCHANGED vars
  BY <1>1, <1>13 DEF Others, OtherTurn, TripBudget, Cancel, Tick, vars
<1> HIDE DEF Good
<1> QED
  BY <1>2, <1>3, <1>4, <1>5, <1>6, <1>7, <1>8, <1>9, <1>10, <1>11, <1>12, <1>13
     DEF Next, Registry

(* The recoveries are as many as the policy allows, and none gets more     *)
(* time than the task has.                                                 *)
LEMMA BoundsStep == CountsOK /\ BoundsKept /\ [Next]_vars => BoundsKept'
<1> SUFFICES ASSUME CountsOK, BoundsKept, [Next]_vars
             PROVE  BoundsKept'
  OBVIOUS
<1>1. CASE StartSession
  BY <1>1 DEF StartSession, BoundsKept
<1>2. CASE StoreFails
  <2>1. faults \in Nat /\ faults < MaxFaults /\ faults' = faults + 1
        /\ UNCHANGED <<attempt, limit>>
    BY <1>2 DEF StoreFails, CountsOK
  <2> QED
    BY <2>1 DEF BoundsKept
<1>3. CASE Resume
  <2>1. /\ attempt < MaxAttempts /\ attempt' = attempt + 1
        /\ limit' = AtMost(limit, Remaining) /\ UNCHANGED faults
    BY <1>3 DEF Resume, ResumeAs, Resumable
  <2>2. Remaining \in Nat /\ Remaining <= Timeout
    BY DEF Remaining, CountsOK
  <2>3. limit' <= Timeout
    BY <2>1, <2>2 DEF AtMost, CountsOK, BoundsKept
  <2> QED
    BY <2>1, <2>3 DEF CountsOK, BoundsKept
<1>4. CASE Finish
  <2>1. attempt' = 0 /\ limit' = 0 /\ faults' <= MaxFaults
    BY <1>4 DEF Finish, TurnsOver
  <2> QED
    BY <2>1 DEF BoundsKept
<1>5. CASE TripBudget
  <2>1. /\ faults' = faults \/ (faults < MaxFaults /\ faults' = faults + 1)
        /\ UNCHANGED <<attempt, limit>>
    BY <1>5 DEF TripBudget
  <2> QED
    BY <2>1 DEF BoundsKept, CountsOK
<1>6. CASE UNCHANGED <<attempt, limit, faults>>
  BY <1>6 DEF BoundsKept
<1>7. CASE Route \/ RouteFails \/ Consider \/ Begin \/ RecordTree \/ Inherit \/ PreLaunch
  BY <1>6, <1>7 DEF Route, RouteFails, Consider, Begin, BeginUnless, RecordTree,
     Inherit, PreLaunch
<1>8. CASE Launch \/ Settle \/ After \/ Override \/ Others \/ ProviderReturns
           \/ ProviderRaises \/ Cancel \/ Tick \/ UNCHANGED vars
  BY <1>6, <1>8 DEF Launch, Settle, After, Override, Others, OtherTurn,
     ProviderReturns, ProviderRaises, Cancel, Tick, vars
<1> QED
  BY <1>1, <1>2, <1>3, <1>4, <1>5, <1>7, <1>8 DEF Next, Registry

(* Every step keeps the rest of the types.                                 *)
LEMMA TypedStep == Types /\ Typed /\ [Next]_vars => Typed'
BY FlagsStep, ChainStep, ResultStep, BoundsStep DEF Types, Typed

(* The inductive invariant holds of every behaviour.                       *)
THEOREM Invariance == Spec => []IInv
<1>1. Init => IInv
  <2>1. Init => Typed
    <3>1. Init => FlagsTyped /\ ChainTyped
      <4>1. Init => chain = <<>> /\ flagged = FALSE
        BY DEF Init
      <4>2. Init => /\ direct \in BOOLEAN /\ write \in BOOLEAN /\ isolate \in BOOLEAN
                    /\ inherits \in BOOLEAN /\ cancel \in BOOLEAN
        BY DEF Init
      <4>3. Init => flagged \in BOOLEAN
        BY <4>1
      <4> QED
        BY <4>1, <4>2, <4>3 DEF FlagsTyped, ChainTyped
    <3>3. Init => BoundsKept
      <4>1. 0 <= MaxAttempts /\ 0 <= Timeout /\ 0 <= MaxFaults
        OBVIOUS
      <4>2. Init => attempt = 0 /\ limit = 0 /\ faults = 0
        BY DEF Init
      <4> QED
        BY <4>1, <4>2 DEF BoundsKept
    <3>2. Init => pc = "route" /\ res.status = "none"
      BY DEF Init
    <3> QED
      BY <3>1, <3>2, <3>3 DEF Typed, ResultTyped, Outcome
  <2> QED
    BY <2>1 DEF Init, IInv, Types, CountsOK, PlaceOK, PerCandidateOK, OneAtWork,
         TimeLeft, NoSecondLate, BudgetSeen, TreeRecorded, HealthTrue, Agrees,
         Counts, Health0, RouteSorted
<1>2. IInv /\ [Next]_vars => IInv'
  BY TypesStep, AtWorkStep, TimeStep, LateStep, BudgetStep, TreeStep,
     HealthStep, SortedStep, TypedStep DEF IInv
<1> QED
  BY <1>1, <1>2, PTL DEF Spec

(* Every variable has its type: what the clock, the recoveries and the     *)
(* store faults count stays within its bound, and who is done has a result *)
(* (registry.py, execute; recovery.py).                                    *)
THEOREM TypeCorrect == Spec => []TypeOK
<1>1. IInv => TypeOK
  <2> SUFFICES ASSUME IInv PROVE TypeOK
    OBVIOUS
  <2>1. /\ attempt \in 0..MaxAttempts /\ used \in 0..limit /\ limit \in 0..Timeout
        /\ faults \in 0..MaxFaults /\ spent \in Nat
    BY DEF IInv, Types, CountsOK, Typed, BoundsKept
  <2>2. /\ kind \in {"profile", "auto", "named"} /\ pc \in Steps /\ i \in Nat
        /\ pc \notin {"route", "done", "override", "raised"} => i \in Index
        /\ sess \in [Index -> {"none", "running", "idle", "interrupted", "failed"}]
        /\ tree \in [Index -> {"none", "made", "recorded"}]
    BY DEF IInv, Types, PlaceOK, PerCandidateOK
  <2>3. Typed /\ health \in [Providers -> Counts]
        /\ told \in [Providers -> SUBSET ProviderResults]
    BY DEF IInv, HealthTrue
  <2> QED
    BY <2>1, <2>2, <2>3 DEF TypeOK, Typed, FlagsTyped, ChainTyped, ResultTyped, Outcome
<1> QED
  BY <1>1, Invariance, PTL

(* Whenever the cancel event is set, at most one turn begins after that    *)
(* (registry.py, _execute_provider and _start_direct_agent_provider).      *)
THEOREM AtMostOneLateTurn == Spec => []OneLateTurn
<1>1. IInv => OneLateTurn
  BY DEF IInv, NoSecondLate, OneLateTurn
<1> QED
  BY <1>1, Invariance, PTL

(* No provider works in a worktree that the task record does not name,     *)
(* whatever store calls fail (registry.py, _execute_provider).             *)
THEOREM TreesAreRecorded == Spec => []WorktreeKnown
<1>1. IInv => WorktreeKnown
  BY DEF IInv, TreeRecorded, WorktreeKnown
<1> QED
  BY <1>1, Invariance, PTL

(* A call that returns leaves no session of its attempts at work, if at    *)
(* most one store call failed; two are enough to leave one, whatever the   *)
(* bound on them (registry.py, _finish_agent_session).                     *)
THEOREM SessionsAreClosed == Spec => [](faults < 2 => SessionsEnd)
<1>1. IInv => (faults < 2 => SessionsEnd)
  BY DEF IInv, OneAtWork, SessionsEnd, Done
<1> QED
  BY <1>1, Invariance, PTL

(* The first candidate and its recoveries together keep within the         *)
(* deadline of the task (registry.py, _run_provider_turns).                *)
THEOREM FirstKeepsDeadline == Spec => []RecoveryInTime
<1>1. IInv => RecoveryInTime
  BY DEF IInv, Types, CountsOK, TimeLeft, RecoveryInTime
<1> QED
  BY <1>1, Invariance, PTL

(* A tripped budget decides the outcome of the call, whatever candidates   *)
(* and recoveries came after it, but for a timeout, and for a direct       *)
(* session whose store fails or one of whose turns raises                  *)
(* (registry.py, execute and _start_direct_agent_provider).                *)
THEOREM BudgetHasLastWord == Spec => []BudgetDecides
<1>1. IInv => BudgetDecides
  BY DEF IInv, BudgetSeen, BudgetDecides, Done
<1> QED
  BY <1>1, Invariance, PTL

(* An automatic route puts no provider that only failed before one that    *)
(* never did, the preferred one included, however many turns health was    *)
(* told of (registry.py, _ordered_provider_names and _health_score).       *)
THEOREM FailedGoesLast == Spec => []HealthyFirst
<1>1. IInv => HealthyFirst
  BY DEF IInv, RouteSorted, HealthyFirst
<1> QED
  BY <1>1, Invariance, PTL
=============================================================================
