------------------------- MODULE ProviderTurnProofs -------------------------
(***************************************************************************)
(* Proofs about ProviderTurn, for any adapters, lines, limits and budgets, *)
(* and pipes and queues of any length.                                     *)
(***************************************************************************)
EXTENDS ProviderTurn, FiniteSetTheorems, TLAPS

(* What can be in the pipe of a command line: nothing of the protocol of a *)
(* server, which has no pipe here but a queue, and ends with an end of     *)
(* file.                                                                   *)
CliMessages == ProgressLines \cup {"answer", "fault"}
Streams ==
  /\ adapter \in Adapters
  /\ child \in {"none", "running", "exited"}
  /\ pipe \in Seq(Messages) /\ Len(pipe) <= MaxUnread
  /\ queue \in Seq(Messages \cup {"eof"})
  /\ readers \in 0..2 /\ exitSeen \in 0..2 /\ eofs \in Nat
  /\ IF AsServer THEN eofs = 0
     ELSE /\ pipe \in Seq(CliMessages) /\ queue \in Seq(CliMessages \cup {"eof"})
          /\ phase = "listen"

(* An end of file is handed over when nothing can come any more, so that   *)
(* no line is behind it; and the last reader leaves with one.              *)
HasEof(q) == \E k \in 1..Len(q) : q[k] = "eof"
EofsLast(q) == \A j, k \in 1..Len(q) : j < k /\ q[j] = "eof" => q[k] = "eof"
Silent == child # "running" \/ shut
EofMeansEnd ==
  /\ eofs > 0 \/ HasEof(queue) => pipe = <<>> /\ Silent
  /\ EofsLast(queue) /\ (eofs > 0 => ~HasLine(queue))
  /\ readers = 0 => pipe = <<>> /\ Silent

(* The exit was seen with an empty queue, after which the reader has only  *)
(* what was left in the pipe; when the grace is over, it has handed over   *)
(* that.                                                                   *)
GraceInv ==
  /\ exitSeen > 0 =>
       child = "exited" /\ (pipe = <<>> \/ Len(pipe) + Len(queue) <= MaxUnread)
  /\ exitSeen = 2 => pipe = <<>>

(* What is known of the process when the loop is where it is, and of the   *)
(* reason when the loop is over.                                           *)
LoopInv ==
  /\ pc = "start" =>
       /\ child = "none" /\ ~helpers /\ why = "none"
       /\ pipe = <<>> /\ queue = <<>> /\ readers = 0 /\ eofs = 0
  /\ pc = "wait" => eofs = 2
  /\ pc \in Over \ {"ended"} => why \in {"cancelled", "idle", "deadline", "raised"} \cup
       (IF AsServer THEN {"done", "failed", "error"} ELSE {"exit"})
  /\ pc \in Over /\ why = "exit" => child = "exited" /\ pipe = <<>> /\ ~HasLine(queue)

(* Before it is asked to leave nothing was sent to the process; when the   *)
(* wait after SIGKILL begins it was killed or has left; and then, on a     *)
(* system with process groups, the whole group of a command line is killed.*)
KillInv ==
  /\ killed \subseteq Group /\ system \in Systems \cup {"any"}
  /\ pc \notin {"term", "kill", "report", "ended"} => system = "any" /\ killed = {}
  /\ pc \in {"kill", "report", "ended"} /\ child = "running" => "child" \in killed
  /\ pc \in {"report", "ended"} /\ WholeGroup => killed = Group

(* There is no result before the end, and only messages of this turn count.*)
ResultInv ==
  /\ pc # "ended" => result = NoResult
  /\ answer \in {"none", "own"}
  /\ HonestSuccess

(* What the tracker holds of the lines it saw: how many calls, which       *)
(* children, and as many repeats as there are in any stretch of like calls *)
(* up to now.                                                              *)
Alike(s, ks) == \A a, b \in CallsAt(s, ks) : s[a] = s[b]
Supervised(s, tr) ==
  /\ tr \in Trackers
  /\ tr.calls = Cardinality(CallsAt(s, 1..Len(s)))
  /\ tr.children = {s[k] : k \in 1..Len(s)} \cap Spawns
  /\ \A j \in 1..Len(s) : Alike(s, j..Len(s)) =>
       /\ Cardinality(CallsAt(s, j..Len(s))) <= tr.repeats
       /\ \A a \in CallsAt(s, j..Len(s)) : s[a] = tr.last

(* When the tracker objected the event is set and no further line is taken; *)
(* until then the lines it saw are within the budget.                      *)
BudgetInv ==
  /\ observed \in Seq(ProgressLines) /\ Supervised(observed, tracker)
  /\ tracker.verdict => cancel /\ pc # "get"
  /\ ~tracker.verdict => WithinBudget(observed)
  /\ StopsAtBudget

(* What else the types say.  The queue has room for every reader's end of  *)
(* file beside the lines; a pipe's second end of file is the last item the *)
(* loop asks for; and a timeout is what one of three clocks makes of it.   *)
FlagsTyped ==
  /\ readonly \in BOOLEAN /\ helpers \in BOOLEAN /\ shut \in BOOLEAN
  /\ dirty \in BOOLEAN /\ compared \in BOOLEAN /\ asked \in BOOLEAN /\ fault \in BOOLEAN
  /\ cancel \in BOOLEAN
PlaceTyped ==
  /\ pc \in {"start", "check", "get", "wait"} \cup Over
  /\ why \in {"none", "exit", "done", "failed", "cancelled", "idle", "deadline",
              "error", "raised"}
  /\ phase \in Requests \cup {"listen"} /\ code \in {0, 1}
RoomKept == Len(queue) + readers <= MaxUnread + 2
EofsCounted == eofs <= 2 /\ (pc = "get" => eofs < 2)
ClocksTyped == quiet \in 0..IdleLimit /\ spent \in 0..TimeLimit
ResultTyped ==
  /\ result \in {NoResult} \cup [status : Statuses, reason : Reasons]
  /\ result.status = "timeout" <=> result.reason \in Reasons \ {"none", "cancelled"}
Typed ==
  FlagsTyped /\ PlaceTyped /\ RoomKept /\ EofsCounted /\ ClocksTyped /\ ResultTyped

IInv ==
  Streams /\ EofMeansEnd /\ GraceInv /\ LoopInv /\ KillInv /\ ResultInv /\ BudgetInv
    /\ Typed
-----------------------------------------------------------------------------
(* The calls among the lines when there is one more.                       *)
LEMMA CallsAppend ==
  ASSUME NEW s \in Seq(ProgressLines), NEW m \in ProgressLines
  PROVE  LET t == Append(s, m)
             n == Len(s) + 1 IN
         /\ t \in Seq(ProgressLines) /\ Len(t) = n /\ n \in Nat /\ t[n] = m
         /\ \A k \in 1..Len(s) : t[k] = s[k]
         /\ \A j, k \in 1..Len(s) : CallsAt(t, j..k) = CallsAt(s, j..k)
         /\ \A j \in 1..n : CallsAt(t, j..n) =
              CallsAt(s, j..Len(s)) \cup (IF m \in Calls THEN {n} ELSE {})
         /\ \A j \in 1..n :
              /\ Cardinality(CallsAt(s, j..Len(s))) \in Nat
              /\ Cardinality(CallsAt(t, j..n)) = Cardinality(CallsAt(s, j..Len(s)))
                   + (IF m \in Calls THEN 1 ELSE 0)
<1> DEFINE t == Append(s, m)
           n == Len(s) + 1
<1>1. t \in Seq(ProgressLines) /\ Len(t) = n /\ n \in Nat /\ Len(s) \in Nat /\ t[n] = m
  OBVIOUS
<1>2. \A k \in 1..Len(s) : t[k] = s[k]
  OBVIOUS
<1> HIDE DEF t
<1>3. ASSUME NEW j \in 1..Len(s), NEW k \in 1..Len(s)
      PROVE  CallsAt(t, j..k) = CallsAt(s, j..k)
  <2>1. \A i \in j..k : t[i] = s[i]
    BY <1>1, <1>2
  <2> QED
    BY <2>1 DEF CallsAt
<1>4. ASSUME NEW j \in 1..n
      PROVE  CallsAt(t, j..n) = CallsAt(s, j..Len(s)) \cup (IF m \in Calls THEN {n} ELSE {})
  <2>1. j..n = (j..Len(s)) \cup {n} /\ \A i \in j..Len(s) : t[i] = s[i]
    BY <1>1, <1>2
  <2> HIDE DEF n
  <2> QED
    BY <1>1, <2>1 DEF CallsAt
<1>5. ASSUME NEW j \in 1..n
      PROVE  IsFiniteSet(CallsAt(s, j..Len(s))) /\ n \notin CallsAt(s, j..Len(s))
  <2>1. IsFiniteSet(j..Len(s)) /\ n \notin j..Len(s)
    BY <1>1, FS_Interval
  <2>2. CallsAt(s, j..Len(s)) \subseteq j..Len(s)
    BY DEF CallsAt
  <2> QED
    BY <2>1, <2>2, FS_Subset
<1>6. ASSUME NEW j \in 1..n
      PROVE  /\ Cardinality(CallsAt(s, j..Len(s))) \in Nat
             /\ Cardinality(CallsAt(t, j..n)) = Cardinality(CallsAt(s, j..Len(s)))
                  + (IF m \in Calls THEN 1 ELSE 0)
  <2> DEFINE S == CallsAt(s, j..Len(s))
  <2>1. Cardinality(S) \in Nat /\ Cardinality(S \cup {n}) = Cardinality(S) + 1
    BY <1>5, FS_CardinalityType, FS_AddElement
  <2>2. CallsAt(t, j..n) = S \cup (IF m \in Calls THEN {n} ELSE {})
    BY <1>4
  <2> HIDE DEF S, n
  <2>3. CASE m \in Calls
    BY <2>1, <2>2, <2>3 DEF S
  <2>4. CASE m \notin Calls
    <3>1. CallsAt(t, j..n) = S
      BY <2>2, <2>4
    <3> QED
      BY <2>1, <3>1, <2>4 DEF S
  <2> QED
    BY <2>3, <2>4
<1> QED
  BY <1>1, <1>2, <1>3, <1>4, <1>6 DEF t

(* No line is of two kinds.                                                *)
LEMMA LinesDiffer ==
  /\ Calls \cap Spawns = {} /\ "tokens" \notin Calls \cup Spawns /\ "none" \notin Calls
  /\ Calls \cup Spawns \subseteq ProgressLines
BY DEF Calls, Spawns, ProgressLines

(* The fields of the tracker after one more line.                          *)
LEMMA ObserveFields ==
  ASSUME NEW tr \in Trackers, NEW m \in ProgressLines
  PROVE  LET new == Observe(tr, m) IN
         /\ new \in Trackers
         /\ new.calls = tr.calls + (IF m \in Calls THEN 1 ELSE 0)
         /\ m \notin Calls => new.repeats = tr.repeats /\ new.last = tr.last
         /\ m \in Calls => /\ new.last = m
                           /\ new.repeats = IF m = tr.last THEN tr.repeats + 1 ELSE 1
         /\ new.children = tr.children \cup ({m} \cap Spawns)
         /\ ~new.verdict => /\ m \in Calls => new.calls <= MaxCalls /\ new.repeats <= MaxRepeats
                            /\ ~(Cardinality(new.children) > MaxChildren) /\ m # "tokens"
<1>1. /\ tr.calls \in Nat /\ tr.repeats \in Nat /\ tr.children \in SUBSET Spawns
      /\ tr.last \in Calls \cup {"none"}
  BY DEF Trackers
<1> DEFINE new == Observe(tr, m)
           calls == tr.calls + (IF m \in Calls THEN 1 ELSE 0)
           repeats == IF m \notin Calls THEN tr.repeats
                      ELSE IF m = tr.last THEN tr.repeats + 1 ELSE 1
           over == m \in Calls /\ (calls > MaxCalls \/ repeats > MaxRepeats)
           children == IF over THEN tr.children ELSE tr.children \cup ({m} \cap Spawns)
           verdict == over \/ Cardinality(children) > MaxChildren \/ m = "tokens"
<1>2. new = [calls |-> calls, last |-> IF m \in Calls THEN m ELSE tr.last,
             repeats |-> repeats, children |-> children, verdict |-> verdict]
  BY DEF Observe
<1>3. calls \in Nat /\ repeats \in Nat
  BY <1>1
<1>4. children = tr.children \cup ({m} \cap Spawns)
  BY LinesDiffer
<1>5. (IF m \in Calls THEN m ELSE tr.last) \in Calls \cup {"none"}
  BY <1>1
<1>6. verdict \in BOOLEAN
  OBVIOUS
<1>7. ~verdict => /\ m \in Calls => calls <= MaxCalls /\ repeats <= MaxRepeats
                  /\ ~(Cardinality(children) > MaxChildren) /\ m # "tokens"
  BY <1>3, TurnAssumption DEF TurnAssumption
<1>8. children \in SUBSET Spawns
  BY <1>1
<1> HIDE DEF new, verdict, children
<1>9. new \in Trackers
  BY <1>2, <1>3, <1>5, <1>6, <1>8 DEF Trackers
<1>10. /\ new.calls = calls /\ new.repeats = repeats /\ new.children = children
       /\ new.verdict = verdict /\ new.last = IF m \in Calls THEN m ELSE tr.last
  BY <1>2
<1> QED
  BY <1>4, <1>7, <1>9, <1>10 DEF new

(* Looking at one more line keeps the tracker what it is.                  *)
LEMMA ObserveKeeps ==
  ASSUME NEW s \in Seq(ProgressLines), NEW m \in ProgressLines, NEW tr, Supervised(s, tr)
  PROVE  Supervised(Append(s, m), Observe(tr, m))
<1> DEFINE t == Append(s, m)
           n == Len(s) + 1
           new == Observe(tr, m)
<1>0. tr \in Trackers
  BY DEF Supervised
<1>1. /\ new \in Trackers /\ new.calls = tr.calls + (IF m \in Calls THEN 1 ELSE 0)
      /\ m \notin Calls => new.repeats = tr.repeats /\ new.last = tr.last
      /\ m \in Calls => /\ new.last = m
                        /\ new.repeats = IF m = tr.last THEN tr.repeats + 1 ELSE 1
      /\ new.children = tr.children \cup ({m} \cap Spawns)
  BY <1>0, ObserveFields
<1>2. /\ t \in Seq(ProgressLines) /\ Len(t) = n /\ n \in Nat /\ t[n] = m
      /\ \A k \in 1..Len(s) : t[k] = s[k]
      /\ \A j \in 1..n : CallsAt(t, j..n) =
           CallsAt(s, j..Len(s)) \cup (IF m \in Calls THEN {n} ELSE {})
      /\ \A j \in 1..n :
           /\ Cardinality(CallsAt(s, j..Len(s))) \in Nat
           /\ Cardinality(CallsAt(t, j..n)) = Cardinality(CallsAt(s, j..Len(s)))
                + (IF m \in Calls THEN 1 ELSE 0)
  BY CallsAppend
<1>3. Len(s) \in Nat /\ 1 \in 1..n
  OBVIOUS
<1> HIDE DEF t, new
<1>4. new.calls = Cardinality(CallsAt(t, 1..Len(t)))
  BY <1>1, <1>2, <1>3 DEF Supervised
<1>5. new.children = {t[k] : k \in 1..Len(t)} \cap Spawns
  <2>1. {t[k] : k \in 1..n} = {s[k] : k \in 1..Len(s)} \cup {m}
    <3>1. 1..n = (1..Len(s)) \cup {n}
      BY <1>3
    <3>2. t[n] = m /\ \A k \in 1..Len(s) : t[k] = s[k]
      BY <1>2
    <3> HIDE DEF n
    <3> QED
      BY <3>1, <3>2
  <2> QED
    BY <1>1, <1>2, <2>1 DEF Supervised
<1>6. ASSUME NEW j \in 1..n, Alike(t, j..n)
      PROVE  /\ Cardinality(CallsAt(t, j..n)) <= new.repeats
             /\ \A a \in CallsAt(t, j..n) : t[a] = new.last
  <2> DEFINE S == CallsAt(s, j..Len(s))
  <2>1. /\ \A a \in S : a \in 1..Len(s) /\ t[a] = s[a]
        /\ S \subseteq CallsAt(t, j..n)
    BY <1>2, <1>3 DEF CallsAt
  <2>2. Alike(s, j..Len(s))
    BY <2>1, <1>6 DEF Alike
  <2>3. CASE j = n
    <3>1. S = {}
      BY <1>3, <2>3 DEF CallsAt
    <3>2. Cardinality(S) = 0
      BY <3>1, FS_EmptySet
    <3>3. tr.repeats \in Nat
      BY <1>0 DEF Trackers
    <3>4. /\ CallsAt(t, j..n) = IF m \in Calls THEN {n} ELSE {}
          /\ Cardinality(CallsAt(t, j..n)) = IF m \in Calls THEN 1 ELSE 0
      <4>1. /\ CallsAt(t, j..n) = S \cup (IF m \in Calls THEN {n} ELSE {})
            /\ Cardinality(CallsAt(t, j..n)) =
                 Cardinality(S) + (IF m \in Calls THEN 1 ELSE 0)
        BY <1>2
      <4> HIDE DEF S
      <4> QED
        BY <3>1, <3>2, <4>1
    <3>5. /\ new.repeats \in Nat /\ (m \in Calls => new.repeats >= 1)
          /\ m \in Calls => new.last = m
      BY <1>1, <3>3
    <3> HIDE DEF S
    <3> QED
      BY <1>2, <3>4, <3>5
  <2>4. CASE j \in 1..Len(s)
    <3>1. Cardinality(S) <= tr.repeats /\ \A a \in S : s[a] = tr.last
      BY <2>2, <2>4 DEF Supervised
    <3>2. CASE m \notin Calls
      BY <1>1, <1>2, <2>1, <3>1, <3>2
    <3>3. CASE m \in Calls /\ S = {}
      <4>1. Cardinality(S) = 0
        BY <3>3, FS_EmptySet
      <4>2. tr.repeats \in Nat
        BY <1>0 DEF Trackers
      <4>3. CallsAt(t, j..n) = {n} /\ Cardinality(CallsAt(t, j..n)) = 1
        BY <1>2, <3>3, <4>1
      <4>4. new.repeats \in Nat /\ new.repeats >= 1 /\ new.last = m
        BY <1>1, <3>3, <4>2
      <4> HIDE DEF S
      <4> QED
        BY <1>2, <4>3, <4>4
    <3>4. CASE m \in Calls /\ S # {}
      <4>1. PICK a \in S : TRUE
        BY <3>4
      <4>2. n \in CallsAt(t, j..n)
        BY <1>2, <3>4
      <4>3. s[a] = m
        BY <1>2, <2>1, <4>1, <4>2, <1>6 DEF Alike
      <4>4. m = tr.last
        BY <3>1, <4>1, <4>3
      <4>5. tr.repeats \in Nat /\ new.repeats = tr.repeats + 1 /\ new.last = m
        BY <1>0, <1>1, <3>4, <4>4 DEF Trackers
      <4>6. Cardinality(CallsAt(t, j..n)) = Cardinality(S) + 1 /\ Cardinality(S) \in Nat
        BY <1>2, <3>4
      <4>7. \A b \in CallsAt(t, j..n) : b \in S \/ b = n
        BY <1>2, <3>4
      <4> HIDE DEF S
      <4> QED
        BY <1>2, <2>1, <3>1, <4>4, <4>5, <4>6, <4>7
    <3> QED
      BY <3>2, <3>3, <3>4
  <2> QED
    BY <1>3, <2>3, <2>4
<1> QED
  BY <1>1, <1>2, <1>4, <1>5, <1>6 DEF Supervised, new, t

(* If it does not object, the lines with this one are within the budget.   *)
LEMMA ObserveWithin ==
  ASSUME NEW s \in Seq(ProgressLines), NEW m \in ProgressLines, NEW tr, Supervised(s, tr),
         WithinBudget(s), ~Observe(tr, m).verdict
  PROVE  WithinBudget(Append(s, m))
<1> DEFINE t == Append(s, m)
           n == Len(s) + 1
           new == Observe(tr, m)
<1>0. tr \in Trackers
  BY DEF Supervised
<1>1. /\ m \in Calls => new.calls <= MaxCalls /\ new.repeats <= MaxRepeats
      /\ ~(Cardinality(new.children) > MaxChildren) /\ m # "tokens"
  BY <1>0, ObserveFields
<1>2. Supervised(t, new)
  BY ObserveKeeps
<1>3. /\ Len(t) = n /\ n \in Nat /\ t[n] = m /\ \A k \in 1..Len(s) : t[k] = s[k]
      /\ \A j, k \in 1..Len(s) : CallsAt(t, j..k) = CallsAt(s, j..k)
      /\ \A j \in 1..n : CallsAt(t, j..n) =
           CallsAt(s, j..Len(s)) \cup (IF m \in Calls THEN {n} ELSE {})
      /\ \A j \in 1..n :
           /\ Cardinality(CallsAt(s, j..Len(s))) \in Nat
           /\ Cardinality(CallsAt(t, j..n)) = Cardinality(CallsAt(s, j..Len(s)))
                + (IF m \in Calls THEN 1 ELSE 0)
  BY CallsAppend
<1>4. Len(s) \in Nat /\ 1 \in 1..n /\ MaxCalls \in Nat /\ MaxRepeats \in Nat
      /\ MaxChildren \in Nat
  BY TurnAssumption DEF TurnAssumption
<1>9. Cardinality({}) = 0
  BY FS_EmptySet
<1> HIDE DEF t, new
<1>5. Cardinality(CallsAt(t, 1..n)) <= MaxCalls
  <2>1. CASE m \in Calls
    BY <1>1, <1>2, <1>3, <2>1 DEF Supervised
  <2>2. CASE m \notin Calls
    BY <1>3, <1>4, <2>2 DEF WithinBudget
  <2> QED
    BY <2>1, <2>2
<1>6. ASSUME NEW j \in 1..n, NEW k \in 1..n, Alike(t, j..k)
      PROVE  Cardinality(CallsAt(t, j..k)) <= MaxRepeats
  <2>1. CASE k = n /\ m \in Calls
    <3>1. Cardinality(CallsAt(t, j..n)) <= new.repeats /\ new.repeats \in Nat
      BY <1>2, <1>3, <1>6, <2>1 DEF Supervised, Trackers
    <3>2. Cardinality(CallsAt(t, j..n)) \in Nat
      BY <1>3, <2>1
    <3> QED
      BY <1>1, <1>4, <2>1, <3>1, <3>2
  <2>2. CASE k = n /\ m \notin Calls /\ j \in 1..Len(s)
    <3>1. CallsAt(t, j..n) = CallsAt(s, j..Len(s)) /\ Len(s) \in 1..Len(s)
      <4>1. Len(s) \in 1..Len(s)
        BY <1>4, <2>2
      <4>2. j \in 1..n
        OBVIOUS
      <4>3. CallsAt(t, j..n) = CallsAt(s, j..Len(s)) \cup {}
        BY <1>3, <2>2, <4>2
      <4> QED
        BY <4>1, <4>3
    <3>2. \A a \in CallsAt(s, j..Len(s)) : t[a] = s[a]
      BY <1>3, <1>4 DEF CallsAt
    <3>3. Alike(s, j..Len(s))
      BY <1>6, <2>2, <3>1, <3>2 DEF Alike
    <3> QED
      BY <2>2, <3>1, <3>3 DEF WithinBudget, Alike
  <2>3. CASE k = n /\ m \notin Calls /\ j = n
    <3>1. CallsAt(t, j..k) = {}
      BY <1>3, <2>3 DEF CallsAt
    <3>2. Cardinality(CallsAt(t, j..k)) = 0
      BY <3>1, <1>9, Zenon
    <3> QED
      BY <1>4, <3>2
  <2>4. CASE j \in 1..Len(s) /\ k \in 1..Len(s)
    <3>1. \A a \in CallsAt(s, j..k) : t[a] = s[a]
      BY <1>3, <1>4, <2>4 DEF CallsAt
    <3>2. Alike(s, j..k)
      BY <1>3, <1>6, <2>4, <3>1 DEF Alike
    <3> QED
      BY <1>3, <2>4, <3>2 DEF WithinBudget, Alike
  <2>5. CASE j = n /\ k \in 1..Len(s)
    <3>1. CallsAt(t, j..k) = {}
      BY <1>4, <2>5 DEF CallsAt
    <3>2. Cardinality(CallsAt(t, j..k)) = 0
      BY <3>1, <1>9, Zenon
    <3> QED
      BY <1>4, <3>2
  <2> QED
    BY <1>4, <2>1, <2>2, <2>3, <2>4, <2>5
<1>7. Cardinality({t[k] : k \in 1..n} \cap Spawns) <= MaxChildren
  <2>1. new.children = {t[k] : k \in 1..n} \cap Spawns
    BY <1>2, <1>3 DEF Supervised
  <2>2. Cardinality(new.children) \in Nat
    <3>1. IsFiniteSet(Spawns)
      <4>1. Spawns = {"spawn_1"} \cup {"spawn_2"}
        BY DEF Spawns
      <4> QED
        BY <4>1, FS_AddElement, FS_Singleton
    <3>2. new.children \subseteq Spawns
      BY <2>1
    <3> QED
      BY <3>1, <3>2, FS_Subset, FS_CardinalityType
  <2> QED
    BY <1>1, <1>4, <2>1, <2>2
<1>8. ASSUME NEW k \in 1..n PROVE t[k] # "tokens"
  BY <1>1, <1>3, <1>4 DEF WithinBudget
<1> QED
  BY <1>3, <1>5, <1>6, <1>7, <1>8 DEF WithinBudget, Alike, t

(* What came before the newest line.                                       *)
LEMMA FrontAppend ==
  ASSUME NEW S, NEW s \in Seq(S), NEW m \in S
  PROVE  Front(Append(s, m)) = s
BY DEF Front

USE TurnAssumption
USE DEF Requests, NoResult, Res, AsServer, Calls, Spawns, ProgressLines,
        StopFor, ChildStep, Active, Heard, Over,
        Ended, CliMessages, Silent,
        lookVars, stopVars, turnVars, childVars, pipeVars, loopVars, clockVars, eventVars

(* A queue after an item was added or taken.                               *)
LEMMA Adding ==
  ASSUME NEW S, NEW q \in Seq(S), NEW m \in S
  PROVE  Append(q, m) \in Seq(S) /\ Len(Append(q, m)) = Len(q) + 1
OBVIOUS

(* The first item is one of the items, and taking it leaves the others.    *)
LEMMA Removing ==
  ASSUME NEW S, NEW q \in Seq(S), q # <<>>
  PROVE  Head(q) \in S /\ Tail(q) \in Seq(S) /\ Len(Tail(q)) = Len(q) - 1
OBVIOUS

(* The lines a provider prints, in whatever role.                          *)
Saying == \E m \in Messages : Speaks(m) \/ Respond(m) \/ TurnOver(m)
(* A line goes to the end of the pipe, or of the queue of a server, and    *)
(* nothing else of interest here changes.                                  *)
LEMMA SayEffect ==
  ASSUME Streams, Saying
  PROVE  \E m \in Messages :
           /\ child = "running" /\ ~shut /\ (~AsServer => m \in CliMessages)
           /\ IF AsServer THEN queue' = Append(queue, m) /\ UNCHANGED pipe
              ELSE Len(pipe) < MaxUnread /\ pipe' = Append(pipe, m) /\ UNCHANGED queue
           /\ UNCHANGED <<turnVars, code, child, helpers, shut, stopVars, readers, loopVars,
                          clockVars, eventVars, result>>
<1>1. PICK m \in Messages : Speaks(m) \/ Respond(m) \/ TurnOver(m)
  BY DEF Saying
<1>2. Says(m) /\ (~AsServer => m \in CliMessages)
  BY <1>1 DEF Speaks, Respond, TurnOver
<1> QED
  BY <1>2 DEF Says

(* The lines the loop takes: all but the end of a file.                    *)
Taking ==
  \/ GetResponse
  \/ \E m \in ProgressLines : GetProgress(m) \/ GetUnobserved(m)
  \/ \E m \in {"answer", "other", "fault"} : GetMessage(m)
  \/ \E m \in {"bad", "junk"} : GetBad(m)
  \/ \E m \in {"done", "failed"} : GetTurnOver(m)
(* A line is taken from the front, and only a server's line ends the loop. *)
LEMMA TakeEffect ==
  ASSUME Streams, Taking
  PROVE  /\ pc = "get" /\ queue # <<>> /\ Head(queue) # "eof" /\ queue' = Tail(queue)
         /\ \/ pc' = "check" /\ why' = why
            \/ pc' = "stopping" /\ AsServer /\ why' \in {"raised", "error", "done", "failed"}
         /\ answer' \in {answer, "own"} /\ (~AsServer => phase' = phase)
         /\ UNCHANGED <<turnVars, child, code, helpers, shut, stopVars, pipe, readers, eofs,
                        exitSeen, spent, result>>
<1> DEFINE Goal ==
      /\ pc = "get" /\ queue # <<>> /\ Head(queue) # "eof" /\ queue' = Tail(queue)
      /\ \/ pc' = "check" /\ why' = why
         \/ pc' = "stopping" /\ AsServer /\ why' \in {"raised", "error", "done", "failed"}
      /\ answer' \in {answer, "own"} /\ (~AsServer => phase' = phase)
      /\ UNCHANGED <<turnVars, child, code, helpers, shut, stopVars, pipe, readers, eofs,
                     exitSeen, spent, result>>
<1>0. ~AsServer /\ queue # <<>> => Head(queue) \in CliMessages \cup {"eof"}
  BY DEF Streams
<1>1. ASSUME GetResponse
      PROVE  Goal
  <2>1. phase # "listen" /\ Take("ok") /\ answer' = answer /\ AsServer
    BY <1>1 DEF GetResponse, Streams
  <2>2. (pc' = "check" /\ why' = why) \/ (pc' = "stopping" /\ why' = "raised")
    BY <1>1 DEF GetResponse
  <2> QED
    BY <2>1, <2>2 DEF Take
<1>2. ASSUME NEW m \in ProgressLines, GetProgress(m) \/ GetUnobserved(m)
      PROVE  Goal
  BY <1>2 DEF GetProgress, GetUnobserved, Take
<1>3. ASSUME NEW m \in {"answer", "other", "fault"}, GetMessage(m)
      PROVE  Goal
  BY <1>3 DEF GetMessage, Take
<1>4. ASSUME NEW m \in {"bad", "junk"}, GetBad(m)
      PROVE  Goal
  BY <1>0, <1>4 DEF GetBad, Take
<1>5. ASSUME NEW m \in {"done", "failed"}, GetTurnOver(m)
      PROVE  Goal
  BY <1>0, <1>5 DEF GetTurnOver, Take
<1> QED
  BY <1>1, <1>2, <1>3, <1>4, <1>5 DEF Taking

(* The steps from the end of the loop to the result.                       *)
Ending == Terminate \/ Kill \/ Sweep \/ Report
(* They touch nothing of streams and events, and only the end of a server  *)
(* is taken for another.                                                   *)
LEMMA EndEffect ==
  ASSUME Ending
  PROVE  /\ pc \in Over \ {"ended"} /\ pc' \in Over \ {"stopping"}
         /\ why' = why \/ (AsServer /\ why' = "deadline")
         /\ UNCHANGED <<adapter, child, code, helpers, shut, asked, pipeVars, phase, eofs,
                        exitSeen, answer, fault, clockVars, eventVars>>
<1>1. CASE Terminate
  BY <1>1 DEF Terminate
<1>2. CASE Kill
  BY <1>2 DEF Kill
<1>3. CASE Sweep
  BY <1>3 DEF Sweep, WaitOver
<1>4. CASE Report
  BY <1>4 DEF Report
<1> QED
  BY <1>1, <1>2, <1>3, <1>4 DEF Ending

(* A line added where no end of file is leaves none.                       *)
LEMMA AppendLine ==
  ASSUME NEW S, NEW q \in Seq(S), NEW m, m # "eof", ~HasEof(q)
  PROVE  ~HasEof(Append(q, m)) /\ EofsLast(Append(q, m))
BY DEF HasEof, EofsLast

(* An end of file at the end leaves the ends of file last.                 *)
LEMMA AppendEof ==
  ASSUME NEW S, NEW q \in Seq(S), EofsLast(q)
  PROVE  EofsLast(Append(q, "eof")) /\ (HasLine(Append(q, "eof")) => HasLine(q))
BY DEF EofsLast, HasLine

(* What is left after the first item; behind an end of file is no line.    *)
LEMMA TailKeeps ==
  ASSUME NEW S, NEW q \in Seq(S), q # <<>>, EofsLast(q)
  PROVE  /\ EofsLast(Tail(q)) /\ (HasEof(Tail(q)) => HasEof(q))
         /\ HasLine(Tail(q)) => HasLine(q)
         /\ Head(q) = "eof" => HasEof(q) /\ ~HasLine(q)
BY DEF EofsLast, HasLine, HasEof

(* Every step keeps the streams what they are.                             *)
LEMMA StreamsStep ==
  Streams /\ LoopInv /\ [Next]_vars => Streams'
<1> SUFFICES ASSUME Streams, LoopInv, [Next]_vars
             PROVE  Streams'
  OBVIOUS
<1>1. CASE Launch
  BY <1>1 DEF Launch, Streams
<1>2. CASE Saying
  <2>1. PICK m \in Messages :
          /\ child = "running" /\ ~shut /\ (~AsServer => m \in CliMessages)
          /\ IF AsServer THEN queue' = Append(queue, m) /\ UNCHANGED pipe
             ELSE Len(pipe) < MaxUnread /\ pipe' = Append(pipe, m) /\ UNCHANGED queue
          /\ UNCHANGED <<turnVars, code, child, helpers, shut, stopVars, readers, loopVars,
                         clockVars, eventVars, result>>
    BY <1>2, SayEffect
  <2>2. ASSUME NEW S, NEW q \in Seq(S), m \in S
        PROVE  Append(q, m) \in Seq(S) /\ Len(Append(q, m)) = Len(q) + 1
    BY <2>2, Adding
  <2>3. CASE AsServer
    <3>1. Append(queue, m) \in Seq(Messages \cup {"eof"})
      BY <2>2 DEF Streams
    <3> QED
      BY <2>1, <2>3, <3>1 DEF Streams
  <2>4. CASE ~AsServer
    <3>1. pipe \in Seq(Messages) /\ pipe \in Seq(CliMessages) /\ m \in CliMessages
      BY <2>1, <2>4 DEF Streams
    <3>2. Append(pipe, m) \in Seq(Messages) /\ Append(pipe, m) \in Seq(CliMessages)
          /\ Len(Append(pipe, m)) = Len(pipe) + 1
      BY <2>2, <3>1
    <3> HIDE DEF CliMessages
    <3>3. /\ pipe' \in Seq(Messages) /\ pipe' \in Seq(CliMessages)
          /\ Len(pipe') = Len(pipe) + 1 /\ Len(pipe) < MaxUnread
      BY <2>1, <2>4, <3>2
    <3>4. Len(pipe') <= MaxUnread
      BY <3>1, <3>3
    <3>5. /\ UNCHANGED <<adapter, child, queue, readers, exitSeen, eofs, phase>>
          /\ ~AsServer'
      BY <2>1, <2>4
    <3> QED
      BY <2>4, <3>3, <3>4, <3>5 DEF Streams
  <2> QED
    BY <2>3, <2>4
<1>3. CASE Exits
  BY <1>3 DEF Exits, Streams
<1>4. CASE Forks
  BY <1>4 DEF Forks, Streams
<1>5. CASE Shuts
  BY <1>5 DEF Shuts, Streams
<1>6. CASE HelpersEnd
  BY <1>6 DEF HelpersEnd, Streams
<1>7. CASE Read
  <2> HIDE DEF CliMessages
  <2>1. CASE /\ pipe # <<>> /\ queue' = Append(queue, Head(pipe)) /\ pipe' = Tail(pipe)
             /\ UNCHANGED <<turnVars, child, readers, phase, eofs, exitSeen>>
    <3>1. /\ Head(pipe) \in Messages /\ pipe' \in Seq(Messages) /\ Len(pipe') <= MaxUnread
          /\ ~AsServer => Head(pipe) \in CliMessages /\ pipe' \in Seq(CliMessages)
      BY <2>1, Removing DEF Streams
    <3>2. /\ queue' \in Seq(Messages \cup {"eof"})
          /\ ~AsServer => queue' \in Seq(CliMessages \cup {"eof"})
      BY <2>1, <3>1, Adding DEF Streams
    <3> QED
      BY <2>1, <3>1, <3>2 DEF Streams
  <2>2. CASE /\ readers > 0 /\ queue' = Append(queue, "eof") /\ readers' = readers - 1
             /\ UNCHANGED <<turnVars, child, pipe, phase, eofs, exitSeen>>
    <3>1. /\ queue' \in Seq(Messages \cup {"eof"})
          /\ ~AsServer => queue' \in Seq(CliMessages \cup {"eof"})
      BY <2>2, Adding DEF Streams
    <3> QED
      BY <2>2, <3>1 DEF Streams
  <2> QED
    BY <1>7, <2>1, <2>2 DEF Read
<1>8. CASE GetNothing
  BY <1>8 DEF GetNothing, Streams
<1>9. CASE GetEof
  BY <1>9 DEF GetEof, Streams
<1>10. CASE Taking
  <2> HIDE DEF CliMessages
  <2>1. queue # <<>> /\ queue' = Tail(queue) /\ (~AsServer => phase' = phase)
        /\ UNCHANGED <<adapter, child, pipe, readers, eofs, exitSeen>>
    BY <1>10, TakeEffect
  <2>2. queue' \in Seq(Messages \cup {"eof"})
        /\ (~AsServer => queue' \in Seq(CliMessages \cup {"eof"}))
    BY <2>1, Removing DEF Streams
  <2> QED
    BY <2>1, <2>2 DEF Streams
<1>11. CASE Ending
  BY <1>11, EndEffect DEF Streams
<1>12. CASE Tick
  BY <1>12 DEF Tick, Streams
<1>13. CASE UNCHANGED <<turnVars, childVars, pipeVars, phase, eofs, exitSeen>>
  BY <1>13 DEF Streams
<1> QED
  BY <1>1, <1>2, <1>3, <1>4, <1>5, <1>6, <1>7, <1>8, <1>9, <1>10, <1>11,
     <1>12, <1>13
     DEF Next, ProviderStep, Runner, Saying, Taking, Ending, vars, Refuse,
         LaunchFails, Check, Wait, Cancel

(* Every step keeps the ends of file last.                                 *)
LEMMA EofStep ==
  Streams /\ EofMeansEnd /\ LoopInv /\ [Next]_vars => EofMeansEnd'
<1> SUFFICES ASSUME Streams, EofMeansEnd, LoopInv, [Next]_vars
             PROVE  EofMeansEnd'
  OBVIOUS
<1>1. CASE Launch
  <2>1. pipe = <<>> /\ queue = <<>> /\ eofs = 0
    BY <1>1 DEF Launch, LoopInv
  <2>2. ~HasEof(<<>>) /\ EofsLast(<<>>)
    BY DEF HasEof, EofsLast
  <2>3. readers' # 0 /\ UNCHANGED <<pipe, queue, eofs>>
    BY <1>1 DEF Launch
  <2> QED
    BY <2>1, <2>2, <2>3 DEF EofMeansEnd
<1>2. CASE Saying
  <2>1. PICK m \in Messages :
          /\ child = "running" /\ ~shut /\ (~AsServer => m \in CliMessages)
          /\ IF AsServer THEN queue' = Append(queue, m) /\ UNCHANGED pipe
             ELSE Len(pipe) < MaxUnread /\ pipe' = Append(pipe, m) /\ UNCHANGED queue
          /\ UNCHANGED <<turnVars, code, child, helpers, shut, stopVars, readers, loopVars,
                         clockVars, eventVars, result>>
    BY <1>2, SayEffect
  <2>2. m # "eof" /\ queue \in Seq(Messages \cup {"eof"})
    BY DEF Streams, Messages
  <2>3. eofs = 0 /\ ~HasEof(queue) /\ readers # 0
    BY <2>1 DEF EofMeansEnd, Streams
  <2>4. ~HasEof(queue') /\ EofsLast(queue')
    <3>1. EofsLast(queue)
      BY DEF EofMeansEnd
    <3>2. ~HasEof(Append(queue, m)) /\ EofsLast(Append(queue, m))
      BY <2>2, <2>3, AppendLine
    <3>3. queue' = queue \/ queue' = Append(queue, m)
      BY <2>1
    <3> QED
      BY <2>3, <3>1, <3>2, <3>3
  <2> QED
    BY <2>1, <2>3, <2>4 DEF EofMeansEnd
<1>3. CASE Exits
  BY <1>3 DEF Exits, EofMeansEnd
<1>4. CASE Shuts
  BY <1>4 DEF Shuts, EofMeansEnd
<1>5. CASE Read
  <2>0. queue \in Seq(Messages \cup {"eof"}) /\ readers \in 0..2
    BY DEF Streams
  <2>1. CASE /\ readers > 0 /\ pipe # <<>> /\ queue' = Append(queue, Head(pipe))
             /\ pipe' = Tail(pipe) /\ UNCHANGED <<child, shut, readers, eofs>>
    <3>1. Head(pipe) # "eof"
      <4>1. Head(pipe) \in Messages
        BY <2>1, Removing DEF Streams
      <4> QED
        BY <4>1 DEF Messages
    <3>2. eofs = 0 /\ ~HasEof(queue)
      BY <2>1 DEF EofMeansEnd, Streams
    <3>3. ~HasEof(queue') /\ EofsLast(queue')
      BY <2>0, <2>1, <3>1, <3>2, AppendLine
    <3> QED
      BY <2>1, <3>2, <3>3 DEF EofMeansEnd
  <2>2. CASE /\ readers > 0 /\ AtEof /\ queue' = Append(queue, "eof")
             /\ readers' = readers - 1 /\ UNCHANGED <<child, shut, pipe, eofs>>
    <3>1. pipe' = <<>> /\ Silent'
      BY <2>2 DEF AtEof
    <3>2. EofsLast(queue') /\ (HasLine(queue') => HasLine(queue))
      BY <2>0, <2>2, AppendEof DEF EofMeansEnd
    <3> QED
      BY <2>2, <3>1, <3>2 DEF EofMeansEnd
  <2> QED
    BY <1>5, <2>1, <2>2 DEF Read
<1>6. CASE GetEof
  <2>1. queue \in Seq(Messages \cup {"eof"}) /\ eofs \in Nat
    BY DEF Streams
  <2>2. queue # <<>> /\ Head(queue) = "eof" /\ queue' = Tail(queue)
        /\ UNCHANGED <<child, shut, pipe, readers>>
    BY <1>6 DEF GetEof
  <2>3. HasEof(queue) /\ EofsLast(queue') /\ ~HasLine(queue')
    BY <2>1, <2>2, TailKeeps DEF EofMeansEnd
  <2> QED
    BY <2>2, <2>3 DEF EofMeansEnd
<1>7. CASE Taking
  <2>1. queue \in Seq(Messages \cup {"eof"})
    BY DEF Streams
  <2>2. queue # <<>> /\ queue' = Tail(queue)
        /\ UNCHANGED <<child, shut, pipe, readers, eofs>>
    BY <1>7, TakeEffect
  <2>3. EofsLast(queue') /\ (HasEof(queue') => HasEof(queue))
        /\ (HasLine(queue') => HasLine(queue))
    BY <2>1, <2>2, TailKeeps DEF EofMeansEnd
  <2> QED
    BY <2>2, <2>3 DEF EofMeansEnd
<1>8. CASE Ending
  BY <1>8, EndEffect DEF EofMeansEnd
<1>9. CASE UNCHANGED <<child, shut, pipeVars, eofs>>
  BY <1>9 DEF EofMeansEnd
<1> QED
  BY <1>1, <1>2, <1>3, <1>4, <1>5, <1>6, <1>7, <1>8, <1>9
     DEF Next, ProviderStep, Runner, Saying, Taking, Ending, vars,
         Refuse, LaunchFails, Forks, HelpersEnd, Check, Wait, GetNothing, Cancel,
         Tick

(* Every step keeps the grace for the readers.                             *)
LEMMA GraceStep ==
  Streams /\ EofMeansEnd /\ GraceInv /\ LoopInv /\ [Next]_vars => GraceInv'
<1> SUFFICES ASSUME Streams, EofMeansEnd, GraceInv, LoopInv, [Next]_vars
             PROVE  GraceInv'
  OBVIOUS
<1>1. CASE Launch
  BY <1>1 DEF Launch, GraceInv, LoopInv
<1>2. CASE Saying
  <2>1. PICK m \in Messages :
          /\ child = "running" /\ ~shut /\ (~AsServer => m \in CliMessages)
          /\ IF AsServer THEN queue' = Append(queue, m) /\ UNCHANGED pipe
             ELSE Len(pipe) < MaxUnread /\ pipe' = Append(pipe, m) /\ UNCHANGED queue
          /\ UNCHANGED <<turnVars, code, child, helpers, shut, stopVars, readers, loopVars,
                         clockVars, eventVars, result>>
    BY <1>2, SayEffect
  <2> QED
    BY <2>1 DEF GraceInv
<1>3. CASE Exits
  BY <1>3 DEF Exits, GraceInv, Streams
<1>4. CASE Read
  <2>1. CASE /\ pipe # <<>> /\ queue' = Append(queue, Head(pipe)) /\ pipe' = Tail(pipe)
             /\ UNCHANGED <<child, exitSeen>>
    <3>1. pipe \in Seq(Messages) /\ queue \in Seq(Messages \cup {"eof"})
      BY DEF Streams
    <3>2. Len(pipe') + Len(queue') = Len(pipe) + Len(queue)
      BY <2>1, <3>1, Adding, Removing
    <3> QED
      BY <2>1, <3>2 DEF GraceInv
  <2>2. CASE pipe = <<>> /\ UNCHANGED <<child, pipe, exitSeen>>
    BY <2>2 DEF GraceInv
  <2> QED
    BY <1>4, <2>1, <2>2 DEF Read, AtEof
<1>5. CASE GetNothing
  BY <1>5 DEF GetNothing, GraceInv, Streams
<1>6. CASE GetEof
  BY <1>6 DEF GetEof, GraceInv, Streams
<1>7. CASE Taking
  BY <1>7, TakeEffect DEF GraceInv, Streams
<1>8. CASE Ending
  BY <1>8, EndEffect DEF GraceInv, Streams
<1>9. CASE Tick
  <2>1. exitSeen' = exitSeen \/ (exitSeen = 1 /\ ReaderIdle /\ exitSeen' = 2)
    BY <1>9 DEF Tick
  <2>2. UNCHANGED <<child, pipe, queue>>
    BY <1>9 DEF Tick
  <2>3. exitSeen = 1 /\ ReaderIdle => pipe = <<>>
    BY DEF ReaderIdle, GraceInv, Streams, EofMeansEnd
  <2> QED
    BY <2>1, <2>2, <2>3 DEF GraceInv
<1>10. CASE UNCHANGED <<child, pipeVars, exitSeen>>
  BY <1>10 DEF GraceInv, Streams
<1> QED
  BY <1>1, <1>2, <1>3, <1>4, <1>5, <1>6, <1>7, <1>8, <1>9, <1>10
     DEF Next, ProviderStep, Runner, Saying, Taking, Ending, vars, Refuse,
         LaunchFails, Forks, Shuts, HelpersEnd, Check, Wait, Cancel

(* Every step keeps what the loop knows when it is over.                   *)
LEMMA LoopStep ==
  Streams /\ EofMeansEnd /\ GraceInv /\ LoopInv /\ [Next]_vars => LoopInv'
<1> SUFFICES ASSUME Streams, EofMeansEnd, GraceInv, LoopInv, [Next]_vars
             PROVE  LoopInv'
  OBVIOUS
<1>1. CASE Refuse
  BY <1>1 DEF Refuse, LoopInv
<1>2. CASE Launch
  BY <1>2 DEF Launch, LoopInv
<1>3. CASE LaunchFails
  BY <1>3 DEF LaunchFails, LoopInv
<1>4. CASE Saying
  <2>1. PICK m \in Messages :
          /\ child = "running" /\ ~shut /\ (~AsServer => m \in CliMessages)
          /\ IF AsServer THEN queue' = Append(queue, m) /\ UNCHANGED pipe
             ELSE Len(pipe) < MaxUnread /\ pipe' = Append(pipe, m) /\ UNCHANGED queue
          /\ UNCHANGED <<turnVars, code, child, helpers, shut, stopVars, readers, loopVars,
                         clockVars, eventVars, result>>
    BY <1>4, SayEffect
  <2> QED
    BY <2>1 DEF LoopInv
<1>5. CASE Exits
  BY <1>5 DEF Exits, LoopInv
<1>6. CASE Forks
  BY <1>6 DEF Forks, LoopInv
<1>7. CASE HelpersEnd
  BY <1>7 DEF HelpersEnd, LoopInv
<1>8. CASE Read
  <2>0. queue \in Seq(Messages \cup {"eof"})
    BY DEF Streams
  <2>1. CASE pipe # <<>> /\ UNCHANGED <<child, helpers, pc, why, eofs, adapter>>
    BY <2>1 DEF LoopInv
  <2>2. CASE /\ readers > 0 /\ pipe = <<>> /\ queue' = Append(queue, "eof")
             /\ UNCHANGED <<child, helpers, pipe, pc, why, eofs, adapter>>
    <3>1. HasLine(queue') => HasLine(queue)
      BY <2>0, <2>2, AppendEof DEF EofMeansEnd
    <3> QED
      BY <2>2, <3>1 DEF LoopInv
  <2> QED
    BY <1>8, <2>1, <2>2 DEF Read, AtEof
<1>9. CASE Check
  BY <1>9 DEF Check, Due, LoopInv
<1>10. CASE Wait
  <2>1. eofs = 2 /\ ~HasLine(queue) /\ pipe = <<>> /\ ~AsServer
    BY <1>10 DEF Wait, LoopInv, EofMeansEnd, Streams
  <2> QED
    BY <1>10, <2>1 DEF Wait, Due, LoopInv
<1>11. CASE GetNothing
  <2>1. exitSeen = 2 => pipe = <<>>
    BY DEF GraceInv
  <2>2. ~HasLine(<<>>)
    BY DEF HasLine
  <2> QED
    BY <1>11, <2>1, <2>2 DEF GetNothing, LoopInv
<1>12. CASE GetEof
  BY <1>12 DEF GetEof, LoopInv
<1>13. CASE Taking
  BY <1>13, TakeEffect DEF LoopInv
<1>14. CASE Ending
  BY <1>14, EndEffect DEF LoopInv
<1>15. CASE UNCHANGED <<turnVars, child, helpers, pipeVars, pc, why, eofs>>
  BY <1>15 DEF LoopInv
<1> QED
  BY <1>1, <1>2, <1>3, <1>4, <1>5, <1>6, <1>7, <1>8, <1>9, <1>10, <1>11,
     <1>12, <1>13, <1>14, <1>15
     DEF Next, ProviderStep, Runner, Saying, Taking, Ending, vars, Shuts, Cancel,
         Tick

(* Every step keeps what was killed: a killed process forks nothing.       *)
LEMMA KillStep == Streams /\ LoopInv /\ KillInv /\ [Next]_vars => KillInv'
<1> SUFFICES ASSUME Streams, LoopInv, KillInv, [Next]_vars
             PROVE  KillInv'
  OBVIOUS
<1> USE DEF WholeGroup, Posix
<1>1. CASE Terminate
  <2>1. Forced(system') \subseteq SUBSET Group
    BY DEF Forced, Group
  <2> QED
    BY <1>1, <2>1 DEF Terminate, KillInv
<1>2. CASE Kill
  BY <1>2 DEF Kill, KillInv, Group
<1>3. CASE Sweep
  BY <1>3 DEF Sweep, WaitOver, KillInv, Group
<1>4. CASE Report
  BY <1>4 DEF Report, KillInv
<1>5. CASE Launch
  BY <1>5 DEF Launch, KillInv
<1>6. CASE Exits \/ Forks \/ Shuts \/ HelpersEnd
  BY <1>6 DEF Exits, Forks, Shuts, HelpersEnd, KillInv
<1>7. CASE (Refuse \/ LaunchFails)
  BY <1>7 DEF Refuse, LaunchFails, KillInv, LoopInv
<1>8. CASE Taking
  <2>1. /\ pc = "get" /\ pc' \in {"check", "stopping"} /\ UNCHANGED <<adapter, child, stopVars>>
    BY <1>8, TakeEffect
  <2> QED
    BY <2>1 DEF KillInv
<1>9. CASE Saying
  <2>1. UNCHANGED <<adapter, child, stopVars, pc>>
    BY <1>9, SayEffect
  <2> QED
    BY <2>1 DEF KillInv
<1>10. CASE Check \/ Wait \/ GetNothing \/ GetEof
  <2>1. /\ pc \in {"check", "get", "wait"} /\ pc' \in {"check", "get", "wait", "stopping"}
        /\ UNCHANGED <<adapter, child, stopVars>>
    BY <1>10 DEF Check, Wait, GetNothing, GetEof
  <2> QED
    BY <2>1 DEF KillInv
<1>11. CASE Read \/ Cancel \/ Tick \/ UNCHANGED vars
  <2>1. UNCHANGED <<adapter, child, stopVars, pc>>
    BY <1>11 DEF Read, Cancel, Tick, vars
  <2> QED
    BY <2>1 DEF KillInv
<1> QED
  BY <1>1, <1>2, <1>3, <1>4, <1>5, <1>6, <1>7, <1>8, <1>9, <1>10, <1>11
     DEF Next, ProviderStep, Runner, Saying, Taking

(* Every step keeps the result an honest one.                              *)
LEMMA ResultStep ==
  Streams /\ LoopInv /\ ResultInv /\ [Next]_vars => ResultInv'
<1> SUFFICES ASSUME Streams, LoopInv, ResultInv, [Next]_vars
             PROVE  ResultInv'
  OBVIOUS
<1>1. CASE Refuse
  BY <1>1 DEF Refuse, ResultInv, HonestSuccess
<1>2. CASE Launch
  <2>1. result = NoResult /\ answer \in {"none", "own"}
    BY <1>2 DEF Launch, ResultInv
  <2>2. pc' = "check" /\ result' = result /\ answer' = answer
    BY <1>2 DEF Launch
  <2>3. result'.status = "none" /\ result'.reason = "none"
    BY <2>1, <2>2
  <2>4. result' = NoResult /\ answer' \in {"none", "own"}
    BY <2>1, <2>2
  <2> QED
    BY <2>2, <2>3, <2>4 DEF ResultInv, HonestSuccess
<1>3. CASE LaunchFails
  <2>1. result' = [status |-> "raised", reason |-> "none"]
    BY <1>3 DEF LaunchFails, Stopped
  <2> QED
    BY <1>3, <2>1 DEF LaunchFails, ResultInv, HonestSuccess
<1>4. CASE Saying
  <2>1. PICK m \in Messages :
          /\ child = "running" /\ ~shut /\ (~AsServer => m \in CliMessages)
          /\ IF AsServer THEN queue' = Append(queue, m) /\ UNCHANGED pipe
             ELSE Len(pipe) < MaxUnread /\ pipe' = Append(pipe, m) /\ UNCHANGED queue
          /\ UNCHANGED <<turnVars, code, child, helpers, shut, stopVars, readers, loopVars,
                         clockVars, eventVars, result>>
    BY <1>4, SayEffect
  <2> QED
    BY <2>1 DEF ResultInv, HonestSuccess
<1>5. CASE Exits
  BY <1>5 DEF Exits, ResultInv, HonestSuccess
<1>6. CASE Forks
  BY <1>6 DEF Forks, ResultInv, HonestSuccess
<1>7. CASE HelpersEnd
  BY <1>7 DEF HelpersEnd, ResultInv, HonestSuccess
<1>8. CASE Check
  BY <1>8 DEF Check, ResultInv, HonestSuccess
<1>9. CASE Wait
  BY <1>9 DEF Wait, ResultInv, HonestSuccess
<1>10. CASE GetNothing
  BY <1>10 DEF GetNothing, ResultInv, HonestSuccess
<1>11. CASE GetEof
  BY <1>11 DEF GetEof, ResultInv, HonestSuccess
<1>12. CASE Taking
  <2>1. pc' \in {"check", "stopping"} /\ result' = result /\ answer' \in {answer, "own"}
    BY <1>12, TakeEffect
  <2>2. result = NoResult /\ answer \in {"none", "own"}
    BY <1>12, TakeEffect DEF ResultInv
  <2>3. result'.status = "none" /\ result'.reason = "none"
    BY <2>1, <2>2
  <2>4. result' = NoResult /\ answer' \in {"none", "own"}
    BY <2>1, <2>2
  <2> QED
    BY <2>2, <2>3, <2>4 DEF ResultInv, HonestSuccess
<1>13. CASE Report
  <2>1. /\ pc' = "ended" /\ result' = AdapterResult(why, dirty' /\ compared')
        /\ UNCHANGED <<adapter, answer>>
    BY <1>13 DEF Report
  <2>2. adapter \in {"codex", "opencode", "antigravity", "app-server"}
    BY TurnAssumption DEF Streams
  <2>3. answer \in {"none", "own"} /\ why \in {"cancelled", "idle", "deadline", "raised"} \cup
          (IF AsServer THEN {"done", "failed", "error"} ELSE {"exit"})
    BY <1>13 DEF Report, ResultInv, LoopInv
  <2>4. result'.status = "success" =>
          ~(dirty' /\ compared') /\ (adapter # "antigravity" => answer = "own")
    <3>1. CASE adapter = "codex"
      BY <2>1, <2>3, <3>1 DEF AdapterResult, CodexResult, Stopped, Answered
    <3>2. CASE adapter = "opencode"
      BY <2>1, <2>3, <3>2 DEF AdapterResult, OpenCodeResult, Stopped, Answered
    <3>3. CASE adapter = "antigravity"
      BY <2>1, <2>3, <3>3 DEF AdapterResult, AntigravityResult, Stopped,
         Answered
    <3>4. CASE adapter = "app-server"
      BY <2>1, <2>3, <3>4 DEF AdapterResult, AppServerResult, Stopped, Answered
    <3> QED
      BY <2>2, <3>1, <3>2, <3>3, <3>4
  <2> QED
    BY <2>1, <2>3, <2>4 DEF ResultInv, HonestSuccess
<1>15. CASE Terminate \/ Kill \/ Sweep
  <2>1. pc \in Over \ {"ended"} /\ pc' \in Over \ {"ended"}
    BY <1>15 DEF Terminate, Kill, Sweep, WaitOver
  <2>2. UNCHANGED <<turnVars, answer, result>>
    BY <1>15 DEF Terminate, Kill, Sweep
  <2> QED
    BY <2>1, <2>2 DEF ResultInv, HonestSuccess
<1>14. CASE UNCHANGED <<turnVars, child, helpers, pc, answer, result>>
  BY <1>14 DEF ResultInv, HonestSuccess
<1> QED
  BY <1>1, <1>2, <1>3, <1>4, <1>5, <1>6, <1>7, <1>8, <1>9, <1>10, <1>11,
     <1>12, <1>13, <1>14, <1>15
     DEF Next, ProviderStep, Runner, Saying, Taking, vars, Shuts, Read,
         Cancel, Tick

(* Every step keeps the lines within the budget until the tracker objects. *)
LEMMA BudgetStep == BudgetInv /\ [Next]_vars => BudgetInv'
<1> SUFFICES ASSUME BudgetInv, [Next]_vars
             PROVE  BudgetInv'
  OBVIOUS
<1>1. ASSUME NEW m \in ProgressLines, GetProgress(m), m # "text"
      PROVE  BudgetInv'
  <2>1. /\ pc = "get" /\ pc' = "check" /\ tracker' = Observe(tracker, m)
        /\ observed' = Append(observed, m) /\ cancel' = (cancel \/ Observe(tracker, m).verdict)
    BY <1>1 DEF GetProgress, Take
  <2>2. ~tracker.verdict /\ WithinBudget(observed) /\ observed \in Seq(ProgressLines)
        /\ Supervised(observed, tracker)
    BY <2>1 DEF BudgetInv
  <2>3. observed' \in Seq(ProgressLines) /\ Supervised(observed', tracker')
    BY <2>1, <2>2, ObserveKeeps
  <2>4. ~tracker'.verdict => WithinBudget(observed')
    BY <2>1, <2>2, ObserveWithin
  <2>5. Front(observed') = observed
    BY <2>1, <2>2, FrontAppend
  <2>6. tracker'.verdict => cancel'
    BY <2>1
  <2>7. StopsAtBudget'
    BY <2>2, <2>5 DEF StopsAtBudget
  <2>8. pc' # "get"
    BY <2>1
  <2> QED
    BY <2>3, <2>4, <2>6, <2>7, <2>8, Zenon DEF BudgetInv
<1>2. CASE Check
  <2>1. UNCHANGED eventVars /\ (pc' = "get" => ~cancel)
    BY <1>2 DEF Check, Due
  <2> QED
    BY <2>1 DEF BudgetInv, StopsAtBudget
<1>3. CASE Cancel
  <2>1. cancel' = TRUE /\ UNCHANGED <<pc, tracker, observed>>
    BY <1>3 DEF Cancel
  <2> QED
    BY <2>1 DEF BudgetInv, StopsAtBudget
<1>4. CASE UNCHANGED eventVars /\ (pc' = pc \/ pc' # "get")
  BY <1>4 DEF BudgetInv, StopsAtBudget
<1> QED
  <2>1. CASE ProviderStep
    BY <1>4, <2>1 DEF ProviderStep, Speaks, Respond, TurnOver, Says, Exits,
       Forks, Shuts,
       HelpersEnd
  <2>2. CASE Runner
    <3>1. ASSUME NEW m \in ProgressLines, GetProgress(m)
          PROVE  BudgetInv'
      BY <1>1, <1>4, <3>1 DEF GetProgress
    <3>2. ASSUME NEW m, GetUnobserved(m) \/ GetMessage(m) \/ GetBad(m) \/ GetTurnOver(m)
          PROVE  BudgetInv'
      BY <1>4, <3>2 DEF GetUnobserved, GetMessage, GetBad, GetTurnOver
    <3>3. CASE Wait \/ GetNothing \/ GetEof \/ GetResponse
      BY <1>4, <3>3 DEF Wait, GetNothing, GetEof, GetResponse
    <3>4. CASE Ending
      BY <1>4, <3>4, EndEffect
    <3> QED
      BY <1>2, <2>2, <3>1, <3>2, <3>3, <3>4 DEF Runner, Ending
  <2>3. CASE Refuse \/ Launch \/ LaunchFails \/ Read \/ Tick \/ UNCHANGED vars
    BY <1>4, <2>3 DEF Refuse, Launch, LaunchFails, Read, Tick, vars
  <2> QED
    BY <1>3, <2>1, <2>2, <2>3 DEF Next

(* Flags stay flags.                                                       *)
LEMMA FlagsStep == FlagsTyped /\ [Next]_vars => FlagsTyped'
<1> SUFFICES ASSUME FlagsTyped, [Next]_vars
             PROVE  FlagsTyped'
  OBVIOUS
<1>1. ASSUME UNCHANGED <<lookVars, helpers, shut, fault, cancel>>, asked' \in BOOLEAN
      PROVE  FlagsTyped'
  BY <1>1 DEF FlagsTyped
<1>2. ASSUME UNCHANGED <<lookVars, helpers, shut, asked, fault, cancel>>
      PROVE  FlagsTyped'
  BY <1>2 DEF FlagsTyped
<1>3. CASE Launch
  <2>1. asked' \in BOOLEAN /\ UNCHANGED <<lookVars, helpers, shut, fault, cancel>>
    BY <1>3 DEF Launch
  <2> QED
    BY <1>1, <2>1
<1>4. CASE Saying
  <2>1. PICK m \in Messages : Speaks(m) \/ Respond(m) \/ TurnOver(m)
    BY <1>4 DEF Saying
  <2>2. UNCHANGED asked \/ asked' = FALSE
    BY <2>1 DEF Speaks, Respond, TurnOver
  <2>3. asked' \in BOOLEAN
    BY <2>2 DEF FlagsTyped
  <2>4. UNCHANGED <<lookVars, helpers, shut, fault, cancel>>
    BY <2>1 DEF Speaks, Respond, TurnOver, Says, loopVars
  <2> QED
    BY <1>1, <2>3, <2>4
<1>5. CASE Exits
  BY <1>2, <1>5 DEF Exits
<1>6. CASE Forks
  BY <1>6 DEF Forks, FlagsTyped, loopVars
<1>7. CASE Shuts
  BY <1>7 DEF Shuts, FlagsTyped, loopVars
<1>8. CASE HelpersEnd
  BY <1>8 DEF HelpersEnd, FlagsTyped, loopVars
<1>9. CASE Read
  BY <1>2, <1>9 DEF Read, loopVars
<1>10. CASE Refuse \/ LaunchFails \/ Check \/ Wait \/ GetNothing \/ GetEof \/ Tick
  BY <1>2, <1>10 DEF Refuse, LaunchFails, Check, Wait, GetNothing, GetEof, Tick
<1>11. CASE Cancel
  BY <1>11 DEF Cancel, FlagsTyped, loopVars
<1>12. CASE Ending
  <2>1. UNCHANGED <<helpers, shut, asked, fault, cancel>>
    BY <1>12, EndEffect
  <2>2. readonly' \in BOOLEAN /\ dirty' \in BOOLEAN /\ compared' \in BOOLEAN
    <3>1. CASE Report
      BY <3>1 DEF Report, FlagsTyped
    <3>2. CASE UNCHANGED lookVars
      BY <3>2 DEF FlagsTyped
    <3> QED
      BY <1>12, <3>1, <3>2 DEF Ending, Terminate, Kill, Sweep
  <2> QED
    BY <2>1, <2>2 DEF FlagsTyped
<1>13. CASE Taking
  <2>1. UNCHANGED <<lookVars, helpers, shut>>
    BY <1>13 DEF Taking, GetResponse, GetProgress, GetUnobserved, GetMessage, GetBad,
       GetTurnOver, Take
  <2>2. cancel' \in BOOLEAN
    <3>1. ASSUME NEW m \in ProgressLines, GetProgress(m)
          PROVE  cancel' \in BOOLEAN
      BY <3>1 DEF GetProgress, FlagsTyped
    <3>2. ASSUME UNCHANGED cancel PROVE cancel' \in BOOLEAN
      BY <3>2 DEF FlagsTyped
    <3>3. UNCHANGED cancel \/ \E m \in ProgressLines : GetProgress(m)
      BY <1>13 DEF Taking, GetResponse, GetUnobserved, GetMessage, GetBad, GetTurnOver
    <3> QED
      BY <3>1, <3>2, <3>3
  <2>3. fault' \in BOOLEAN
    <3>1. ASSUME NEW m \in {"answer", "other", "fault"}, GetMessage(m)
          PROVE  fault' \in BOOLEAN
      <4>1. fault' = (fault \/ (m = "fault" /\ phase = "listen"))
        BY <3>1 DEF GetMessage
      <4> QED
        BY <4>1 DEF FlagsTyped
    <3>2. ASSUME UNCHANGED fault PROVE fault' \in BOOLEAN
      BY <3>2 DEF FlagsTyped
    <3>3. UNCHANGED fault \/ \E m \in {"answer", "other", "fault"} : GetMessage(m)
      BY <1>13 DEF Taking, GetResponse, GetProgress, GetUnobserved, GetBad, GetTurnOver
    <3> QED
      BY <3>1, <3>2, <3>3
  <2>4. asked' \in BOOLEAN
    <3>1. UNCHANGED asked \/ asked' = (phase # "turn")
      BY <1>13 DEF Taking, GetResponse, GetProgress, GetUnobserved, GetMessage, GetBad,
         GetTurnOver
    <3> QED
      BY <3>1 DEF FlagsTyped
  <2> QED
    BY <2>1, <2>2, <2>3, <2>4 DEF FlagsTyped
<1>14. CASE UNCHANGED vars
  BY <1>2, <1>14 DEF vars, loopVars
<1> QED
  BY <1>3, <1>4, <1>5, <1>6, <1>7, <1>8, <1>9, <1>10, <1>11, <1>12, <1>13, <1>14
     DEF Next, ProviderStep, Runner, Saying, Taking, Ending

(* The loop is at one of its places and ends for one of its reasons.       *)
LEMMA PlaceStep == Streams /\ PlaceTyped /\ [Next]_vars => PlaceTyped'
<1> SUFFICES ASSUME Streams, PlaceTyped, [Next]_vars
             PROVE  PlaceTyped'
  OBVIOUS
<1>1. CASE Refuse \/ Launch \/ LaunchFails
  BY <1>1 DEF Refuse, Launch, LaunchFails, PlaceTyped
<1>2. CASE Exits
  BY <1>2 DEF Exits, PlaceTyped
<1>3. CASE Check
  BY <1>3 DEF Check, Due, PlaceTyped
<1>4. CASE Wait
  BY <1>4 DEF Wait, Due, PlaceTyped
<1>5. CASE GetNothing \/ GetEof
  BY <1>5 DEF GetNothing, GetEof, PlaceTyped
<1>6. CASE Ending
  BY <1>6, EndEffect DEF PlaceTyped
<1>7. CASE Taking
  <2>1. /\ UNCHANGED code /\ pc' \in {"check", "stopping"}
        /\ why' \in {why, "raised", "error", "done", "failed"}
    BY <1>7, TakeEffect
  <2>2. phase' \in {"thread", "turn", "listen"} \/ UNCHANGED phase
    <3>1. ASSUME GetResponse, phase' # phase
          PROVE  phase' \in {"thread", "turn", "listen"}
      <4>1. phase \in Requests /\ phase' = NextPhase[phase]
        BY <3>1 DEF GetResponse, PlaceTyped
      <4> QED
        BY <4>1 DEF NextPhase
    <3>2. UNCHANGED phase \/ GetResponse
      BY <1>7 DEF Taking, GetProgress, GetUnobserved, GetMessage, GetBad, GetTurnOver
    <3> QED
      BY <3>1, <3>2
  <2> QED
    BY <2>1, <2>2 DEF PlaceTyped
<1>8. CASE UNCHANGED <<phase, pc, why, code>>
  BY <1>8 DEF PlaceTyped
<1>9. CASE Saying
  <2>1. UNCHANGED <<phase, pc, why, code>>
    BY <1>9, SayEffect DEF loopVars
  <2> QED
    BY <1>8, <2>1
<1>10. CASE Forks \/ Shuts \/ HelpersEnd \/ Read \/ Cancel \/ Tick \/ UNCHANGED vars
  BY <1>8, <1>10 DEF Forks, Shuts, HelpersEnd, Read, Cancel, Tick, vars
<1> QED
  BY <1>1, <1>2, <1>3, <1>4, <1>5, <1>6, <1>7, <1>9, <1>10
     DEF Next, ProviderStep, Runner, Saying, Taking, Ending

(* A reader leaves with the end of file it hands over, so there is room.   *)
LEMMA RoomStep == Streams /\ LoopInv /\ RoomKept /\ [Next]_vars => RoomKept'
<1> SUFFICES ASSUME Streams, LoopInv, RoomKept, [Next]_vars
             PROVE  RoomKept'
  OBVIOUS
<1>0. queue \in Seq(Messages \cup {"eof"}) /\ Len(queue) \in Nat /\ readers \in 0..2
  BY DEF Streams
<1>1. CASE Launch
  <2>1. queue' = <<>> /\ readers' \in 0..2
    BY <1>1 DEF Launch, LoopInv
  <2>2. Len(queue') = 0
    <3>1. Len(<<>>) = 0
      OBVIOUS
    <3> QED
      BY <2>1, <3>1, Zenon
  <2>3. MaxUnread \in Nat
    BY TurnAssumption DEF TurnAssumption
  <2>4. readers' <= 2 /\ readers' \in Nat
    BY <2>1
  <2>5. \A l, r : l = 0 /\ r \in Nat /\ r <= 2 => l + r <= MaxUnread + 2
    BY <2>3
  <2> QED
    BY <2>2, <2>4, <2>5 DEF RoomKept
<1>2. ASSUME queue' \in Seq(Messages \cup {"eof"}), Len(queue') <= MaxUnread, readers' \in 0..2
      PROVE  RoomKept'
  BY <1>2 DEF RoomKept
<1>3. CASE Saying
  <2>1. PICK m \in Messages : Says(m)
    BY <1>3 DEF Saying, Speaks, Respond, TurnOver
  <2>2. CASE AsServer
    <3>1. /\ Len(queue) < MaxUnread /\ queue' = Append(queue, m) /\ UNCHANGED readers
      BY <2>1, <2>2 DEF Says
    <3>2. /\ Append(queue, m) \in Seq(Messages \cup {"eof"})
          /\ Len(Append(queue, m)) = Len(queue) + 1
      BY <1>0, Adding
    <3> QED
      BY <1>0, <1>2, <3>1, <3>2
  <2>3. CASE ~AsServer
    BY <2>1, <2>3 DEF Says, RoomKept
  <2> QED
    BY <2>2, <2>3
<1>4. CASE Read
  <2>1. CASE /\ pipe # <<>> /\ Len(queue) < MaxUnread
             /\ queue' = Append(queue, Head(pipe)) /\ UNCHANGED readers
    <3>1. Len(queue') = Len(queue) + 1
      BY <1>0, <2>1
    <3> QED
      BY <1>0, <2>1, <3>1 DEF RoomKept
  <2>2. CASE readers > 0 /\ queue' = Append(queue, "eof") /\ readers' = readers - 1
    <3>1. Len(queue') = Len(queue) + 1
      BY <1>0, <2>2
    <3> QED
      BY <1>0, <2>2, <3>1 DEF RoomKept
  <2> QED
    BY <1>4, <2>1, <2>2 DEF Read
<1>5. CASE Taking \/ GetEof
  <2>1. queue # <<>> /\ queue' = Tail(queue) /\ UNCHANGED readers
    BY <1>5, TakeEffect DEF GetEof
  <2>2. Len(queue') = Len(queue) - 1
    BY <1>0, <2>1, Removing
  <2> QED
    BY <1>0, <2>1, <2>2 DEF RoomKept
<1>6. CASE UNCHANGED <<queue, readers>>
  BY <1>6 DEF RoomKept
<1>7. CASE Refuse \/ LaunchFails \/ Exits \/ Forks \/ Shuts \/ HelpersEnd
  BY <1>6, <1>7 DEF Refuse, LaunchFails, Exits, Forks, Shuts, HelpersEnd
<1>8. CASE Check \/ Wait \/ GetNothing \/ Cancel \/ Tick \/ UNCHANGED vars
  BY <1>6, <1>8 DEF Check, Wait, GetNothing, Cancel, Tick, vars
<1>9. CASE Ending
  BY <1>6, <1>9, EndEffect
<1> QED
  BY <1>1, <1>3, <1>4, <1>5, <1>7, <1>8, <1>9
     DEF Next, ProviderStep, Runner, Saying, Taking, Ending

(* With two ends of file the loop waits for the process and takes nothing. *)
LEMMA EofsStep == Streams /\ LoopInv /\ EofsCounted /\ [Next]_vars => EofsCounted'
<1> SUFFICES ASSUME Streams, LoopInv, EofsCounted, [Next]_vars
             PROVE  EofsCounted'
  OBVIOUS
<1>0. eofs \in Nat
  BY DEF Streams
<1>1. CASE Check
  BY <1>1 DEF Check, EofsCounted
<1>2. CASE GetEof
  <2>1. pc = "get" /\ pc' # "get" /\ eofs' \in {eofs, eofs + 1}
    BY <1>2 DEF GetEof
  <2> QED
    BY <1>0, <2>1 DEF EofsCounted
<1>3. CASE UNCHANGED eofs /\ (pc' = "get" => pc = "get")
  BY <1>3 DEF EofsCounted
<1>4. CASE Taking
  <2>1. UNCHANGED eofs /\ pc' # "get"
    BY <1>4, TakeEffect
  <2> QED
    BY <1>3, <2>1
<1>5. CASE Saying
  <2>1. UNCHANGED <<eofs, pc>>
    BY <1>5, SayEffect DEF loopVars
  <2> QED
    BY <1>3, <2>1
<1>6. CASE Refuse \/ Launch \/ LaunchFails \/ Exits \/ Forks \/ Shuts \/ HelpersEnd \/ Read
  BY <1>3, <1>6 DEF Refuse, Launch, LaunchFails, Exits, Forks, Shuts, HelpersEnd, Read
<1>7. CASE Wait \/ GetNothing \/ Cancel \/ Tick \/ UNCHANGED vars
  BY <1>3, <1>7 DEF Wait, GetNothing, Cancel, Tick, vars
<1>8. CASE Ending
  BY <1>3, <1>8, EndEffect
<1> QED
  BY <1>1, <1>2, <1>4, <1>5, <1>6, <1>7, <1>8
     DEF Next, ProviderStep, Runner, Saying, Taking, Ending

(* The clocks stop at their limits.                                        *)
LEMMA ClocksStep == ClocksTyped /\ [Next]_vars => ClocksTyped'
<1> SUFFICES ASSUME ClocksTyped, [Next]_vars
             PROVE  ClocksTyped'
  OBVIOUS
<1>1. CASE Tick
  BY <1>1 DEF Tick, Capped, ClocksTyped
<1>2. CASE quiet' \in {quiet, 0} /\ UNCHANGED spent
  BY <1>2 DEF ClocksTyped
<1>3. CASE Taking
  <2>1. PICK m : Take(m)
    BY <1>3 DEF Taking, GetResponse, GetProgress, GetUnobserved, GetMessage, GetBad,
       GetTurnOver
  <2> QED
    BY <1>2, <2>1 DEF Take
<1>4. CASE Saying
  <2>1. PICK m \in Messages : Says(m)
    BY <1>4 DEF Saying, Speaks, Respond, TurnOver
  <2> QED
    BY <1>2, <2>1 DEF Says
<1>5. CASE Refuse \/ Launch \/ LaunchFails \/ Exits \/ Forks \/ Shuts \/ HelpersEnd \/ Read
  BY <1>2, <1>5 DEF Refuse, Launch, LaunchFails, Exits, Forks, Shuts, HelpersEnd, Read
<1>6. CASE Check \/ Wait \/ GetNothing \/ GetEof \/ Cancel \/ UNCHANGED vars
  BY <1>2, <1>6 DEF Check, Wait, GetNothing, GetEof, Cancel, vars
<1>7. CASE Ending
  BY <1>2, <1>7, EndEffect
<1> QED
  BY <1>1, <1>3, <1>4, <1>5, <1>6, <1>7
     DEF Next, ProviderStep, Runner, Saying, Taking, Ending

(* What a stopped turn is reported as: a timeout has the clock that stopped *)
(* it, and nothing else has one.                                           *)
Reported(r) ==
  /\ r \in [status : Statuses, reason : Reasons]
  /\ r.status = "timeout" <=> r.reason \in Reasons \ {"none", "cancelled"}

(* What the adapters make of an answer.                                    *)
LEMMA AnswerReported == \A ok \in BOOLEAN : Reported(Answered(ok))
BY DEF Answered, Reported, Statuses, Reasons
(* What they make of each way to stop a turn.                              *)
LEMMA StopReported ==
  \A w \in {"cancelled", "idle", "deadline", "raised"} : Reported(Stopped(w))
BY DEF Stopped, Reported, Statuses, Reasons
(* The print command's own timeout is reported as a timeout with its clock.*)
LEMMA PrintTimeoutReported == Reported(Res("timeout", "provider_print_timeout"))
BY DEF Reported, Statuses, Reasons

(* Every result is of its type, and says timeout for a clock only.         *)
LEMMA ReportStep == Streams /\ LoopInv /\ ResultTyped /\ [Next]_vars => ResultTyped'
<1> SUFFICES ASSUME Streams, LoopInv, ResultTyped, [Next]_vars
             PROVE  ResultTyped'
  OBVIOUS
<1>0. ASSUME Reported(result')
      PROVE  ResultTyped'
  BY <1>0 DEF Reported, ResultTyped
<1>1. CASE UNCHANGED result
  BY <1>1 DEF ResultTyped
<1>2. CASE Refuse
  <2>1. \/ \E s \in {"unavailable", "error"} : result' = Res(s, "none")
        \/ result' = Res("cancelled", "none")
    BY <1>2 DEF Refuse
  <2>2. Reported(result')
    BY <2>1 DEF Reported, Statuses, Reasons
  <2> QED
    BY <1>0, <2>2
<1>3. CASE LaunchFails
  <2>1. result' = Stopped("raised")
    BY <1>3 DEF LaunchFails
  <2> QED
    BY <1>0, <2>1, StopReported
<1>4. CASE Report
  <2>1. result' = AdapterResult(why, dirty' /\ compared')
    BY <1>4 DEF Report
  <2>2. adapter \in {"codex", "opencode", "antigravity", "app-server"}
    BY DEF Streams
  <2>3. why \in {"cancelled", "idle", "deadline", "raised"} \cup
          (IF AsServer THEN {"done", "failed", "error"} ELSE {"exit"})
    BY <1>4 DEF Report, LoopInv
  <2>4. CASE adapter = "codex"
    <3>1. result' \in {Stopped(why), Answered(TRUE), Answered(FALSE)} /\ ~AsServer
          /\ (why # "exit" => result' = Stopped(why))
          /\ (why = "exit" => result' \in {Answered(TRUE), Answered(FALSE)})
      BY <2>1, <2>4 DEF AdapterResult, CodexResult, Answered
    <3> QED
      BY <1>0, <2>3, <3>1, AnswerReported, StopReported
  <2>5. CASE adapter = "opencode"
    <3>1. /\ ~AsServer /\ (why # "exit" => result' = Stopped(why))
          /\ (why = "exit" => result' \in {Answered(TRUE), Answered(FALSE)})
      BY <2>1, <2>5 DEF AdapterResult, OpenCodeResult, Answered
    <3> QED
      BY <1>0, <2>3, <3>1, AnswerReported, StopReported
  <2>6. CASE adapter = "antigravity"
    <3>1. /\ ~AsServer /\ (why # "exit" => result' = Stopped(why))
          /\ why = "exit" => result' \in {Res("timeout", "provider_print_timeout"),
                                           Answered(TRUE), Answered(FALSE)}
      BY <2>1, <2>6 DEF AdapterResult, AntigravityResult, Answered
    <3> QED
      BY <1>0, <2>3, <3>1, AnswerReported, StopReported, PrintTimeoutReported
  <2>7. CASE adapter = "app-server"
    <3>1. /\ why \in {"cancelled", "idle", "deadline", "raised"} => result' = Stopped(why)
          /\ why \notin {"cancelled", "idle", "deadline", "raised"} =>
               result' \in {Answered(TRUE), Answered(FALSE)}
      BY <2>1, <2>7 DEF AdapterResult, AppServerResult, Answered
    <3> QED
      BY <1>0, <3>1, AnswerReported, StopReported
  <2> QED
    BY <2>2, <2>4, <2>5, <2>6, <2>7
<1>5. CASE Taking
  BY <1>1, <1>5, TakeEffect
<1>6. CASE Saying
  BY <1>1, <1>6, SayEffect
<1>7. CASE Launch \/ Exits \/ Forks \/ Shuts \/ HelpersEnd \/ Read
  BY <1>1, <1>7 DEF Launch, Exits, Forks, Shuts, HelpersEnd, Read
<1>8. CASE Check \/ Wait \/ GetNothing \/ GetEof \/ Cancel \/ Tick \/ UNCHANGED vars
  BY <1>1, <1>8 DEF Check, Wait, GetNothing, GetEof, Cancel, Tick, vars
<1>9. CASE Terminate \/ Kill \/ Sweep
  BY <1>1, <1>9 DEF Terminate, Kill, Sweep
<1> QED
  BY <1>2, <1>3, <1>4, <1>5, <1>6, <1>7, <1>8, <1>9
     DEF Next, ProviderStep, Runner, Saying, Taking

(* Every step keeps the rest of the types.                                 *)
LEMMA TypedStep == Streams /\ LoopInv /\ Typed /\ [Next]_vars => Typed'
BY FlagsStep, PlaceStep, RoomStep, EofsStep, ClocksStep, ReportStep DEF Typed

(* The inductive invariant holds of every behaviour.                       *)
THEOREM Invariance == Spec => []IInv
<1>1. Init => IInv
  <2>1. Init => BudgetInv
    <3>1. /\ CallsAt(<<>>, 1..0) = {} /\ Len(<<>>) = 0 /\ 1..0 = {}
          /\ {<<>>[k] : k \in 1..0} = {} /\ <<>> \in Seq(ProgressLines)
      BY DEF CallsAt
    <3>2. Cardinality({}) = 0 /\ Cardinality({} \cap Spawns) = 0
      BY FS_EmptySet
    <3>3. Tracker0 \in Trackers
      BY DEF Tracker0, Trackers
    <3>4. Supervised(<<>>, Tracker0)
      BY <3>1, <3>2, <3>3 DEF Supervised, Tracker0
    <3>5. WithinBudget(<<>>)
      <4>0. MaxCalls \in Nat /\ Cardinality(CallsAt(<<>>, 1..Len(<<>>))) = 0
        BY <3>1, <3>2, TurnAssumption, Zenon DEF TurnAssumption
      <4>1. Cardinality(CallsAt(<<>>, 1..Len(<<>>))) <= MaxCalls
        BY <4>0
      <4>2. {<<>>[k] : k \in 1..Len(<<>>)} \cap Spawns = {}
        BY <3>1
      <4>3. Cardinality({<<>>[k] : k \in 1..Len(<<>>)} \cap Spawns) <= MaxChildren
        BY <3>2, <4>2
      <4> QED
        BY <3>1, <4>1, <4>3 DEF WithinBudget
    <3> QED
      BY <3>1, <3>4, <3>5 DEF Init, BudgetInv, StopsAtBudget, Tracker0
  <2>2. Init => Typed
    <3>1. Init => helpers = FALSE /\ shut = FALSE /\ dirty = FALSE /\ compared = FALSE
                 /\ asked = FALSE
      BY DEF Init
    <3>2. Init => fault = FALSE /\ cancel = FALSE /\ readonly = FALSE
      BY DEF Init
    <3>3. Init => FlagsTyped
      BY <3>1, <3>2 DEF FlagsTyped
    <3>4. Init => PlaceTyped /\ ResultTyped
      BY DEF Init, PlaceTyped, ResultTyped
    <3>5. Init => RoomKept /\ EofsCounted /\ ClocksTyped
      BY DEF Init, RoomKept, EofsCounted, ClocksTyped
    <3> QED
      BY <3>3, <3>4, <3>5 DEF Typed
  <2> QED
    BY <2>1, <2>2 DEF Init, IInv, Streams, EofMeansEnd, EofsLast, HasEof, HasLine,
       GraceInv, LoopInv,
       KillInv, WholeGroup, ResultInv, HonestSuccess
<1>2. IInv /\ [Next]_vars => IInv'
  BY StreamsStep, EofStep, GraceStep, LoopStep, KillStep, ResultStep, BudgetStep, TypedStep DEF IInv
<1> QED
  BY <1>1, <1>2, PTL DEF Spec

(* Every variable has its type: pipe, queue and clocks keep their bounds,  *)
(* at most two ends of file are counted, and a result says timeout with    *)
(* the clock that ran out and with nothing else (process.py, run).         *)
THEOREM TypeCorrect == Spec => []TypeOK
<1>1. IInv => TypeOK
  <2> SUFFICES ASSUME IInv PROVE TypeOK
    OBVIOUS
  <2>1. /\ adapter \in Adapters /\ child \in {"none", "running", "exited"}
        /\ pipe \in Seq(Messages) /\ Len(pipe) <= MaxUnread
        /\ queue \in Seq(Messages \cup {"eof"})
        /\ readers \in 0..2 /\ exitSeen \in 0..2 /\ eofs \in Nat
    BY DEF IInv, Streams
  <2>2. Len(queue) <= MaxUnread + 2 /\ eofs \in 0..2
    <3>1. Len(queue) \in Nat /\ Len(queue) + readers <= MaxUnread + 2 /\ eofs <= 2
      BY <2>1 DEF IInv, Typed, RoomKept, EofsCounted
    <3> QED
      BY <2>1, <3>1
  <2>3. /\ answer \in {"none", "own", "other"} /\ tracker \in Trackers
        /\ observed \in Seq(ProgressLines)
    BY DEF IInv, ResultInv, BudgetInv, Supervised
  <2>4. FlagsTyped /\ PlaceTyped /\ ClocksTyped /\ ResultTyped
    BY DEF IInv, Typed
  <2>5. system \in Systems \cup {"any"} /\ killed \in SUBSET Group
    BY DEF IInv, KillInv
  <2> QED
    BY <2>1, <2>2, <2>3, <2>4, <2>5 DEF TypeOK, FlagsTyped, PlaceTyped, ClocksTyped, ResultTyped
<1> QED
  BY <1>1, Invariance, PTL

(* The safety half of StopKillsGroup: when a turn has ended whatever lives *)
(* on of it was sent SIGKILL, the provider process in any case, and all of *)
(* the group of a command line that was cancelled or timed out where there *)
(* are groups; and from then on nobody of them forks another               *)
(* (process.py, _terminate; codex_app_server.py, close).                   *)
THEOREM NobodyIsSpared == Spec => []SurvivorsKilled
<1>1. IInv => SurvivorsKilled
  BY DEF IInv, KillInv, SurvivorsKilled, Group
<1> QED
  BY <1>1, Invariance, PTL

(* A run that ended by itself has taken every line the process printed,    *)
(* however late it was handed over and whoever still holds the pipe        *)
(* (process.py, run).                                                      *)
THEOREM NothingPrintedIsLost == Spec => []OutputComplete
<1>1. IInv => OutputComplete
  BY DEF IInv, LoopInv, OutputComplete
<1> QED
  BY <1>1, Invariance, PTL

(* A success speaks with a message of this turn; and if git could tell the *)
(* workspace of a read-only task before and after it, it tells the same    *)
(* (codex.py, opencode.py, antigravity.py, execute).                       *)
THEOREM SuccessIsHonest == Spec => []HonestSuccess
BY Invariance, PTL DEF IInv, ResultInv

(* No line is taken after one that exceeded a budget: the budgets of calls, *)
(* repeats, children and tokens hold of all lines but the newest           *)
(* (supervision.py, observe; process.py, run).                             *)
THEOREM BudgetIsKept == Spec => []StopsAtBudget
BY Invariance, PTL DEF IInv, BudgetInv
=============================================================================
