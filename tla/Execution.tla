------------------------------ MODULE Execution ------------------------------
(***************************************************************************)
(* One call of ProviderRegistry: execute, for a workflow task, or          *)
(* start_agent, for a direct session.  It routes the task to a chain of    *)
(* candidates, prepares a worktree where the task asks for one, runs a     *)
(* provider turn and its recoveries, and goes to the next candidate when   *)
(* the outcome is one that allows it.                                      *)
(*                                                                         *)
(* A turn is what ProviderTurn makes of it: an outcome from a set, which   *)
(* depends on when the cancel event was set.  Its time is counted in       *)
(* ticks; the steps of the registry take none.                             *)
(***************************************************************************)
EXTENDS Naturals, FiniteSets, SequencesExt

CONSTANTS
  Providers,       \* the registered ones
  Preferred,       \* what RoutingPolicy.select picks while it is available
  Persistent,      \* the providers with resumable sessions
  Profiles, FirstProfile,
  ProviderOf, Fallbacks, FallbackOn,   \* per profile
  ReadOnly,        \* the profiles with access = read_only
  Timeout,         \* timeout_seconds of the task, in ticks
  MaxAttempts,     \* of RecoveryPolicy
  MinRemaining,    \* of RecoveryPolicy, in ticks
  MaxPast,         \* bound on the turns of each provider that health is told of
  MaxFaults        \* bound on the store calls that raise

ProviderResults == {"success", "error", "timeout", "unavailable", "cancelled"}

ASSUME ExecutionAssumption ==
  /\ Preferred \in Providers /\ Persistent \subseteq Providers
  /\ FirstProfile \in Profiles /\ ReadOnly \subseteq Profiles
  /\ Fallbacks \in [Profiles -> Seq(Profiles)]
  /\ FallbackOn \in [Profiles -> SUBSET ProviderResults]
  /\ DOMAIN ProviderOf = Profiles
  /\ Timeout \in Nat \ {0} /\ MinRemaining \in Nat \ {0}
  /\ MaxAttempts \in Nat /\ MaxPast \in Nat /\ MaxFaults \in Nat

VARIABLES
  kind, direct, write, isolate, inherits,   \* the task: how it is routed, start_agent
                                            \* or execute, access, worktree, artifact
  pc, chain, i,      \* where the call is; the candidates, and the current one
  res,               \* the result so far: [status, reason]
  health,            \* per provider: counts of turns, shared by all calls
  told,              \* history, per provider: the statuses health was told of
  sess, tree,        \* per index of the chain: agent session, worktree
  attempt,           \* _recovery_attempt of the current candidate
  spent, used, limit,   \* ticks since the deadline was stamped; of this turn; its limit
  cancel, flagged,   \* the cancel event; budget_exceeded in the record
  late,              \* turns begun with the event set
  faults

taskVars == <<kind, direct, write, isolate, inherits>>
healthVars == <<health, told>>
turnVars == <<attempt, spent, used, limit, late>>
vars == <<taskVars, pc, chain, i, res, healthVars, sess, tree, turnVars, cancel, flagged,
          faults>>

Res(s, r) == [status |-> s, reason |-> r]
NoResult == Res("none", "none")
Index == 1..Len(chain)
Candidate == chain[i]
Provider(c) == IF kind = "profile" THEN ProviderOf[c] ELSE c
NeedsTree == ~direct /\ (inherits \/ (write /\ isolate))

Counts == [attempts : Nat, successes : Nat, timeouts : Nat, failures : Nat,
           consecutive : Nat]
TypeOK ==
  /\ kind \in {"profile", "auto", "named"} /\ direct \in BOOLEAN /\ write \in BOOLEAN
  /\ isolate \in BOOLEAN /\ inherits \in BOOLEAN
  /\ pc \in {"route", "candidate", "begin", "record", "inherit", "prelaunch", "session",
             "launch", "turn", "decide", "finish", "after", "override", "done", "raised"}
  /\ chain \in Seq(Profiles \cup Providers) /\ i \in Nat
  /\ pc \notin {"route", "done", "override", "raised"} => i \in Index
  /\ res.status \in ProviderResults \cup {"none", "budget_exceeded"}
  /\ pc = "done" => res.status # "none"
  /\ health \in [Providers -> Counts]
  /\ told \in [Providers -> SUBSET ProviderResults]
  /\ sess \in [Index -> {"none", "running", "idle", "interrupted", "failed"}]
  /\ tree \in [Index -> {"none", "made", "recorded"}]
  /\ attempt \in 0..MaxAttempts /\ used \in 0..limit /\ limit \in 0..Timeout
  /\ spent \in Nat /\ cancel \in BOOLEAN /\ flagged \in BOOLEAN
  /\ faults \in 0..MaxFaults

-----------------------------------------------------------------------------
(* Provider health, and the order of an automatic route.                    *)

Health0 == [attempts |-> 0, successes |-> 0, timeouts |-> 0, failures |-> 0,
            consecutive |-> 0]

\* Variant: only timeouts count against a provider.
HealthTimeoutsOnly(h, s) ==
  [attempts |-> h.attempts + 1,
   successes |-> h.successes + (IF s = "success" THEN 1 ELSE 0),
   timeouts |-> h.timeouts + (IF s = "timeout" THEN 1 ELSE 0),
   failures |-> h.failures,
   consecutive |-> IF s = "success" THEN 0 ELSE h.consecutive + 1]

RecordHealth(h, s) ==
  [attempts |-> h.attempts + 1,
   successes |-> h.successes + (IF s = "success" THEN 1 ELSE 0),
   timeouts |-> h.timeouts + (IF s = "timeout" THEN 1 ELSE 0),
   failures |-> h.failures + (IF s \in {"error", "unavailable"} THEN 1 ELSE 0),
   consecutive |-> IF s = "success" THEN 0 ELSE h.consecutive + 1]

\* Health forgets nothing; here it is told of MaxPast turns of each provider.
Tell(p, s) ==
  IF health[p].attempts < MaxPast
  THEN /\ health' = [health EXCEPT ![p] = RecordHealth(@, s)]
       /\ told' = [told EXCEPT ![p] = @ \cup {s}]
  ELSE UNCHANGED healthVars

\* In units of 1/2400, exact for up to four turns; the penalty for slow turns,
\* of at most 1/2, is left out.
AtMost(n, max) == IF n < max THEN n ELSE max
Bonus(p, preferred) == IF p = preferred THEN 840 ELSE 0
Gain(p, preferred) ==
  LET h == health[p] IN
  Bonus(p, preferred)
    + (IF h.attempts = 0 THEN 0 ELSE (2400 * h.successes) \div h.attempts)
Loss(p) ==
  LET h == health[p] IN
  IF h.attempts = 0 THEN 0
  ELSE (3000 * h.timeouts + 1800 * h.failures) \div h.attempts
         + AtMost(480 * h.consecutive, 1920)

\* _health_score(p) >= _health_score(q); equal ones the code orders by name,
\* the preferred one first.
ScoresAtLeast(p, q, preferred) ==
  /\ Gain(p, preferred) + Loss(q) >= Gain(q, preferred) + Loss(p)
  /\ Gain(p, preferred) + Loss(q) = Gain(q, preferred) + Loss(p) => q # preferred

\* With an explicit model only the preferred provider is asked.
Ordered(available) ==
  LET preferred == IF Preferred \in available \/ available = {} THEN Preferred
                   ELSE CHOOSE p \in available : TRUE
  IN {<<preferred>>} \cup
     {s \in SetToSeqs(available) : s # <<>> /\
        \A j, k \in 1..Len(s) : j < k => ScoresAtLeast(s[j], s[k], preferred)}

\* fallback_chain: depth first; a profile that is its own fallback, at any
\* remove, makes the configuration invalid, here <<>>.
Visit[path \in Seq(Profiles)] ==
  LET Add(acc, f) ==
        LET sub == IF f \in ToSet(path) THEN <<>> ELSE Visit[Append(path, f)] IN
        IF acc = <<>> \/ sub = <<>> THEN <<>> ELSE acc \o sub
  IN FoldLeft(Add, <<Last(path)>>, Fallbacks[Last(path)])
FallbackChain(p) == Visit[<<p>>]

\* That the second part follows from the first definition is an induction over
\* Visit; providers are registered one by one.
ASSUME ChainAssumption ==
  IsFiniteSet(Providers) /\ FallbackChain(FirstProfile) \in Seq(Profiles)

-----------------------------------------------------------------------------
Init ==
  /\ kind \in {"profile", "auto", "named"} /\ direct \in BOOLEAN /\ write \in BOOLEAN
  /\ isolate \in BOOLEAN /\ inherits \in BOOLEAN
  /\ (isolate => write) /\ (direct => ~isolate /\ ~inherits)
  /\ pc = "route" /\ chain = <<>> /\ i = 0
  /\ res = NoResult
  /\ health = [p \in Providers |-> Health0] /\ told = [p \in Providers |-> {}]
  /\ sess = <<>> /\ tree = <<>>
  /\ attempt = 0 /\ spent = 0 /\ used = 0 /\ limit = 0
  /\ cancel \in BOOLEAN /\ flagged = FALSE
  /\ late = 0 /\ faults = 0

\* Other calls of the process have turns, too.  Health decides nothing but an
\* automatic route; what they tell it after that is left out.
OtherTurn(p, s) ==
  /\ pc = "route" /\ kind = "auto" /\ health[p].attempts < MaxPast
  /\ Tell(p, s)
  /\ UNCHANGED <<taskVars, pc, chain, i, res, sess, tree, turnVars, cancel, flagged,
                 faults>>

\* Where a result goes that no candidate made: budget check and record, or caller.
Settled == IF direct THEN "done" ELSE "override"

RouteTo(c) ==
  /\ chain' = c /\ i' = 1
  /\ sess' = [k \in 1..Len(c) |-> "none"] /\ tree' = [k \in 1..Len(c) |-> "none"]

Routes ==
  CASE kind = "profile" -> {FallbackChain(FirstProfile)} \ {<<>>}
    [] kind = "named" -> {<<p>> : p \in Providers}
    [] kind = "auto" -> UNION {Ordered(a) : a \in SUBSET Providers}

Route ==
  /\ pc = "route"
  /\ \E c \in Routes : RouteTo(IF direct /\ kind = "auto" THEN <<Head(c)>> ELSE c)
  /\ pc' = IF kind = "profile" THEN "candidate" ELSE "begin"
  /\ UNCHANGED <<taskVars, res, healthVars, turnVars, cancel, flagged, faults>>

\* The profiles cannot be read, or their fallbacks are cyclic.
RouteFails ==
  /\ pc = "route"
  /\ res' = Res("error", "none") /\ pc' = Settled
  /\ UNCHANGED <<taskVars, chain, i, healthVars, sess, tree, turnVars, cancel, flagged,
                 faults>>

\* What one step of the call leaves alone.
Quiet == UNCHANGED <<taskVars, chain, healthVars, cancel, flagged, faults>>
Returns(s) == res' = Res(s, "none") /\ pc' = "after"

\* A profile of the chain is considered.
Consider ==
  /\ pc = "candidate"
  /\ IF write /\ Candidate \in ReadOnly THEN Returns("error")
                                        ELSE pc' = "begin" /\ UNCHANGED res
  /\ UNCHANGED <<i, sess, tree, turnVars>> /\ Quiet

\* The head of _execute_provider, and of _start_direct_agent_provider: a stop,
\* the provider, and the worktree, which may fail.
Known(p) == p \in (IF direct THEN Persistent ELSE Providers)
BeginUnless(stop) ==
  /\ pc = "begin"
  /\ \/ stop /\ Returns("cancelled") /\ UNCHANGED tree
     \/ ~stop /\ (direct \/ ~Known(Provider(Candidate))) /\ Returns("unavailable")
          /\ UNCHANGED tree
     \/ ~stop /\ Known(Provider(Candidate)) /\ NeedsTree /\ pc' = "record"
          /\ tree' = [tree EXCEPT ![i] = "made"] /\ UNCHANGED res
     \/ ~stop /\ Known(Provider(Candidate)) /\ NeedsTree /\ Returns("error")
          /\ UNCHANGED tree
     \/ ~stop /\ Known(Provider(Candidate)) /\ ~NeedsTree /\ pc' = "session"
          /\ UNCHANGED <<res, tree>>
  /\ UNCHANGED <<i, sess, turnVars>> /\ Quiet

\* Variant: the event is not looked at.
BeginUnchecked == BeginUnless(FALSE)

\* Direct sessions are not stopped here.
Begin == BeginUnless(cancel /\ ~direct)

\* Variant: a failing record_worktree_attempt is passed over.
RecordTreeQuietly ==
  /\ pc = "record" /\ pc' = (IF inherits THEN "inherit" ELSE "prelaunch")
  /\ \/ tree' = [tree EXCEPT ![i] = "recorded"] /\ UNCHANGED faults
     \/ faults < MaxFaults /\ faults' = faults + 1 /\ UNCHANGED tree
  /\ UNCHANGED <<taskVars, chain, i, res, healthVars, sess, turnVars, cancel, flagged>>

RecordTree ==
  /\ pc = "record" /\ pc' = (IF inherits THEN "inherit" ELSE "prelaunch")
  /\ tree' = [tree EXCEPT ![i] = "recorded"]
  /\ UNCHANGED <<i, res, sess, turnVars>> /\ Quiet

Inherit ==
  /\ pc = "inherit"
  /\ Returns("error") \/ (pc' = "prelaunch" /\ UNCHANGED res)
  /\ UNCHANGED <<i, sess, tree, turnVars>> /\ Quiet

\* The second look at the event; only work in a worktree has one.
PreLaunch ==
  /\ pc = "prelaunch"
  /\ IF cancel THEN Returns("cancelled") ELSE pc' = "session" /\ UNCHANGED res
  /\ UNCHANGED <<i, sess, tree, turnVars>> /\ Quiet

StartSession ==
  /\ pc = "session" /\ pc' = "launch"
  /\ sess' = [sess EXCEPT ![i] = "running"]
  /\ limit' = Timeout
  /\ UNCHANGED <<i, res, tree, attempt, spent, used, late>> /\ Quiet

\* A store call that raises ends the call: execute says so in the record (the
\* owner of a prestarted one closes it) and raises; a session stays as it is.
StoreFails ==
  /\ faults < MaxFaults /\ faults' = faults + 1
  /\ \/ pc \in {"record", "inherit", "prelaunch", "session", "override"}
     \/ pc \in {"candidate", "begin"} /\ ~direct
     \/ pc = "after" /\ kind = "profile" /\ ~direct
  /\ pc' = "raised"
  /\ \/ UNCHANGED sess
     \/ pc = "session" /\ sess' = [sess EXCEPT ![i] = "running"]
  /\ UNCHANGED <<taskVars, chain, i, res, healthVars, tree, turnVars, cancel, flagged>>

-----------------------------------------------------------------------------
(* _run_provider_turns.                                                     *)

Outcomes ==
  {Res(s, "none") : s \in {"success", "error", "unavailable"}}
    \cup {Res("timeout", r) : r \in {"idle_timeout", "provider_print_timeout"}}
    \cup (IF used = limit THEN {Res("timeout", "execution_timeout")} ELSE {})
    \cup (IF cancel THEN {Res("cancelled", "cancelled")} ELSE {})

\* A turn that begins with the event set is refused or stopped by its first
\* check; it may also raise.
Launch ==
  /\ pc = "launch"
  /\ IF cancel
     THEN \E o \in {Res("cancelled", "cancelled"), Res("error", "none"),
                    Res("unavailable", "none")} :
            /\ res' = o /\ Tell(Provider(Candidate), o.status)
            /\ late' = late + 1 /\ pc' = "decide"
     ELSE pc' = "turn" /\ UNCHANGED <<res, healthVars, late>>
  /\ UNCHANGED <<taskVars, chain, i, sess, tree, attempt, spent, used, limit, cancel,
                 flagged, faults>>

ProviderReturns ==
  /\ pc = "turn" /\ pc' = "decide"
  /\ \E o \in Outcomes : res' = o /\ Tell(Provider(Candidate), o.status)
  /\ UNCHANGED <<taskVars, chain, i, sess, tree, turnVars, cancel, flagged, faults>>

\* Only the direct path closes its session then.
ProviderRaises ==
  /\ pc \in {"launch", "turn"}
  /\ Tell(Provider(Candidate), "error")
  /\ IF direct THEN res' = Res("error", "provider_exception") /\ pc' = "finish"
               ELSE pc' = "raised" /\ UNCHANGED res
  /\ late' = late + (IF pc = "launch" /\ cancel THEN 1 ELSE 0)
  /\ UNCHANGED <<taskVars, chain, i, sess, tree, attempt, spent, used, limit, cancel,
                 flagged, faults>>

\* trip_budget, trip_direct_budget: the event first, then the record.
TripBudget ==
  /\ pc = "turn" /\ ~flagged
  /\ cancel' = TRUE
  /\ \/ flagged' = TRUE /\ UNCHANGED faults
     \/ faults < MaxFaults /\ faults' = faults + 1 /\ UNCHANGED flagged
  /\ UNCHANGED <<taskVars, pc, chain, i, res, healthVars, sess, tree, turnVars>>

Remaining == IF spent < Timeout THEN Timeout - spent ELSE 0
Resumable ==
  /\ res = Res("timeout", "provider_print_timeout")
  /\ Provider(Candidate) \in Persistent
  /\ attempt < MaxAttempts /\ Remaining >= MinRemaining

ResumeAs(next, ticks) ==
  /\ pc = "decide" /\ Resumable /\ pc' = "launch"
  /\ attempt' = next /\ limit' = ticks /\ used' = 0
  /\ UNCHANGED <<i, res, sess, tree, spent, late>> /\ Quiet

\* Variant: the resumed turn gets the time of the first one.
ResumeInFull == ResumeAs(attempt + 1, Timeout)

\* Variant: the number of the attempt is not handed on.
ResumeUncounted == ResumeAs(attempt, AtMost(limit, Remaining))

Resume == ResumeAs(attempt + 1, AtMost(limit, Remaining))

\* Also when no provider session is known to go on with.
Settle ==
  /\ pc = "decide" /\ pc' = "finish"
  /\ ~Resumable \/ res.status = "timeout"
  /\ UNCHANGED <<i, res, sess, tree, turnVars>> /\ Quiet

SessionState(s) ==
  CASE s = "success" -> "idle"
    [] s \in {"cancelled", "timeout", "budget_exceeded"} -> "interrupted"
    [] OTHER -> "failed"

\* A direct session's budget decides over what the provider said, if it can be
\* read; nobody asks for it when a turn raised.
Raised == res.reason = "provider_exception"
Judged(read) ==
  IF direct /\ ~Raised /\ flagged /\ read
  THEN Res("budget_exceeded", "supervisor_budget") ELSE res

TurnsOver == pc' = "after" /\ attempt' = 0 /\ used' = 0 /\ limit' = 0

\* Variant: the state is written only when the result was saved.
FinishOnce ==
  /\ pc = "finish" /\ TurnsOver
  /\ res' = Judged(TRUE)
  /\ \/ sess' = [sess EXCEPT ![i] = SessionState(res'.status)] /\ UNCHANGED faults
     \/ faults < MaxFaults /\ faults' = faults + 1 /\ UNCHANGED sess
  /\ UNCHANGED <<taskVars, chain, i, healthVars, tree, spent, late, cancel, flagged>>

\* _finish_agent_session: a store error on the way to the state is answered by
\* one more try at the state alone; after a second one the session is left.
Finish ==
  /\ pc = "finish" /\ TurnsOver
  /\ \E n \in 0..2, read \in BOOLEAN :
       /\ faults' = faults + n + (IF read THEN 0 ELSE 1) /\ faults' <= MaxFaults
       /\ ~read => direct /\ ~Raised
       /\ res' = Judged(read)
       /\ IF n = 2 THEN UNCHANGED sess
          ELSE sess' = [sess EXCEPT ![i] = SessionState(res'.status)]
  /\ UNCHANGED <<taskVars, chain, i, healthVars, tree, spent, late, cancel, flagged>>

-----------------------------------------------------------------------------
(* The chain goes on or ends.                                               *)

GoesOn(s) ==
  CASE kind = "profile" -> s \in FallbackOn[Candidate] \ {"success", "cancelled"}
    [] kind = "auto" -> s \in {"unavailable", "timeout", "error"}
    [] kind = "named" -> FALSE

\* A direct session that was launched is not replaced by another.
After ==
  /\ pc = "after"
  /\ IF GoesOn(res.status) /\ i < Len(chain) /\ ~(direct /\ sess[i] # "none")
     THEN i' = i + 1 /\ pc' = (IF kind = "profile" THEN "candidate" ELSE "begin")
     ELSE pc' = Settled /\ UNCHANGED i
  /\ UNCHANGED <<res, sess, tree, turnVars>> /\ Quiet

\* Variant: the record is not asked.
OverrideByUsage ==
  /\ pc = "override" /\ pc' = "done"
  /\ \/ UNCHANGED res
     \/ res.status # "timeout" /\ res' = Res("budget_exceeded", "token_budget")
  /\ UNCHANGED <<i, sess, tree, turnVars>> /\ Quiet

\* Tokens, cost, or what the record says: a budget decides over any status but
\* timeout.  Then the record is completed.
Override ==
  /\ pc = "override" /\ pc' = "done"
  /\ \E usage \in BOOLEAN :
       /\ usage => \E k \in Index : sess[k] # "none"
       /\ res' = IF (usage \/ flagged) /\ res.status # "timeout"
                 THEN Res("budget_exceeded", "supervisor_budget") ELSE res
  /\ UNCHANGED <<i, sess, tree, turnVars>> /\ Quiet

Cancel ==
  /\ pc \notin {"done", "raised"} /\ ~cancel /\ cancel' = TRUE
  /\ UNCHANGED <<taskVars, pc, chain, i, res, healthVars, sess, tree, turnVars, flagged,
                 faults>>

Tick ==
  /\ pc = "turn" /\ used < limit
  /\ used' = used + 1 /\ spent' = spent + 1
  /\ UNCHANGED <<taskVars, pc, chain, i, res, healthVars, sess, tree, attempt, limit,
                 late, cancel, flagged, faults>>

Registry ==
  \/ Route \/ RouteFails \/ Consider \/ Begin \/ RecordTree \/ Inherit \/ PreLaunch
  \/ StartSession \/ StoreFails \/ Launch \/ Resume \/ Settle \/ Finish \/ After \/ Override

\* An unavailable provider counts as an error.
Others ==
  \E p \in Providers, s \in {"success", "error", "timeout", "cancelled"} : OtherTurn(p, s)

Next == Others \/ Registry \/ ProviderReturns \/ ProviderRaises \/ TripBudget \/ Cancel \/ Tick

Spec == Init /\ [][Next]_vars

\* The thread of the call runs, and a turn ends, as ProviderTurn!TurnEnds has it.
LiveSpec == Spec /\ WF_vars(Registry) /\ WF_vars(ProviderReturns \/ ProviderRaises)

-----------------------------------------------------------------------------
Done == pc = "done"

\* Whoever sets the event, and whenever, at most one turn still begins: no
\* recovery and no fallback starts another once it is set.
OneLateTurn == late <= 1

\* "Every fallback attempt gets its own recorded worktree": no provider works in
\* one the task record does not name, whatever fails.
WorktreeKnown == pc \in {"launch", "turn"} /\ NeedsTree => tree[i] = "recorded"

\* A call that returns leaves no session of any of its attempts at work, even if
\* a store call failed on the way (one that raises does leave one).
SessionsEnd == Done => \A k \in Index : sess[k] # "running"

\* The first candidate and its recoveries keep within the logical deadline.
RecoveryInTime == i = 1 => spent <= Timeout

\* A tripped budget decides the outcome of the whole call, whatever candidates
\* and recoveries came after it; only a timeout is reported as such.  A direct
\* session goes by what the provider said when the store cannot be read, and is a
\* plain error when a turn raised.
BudgetDecides ==
  Done /\ flagged /\ (direct => faults = 0 /\ ~Raised) =>
    res.status \in {"budget_exceeded", "timeout"}

\* An automatic route does not begin with a provider that only failed, not even
\* the preferred one, while one without a failure is there.
Fails(p) == told[p] # {} /\ told[p] \subseteq {"error", "timeout", "unavailable"}
Clean(p) == told[p] \subseteq {"success"}
HealthyFirst ==
  kind = "auto" /\ pc = "begin" /\ i = 1 =>
    \A j, k \in Index : j < k => ~(Fails(chain[j]) /\ Clean(chain[k]))

\* Every call comes to an end: cycles of profiles, repeated print timeouts and
\* failing stores notwithstanding.
ExecuteReturns == <>(pc \in {"done", "raised"})
=============================================================================
