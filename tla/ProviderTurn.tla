---------------------------- MODULE ProviderTurn ----------------------------
(***************************************************************************)
(* One turn of a provider: a child process, the threads that read its      *)
(* pipes, the loop that watches cancellation, silence and the deadline,    *)
(* and the adapter that makes a TaskResult of how the loop ended.          *)
(*                                                                         *)
(* Two transports share the shape.  ProcessRunner runs a command line in a *)
(* process group of its own and reads until both pipes end; the Codex      *)
(* app-server client exchanges requests and notifications with a server    *)
(* process and stops reading when the turn is complete.                    *)
(*                                                                         *)
(* Lines are reduced to what the code tells apart.  Time passes in ticks,  *)
(* and only when every line printed so far was handed over: the threads of *)
(* this process are prompt, except inside a progress callback.             *)
(***************************************************************************)
EXTENDS Naturals, FiniteSets, SequencesExt

CONSTANTS
  Adapters,     \* of "codex", "opencode", "antigravity", "app-server"
  Systems,      \* of "posix", "nt" (os.name)
  Lines,        \* the progress lines a provider may print, of those below
  IdleLimit,    \* max_idle_seconds, in ticks
  TimeLimit,    \* timeout_seconds, in ticks
  MaxCalls, MaxRepeats, MaxChildren,   \* the supervision budget
  MaxUnread     \* bound on the lines in the pipe, and on those in the queue

\* Tool calls by fingerprint, native children by id, and a token report above
\* max_tokens; "text" is any other line.
Calls == {"call_a", "call_b"}
Spawns == {"spawn_1", "spawn_2"}
ProgressLines == {"text", "tokens"} \cup Calls \cup Spawns

ASSUME TurnAssumption ==
  /\ Adapters \subseteq {"codex", "opencode", "antigravity", "app-server"}
  /\ Systems \subseteq {"posix", "nt"}
  /\ Lines \subseteq ProgressLines
  /\ IdleLimit \in Nat \ {0} /\ TimeLimit \in Nat \ {0}
  /\ MaxCalls \in Nat /\ MaxRepeats \in Nat /\ MaxChildren \in Nat
  /\ MaxUnread \in Nat \ {0}

VARIABLES
  adapter,              \* the adapter of this turn
  child, code,          \* the process: "none", "running", "exited"; exit code
  helpers,              \* descendants of it are alive and hold its pipes
  shut,                 \* it closed its ends of the pipes while it runs
  system,               \* the operating system, chosen when it is first of interest
  killed,               \* those of "child", "helpers" that were sent SIGKILL
  readonly,             \* its task may not write; chosen when it is first of interest
  dirty, compared,      \* at the end, git status says something else than before;
                        \* both snapshots of it could be taken
  asked,                \* app-server: it has not answered the last request
  pipe,                 \* stdout lines no reader has read
  queue, readers,       \* items handed over; readers still at work
  phase,                \* the request whose answer is awaited, or "listen"
  pc, why,              \* where the loop is; why it ended
  eofs, exitSeen,       \* ends of file taken; 0, 1: exit seen, 2: grace is over
  quiet, spent,         \* ticks since the last line taken, and since the start
  answer, fault,        \* a final message ("none", "own", "other"); an error
  cancel,               \* the cancel event
  tracker,              \* SupervisionTracker: its fields, and whether it objected
  observed,             \* history: the lines it has seen
  result                \* of the adapter: [status, reason], or "none"

stopVars == <<system, killed>>
lookVars == <<readonly, dirty, compared>>
turnVars == <<adapter, lookVars>>
childVars == <<child, code, helpers, shut, asked, stopVars>>
pipeVars == <<pipe, queue, readers>>
loopVars == <<phase, pc, why, eofs, exitSeen, answer, fault>>
clockVars == <<quiet, spent>>
eventVars == <<cancel, tracker, observed>>
vars == <<turnVars, childVars, pipeVars, loopVars, clockVars, eventVars, result>>

Requests == {"initialize", "thread", "turn"}
Messages == ProgressLines \cup {"answer", "other", "fault", "ok", "bad", "done",
                                "failed", "junk"}
Reasons == {"none", "cancelled", "idle_timeout", "execution_timeout",
            "provider_print_timeout"}
Statuses == {"success", "error", "timeout", "unavailable", "cancelled", "raised"}
NoResult == [status |-> "none", reason |-> "none"]
AsServer == adapter = "app-server"
Ended == pc = "ended"
Over == {"stopping", "term", "kill", "report", "ended"}
Posix == system = "posix"
Group == {"child", "helpers"}

Trackers == [calls : Nat, last : Calls \cup {"none"}, repeats : Nat,
             children : SUBSET Spawns, verdict : BOOLEAN]

TypeOK ==
  /\ adapter \in Adapters /\ readonly \in BOOLEAN
  /\ child \in {"none", "running", "exited"} /\ code \in {0, 1}
  /\ helpers \in BOOLEAN /\ shut \in BOOLEAN
  /\ system \in Systems \cup {"any"} /\ killed \in SUBSET Group
  /\ dirty \in BOOLEAN /\ compared \in BOOLEAN
  /\ asked \in BOOLEAN /\ phase \in Requests \cup {"listen"}
  /\ pipe \in Seq(Messages) /\ Len(pipe) <= MaxUnread
  /\ queue \in Seq(Messages \cup {"eof"}) /\ Len(queue) <= MaxUnread + 2
  /\ readers \in 0..2 /\ eofs \in 0..2 /\ exitSeen \in 0..2
  /\ pc \in {"start", "check", "get", "wait", "stopping", "term", "kill", "report",
             "ended"}
  /\ why \in {"none", "exit", "done", "failed", "cancelled", "idle", "deadline",
              "error", "raised"}
  /\ quiet \in 0..IdleLimit /\ spent \in 0..TimeLimit
  /\ answer \in {"none", "own", "other"} /\ fault \in BOOLEAN
  /\ cancel \in BOOLEAN
  /\ tracker \in Trackers /\ observed \in Seq(ProgressLines)
  /\ result \in {NoResult} \cup [status : Statuses, reason : Reasons]
  /\ result.status = "timeout" <=> result.reason \in Reasons \ {"none", "cancelled"}

Tracker0 == [calls |-> 0, last |-> "none", repeats |-> 0, children |-> {},
             verdict |-> FALSE]

Init ==
  /\ adapter \in Adapters
  /\ child = "none" /\ code = 0 /\ helpers = FALSE /\ shut = FALSE
  /\ system = "any" /\ killed = {} /\ readonly = FALSE /\ dirty = FALSE /\ compared = FALSE /\ asked = FALSE
  /\ phase = IF AsServer THEN "initialize" ELSE "listen"
  /\ pipe = <<>> /\ queue = <<>> /\ readers = 0
  /\ pc = "start" /\ why = "none" /\ eofs = 0 /\ exitSeen = 0
  /\ answer = "none" /\ fault = FALSE
  /\ quiet = 0 /\ spent = 0
  /\ cancel = FALSE /\ tracker = Tracker0 /\ observed = <<>>
  /\ result = NoResult

-----------------------------------------------------------------------------
(* SupervisionTracker: its fields after one more line.                      *)

\* Variant: the last fingerprint is not kept.
ObserveForgetful(tr, l) ==
  LET isCall == l \in Calls
      calls == tr.calls + (IF isCall THEN 1 ELSE 0)
      children == tr.children \cup ({l} \cap Spawns)
  IN [calls |-> calls, last |-> "none", repeats |-> 1, children |-> children,
      verdict |-> (isCall /\ calls > MaxCalls) \/ Cardinality(children) > MaxChildren
                    \/ l = "tokens"]

\* observe: each budget looks at the newest line only.  The first one exceeded
\* ends the look.
Observe(tr, l) ==
  LET isCall == l \in Calls
      calls == tr.calls + (IF isCall THEN 1 ELSE 0)
      repeats == IF ~isCall THEN tr.repeats
                 ELSE IF l = tr.last THEN tr.repeats + 1 ELSE 1
      overCalls == isCall /\ (calls > MaxCalls \/ repeats > MaxRepeats)
      children == IF overCalls THEN tr.children ELSE tr.children \cup ({l} \cap Spawns)
  IN [calls |-> calls, last |-> IF isCall THEN l ELSE tr.last, repeats |-> repeats,
      children |-> children,
      verdict |-> overCalls \/ Cardinality(children) > MaxChildren \/ l = "tokens"]

-----------------------------------------------------------------------------
(* What the adapters make of the end of a run.                              *)

Res(s, r) == [status |-> s, reason |-> r]

Stopped(w) ==
  CASE w = "cancelled" -> Res("cancelled", "cancelled")
    [] w = "idle" -> Res("timeout", "idle_timeout")
    [] w = "deadline" -> Res("timeout", "execution_timeout")
    [] w = "raised" -> Res("raised", "none")

Answered(ok) == IF ok THEN Res("success", "none") ELSE Res("error", "none")

\* How the loop ended, and whether a read-only task sees its workspace changed.
CodexResult(w, changed) ==
  IF w # "exit" THEN Stopped(w)
  ELSE Answered(code = 0 /\ answer = "own" /\ ~changed)

OpenCodeResult(w, changed) ==
  IF w # "exit" THEN Stopped(w)
  ELSE Answered(code = 0 /\ ~fault /\ answer = "own" /\ ~changed)

\* A note about the print timeout decides before exit code and answer do; an
\* envelope without an answer is a success with empty texts.
AntigravityResult(w, changed) ==
  IF w # "exit" THEN Stopped(w)
  ELSE IF fault THEN Res("timeout", "provider_print_timeout")
  ELSE Answered(code = 0 /\ ~changed)

\* run_turn raises CodexAppServerError for a failed turn, for one with an error
\* notification, and for one without a final message.
AppServerResult(w, changed) ==
  IF w \in {"cancelled", "idle", "deadline", "raised"} THEN Stopped(w)
  ELSE Answered(w = "done" /\ ~fault /\ answer # "none" /\ ~changed)

AdapterResult(w, changed) ==
  CASE adapter = "codex" -> CodexResult(w, changed)
    [] adapter = "opencode" -> OpenCodeResult(w, changed)
    [] adapter = "antigravity" -> AntigravityResult(w, changed)
    [] adapter = "app-server" -> AppServerResult(w, changed)

-----------------------------------------------------------------------------
(* The provider process; external but for how it is started.                *)

\* Unavailable, no workspace, unsupported model or effort; a session turn whose
\* event is already set is refused without a reason.
Refuse ==
  /\ pc = "start"
  /\ pc' = "ended"
  /\ \/ \E s \in {"unavailable", "error"} : result' = Res(s, "none")
     \/ AsServer /\ cancel /\ result' = Res("cancelled", "none")
  /\ UNCHANGED <<turnVars, childVars, pipeVars, phase, why, eofs, exitSeen, answer, fault,
                 clockVars, eventVars>>

\* Popen; the app-server client writes its first request at once.  Its reader of
\* stderr hands nothing over.
Launch ==
  /\ pc = "start" /\ ~(AsServer /\ cancel)
  /\ child' = "running" /\ pc' = "check"
  /\ readers' = IF AsServer THEN 1 ELSE 2
  /\ asked' = AsServer
  /\ UNCHANGED <<turnVars, code, helpers, shut, stopVars, pipe, queue, phase, why, eofs, exitSeen,
                 answer, fault, clockVars, eventVars, result>>

LaunchFails ==
  /\ pc = "start" /\ ~(AsServer /\ cancel)
  /\ pc' = "ended" /\ why' = "raised" /\ result' = Stopped("raised")
  /\ UNCHANGED <<turnVars, childVars, pipeVars, phase, eofs, exitSeen, answer, fault,
                 clockVars, eventVars>>

\* What was sent SIGKILL does nothing any more but die.
Active == child = "running" /\ "child" \notin killed
\* What it says once the loop has stopped is taken by nobody.
Heard == Active /\ pc \notin Over

\* What the reader of a server does in between shows nowhere: its lines are in
\* the queue at once.
Says(m) ==
  /\ Heard /\ ~shut
  /\ IF AsServer THEN Len(queue) < MaxUnread /\ queue' = Append(queue, m) /\ UNCHANGED pipe
                 ELSE Len(pipe) < MaxUnread /\ pipe' = Append(pipe, m) /\ UNCHANGED queue
  /\ UNCHANGED <<turnVars, code, child, helpers, shut, stopVars, readers, loopVars,
                 clockVars, eventVars, result>>

\* A line of a turn in progress.  A server may also speak of another turn of
\* the thread, and of errors it will get over.
Speaks(m) ==
  /\ m \in Lines \cup {"answer", "fault"} \cup (IF AsServer THEN {"other", "junk"} ELSE {})
  /\ m = "fault" => adapter # "codex"
  /\ Says(m) /\ UNCHANGED asked

Respond(m) ==
  /\ AsServer /\ asked /\ m \in {"ok", "bad"}
  /\ Says(m) /\ asked' = FALSE

\* It ends the turn it was asked for, not always after it answered turn/start.
TurnOver(m) ==
  /\ AsServer /\ phase \in {"turn", "listen"} /\ m \in {"done", "failed"}
  /\ Says(m) /\ UNCHANGED asked

ChildStep(w) ==
  /\ w
  /\ UNCHANGED <<turnVars, stopVars, asked, pipeVars, loopVars, clockVars, eventVars,
                 result>>

\* By itself, at a signal or killed.  Nobody asks for the exit code of a server,
\* nor of a command line that is being stopped.
Exits == ChildStep(/\ child = "running" /\ child' = "exited"
                   /\ code' \in (IF AsServer \/ pc \in Over THEN {0} ELSE {0, 1})
                   /\ UNCHANGED <<helpers, shut>>)
Forks == ChildStep(Active /\ ~helpers /\ helpers' = TRUE /\ UNCHANGED <<child, code, shut>>)
Shuts == ChildStep(Heard /\ ~shut /\ shut' = TRUE /\ UNCHANGED <<child, code, helpers>>)
HelpersEnd == ChildStep(helpers /\ helpers' = FALSE /\ UNCHANGED <<child, code, shut>>)

-----------------------------------------------------------------------------
(* The readers: read_pipe, _read_stdout.                                    *)

AtEof == pipe = <<>> /\ ~helpers /\ (shut \/ child = "exited")

Read ==
  \/ /\ readers > 0 /\ pc \notin Over /\ pipe # <<>> /\ Len(queue) < MaxUnread
     /\ queue' = Append(queue, Head(pipe)) /\ pipe' = Tail(pipe)
     /\ UNCHANGED <<turnVars, childVars, readers, loopVars, clockVars, eventVars, result>>
  \/ /\ readers > 0 /\ pc \notin Over /\ AtEof
     /\ queue' = Append(queue, "eof") /\ readers' = readers - 1
     /\ UNCHANGED <<turnVars, childVars, pipe, loopVars, clockVars, eventVars, result>>

-----------------------------------------------------------------------------
(* The loop: one turn of it is a check and a wait for the queue.            *)

\* What the checks find, in their order; "none" when the loop goes on.
Due ==
  IF cancel THEN "cancelled"
  ELSE IF quiet >= IdleLimit THEN "idle"
  ELSE IF spent >= TimeLimit THEN "deadline"
  ELSE "none"

\* Both transports stop the child before the adapter sees the exception.
StopFor(w) == pc' = "stopping" /\ why' = w

\* Variant: cancel event and deadline are looked at only when the queue is empty.
CheckWhenQuiet ==
  /\ pc = "check" /\ eofs < 2
  /\ IF Due # "none" /\ queue = <<>> THEN StopFor(Due) ELSE pc' = "get" /\ UNCHANGED why
  /\ UNCHANGED <<turnVars, childVars, pipeVars, phase, eofs, exitSeen, answer, fault,
                 clockVars, eventVars, result>>

Check ==
  /\ pc = "check" /\ eofs < 2
  /\ IF Due # "none" THEN StopFor(Due) ELSE pc' = "get" /\ UNCHANGED why
  /\ UNCHANGED <<turnVars, childVars, pipeVars, phase, eofs, exitSeen, answer, fault,
                 clockVars, eventVars, result>>

\* Variant: once both pipes ended the process is waited for without checks.
WaitForExit ==
  /\ pc = "wait" \/ (pc = "check" /\ eofs = 2)
  /\ IF child = "exited" THEN StopFor("exit") ELSE pc' = "wait" /\ UNCHANGED why
  /\ UNCHANGED <<turnVars, childVars, pipeVars, phase, eofs, exitSeen, answer, fault,
                 clockVars, eventVars, result>>

\* Both pipes ended: wait for the process, under the same checks.
Wait ==
  /\ pc = "wait" \/ (pc = "check" /\ eofs = 2)
  /\ IF child = "exited" THEN StopFor("exit")
     ELSE IF Due # "none" THEN StopFor(Due)
     ELSE pc' = "wait" /\ UNCHANGED why
  /\ UNCHANGED <<turnVars, childVars, pipeVars, phase, eofs, exitSeen, answer, fault,
                 clockVars, eventVars, result>>

\* Variant: an exit seen with an empty queue ends the loop at once.
GetNothingNoGrace ==
  /\ pc = "get" /\ queue = <<>>
  /\ IF child = "exited" /\ ~AsServer
     THEN StopFor("exit") ELSE pc' = "check" /\ UNCHANGED why
  /\ UNCHANGED <<turnVars, childVars, pipeVars, phase, eofs, exitSeen, answer, fault,
                 clockVars, eventVars, result>>

\* Nothing came; a process that exited some time ago may have left a descendant
\* that holds a pipe open.
GetNothing ==
  /\ pc = "get" /\ queue = <<>>
  /\ exitSeen' = IF child = "exited" /\ ~AsServer /\ exitSeen = 0 THEN 1 ELSE exitSeen
  /\ IF child = "exited" /\ exitSeen = 2 /\ ~AsServer
     THEN StopFor("exit") ELSE pc' = "check" /\ UNCHANGED why
  /\ UNCHANGED <<turnVars, childVars, pipeVars, phase, eofs, answer, fault, clockVars,
                 eventVars, result>>

GetEof ==
  /\ pc = "get" /\ queue # <<>> /\ Head(queue) = "eof"
  /\ queue' = Tail(queue)
  /\ IF AsServer THEN StopFor("error") /\ UNCHANGED eofs
                 ELSE pc' = "check" /\ eofs' = eofs + 1 /\ UNCHANGED why
  /\ UNCHANGED <<turnVars, childVars, pipe, readers, phase, exitSeen, answer, fault,
                 clockVars, eventVars, result>>

Take(m) ==
  /\ pc = "get" /\ queue # <<>> /\ Head(queue) = m
  /\ queue' = Tail(queue) /\ quiet' = 0
  /\ UNCHANGED <<turnVars, child, code, helpers, shut, stopVars, pipe, readers, eofs,
                 exitSeen, spent, result>>

\* Progress goes through the callback before the loop goes on.
GetProgress(m) ==
  /\ m \in ProgressLines /\ Take(m)
  /\ pc' = "check"
  /\ IF m = "text" THEN UNCHANGED eventVars
     ELSE /\ tracker' = Observe(tracker, m) /\ observed' = Append(observed, m)
          /\ cancel' = (cancel \/ Observe(tracker, m).verdict)
  /\ UNCHANGED <<asked, phase, why, answer, fault>>

\* A store error before the tracker sees the line: the callback's exception is
\* dropped, and so is the observation.
GetUnobserved(m) ==
  /\ m \in ProgressLines \ {"text"} /\ Take(m)
  /\ pc' = "check"
  /\ UNCHANGED <<asked, phase, why, answer, fault, eventVars>>

\* Variant: a final message of any turn of the thread counts.
GetAnyMessage(m) ==
  /\ m \in {"answer", "other", "fault"} /\ Take(m)
  /\ pc' = "check"
  /\ answer' = CASE m = "answer" -> "own" [] m = "other" -> "other" [] OTHER -> answer
  /\ fault' = (fault \/ m = "fault")
  /\ UNCHANGED <<asked, phase, why, eventVars>>

\* A final message or an error.  What the server says before its answer to
\* turn/start was read is noted as an event and not acted upon, and so are the
\* messages of other turns.
GetMessage(m) ==
  /\ m \in {"answer", "other", "fault"} /\ Take(m)
  /\ pc' = "check"
  /\ answer' = IF m = "answer" /\ phase = "listen" THEN "own" ELSE answer
  /\ fault' = (fault \/ (m = "fault" /\ phase = "listen"))
  /\ UNCHANGED <<asked, phase, why, eventVars>>

\* The answer to a request: the next one is written, which raises when nobody
\* can read it any more.
NextPhase == [initialize |-> "thread", thread |-> "turn", turn |-> "listen"]
GetResponse ==
  /\ phase # "listen" /\ Take("ok")
  /\ LET broken == phase # "turn" /\ child = "exited" /\ ~helpers IN
     IF broken THEN StopFor("raised") /\ UNCHANGED <<asked, phase>>
     ELSE /\ phase' = NextPhase[phase] /\ asked' = (phase # "turn")
          /\ pc' = "check" /\ UNCHANGED why
  /\ UNCHANGED <<answer, fault, eventVars>>

\* An error response, or a line that is not JSON.
GetBad(m) ==
  /\ m \in {"bad", "junk"} /\ Take(m)
  /\ StopFor("error")
  /\ UNCHANGED <<asked, phase, answer, fault, eventVars>>

GetTurnOver(m) ==
  /\ m \in {"done", "failed"} /\ Take(m)
  /\ IF phase = "listen" THEN StopFor(m) ELSE pc' = "check" /\ UNCHANGED why
  /\ UNCHANGED <<asked, phase, answer, fault, eventVars>>

\* What the request to leave kills: on Windows terminate() and taskkill /F do not
\* ask.  taskkill takes the tree along, and may fail; it is not run when the
\* process has exited, whatever is left of its tree.
Forced(sys) ==
  IF sys = "posix" \/ child = "exited" THEN {{}}
  ELSE IF AsServer THEN {{"child"}} ELSE {{}, Group}

\* _terminate and close() ask the process to leave, with SIGTERM, and wait for
\* it.  A command line that ended by itself is not asked, nor a server that has.
Terminate ==
  /\ pc = "stopping"
  /\ IF child = "exited" /\ (AsServer \/ why = "exit")
     THEN pc' = "report" /\ UNCHANGED <<system, killed>>
     ELSE pc' = "term" /\ system' \in Systems /\ killed' \in Forced(system')
  /\ UNCHANGED <<turnVars, child, code, helpers, shut, asked, pipeVars,
                 phase, why, eofs, exitSeen, answer, fault, clockVars, eventVars, result>>

\* It did not leave in time: SIGKILL for the process group, or for a server, and
\* on Windows, for the process alone.
WholeGroup == Posix /\ ~AsServer
Kill ==
  /\ pc = "term" /\ child = "running"
  /\ pc' = "kill" /\ killed' = killed \cup (IF WholeGroup THEN Group ELSE {"child"})
  /\ UNCHANGED <<turnVars, child, code, helpers, shut, asked, system, pipeVars,
                 phase, why, eofs, exitSeen, answer, fault, clockVars, eventVars, result>>

\* It left, or the time after SIGKILL is over as well.  What is left of the group
\* gets its SIGKILL now; close() of a server that is still there raises
\* TimeoutExpired, whatever became of the turn.
WaitOver == (pc = "term" /\ child = "exited") \/ pc = "kill"

\* Variant: what is left of the group when the process has gone is left alone.
SweepNothing ==
  /\ WaitOver /\ pc' = "report"
  /\ why' = IF AsServer /\ child = "running" THEN "deadline" ELSE why
  /\ UNCHANGED <<turnVars, childVars, pipeVars, phase, eofs, exitSeen, answer, fault,
                 clockVars, eventVars, result>>

Sweep ==
  /\ WaitOver /\ pc' = "report"
  /\ killed' = IF WholeGroup THEN Group ELSE killed
  /\ why' = IF AsServer /\ child = "running" THEN "deadline" ELSE why
  /\ UNCHANGED <<turnVars, child, code, helpers, shut, asked, system, pipeVars,
                 phase, eofs, exitSeen, answer, fault, clockVars, eventVars, result>>

\* The adapter makes its result.  It sees the workspace of a read-only task
\* changed if git could tell it before the turn and can tell it now.
Report ==
  /\ pc = "report" /\ pc' = "ended"
  /\ readonly' \in BOOLEAN
  /\ IF readonly' /\ why \in {"exit", "done"}
     THEN dirty' \in BOOLEAN /\ compared' \in BOOLEAN
     ELSE UNCHANGED <<dirty, compared>>
  /\ result' = AdapterResult(why, dirty' /\ compared')
  /\ UNCHANGED <<adapter, childVars, pipeVars, phase, why, eofs, exitSeen, answer, fault,
                 clockVars, eventVars>>

Runner ==
  \/ Check \/ Wait \/ GetNothing \/ GetEof
  \/ \E m \in ProgressLines : GetProgress(m) \/ GetUnobserved(m)
  \/ \E m \in {"answer", "other", "fault"} : GetMessage(m)
  \/ GetResponse
  \/ \E m \in {"bad", "junk"} : GetBad(m)
  \/ \E m \in {"done", "failed"} : GetTurnOver(m)
  \/ Terminate \/ Kill \/ Sweep \/ Report

-----------------------------------------------------------------------------
(* The owner of the event, and time.                                        *)

Cancel ==
  /\ ~cancel /\ pc \notin Over /\ cancel' = TRUE
  /\ UNCHANGED <<turnVars, childVars, pipeVars, loopVars, clockVars, tracker, observed, result>>

\* A progress callback may take its time, with lines waiting; a reader hands
\* over what there is within the time of grace.
ReaderIdle == readers = 0 \/ (~AtEof /\ (pipe = <<>> \/ Len(queue) >= MaxUnread))
Capped(n, limit) == IF n < limit THEN n + 1 ELSE n
Tick ==
  /\ \/ pc = "check"
     \/ pc \in {"get", "wait"} /\ queue = <<>> /\ ReaderIdle
  /\ quiet' = Capped(quiet, IdleLimit) /\ spent' = Capped(spent, TimeLimit)
  /\ exitSeen' = IF exitSeen = 1 /\ ReaderIdle THEN 2 ELSE exitSeen
  /\ UNCHANGED <<turnVars, childVars, pipeVars, phase, pc, why, eofs, answer, fault,
                 eventVars, result>>

ProviderStep ==
  \/ \E m \in Messages : Speaks(m) \/ Respond(m) \/ TurnOver(m)
  \/ Exits \/ Forks \/ Shuts \/ HelpersEnd

Next ==
  \/ Refuse \/ Launch \/ LaunchFails
  \/ ProviderStep \/ Read \/ Runner \/ Cancel \/ Tick

Spec == Init /\ [][Next]_vars

\* The threads of this process run, and the system ends what was sent SIGKILL.
\* Nothing else is asked of the provider, and nothing of time but where a
\* property says so.
Fairness ==
  /\ WF_vars(Refuse \/ Launch) /\ WF_vars(Read) /\ WF_vars(Runner)
  /\ WF_vars("child" \in killed /\ Exits) /\ WF_vars("helpers" \in killed /\ HelpersEnd)
LiveSpec == Spec /\ Fairness

-----------------------------------------------------------------------------
HasLine(q) == \E k \in 1..Len(q) : q[k] # "eof"

\* Whatever ignores SIGTERM or forks while it is asked to leave: in the end the
\* provider process of every turn is gone, and of a command line that was
\* cancelled or timed out, except on Windows, its whole process group
\* (_terminate, close).
Interrupted ==
  Ended /\ result.reason \in {"cancelled", "idle_timeout", "execution_timeout"}
StopKillsGroup ==
  Ended ~> [](child # "running" /\ (Interrupted /\ WholeGroup => ~helpers))

\* Nobody who lives on was spared SIGKILL, the safety half of it.
SurvivorsKilled ==
  Ended => /\ child = "running" => "child" \in killed
           /\ Interrupted /\ WholeGroup /\ helpers => "helpers" \in killed

\* A run that ended by itself has taken every line the process printed, however
\* late the readers handed it over and whoever still holds the pipe.
OutputComplete ==
  Ended /\ why = "exit" => pipe = <<>> /\ ~HasLine(queue)

\* No line is taken after the one that exceeded a budget, for the event is seen
\* before the next line: too many calls, too many of the same in a row (with
\* whatever lines in between), too many children, too many tokens.
CallsAt(s, ks) == {k \in ks : s[k] \in Calls}
WithinBudget(s) ==
  /\ Cardinality(CallsAt(s, 1..Len(s))) <= MaxCalls
  /\ \A j, k \in 1..Len(s) : (\A a, b \in CallsAt(s, j..k) : s[a] = s[b]) =>
       Cardinality(CallsAt(s, j..k)) <= MaxRepeats
  /\ Cardinality({s[k] : k \in 1..Len(s)} \cap Spawns) <= MaxChildren
  /\ \A k \in 1..Len(s) : s[k] # "tokens"
StopsAtBudget == Len(observed) > 0 => WithinBudget(Front(observed))

\* A success speaks with a message of this turn, even if other turns of the same
\* thread went on talking (antigravity alone does without a message); and if git
\* could tell the workspace of a read-only task before and after it, it tells the
\* same, whichever adapter ran it.
HonestSuccess ==
  result.status = "success" =>
    /\ adapter # "antigravity" => answer = "own"
    /\ readonly /\ compared => ~dirty

\* The event stops a turn at any time, without help from clock or provider.
CancelStops == cancel ~> Ended

\* As time passes every turn ends, also that of a provider that never stops
\* talking, never exits, or never answers.
TurnEnds == SF_vars(Tick) => <>Ended
=============================================================================
