----------------------------- MODULE TurnOutput -----------------------------
(***************************************************************************)
(* What the output of its workers makes of a task: the command line a turn *)
(* is started with, the lines its pump reads, the result, error, session   *)
(* and accounting they leave on the task, and the verdict at its end.      *)
(*                                                                         *)
(* One task of one agent with several turns.  TaskManager has the locks    *)
(* and the goroutines; here a turn is its claim, the reset block of        *)
(* runTurn, the launch and the final block, and the pumps read on beside   *)
(* it, also when their turn is over (pumpGrace).                           *)
(***************************************************************************)
EXTENDS AgentEvents, Filters, Integers

CONSTANTS
  Lines,        \* what an agent may print, by agent; the mock has its script
  MockPrompts,      \* the prompts the mock is given, of those it tells apart
  TemplateResumes,  \* whether an argument of the custom agent names {{session}}
  MaxCost,      \* m.maxCostUSD, 0 disables the budget
  Overrun,      \* what an agent may spend beyond the limit it was given
  Limit,        \* maxTranscriptLines
  ResultLines,  \* maxResultLines
  MaxTurns,     \* bound on the turns
  MaxLines,     \* bound on the lines of a stream that are read
  MaxRestarts   \* bound on restarts of the server

ASSUME OutputAssumption ==
  /\ MaxCost \in Nat /\ Overrun \in Nat /\ MaxLines \in Nat /\ MaxRestarts \in Nat
  /\ Limit \in Nat \ {0} /\ ResultLines \in Nat \ {0} /\ MaxTurns \in Nat \ {0}
  /\ TemplateResumes \in BOOLEAN
  /\ MockPrompts \subseteq {"plain", "sleep", "failtool"}

\* What an agent claims to have spent is no less than nothing, the message of a
\* line of Claude Code is a list of blocks, and the result of a final event of the
\* others is one of three.
ASSUME LinesAssumption ==
  /\ \A a \in Agents \ {"mock"} : \A l \in Lines[a], k \in 1..MaxTurns :
       /\ ParseLine(a, l, k).usage.cost \in Nat
       /\ ParseLine(a, l, k).finalError \in BOOLEAN
  /\ \A l \in Lines["claude"] : l.form = "json" => l.blocks \in Seq(Block)
  /\ \A l \in Lines["cursor"] \cup Lines["custom"] :
       l.form = "json" /\ l.type = "final" => l.result \in {"said", "empty", "absent"}

Turns == 1..MaxTurns

VARIABLES
  agent,       \* t.AgentName
  turn,        \* number of the turn in progress, or of the last one
  phase,       \* how far it is
  spec,        \* its RunSpec
  command,     \* the command line of each turn
  pump,        \* its stdout pump: "off" or "reading"
  reads,       \* how many lines the pumps of a turn have read
  exit,        \* what became of the worker: "none", "ok" or "bad"
  stop,        \* who stopped it: "nobody", "timeout" or "cancel"
  session,     \* t.sessionID
  modelUsed,   \* t.modelUsed # ""
  lines,       \* t.lines
  turnStart,   \* len(t.lines) when the turn began
  resultText,  \* t.resultText
  lastText,    \* t.lastText
  isError,     \* t.isError
  status,      \* t.status
  usage,       \* t.usage
  record,      \* what the store has of session, resultText and isError
  restarts,    \* how often the server was started again
  \* What the properties look back on.
  billed,      \* what the worker of a turn has reported to have spent
  spent,       \* what all of them have, under whatever server
  lateCost,    \* the part of it that was read after the end of its turn
  said,        \* the turn's own pump has read a text while it lasted
  ending,      \* the last final event that was read before the verdict, and of which turn
  late         \* the turns whose pump has read a line after their end

launch  == <<agent, turn, spec, command>>
process == <<exit, stop>>
task    == <<session, modelUsed, lines, resultText, lastText, isError, usage>>
bills   == <<billed, spent, lateCost>>
seen    == <<bills, said, ending, late>>
server  == <<record, restarts>>
vars == <<launch, phase, pump, reads, process, task, turnStart, status, server, seen>>

\* claimed, reset: on its way through runTurn; running: the worker lives;
\* exited: cmd.Wait returned; over: the final block is done; failed: the turn
\* ended through fail.
Phases == {"new", "claimed", "reset", "running", "exited", "over", "failed"}

Statuses == {"none", "running", "done", "failed", "canceled"}

NoEnding == [of |-> 0, is |-> "none"]

NoSpec == [plan |-> FALSE, session |-> NoSession, prompt |-> "plain"]
NoCommand == [plan |-> FALSE, resume |-> NoSession, budget |-> 0, endpoint |-> FALSE,
              prompt |-> "plain"]

Init ==
  /\ agent \in Agents
  /\ turn = 0 /\ phase = "new" /\ spec = NoSpec
  /\ command = [k \in Turns |-> NoCommand]
  /\ pump = [k \in Turns |-> "off"]
  /\ reads = [k \in Turns |-> 0]
  /\ exit = "none" /\ stop = "nobody"
  /\ session = NoSession /\ modelUsed = FALSE
  /\ lines = <<>> /\ turnStart = 0
  /\ resultText = <<>> /\ lastText = <<>> /\ isError = FALSE
  /\ status = "none" /\ usage = NoUsage
  /\ record = [session |-> NoSession, result |-> <<>>, isError |-> FALSE]
  /\ restarts = 0
  /\ billed = [k \in Turns |-> 0]
  /\ spent = 0 /\ lateCost = 0
  /\ said = FALSE /\ ending = NoEnding /\ late = {}

-----------------------------------------------------------------------------
(* A turn is asked for.                                                    *)

\* Only the mock looks at what it is asked.
Prompts == IF agent = "mock" THEN MockPrompts ELSE {"plain"}

\* A new task; agent_plan_task fails closed for an agent that cannot plan.
StartTask(plan, prompt) ==
  /\ phase = "new"
  /\ plan => CanPlan(agent)
  /\ turn' = 1
  /\ spec' = [plan |-> plan, session |-> NoSession, prompt |-> prompt]
  /\ status' = "running"
  /\ phase' = "claimed"
  /\ UNCHANGED <<agent, command, pump, reads, process, task, turnStart, server, seen>>

\* A follow-up of a task that has a session to resume, never plan-only.
Followup(prompt) ==
  /\ phase \in {"over", "failed"}
  /\ turn < MaxTurns
  /\ session # NoSession
  /\ turn' = turn + 1
  /\ spec' = [plan |-> FALSE, session |-> session, prompt |-> prompt]
  /\ status' = "running"
  /\ phase' = "claimed"
  /\ UNCHANGED <<agent, command, pump, reads, process, task, turnStart, server, seen>>

-----------------------------------------------------------------------------
(* runTurn, up to the launch.                                              *)

\* Mutant: the reset block forgets the result.
ResetKeepsResult ==
  /\ phase = "claimed"
  /\ phase' = "reset"
  /\ lastText' = <<>> /\ isError' = FALSE
  /\ exit' = "none" /\ stop' = "nobody"
  /\ turnStart' = Len(lines)
  /\ said' = FALSE /\ ending' = NoEnding
  /\ UNCHANGED <<launch, pump, reads, session, modelUsed, lines, usage, resultText, status,
                 server, bills, late>>

\* Mutant: it forgets the error.
ResetKeepsError ==
  /\ phase = "claimed"
  /\ phase' = "reset"
  /\ resultText' = <<>> /\ lastText' = <<>>
  /\ exit' = "none" /\ stop' = "nobody"
  /\ turnStart' = Len(lines)
  /\ said' = FALSE /\ ending' = NoEnding
  /\ UNCHANGED <<launch, pump, reads, session, modelUsed, lines, usage, isError, status,
                 server, bills, late>>

\* The reset block: what an earlier turn left is wiped, its lines stay.
Reset ==
  /\ phase = "claimed"
  /\ phase' = "reset"
  /\ resultText' = <<>> /\ lastText' = <<>> /\ isError' = FALSE
  /\ exit' = "none" /\ stop' = "nobody"
  /\ turnStart' = Len(lines)
  /\ said' = FALSE /\ ending' = NoEnding
  /\ UNCHANGED <<launch, pump, reads, session, modelUsed, lines, usage, status, server,
                 bills, late>>

\* Mutant: every turn is handed the configured total.
BudgetForTotal == [left |-> MaxCost, ok |-> MaxCost = 0 \/ usage.cost < MaxCost]

\* budgetFor: what is left of the budget, and whether the turn may run at all.
BudgetFor ==
  IF MaxCost = 0 THEN [left |-> 0, ok |-> TRUE]
  ELSE IF usage.cost < MaxCost THEN [left |-> MaxCost - usage.cost, ok |-> TRUE]
  ELSE [left |-> 0, ok |-> FALSE]

\* Command of each adapter, as the flags that matter later.

\* Claude Code alone takes a limit on its spending and an approval endpoint, and
\* no endpoint when it only plans.
ClaudeCommand(budget, endpoint) ==
  [plan |-> spec.plan, resume |-> spec.session, budget |-> budget,
   endpoint |-> ~spec.plan /\ endpoint, prompt |-> spec.prompt]

CursorCommand == [NoCommand EXCEPT !.resume = spec.session, !.prompt = spec.prompt]

KimiCommand == [NoCommand EXCEPT !.resume = spec.session, !.prompt = spec.prompt]

\* An argument goes when what it names is empty (expandArg).
CustomCommand ==
  [NoCommand EXCEPT !.resume = IF TemplateResumes THEN spec.session ELSE NoSession,
                    !.prompt = spec.prompt]

\* The mock starts afresh each time.
MockCommand == [NoCommand EXCEPT !.plan = spec.plan, !.prompt = spec.prompt]

Command(budget, endpoint) ==
  CASE agent = "claude" -> ClaudeCommand(budget, endpoint)
    [] agent = "cursor" -> CursorCommand
    [] agent = "kimi"   -> KimiCommand
    [] agent = "custom" -> CustomCommand
    [] agent = "mock"   -> MockCommand

\* The marker of a transcript that has reached its limit is nobody's line.
Marker == [of |-> 0, blank |-> FALSE]

\* appendLine
Appended(line) ==
  IF Len(lines) > Limit THEN lines
  ELSE IF Len(lines) = Limit THEN Append(lines, Marker)
  ELSE Append(lines, line)

\* fail: the budget is spent, or the command cannot be built or started.
Fail ==
  /\ phase = "reset"
  /\ phase' = "failed"
  /\ status' = "failed"
  /\ lines' = Appended([of |-> turn, blank |-> FALSE])
  /\ UNCHANGED <<launch, pump, reads, process, turnStart, session, modelUsed, resultText,
                 lastText, isError, usage, server, seen>>

\* The worker starts with what is left, and its output is read.
Launch(endpoint) ==
  /\ phase = "reset"
  /\ BudgetFor.ok /\ stop = "nobody"
  /\ command' = [command EXCEPT ![turn] = Command(BudgetFor.left, endpoint)]
  /\ pump' = [pump EXCEPT ![turn] = "reading"]
  /\ phase' = "running"
  /\ UNCHANGED <<agent, turn, spec, reads, process, task, turnStart, status, server, seen>>

-----------------------------------------------------------------------------
(* What the worker prints.                                                 *)

MockLine(type, blocks) ==
  [form |-> "json", type |-> type, blocks |-> blocks,
   session |-> IF type \in {"system", "result"} THEN "mock-session-1" ELSE NoSession,
   model |-> FALSE, isError |-> FALSE, said |-> type = "result", reason |-> "none",
   cost |-> 0, turns |-> 0]

MockBlock(is, has, failed) == <<[is |-> is, said |-> has, isError |-> failed]>>

\* RunMock: what the mock prints for a command line, as types and blocks.
MockSteps(c) ==
  LET step == <<"assistant", MockBlock("text", TRUE, FALSE)>>
      use  == <<"assistant", MockBlock("tool_use", TRUE, FALSE)>>
      ran(ok) == <<"user", MockBlock("tool_result", ok, ~ok)>>
  IN  << <<"system", <<>> >> >>
      \o (IF c.prompt = "sleep" THEN <<step, step, step>> ELSE <<>>)
      \o (CASE c.prompt = "failtool" -> <<use, ran(FALSE)>>
            [] c.prompt # "failtool" /\ c.plan -> <<step>>
            [] OTHER -> <<use, ran(TRUE), step>>)
      \o << <<"result", <<>> >> >>

MockScript(c) == [i \in DOMAIN MockSteps(c) |-> MockLine(MockSteps(c)[i][1], MockSteps(c)[i][2])]

\* What the worker of turn k may print next.  Nobody but the agent enforces the
\* limit on its spending, and it does so after the call that went over it.
NextLines(k) ==
  IF agent = "mock"
  THEN {MockScript(command[k])[i] :
          i \in {reads[k] + 1} \cap DOMAIN MockScript(command[k])}
  ELSE {l \in Lines[agent] :
          /\ reads[k] < MaxLines
          /\ command[k].budget > 0 =>
               billed[k] + ParseLine(agent, l, k).usage.cost <= command[k].budget + Overrun}

\* The turn in progress has forgotten the last one and has no verdict yet.
Undecided == {"reset", "running", "exited"}

\* A line is in time while its own turn lasts.
InTime(k) == k = turn /\ phase \in {"running", "exited"}

-----------------------------------------------------------------------------
(* The pumps of turn k.                                                    *)

\* One line of stdout: it is appended, and its event is folded into the task,
\* whatever turn that is in.  Only what the event has replaces what was there.
ReadLine(k) ==
  /\ pump[k] = "reading"
  /\ \E l \in NextLines(k) :
       LET ev == ParseLine(agent, l, k)
       IN  /\ lines' = Appended([of |-> k, blank |-> l.form = "blank"])
           /\ session' = IF ev.session # NoSession THEN ev.session ELSE session
           /\ lastText' = IF ev.text # <<>> THEN ev.text ELSE lastText
           /\ modelUsed' = (modelUsed \/ ev.model)
           /\ usage' = Plus(usage, ev.usage)
           /\ isError' = IF ev.final THEN ev.finalError ELSE isError
           /\ resultText' = IF ev.final /\ ev.finalText # <<>> THEN ev.finalText ELSE resultText
           /\ billed' = [billed EXCEPT ![k] = @ + ev.usage.cost]
           /\ spent' = spent + ev.usage.cost
           /\ lateCost' = IF InTime(k) THEN lateCost ELSE lateCost + ev.usage.cost
           /\ said' = (said \/ (InTime(k) /\ (ev.text # <<>> \/ ev.finalText # <<>>)))
           /\ ending' = IF ev.final /\ phase \in Undecided
                        THEN [of |-> k, is |-> IF ev.finalError THEN "error" ELSE "ok"]
                        ELSE ending
  /\ reads' = [reads EXCEPT ![k] = @ + 1]
  /\ late' = IF InTime(k) THEN late ELSE late \cup {k}
  /\ UNCHANGED <<launch, phase, pump, process, turnStart, status, server>>

\* One line of stderr: it is shown and nothing else.
ReadStderr(k) ==
  /\ pump[k] = "reading"
  /\ agent # "mock" /\ reads[k] < MaxLines
  /\ lines' = Appended([of |-> k, blank |-> FALSE])
  /\ reads' = [reads EXCEPT ![k] = @ + 1]
  /\ late' = IF InTime(k) THEN late ELSE late \cup {k}
  /\ UNCHANGED <<launch, phase, pump, process, turnStart, session, modelUsed, resultText,
                 lastText, isError, usage, status, server, bills, said, ending>>

\* Both streams end.
PumpEnds(k) ==
  /\ pump[k] = "reading"
  /\ pump' = [pump EXCEPT ![k] = "off"]
  /\ UNCHANGED <<launch, phase, reads, process, task, turnStart, status, server, seen>>

-----------------------------------------------------------------------------
(* The end of a turn.                                                      *)

\* The timer or a cancel; a timeout outweighs a cancel.
Stop(who) ==
  /\ phase \in (IF who = "timeout" THEN {"running", "exited"} ELSE {"reset", "running", "exited"})
  /\ stop' = IF stop = "timeout" THEN stop ELSE who
  /\ UNCHANGED <<launch, phase, pump, reads, exit, task, turnStart, status, server, seen>>

\* cmd.Wait returns, by itself or because the process was killed.
WorkerExits(how) ==
  /\ phase = "running"
  /\ phase' = "exited"
  /\ exit' = how
  /\ UNCHANGED <<launch, pump, reads, stop, task, turnStart, status, server, seen>>

Verdict ==
  CASE stop = "timeout" -> "failed"
    [] stop = "cancel"  -> "canceled"
    [] OTHER -> IF exit = "ok" /\ ~isError THEN "done" ELSE "failed"

\* The lines that leave something when white space is trimmed.
Readable == [of : 0..MaxTurns, blank : {FALSE}]

\* tailLines(t.lines[turnStart:]): what is readable in the last ResultLines.
TailLines ==
  LET own  == SubSeq(lines, turnStart + 1, Len(lines))
      tail == SubSeq(own, Len(own) - ResultLines + 1, Len(own))
      readable == Keep(IF Len(own) > ResultLines THEN tail ELSE own, Readable)
  IN  [i \in DOMAIN readable |-> [from |-> "line", of |-> readable[i].of]]

\* Mutant: only an agent without final events falls back to anything.
AnswerOfOutputOnly ==
  IF resultText = <<>> /\ UseOutputAsResult(agent) THEN TailLines ELSE resultText

\* The result, or something useful in place of it.
Answer ==
  IF resultText # <<>> THEN resultText
  ELSE IF UseOutputAsResult(agent) THEN TailLines
  ELSE lastText

\* The final block, when the pumps are done or pumpGrace has passed, and persist.
Settle ==
  /\ phase = "exited"
  /\ phase' = "over"
  /\ status' = Verdict
  /\ resultText' = Answer
  /\ record' = [session |-> session, result |-> Answer, isError |-> isError]
  /\ UNCHANGED <<launch, pump, reads, process, turnStart, session, modelUsed, lines, lastText,
                 isError, usage, restarts, seen>>

\* taskFromSnapshot: a server started later has the record and the transcript,
\* without the marker, and none of the accounting.  A turn that ended through
\* fail is not in the record; TaskManager and Instances follow that case.
Restart ==
  /\ phase = "over"
  /\ restarts < MaxRestarts
  /\ restarts' = restarts + 1
  /\ pump' = [k \in Turns |-> "off"]
  /\ session' = record.session /\ resultText' = record.result /\ isError' = record.isError
  /\ modelUsed' = FALSE /\ lastText' = <<>> /\ usage' = NoUsage
  /\ lines' = SubSeq(lines, 1, IF Len(lines) > Limit THEN Limit ELSE Len(lines))
  /\ UNCHANGED <<launch, phase, reads, process, turnStart, status, record, seen>>

Next ==
  \/ \E plan \in BOOLEAN, prompt \in Prompts : StartTask(plan, prompt)
  \/ \E prompt \in Prompts : Followup(prompt)
  \/ Reset
  \/ Fail
  \/ \E endpoint \in BOOLEAN : Launch(endpoint)
  \/ \E k \in Turns : ReadLine(k)
  \/ \E k \in Turns : ReadStderr(k)
  \/ \E k \in Turns : PumpEnds(k)
  \/ \E who \in {"timeout", "cancel"} : Stop(who)
  \/ \E how \in {"ok", "bad"} : WorkerExits(how)
  \/ Settle
  \/ Restart

Spec == Init /\ [][Next]_vars

-----------------------------------------------------------------------------
(* Properties.                                                             *)

TypeOK ==
  /\ agent \in Agents
  /\ turn \in 0..MaxTurns
  /\ phase \in Phases
  /\ exit \in {"none", "ok", "bad"}
  /\ stop \in {"nobody", "timeout", "cancel"}
  /\ status \in Statuses
  /\ pump \in [Turns -> {"off", "reading"}]
  /\ reads \in [Turns -> Nat]
  /\ billed \in [Turns -> Nat]
  /\ isError \in BOOLEAN /\ modelUsed \in BOOLEAN /\ said \in BOOLEAN
  /\ spent \in Nat /\ lateCost \in Nat
  /\ ending \in [of : 0..MaxTurns, is : {"none", "ok", "error"}]
  /\ late \subseteq Turns
  /\ restarts \in 0..MaxRestarts
  /\ DOMAIN command = Turns

\* A settled turn answers with words of its own worker, or of a worker whose
\* pump was late: never with what an earlier turn left on the task, nor with an
\* earlier turn's lines (runTurn's reset block and turnStart).
AnswerIsOfThisTurn ==
  phase = "over" =>
    \A i \in DOMAIN resultText : resultText[i].of \in {turn, 0} \cup late

\* A turn that let anything readable be seen while it lasted has an answer (the
\* fallback of runTurn: "so the delegating model always gets an answer, not an
\* empty string").  An agent whose output is its result has one if the transcript
\* was not yet cut off when the turn began, and the turn is no longer than what
\* is kept; the marker of a transcript that is cut off meanwhile is an answer too.
SaidIsAnswered ==
  phase = "over" /\ said
  /\ (UseOutputAsResult(agent) => turnStart <= Limit /\ Len(lines) - turnStart <= ResultLines)
    => resultText # <<>>

\* "done" is what a turn is called exactly when its worker exited well, nobody
\* stopped it, and the last final event read since it began was no error: an error
\* of an earlier turn is not carried over, a later good ending takes one back, and a
\* stop outweighs a good ending (runTurn's switch).  That event is the turn's own,
\* or comes in the last lines of an earlier turn, read late: these decide as well.
DoneIsTrue ==
  phase = "over" =>
    /\ status = "done" <=> exit = "ok" /\ stop = "nobody" /\ ending.is # "error"
    /\ ending.of \in {0, turn} \cup late

\* All turns of a task report no more than the budget and what the agent spends
\* past the limit it is given, once: a follow-up is handed what is left, never the
\* total (budgetFor).  Two things come on top: every start of the server, which
\* forgets the usage, brings that sum anew; and what is read after its turn has
\* ended was not there to be counted when the next one was launched.
WithinBudget ==
  agent = "claude" /\ MaxCost > 0 =>
    /\ usage.cost <= MaxCost + Overrun + lateCost
    /\ spent <= (restarts + 1) * (MaxCost + Overrun) + lateCost
=============================================================================
