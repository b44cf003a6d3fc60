-------------------------- MODULE TurnOutputProofs --------------------------
(***************************************************************************)
(* Theorems about what a task is charged and what its turns are called,    *)
(* for any lines the agents may print, any budget and any number of turns. *)
(*                                                                         *)
(* The invariant follows the money: while a turn lasts, what was charged   *)
(* before it and the limit its worker was handed make no more than the     *)
(* budget, both for this server and, with one budget for every earlier     *)
(* one, for all (Money), and nothing is charged to a turn before it is     *)
(* launched (Unread).  And it follows the error: while a turn lasts, the   *)
(* task's isError is the one of the last final event (Judged).             *)
(***************************************************************************)
EXTENDS TurnOutput, DataLemmas, SequenceTheorems, TLAPS

\* The turn in progress is one of the turns there may be.
Active == IF phase = "new" THEN turn = 0 ELSE turn \in Turns

\* Nothing has come from a worker that has not been launched.
Unread ==
  \A k \in Turns : k > turn \/ (k = turn /\ phase \in {"claimed", "reset"}) =>
    pump[k] = "off" /\ billed[k] = 0

\* What one server may let the turns of a task spend in time.
Cap == MaxCost + Overrun

\* What all turns reported in time, less one Cap for every earlier server.
Counted == spent - lateCost - restarts * Cap

\* What was charged before the turn, and the limit it was given, is within the
\* budget, by the task's own usage as well as by what counts of all that was spent.
Money ==
  /\ usage.cost \in Nat
  /\ agent = "claude" /\ MaxCost > 0 =>
       /\ usage.cost <= Cap + lateCost
       /\ Counted <= Cap /\ Counted <= usage.cost
       /\ phase \in {"running", "exited"} =>
            /\ command[turn].budget \in Nat \ {0}
            /\ usage.cost + command[turn].budget <= MaxCost + billed[turn] + lateCost
            /\ Counted + command[turn].budget <= MaxCost + billed[turn]
            /\ billed[turn] <= command[turn].budget + Overrun

\* While a turn lasts the task's error is the last final event's, and then the
\* verdict; the event is the turn's own or came late.
Judged ==
  /\ phase \in Undecided => (isError <=> ending.is = "error")
  /\ phase \in Undecided \cup {"over"} => ending.of \in {0, turn} \cup late
  /\ phase = "over" => (status = "done" <=> exit = "ok" /\ stop = "nobody" /\ ending.is # "error")

Inv == TypeOK /\ record.isError \in BOOLEAN /\ Active /\ Unread /\ Money /\ Judged

-----------------------------------------------------------------------------

\* A line of the mock parses to an event without costs.
LEMMA MockLineIsFree ==
  ASSUME NEW type, NEW blocks, NEW k
  PROVE  /\ ParseLine("mock", MockLine(type, blocks), k).usage.cost = 0
         /\ ParseLine("mock", MockLine(type, blocks), k).finalError \in BOOLEAN
<1> DEFINE l == MockLine(type, blocks)
<1>1. l.form = "json" /\ l.cost = 0 /\ l.isError = FALSE
  BY DEF MockLine
<1>2. ParseLine("mock", l, k) = ClaudeParse(l, k)
  BY Zenon DEF ParseLine
<1> HIDE DEF l
<1>3. ClaudeParse(l, k).usage.cost = 0 /\ ClaudeParse(l, k).finalError \in BOOLEAN
  BY <1>1 DEF ClaudeParse, NoUsage
<1> QED BY <1>2, <1>3 DEF l

\* So does every line the mock prints.
LEMMA MockScriptIsFree ==
  ASSUME NEW c, NEW i \in DOMAIN MockScript(c), NEW k
  PROVE  /\ ParseLine("mock", MockScript(c)[i], k).usage.cost = 0
         /\ ParseLine("mock", MockScript(c)[i], k).finalError \in BOOLEAN
<1> DEFINE s == MockSteps(c)
<1>1. MockScript(c)[i] = MockLine(s[i][1], s[i][2])
  BY DEF MockScript
<1> HIDE DEF s
<1>2. /\ ParseLine("mock", MockLine(s[i][1], s[i][2]), k).usage.cost = 0
      /\ ParseLine("mock", MockLine(s[i][1], s[i][2]), k).finalError \in BOOLEAN
  BY MockLineIsFree
<1> QED BY <1>1, <1>2, Zenon

\* What any worker prints costs a natural number, and says whether it failed.
LEMMA NextLineIsTyped ==
  ASSUME Inv, NEW k \in Turns, NEW l \in NextLines(k)
  PROVE  /\ ParseLine(agent, l, k).usage.cost \in Nat
         /\ ParseLine(agent, l, k).finalError \in BOOLEAN
<1>1. CASE agent = "mock"
  <2>1. PICK i \in DOMAIN MockScript(command[k]) : l = MockScript(command[k])[i]
    BY <1>1 DEF NextLines
  <2>2. ParseLine("mock", l, k).usage.cost = 0 /\ ParseLine("mock", l, k).finalError \in BOOLEAN
    BY <2>1, MockScriptIsFree, Zenon
  <2> QED BY <1>1, <2>2
<1>2. CASE agent # "mock"
  BY <1>2, LinesAssumption DEF NextLines, Inv, TypeOK, Turns
<1> QED BY <1>1, <1>2

-----------------------------------------------------------------------------

\* The initial states satisfy the invariant.
LEMMA InitInv == Init => Inv
<1> SUFFICES ASSUME Init PROVE Inv
  OBVIOUS
<1> USE OutputAssumption
<1>1. TypeOK
  <2>1. command \in [Turns -> {NoCommand}] /\ pump \in [Turns -> {"off", "reading"}]
        /\ reads \in [Turns -> Nat] /\ billed \in [Turns -> Nat]
    BY DEF Init
  <2>2. turn \in 0..MaxTurns /\ restarts \in 0..MaxRestarts
    BY DEF Init
  <2> QED BY <2>1, <2>2 DEF Init, TypeOK, Phases, Statuses, NoEnding
<1>2. record.isError \in BOOLEAN /\ Active /\ Unread
  BY DEF Init, Active, Unread
<1>3. Money
  <2>1. restarts * Cap = 0
    BY DEF Init, Cap
  <2> QED BY <2>1 DEF Init, Money, NoUsage, Counted, Cap
<1>4. Judged
  BY DEF Init, Judged, Undecided
<1> QED BY <1>1, <1>2, <1>3, <1>4 DEF Inv

\* What is asked of a task before its worker runs keeps the invariant.
LEMMA AskInv ==
  ASSUME Inv,
         \/ \E plan \in BOOLEAN, prompt \in Prompts : StartTask(plan, prompt)
         \/ \E prompt \in Prompts : Followup(prompt)
         \/ Reset
         \/ Fail
  PROVE  Inv'
<1> USE OutputAssumption
    DEF Inv, launch, process, task, seen, bills, server, Phases, Statuses, Undecided, NoEnding
<1>1. CASE \E plan \in BOOLEAN, prompt \in Prompts : StartTask(plan, prompt)
  <2>1. TypeOK'
    BY <1>1 DEF StartTask, TypeOK
  <2>2. Active' /\ Unread'
    BY <1>1 DEF StartTask, TypeOK, Active, Unread, Turns
  <2>3. (record.isError \in BOOLEAN)' /\ Money' /\ Judged'
    BY <1>1 DEF StartTask, Money, Counted, Judged
  <2> QED BY <2>1, <2>2, <2>3
<1>2. CASE \E prompt \in Prompts : Followup(prompt)
  <2>1. turn \in Turns /\ turn' = turn + 1 /\ turn' \in Turns
    BY <1>2 DEF Followup, Active, Turns
  <2>2. TypeOK'
    BY <1>2, <2>1 DEF Followup, TypeOK, Turns
  <2>3. Active' /\ Unread'
    BY <1>2, <2>1 DEF Followup, TypeOK, Active, Unread, Turns
  <2>4. (record.isError \in BOOLEAN)' /\ Money' /\ Judged'
    BY <1>2 DEF Followup, Money, Counted, Judged
  <2> QED BY <2>2, <2>3, <2>4
<1>3. CASE Reset
  <2>1. TypeOK'
    <3>1. ending' \in [of : 0..MaxTurns, is : {"none", "ok", "error"}]
      <4>1. ending' = NoEnding /\ 0 \in 0..MaxTurns
        BY <1>3 DEF Reset
      <4> QED BY <4>1
    <3>2. UNCHANGED <<agent, turn, pump, reads, billed, spent, lateCost, command, modelUsed, status,
                     late, restarts>>
      BY <1>3 DEF Reset
    <3>3. /\ exit' = "none" /\ stop' = "nobody" /\ phase' = "reset"
          /\ isError' = FALSE /\ said' = FALSE
      BY <1>3 DEF Reset
    <3> QED BY <3>1, <3>2, <3>3 DEF TypeOK
  <2>2. Active' /\ Unread'
    BY <1>3 DEF Reset, Active, Unread
  <2>3. (record.isError \in BOOLEAN)' /\ Money'
    BY <1>3 DEF Reset, Money, Counted
  <2>4. Judged'
    BY <1>3 DEF Reset, Judged
  <2> QED BY <2>1, <2>2, <2>3, <2>4
<1>4. CASE Fail
  BY <1>4 DEF Fail, TypeOK, Active, Unread, Money, Counted, Judged
<1> QED BY <1>1, <1>2, <1>3, <1>4

\* A launch hands out what is left.
LEMMA LaunchInv ==
  ASSUME Inv, NEW endpoint \in BOOLEAN, Launch(endpoint)
  PROVE  Inv'
<1> USE OutputAssumption DEF Inv, task, seen, bills, server
<1>1. TypeOK'
  BY DEF Launch, TypeOK, Phases, process
<1>2. (record.isError \in BOOLEAN)' /\ Active' /\ Unread' /\ Judged'
  BY DEF Launch, TypeOK, Active, Unread, Judged, Undecided, process
<1>3. Money'
  <2>1. (usage.cost \in Nat)'
    BY DEF Launch, Money
  <2>2. SUFFICES ASSUME agent = "claude", MaxCost > 0
                 PROVE  /\ usage.cost <= Cap + lateCost
                        /\ Counted <= Cap /\ Counted <= usage.cost
                        /\ command'[turn].budget \in Nat \ {0}
                        /\ usage.cost + command'[turn].budget <= MaxCost + billed[turn] + lateCost
                        /\ Counted + command'[turn].budget <= MaxCost + billed[turn]
                        /\ billed[turn] <= command'[turn].budget + Overrun
    BY <2>1 DEF Launch, Money, Counted
  <2>3. turn \in Turns /\ billed[turn] = 0 /\ usage.cost \in Nat /\ lateCost \in Nat
        /\ usage.cost <= Cap + lateCost /\ Counted <= Cap /\ Counted <= usage.cost
    BY <2>2 DEF Launch, Active, Unread, Money, TypeOK
  <2>4. usage.cost < MaxCost /\ BudgetFor.left = MaxCost - usage.cost
    BY <2>2, <2>3 DEF Launch, BudgetFor
  <2>5. command'[turn].budget = BudgetFor.left
    <3>1. command' = [command EXCEPT ![turn] = Command(BudgetFor.left, endpoint)]
      BY DEF Launch
    <3>2. Command(BudgetFor.left, endpoint) = ClaudeCommand(BudgetFor.left, endpoint)
      BY <2>2 DEF Command
    <3>3. ClaudeCommand(BudgetFor.left, endpoint).budget = BudgetFor.left
      BY DEF ClaudeCommand
    <3> QED BY <3>1, <3>2, <3>3, <2>3 DEF TypeOK
  <2>6. Counted \in Int
    <3>1. restarts * Cap \in Int
      BY DEF TypeOK, Cap
    <3> QED BY <3>1 DEF TypeOK, Counted
  <2> HIDE DEF Inv
  <2> QED BY <2>3, <2>4, <2>5, <2>6
<1> QED BY <1>1, <1>2, <1>3

\* A line of stdout, in time or late.
LEMMA ReadLineInv ==
  ASSUME Inv, NEW k \in Turns, ReadLine(k)
  PROVE  Inv'
<1> USE OutputAssumption DEF Inv, launch, process, server
<1>1. PICK l \in NextLines(k) :
        LET ev == ParseLine(agent, l, k)
        IN  /\ modelUsed' = (modelUsed \/ ev.model)
            /\ usage' = Plus(usage, ev.usage)
            /\ isError' = IF ev.final THEN ev.finalError ELSE isError
            /\ billed' = [billed EXCEPT ![k] = @ + ev.usage.cost]
            /\ said' = (said \/ (InTime(k) /\ (ev.text # <<>> \/ ev.finalText # <<>>)))
            /\ spent' = spent + ev.usage.cost
            /\ lateCost' = IF InTime(k) THEN lateCost ELSE lateCost + ev.usage.cost
            /\ ending' = IF ev.final /\ phase \in Undecided
                         THEN [of |-> k, is |-> IF ev.finalError THEN "error" ELSE "ok"]
                         ELSE ending
  BY DEF ReadLine
<1> DEFINE ev == ParseLine(agent, l, k)
<1>2. ev.usage.cost \in Nat /\ ev.finalError \in BOOLEAN
  BY NextLineIsTyped
<1>3. agent = "claude" /\ command[k].budget > 0 =>
        billed[k] + ev.usage.cost <= command[k].budget + Overrun
  BY DEF NextLines
<1> HIDE DEF ev
<1>4. /\ modelUsed' = (modelUsed \/ ev.model)
      /\ said' = (said \/ (InTime(k) /\ (ev.text # <<>> \/ ev.finalText # <<>>)))
  BY <1>1 DEF ev
<1>5. /\ usage' = Plus(usage, ev.usage)
      /\ isError' = IF ev.final THEN ev.finalError ELSE isError
      /\ billed' = [billed EXCEPT ![k] = @ + ev.usage.cost]
      /\ spent' = spent + ev.usage.cost
      /\ lateCost' = IF InTime(k) THEN lateCost ELSE lateCost + ev.usage.cost
      /\ ending' = IF ev.final /\ phase \in Undecided
                   THEN [of |-> k, is |-> IF ev.finalError THEN "error" ELSE "ok"]
                   ELSE ending
  BY <1>1 DEF ev
<1>6. /\ pump[k] = "reading"
      /\ reads' = [reads EXCEPT ![k] = @ + 1]
      /\ late' = IF InTime(k) THEN late ELSE late \cup {k}
      /\ UNCHANGED <<launch, phase, pump, process, turnStart, status, server>>
  BY DEF ReadLine
<1>7. usage'.cost = usage.cost + ev.usage.cost
  BY <1>5 DEF Plus
<1>8. TypeOK'
  <2>1. modelUsed' \in BOOLEAN /\ said' \in BOOLEAN
    BY <1>4, Zenon
  <2>2. isError' \in BOOLEAN
    BY <1>2, <1>5 DEF TypeOK
  <2>3. ending' \in [of : 0..MaxTurns, is : {"none", "ok", "error"}]
    <3>1. k \in 0..MaxTurns
      BY DEF Turns
    <3> QED BY <1>5, <3>1 DEF TypeOK
  <2>7. spent' \in Nat /\ lateCost' \in Nat
    BY <1>2, <1>5 DEF TypeOK
  <2>4. billed' \in [Turns -> Nat]
    <3>1. billed \in [Turns -> Nat] /\ billed[k] + ev.usage.cost \in Nat
      BY <1>2 DEF TypeOK
    <3> QED BY <1>5, <3>1
  <2>5. reads' \in [Turns -> Nat]
    BY <1>6 DEF TypeOK
  <2>6. late' \subseteq Turns
    BY <1>6 DEF TypeOK
  <2> QED BY <1>6, <2>1, <2>2, <2>3, <2>4, <2>5, <2>6, <2>7 DEF TypeOK
<1>9. (record.isError \in BOOLEAN)' /\ Active'
  BY <1>6 DEF Active
<1>10. Unread'
  BY <1>5, <1>6 DEF Unread, TypeOK
<1>11. Money'
  <2>1. (usage.cost \in Nat)' /\ usage.cost \in Nat
    BY <1>2, <1>7 DEF Money
  <2>2. restarts * Cap \in Int /\ spent \in Nat /\ lateCost \in Nat
    BY DEF TypeOK, Cap
  <2>3. Counted \in Int /\ Counted' = spent' - lateCost' - restarts * Cap
    BY <1>6, <2>2 DEF Counted, Cap
  <2> DEFINE c == ev.usage.cost
  <2> HIDE DEF Inv
  <2>4. CASE InTime(k)
    <3>1. lateCost' = lateCost /\ Counted' = Counted + c
      BY <1>2, <1>5, <2>2, <2>3, <2>4 DEF Counted
    <3>2. SUFFICES ASSUME agent = "claude", MaxCost > 0
                   PROVE  /\ usage'.cost <= Cap + lateCost
                          /\ Counted' <= Cap /\ Counted' <= usage'.cost
                          /\ command[turn].budget \in Nat \ {0}
                          /\ usage'.cost + command[turn].budget
                               <= MaxCost + billed'[turn] + lateCost
                          /\ Counted' + command[turn].budget <= MaxCost + billed'[turn]
                          /\ billed'[turn] <= command[turn].budget + Overrun
      BY <1>6, <2>1, <3>1 DEF Money, Cap
    <3>3. billed'[turn] = billed[turn] + c /\ billed[turn] \in Nat /\ k = turn
      BY <1>5, <2>4 DEF InTime, Inv, TypeOK
    <3>4. /\ command[turn].budget \in Nat \ {0}
          /\ usage.cost + command[turn].budget <= MaxCost + billed[turn] + lateCost
          /\ Counted + command[turn].budget <= MaxCost + billed[turn]
          /\ Counted <= usage.cost
      BY <2>4, <3>2 DEF Inv, Money, InTime
    <3>5. billed'[turn] <= command[turn].budget + Overrun
      BY <1>3, <3>2, <3>3, <3>4
    <3> HIDE DEF c
    <3>6. usage'.cost = usage.cost + c /\ c \in Nat
      BY <1>2, <1>7 DEF c
    <3> QED BY <2>1, <2>2, <2>3, <3>1, <3>3, <3>4, <3>5, <3>6 DEF Cap
  <2>5. CASE ~InTime(k)
    <3>1. lateCost' = lateCost + c /\ Counted' = Counted
      BY <1>2, <1>5, <2>2, <2>3, <2>5 DEF Counted
    <3>2. phase \in {"running", "exited"} => k # turn
      BY <2>5 DEF InTime
    <3>3. phase \in {"running", "exited"} => billed'[turn] = billed[turn]
      BY <1>5, <3>2 DEF Inv, TypeOK, Active
    <3> HIDE DEF c
    <3>4. usage'.cost = usage.cost + c /\ c \in Nat
      BY <1>2, <1>7 DEF c
    <3>5. phase \in {"running", "exited"} => billed[turn] \in Nat
      BY DEF Inv, TypeOK, Active
    <3>6. command' = command /\ turn' = turn /\ phase' = phase /\ agent' = agent
      BY <1>6
    <3> SUFFICES ASSUME agent = "claude", MaxCost > 0
                 PROVE  Money'
      BY <2>1, <3>6 DEF Money
    <3>7. /\ usage.cost <= Cap + lateCost
          /\ Counted <= Cap /\ Counted <= usage.cost
      BY DEF Inv, Money
    <3>8. /\ usage'.cost <= Cap + lateCost'
          /\ Counted' <= Cap /\ Counted' <= usage'.cost
      BY <2>1, <2>2, <2>3, <3>1, <3>4, <3>7 DEF Cap
    <3>9. ASSUME phase \in {"running", "exited"}
          PROVE  /\ command[turn].budget \in Nat \ {0}
                 /\ usage'.cost + command[turn].budget <= MaxCost + billed'[turn] + lateCost'
                 /\ Counted' + command[turn].budget <= MaxCost + billed'[turn]
                 /\ billed'[turn] <= command[turn].budget + Overrun
      <4>1. /\ command[turn].budget \in Nat \ {0}
            /\ usage.cost + command[turn].budget <= MaxCost + billed[turn] + lateCost
            /\ Counted + command[turn].budget <= MaxCost + billed[turn]
            /\ billed[turn] <= command[turn].budget + Overrun
        BY <3>9 DEF Inv, Money
      <4> QED BY <2>1, <2>2, <2>3, <3>1, <3>3, <3>4, <3>5, <3>9, <4>1
    <3> QED BY <2>1, <3>6, <3>8, <3>9 DEF Money, Cap
  <2> QED BY <2>4, <2>5
<1>12. Judged'
  <2>1. UNCHANGED <<phase, turn, exit, stop, status>> /\ late \subseteq late'
    BY <1>6
  <2>2. k \in {turn} \cup late' \/ phase \notin {"running", "exited"}
    BY <1>6 DEF InTime
  <2>3. phase = "reset" => k \in {turn} \cup late'
    BY <1>6 DEF InTime
  <2>4. phase \in Undecided => (isError' <=> ending'.is = "error")
    BY <1>2, <1>5 DEF Judged, Undecided
  <2>5. phase \in Undecided \cup {"over"} => ending'.of \in {0, turn} \cup late'
    BY <1>5, <2>1, <2>2, <2>3 DEF Judged, Undecided
  <2>6. phase = "over" => ending' = ending
    BY <1>5 DEF Undecided
  <2> QED BY <2>1, <2>4, <2>5, <2>6 DEF Judged
<1> QED BY <1>8, <1>9, <1>10, <1>11, <1>12

\* A line of stderr changes nothing the invariant knows of.
LEMMA ReadStderrInv ==
  ASSUME Inv, NEW k \in Turns, ReadStderr(k)
  PROVE  Inv'
<1> USE DEF Inv, launch, process, server
<1>1. CASE InTime(k)
  BY <1>1 DEF ReadStderr, bills, TypeOK, Active, Unread, Money, Counted, Judged
<1>2. CASE ~InTime(k)
  BY <1>2 DEF ReadStderr, bills, TypeOK, Active, Unread, Money, Counted, Judged
<1> QED BY <1>1, <1>2

\* The end of a turn, and a restart, keep the invariant.
LEMMA EndInv ==
  ASSUME Inv,
         \/ \E k \in Turns : PumpEnds(k)
         \/ \E who \in {"timeout", "cancel"} : Stop(who)
         \/ \E how \in {"ok", "bad"} : WorkerExits(how)
         \/ Settle
         \/ Restart
  PROVE  Inv'
<1> USE OutputAssumption
    DEF Inv, launch, process, task, seen, bills, server, Phases, Statuses, Undecided, NoEnding
<1>1. CASE \E k \in Turns : PumpEnds(k)
  <2>1. PICK k \in Turns : PumpEnds(k)
    BY <1>1
  <2>2. TypeOK'
    BY <2>1 DEF PumpEnds, TypeOK
  <2>3. Active' /\ Unread'
    BY <2>1 DEF PumpEnds, TypeOK, Active, Unread
  <2>4. (record.isError \in BOOLEAN)' /\ Money' /\ Judged'
    BY <2>1 DEF PumpEnds, Money, Counted, Judged
  <2> QED BY <2>2, <2>3, <2>4
<1>2. CASE \E who \in {"timeout", "cancel"} : Stop(who)
  BY <1>2 DEF Stop, TypeOK, Active, Unread, Money, Counted, Judged
<1>3. CASE \E how \in {"ok", "bad"} : WorkerExits(how)
  BY <1>3 DEF WorkerExits, TypeOK, Active, Unread, Money, Counted, Judged
<1>4. CASE Settle
  <2>1. TypeOK'
    BY <1>4 DEF Settle, Verdict, TypeOK
  <2>2. Active' /\ Unread' /\ Money'
    BY <1>4 DEF Settle, TypeOK, Active, Unread, Money, Counted
  <2>3. record'.isError = isError
    BY <1>4 DEF Settle
  <2>4. Verdict = "done" <=> exit = "ok" /\ stop = "nobody" /\ ~isError
    BY DEF Verdict, TypeOK
  <2>5. Judged'
    BY <1>4, <2>3, <2>4 DEF Settle, Judged, TypeOK
  <2> QED BY <2>1, <2>2, <2>3, <2>5 DEF Settle, TypeOK
<1>5. CASE Restart
  <2>1. TypeOK'
    <3>1. pump' \in [Turns -> {"off", "reading"}]
      BY <1>5 DEF Restart
    <3>2. restarts' \in 0..MaxRestarts
      BY <1>5 DEF Restart, TypeOK
    <3> QED BY <1>5, <3>1, <3>2 DEF Restart, TypeOK
  <2>2. Active' /\ Unread'
    BY <1>5 DEF Restart, TypeOK, Active, Unread
  <2>3. Money'
    <3>1. restarts' = restarts + 1 /\ restarts \in Nat /\ Cap \in Nat
      BY <1>5 DEF Restart, TypeOK, Cap
    <3>2. restarts' * Cap = restarts * Cap + Cap /\ restarts * Cap \in Int
      BY <3>1
    <3>3. spent \in Nat /\ lateCost \in Nat /\ usage'.cost = 0 /\ UNCHANGED <<agent, phase, spent, lateCost>>
      BY <1>5 DEF Restart, TypeOK, NoUsage
    <3>4. Counted' = Counted - Cap /\ Counted \in Int
      BY <3>1, <3>2, <3>3 DEF Counted, Cap
    <3>5. phase' = "over"
      BY <1>5 DEF Restart
    <3> HIDE DEF Inv
    <3>6. agent = "claude" /\ MaxCost > 0 => Counted <= Cap
      BY DEF Inv, Money
    <3> QED BY <3>1, <3>3, <3>4, <3>5, <3>6 DEF Money, Cap
  <2>5. (record.isError \in BOOLEAN)'
    BY <1>5 DEF Restart
  <2>4. Judged'
    BY <1>5 DEF Restart, TypeOK, Judged
  <2> QED BY <2>1, <2>2, <2>3, <2>4, <2>5
<1> QED BY <1>1, <1>2, <1>3, <1>4, <1>5

\* Every step keeps the invariant.
LEMMA NextInv == Inv /\ [Next]_vars => Inv'
<1> SUFFICES ASSUME Inv, [Next]_vars PROVE Inv'
  OBVIOUS
<1>1. CASE UNCHANGED vars
  BY <1>1 DEF vars, launch, process, task, seen, bills, server, Inv, TypeOK, Active, Unread,
     Money, Counted, Judged
<1> QED BY <1>1, AskInv, LaunchInv, ReadLineInv, ReadStderrInv, EndInv DEF Next

-----------------------------------------------------------------------------

\* The invariant holds in every reachable state.
THEOREM TurnOutputInv == Spec => []Inv
BY InitInv, NextInv, PTL DEF Spec

\* Every variable has its type.
THEOREM TypeCorrect == Spec => []TypeOK
<1>1. Inv => TypeOK
  BY DEF Inv
<1> QED BY <1>1, TurnOutputInv, PTL

\* The turns of a task together spend no more than its budget and what the agent
\* adds to the limit it is given, once for every server that ran them, and what was
\* read after its turn had ended, whatever the turns cost one by one (budgetFor).
THEOREM BudgetHolds == Spec => []WithinBudget
<1>1. ASSUME Inv, agent = "claude", MaxCost > 0
      PROVE  /\ usage.cost <= MaxCost + Overrun + lateCost
             /\ spent <= (restarts + 1) * (MaxCost + Overrun) + lateCost
  <2>1. usage.cost <= Cap + lateCost /\ Counted <= Cap
    BY <1>1 DEF Inv, Money
  <2>2. restarts \in Nat /\ Cap \in Nat /\ spent \in Nat /\ lateCost \in Nat
    BY <1>1, OutputAssumption DEF Inv, TypeOK, Cap
  <2>3. (restarts + 1) * Cap = restarts * Cap + Cap /\ restarts * Cap \in Int
    BY <2>2
  <2>4. spent <= (restarts + 1) * Cap + lateCost
    BY <2>1, <2>2, <2>3 DEF Counted
  <2> QED BY <2>1, <2>4 DEF Cap
<1>2. Inv => WithinBudget
  BY <1>1 DEF WithinBudget
<1> QED BY <1>2, TurnOutputInv, PTL

\* A turn is called done exactly when its worker did well and the last final event
\* since it began, its own or a late one of an earlier turn, was no error (runTurn's
\* switch and reset block).
THEOREM VerdictIsTrue == Spec => []DoneIsTrue
<1>1. Inv => DoneIsTrue
  BY DEF Inv, Judged, DoneIsTrue
<1> QED BY <1>1, TurnOutputInv, PTL

-----------------------------------------------------------------------------
(* What an event says.  FlattenSeq, which joins the parts of a message, is *)
(* a recursive function; it is dealt with as Keep is in DataLemmas.        *)

\* f tells what the first members of seqs are together, up to index n.
Joins(f, seqs, n) ==
  /\ DOMAIN f = 1..n
  /\ \A i \in 1..n : f[i] = IF i = 1 THEN seqs[i] ELSE f[i - 1] \o seqs[i]

\* There is such a function for every sequence.
LEMMA JoinsExists ==
  ASSUME NEW seqs, NEW n \in Nat
  PROVE  \E f : Joins(f, seqs, n)
<1> DEFINE B == {m \in Nat : ~\E f : Joins(f, seqs, m)}
<1>1. SUFFICES ASSUME B # {} PROVE FALSE
  OBVIOUS
<1>2. PICK m \in B : \A d \in B : m <= d
  <2>1. B \in SUBSET Nat
    OBVIOUS
  <2> HIDE DEF B
  <2> QED BY <1>1, <2>1, LeastExists
<1>3. m # 0
  <2>1. Joins(<<>>, seqs, 0)
    BY DEF Joins
  <2> QED BY <2>1
<1>4. m - 1 \in Nat /\ m \in Nat
  BY <1>3
<1>5. ~(m - 1 \in B)
  <2> HIDE DEF B
  <2> QED BY <1>2, <1>4
<1>6. PICK f : Joins(f, seqs, m - 1)
  BY <1>4, <1>5
<1> DEFINE g == [i \in 1..m |->
                   IF i < m THEN f[i]
                   ELSE IF m = 1 THEN seqs[m] ELSE f[m - 1] \o seqs[m]]
<1>7. Joins(g, seqs, m)
  <2>1. \A i \in 1..(m - 1) : g[i] = f[i]
    BY <1>4
  <2>2. g[m] = IF m = 1 THEN seqs[m] ELSE f[m - 1] \o seqs[m]
    BY <1>3, <1>4
  <2>3. DOMAIN g = 1..m
    OBVIOUS
  <2> HIDE DEF g
  <2>4. ASSUME NEW i \in 1..m
        PROVE  g[i] = IF i = 1 THEN seqs[i] ELSE g[i - 1] \o seqs[i]
    <3>1. CASE i < m
      <4>1. i \in 1..(m - 1) /\ (i # 1 => i - 1 \in 1..(m - 1))
        BY <1>4, <3>1
      <4> QED BY <1>6, <2>1, <4>1 DEF Joins
    <3>2. CASE i = m
      <4>1. m # 1 => g[m - 1] = f[m - 1]
        BY <1>3, <1>4, <2>1
      <4> QED BY <2>2, <3>2, <4>1
    <3> QED BY <1>4, <3>1, <3>2
  <2> QED BY <2>3, <2>4 DEF Joins
<1> HIDE DEF g
<1> QED BY <1>2, <1>7

\* FlattenSeq is where it ends.
LEMMA FlattenJoins ==
  ASSUME NEW seqs, Len(seqs) \in Nat \ {0}
  PROVE  \E f : Joins(f, seqs, Len(seqs)) /\ FlattenSeq(seqs) = f[Len(seqs)]
<1> DEFINE Is(f) == f = [i \in 1..Len(seqs) |->
                           IF i = 1 THEN seqs[i] ELSE f[i - 1] \o seqs[i]]
           flatten == CHOOSE f : Is(f)
<1>1. PICK f : Joins(f, seqs, Len(seqs))
  BY JoinsExists
<1>2. Is([i \in 1..Len(seqs) |-> f[i]])
  <2> DEFINE g == [i \in 1..Len(seqs) |-> f[i]]
  <2>1. \A i \in 1..Len(seqs) : i # 1 => i - 1 \in 1..Len(seqs)
    OBVIOUS
  <2>2. \A i \in 1..Len(seqs) : g[i] = IF i = 1 THEN seqs[i] ELSE g[i - 1] \o seqs[i]
    BY <1>1, <2>1 DEF Joins
  <2> QED BY <2>2
<1>3. Is(flatten)
  BY <1>2, Zenon
<1>4. FlattenSeq(seqs) = IF Len(seqs) = 0 THEN seqs ELSE flatten[Len(seqs)]
  BY Zenon DEF FlattenSeq
<1> HIDE DEF flatten
<1>5. Joins(flatten, seqs, Len(seqs))
  BY <1>3 DEF Joins
<1> QED BY <1>4, <1>5

\* Sequences over W together are a sequence over W.
LEMMA FlattenType ==
  ASSUME NEW W, NEW seqs \in Seq(Seq(W))
  PROVE  FlattenSeq(seqs) \in Seq(W)
<1>1. CASE Len(seqs) = 0
  <2>1. FlattenSeq(seqs) = seqs /\ seqs = <<>>
    BY <1>1 DEF FlattenSeq
  <2> QED BY <2>1
<1>2. CASE Len(seqs) # 0
  <2>1. Len(seqs) \in Nat \ {0}
    BY <1>2
  <2>2. PICK f : Joins(f, seqs, Len(seqs)) /\ FlattenSeq(seqs) = f[Len(seqs)]
    BY <2>1, FlattenJoins
  <2> DEFINE B == {m \in 1..Len(seqs) : f[m] \notin Seq(W)}
  <2>3. SUFFICES ASSUME B # {} PROVE FALSE
    BY <2>1, <2>2
  <2>4. PICK m \in B : \A d \in B : m <= d
    <3>1. B \in SUBSET Nat
      OBVIOUS
    <3> HIDE DEF B
    <3> QED BY <2>3, <3>1, LeastExists
  <2>5. m \in 1..Len(seqs) /\ seqs[m] \in Seq(W)
    OBVIOUS
  <2>6. CASE m = 1
    BY <2>2, <2>5, <2>6 DEF Joins
  <2>7. CASE m # 1
    <3>1. m - 1 \in 1..Len(seqs)
      BY <2>5, <2>7
    <3>2. ~(m - 1 \in B)
      <4> HIDE DEF B
      <4> QED BY <2>4, <2>5, <3>1
    <3>3. f[m - 1] \in Seq(W)
      BY <3>1, <3>2
    <3>4. f[m] = f[m - 1] \o seqs[m]
      BY <2>2, <2>5, <2>7 DEF Joins
    <3>5. f[m] \in Seq(W)
      BY <2>5, <3>3, <3>4
    <3> QED BY <3>5
  <2> QED BY <2>6, <2>7
<1> QED BY <1>1, <1>2

\* Where in a line a word may come from.
Places == {"text", "tool", "output", "result", "reason", "line"}

\* The words of the worker of turn k.
Words(k) == [from : Places, of : {k}]

\* An event of turn k speaks with the words of its worker, and only one that is
\* final has a final text.
Speaks(ev, k) ==
  /\ ev.text \in Seq(Words(k))
  /\ ev.finalText \in Seq(Words(k))
  /\ ev.finalText # <<>> => ev.final

LEMMA TextWords ==
  ASSUME NEW has, NEW where \in Places, NEW k
  PROVE  Text(has, where, k) \in Seq(Words(k)) /\ <<>> \in Seq(Words(k))
<1>1. [from |-> where, of |-> k] \in Words(k)
  BY DEF Words
<1> QED BY <1>1 DEF Text

\* Claude Code, whose texts are joined from blocks.
LEMMA ClaudeSpeaks ==
  ASSUME NEW l, NEW k, l.form = "json" => l.blocks \in Seq(Block)
  PROVE  Speaks(ClaudeParse(l, k), k)
<1>1. ASSUME NEW b PROVE AssistantPart(b, k) \in Seq(Words(k))
  BY TextWords DEF AssistantPart, Places
<1>2. ASSUME NEW b PROVE ToolPart(b, k) \in Seq(Words(k))
  BY TextWords DEF ToolPart, Places
<1>3. ASSUME l.form = "json"
      PROVE  /\ [i \in DOMAIN l.blocks |-> AssistantPart(l.blocks[i], k)] \in Seq(Seq(Words(k)))
             /\ [i \in DOMAIN l.blocks |-> ToolPart(l.blocks[i], k)] \in Seq(Seq(Words(k)))
  <2>1. l.blocks \in Seq(Block)
    BY <1>3
  <2>2. DOMAIN l.blocks = 1..Len(l.blocks) /\ Len(l.blocks) \in Nat
    BY <2>1
  <2> QED BY <1>1, <1>2, <2>2
<1>4. ClaudeText(l, k) \in Seq(Words(k))
  <2>1. CASE l.form = "json" /\ l.type = "assistant"
    BY <1>3, <2>1, FlattenType DEF ClaudeText
  <2>2. CASE l.form = "json" /\ l.type = "user"
    BY <1>3, <2>2, FlattenType DEF ClaudeText
  <2>3. CASE ~(l.form = "json" /\ l.type \in {"assistant", "user"})
    <3>1. ClaudeText(l, k) = <<>>
      BY <2>3 DEF ClaudeText
    <3> QED BY <3>1
  <2> QED BY <2>1, <2>2, <2>3
<1>5. /\ Text(TRUE, "result", k) \in Seq(Words(k)) /\ Reason(l, k) \in Seq(Words(k))
      /\ <<>> \in Seq(Words(k))
  BY TextWords DEF Reason, Places
<1> DEFINE ev == ClaudeParse(l, k)
           ended == l.form = "json" /\ l.type = "result"
<1>6. /\ ev.text = ClaudeText(l, k)
      /\ ev.finalText = IF ~ended THEN <<>>
                        ELSE IF l.said THEN Text(TRUE, "result", k) ELSE Reason(l, k)
      /\ ended => ev.final
  <2>1. ev.text = ClaudeText(l, k)
    BY DEF ClaudeParse
  <2>2. ev.finalText = IF ~ended THEN <<>>
                       ELSE IF l.said THEN Text(TRUE, "result", k) ELSE Reason(l, k)
    BY DEF ClaudeParse
  <2>3. ended => ev.final
    BY DEF ClaudeParse
  <2> QED BY <2>1, <2>2, <2>3
<1> HIDE DEF ev, ended
<1>7. ev.finalText \in Seq(Words(k)) /\ (ev.finalText # <<>> => ev.final)
  BY <1>5, <1>6
<1>8. Speaks(ev, k)
  BY <1>4, <1>6, <1>7 DEF Speaks
<1> QED BY <1>8 DEF ev

\* The agents whose schema is not pinned.  What such an agent says in its output
\* is a line with something on it.
LEMMA TolerantSpeaks ==
  ASSUME NEW l, NEW k, NEW plain \in BOOLEAN,
         l.form = "json" /\ l.type = "final" => l.result \in {"said", "empty", "absent"}
  PROVE  /\ Speaks(TolerantParse(l, k, plain), k)
         /\ TolerantParse(l, k, plain).text # <<>> => l.form # "blank"
<1> DEFINE seen_ == [Nothing EXCEPT !.session = l.session]
           words == Text(l.text, "text", k)
           ev == TolerantParse(l, k, plain)
<1>1. /\ words \in Seq(Words(k)) /\ Text(TRUE, "result", k) \in Seq(Words(k))
      /\ <<>> \in Seq(Words(k))
  BY TextWords DEF Places
<1>2. CASE l.form # "json"
  <2>1. ev = [Nothing EXCEPT !.text = Text(plain /\ l.form # "blank", "line", k)]
    BY <1>2 DEF TolerantParse
  <2>2. ev.text = Text(plain /\ l.form # "blank", "line", k) /\ ev.finalText = <<>>
    BY <2>1 DEF Nothing
  <2>3. ev.text \in Seq(Words(k))
    BY <2>2, TextWords DEF Places
  <2>4. l.form = "blank" => ev.text = <<>>
    BY <2>2 DEF Text
  <2> QED BY <2>2, <2>3, <2>4 DEF Speaks
<1>3. CASE l.form = "json" /\ l.type = "final"
  <2> DEFINE result == CASE l.result = "said"   -> Text(TRUE, "result", k)
                         [] l.result = "empty"  -> <<>>
                         [] l.result = "absent" -> words
  <2>1. ev = [seen_ EXCEPT !.final = TRUE, !.finalError = l.isError, !.finalText = result]
    BY <1>3 DEF TolerantParse
  <2>2. result \in Seq(Words(k))
    BY <1>1, <1>3
  <2> HIDE DEF result, ev
  <2>3. ev.text = <<>> /\ ev.final = TRUE /\ ev.finalText = result
    BY <2>1 DEF Nothing
  <2>4. Speaks(ev, k)
    BY <2>2, <2>3 DEF Speaks
  <2> QED BY <2>3, <2>4 DEF ev
<1>4. CASE l.form = "json" /\ l.type # "final"
  <2>1. ev.text \in {words, <<>>} /\ ev.finalText = <<>>
    BY <1>4 DEF TolerantParse, Nothing
  <2> HIDE DEF ev, words
  <2>2. Speaks(ev, k)
    BY <1>1, <2>1 DEF Speaks
  <2> QED BY <1>4, <2>2 DEF ev
<1> QED BY <1>2, <1>3, <1>4

LEMMA KimiSpeaks ==
  ASSUME NEW l, NEW k
  PROVE  Speaks(KimiParse(l, k), k)
<1> DEFINE ev == KimiParse(l, k)
           content == Text(l.said, "text", k)
           calls == Text(l.calls, "tool", k)
<1>1. /\ <<>> \in Seq(Words(k))
      /\ content \in Seq(Words(k)) /\ calls \in Seq(Words(k))
      /\ Text(l.form = "plain", "line", k) \in Seq(Words(k))
      /\ Text(l.said \/ l.isError, "output", k) \in Seq(Words(k))
  BY TextWords DEF Places
<1>2. content \o calls \in Seq(Words(k))
  BY <1>1
<1> DEFINE line == Text(l.form = "plain", "line", k)
           output == Text(l.said \/ l.isError, "output", k)
<1>3. /\ ev.text \in {content, <<>>, content \o calls, line, output}
      /\ ev.finalText = <<>>
  <2> HIDE DEF content, calls, line, output
  <2>1. CASE l.form \in {"blank", "plain"}
    BY <2>1 DEF KimiParse, Nothing, line
  <2>2. CASE l.form = "broken"
    BY <2>2 DEF KimiParse, Nothing
  <2>3. CASE l.form = "json" /\ l.role = "assistant"
    BY <2>3 DEF KimiParse, Nothing, content, calls
  <2>4. CASE l.form = "json" /\ l.role = "tool"
    BY <2>4 DEF KimiParse, Nothing, output
  <2>5. CASE l.form = "json" /\ l.role = "meta"
    BY <2>5 DEF KimiParse, Nothing, content
  <2>6. CASE \/ l.form \notin {"blank", "plain", "broken", "json"}
             \/ l.form = "json" /\ l.role \notin {"assistant", "tool", "meta"}
    BY <2>6 DEF KimiParse, Nothing, content
  <2> QED BY <2>1, <2>2, <2>3, <2>4, <2>5, <2>6
<1>4. line \in Seq(Words(k)) /\ output \in Seq(Words(k))
  BY <1>1
<1> HIDE DEF ev, content, calls, line, output
<1>5. Speaks(ev, k)
  BY <1>1, <1>2, <1>3, <1>4 DEF Speaks
<1> QED BY <1>5 DEF ev

\* The mock prints blocks like Claude Code.
LEMMA MockSpeaks ==
  ASSUME NEW c, NEW i \in DOMAIN MockScript(c), NEW k
  PROVE  Speaks(ParseLine("mock", MockScript(c)[i], k), k)
<1> DEFINE s == MockSteps(c)
           P == {"system", "assistant", "user", "result"} \X Seq(Block)
           step == <<"assistant", MockBlock("text", TRUE, FALSE)>>
           use == <<"assistant", MockBlock("tool_use", TRUE, FALSE)>>
           good == <<"user", MockBlock("tool_result", TRUE, FALSE)>>
           bad == <<"user", MockBlock("tool_result", FALSE, TRUE)>>
<1>1. step \in P /\ use \in P /\ good \in P /\ bad \in P
  <2>1. /\ MockBlock("text", TRUE, FALSE) \in Seq(Block)
        /\ MockBlock("tool_use", TRUE, FALSE) \in Seq(Block)
        /\ MockBlock("tool_result", TRUE, FALSE) \in Seq(Block)
        /\ MockBlock("tool_result", FALSE, TRUE) \in Seq(Block)
    BY DEF MockBlock, Block
  <2> QED BY <2>1
<1>2. <<"system", <<>> >> \in P /\ <<"result", <<>> >> \in P
  <2>1. <<>> \in Seq(Block)
    OBVIOUS
  <2> QED BY <2>1
<1> DEFINE first == IF c.prompt = "sleep" THEN <<step, step, step>> ELSE <<>>
           second == CASE c.prompt = "failtool" -> <<use, bad>>
                       [] c.prompt # "failtool" /\ c.plan -> <<step>>
                       [] OTHER -> <<use, good, step>>
<1>3. s = << <<"system", <<>> >> >> \o first \o second \o << <<"result", <<>> >> >>
  BY DEF MockSteps
<1> HIDE DEF step, use, good, bad, P
<1>4. first \in Seq(P) /\ second \in Seq(P)
  BY <1>1
<1>5. << <<"system", <<>> >> >> \in Seq(P) /\ << <<"result", <<>> >> >> \in Seq(P)
  BY <1>2
<1> HIDE DEF first, second
<1>6. s \in Seq(P)
  BY <1>3, <1>4, <1>5
<1>7. DOMAIN MockScript(c) = DOMAIN s /\ MockScript(c)[i] = MockLine(s[i][1], s[i][2])
  BY DEF MockScript
<1> HIDE DEF s
<1>8. s[i] \in P
  BY <1>6, <1>7
<1>9. s[i][2] \in Seq(Block)
  BY <1>8 DEF P
<1>10. MockScript(c)[i].blocks \in Seq(Block)
  BY <1>7, <1>9 DEF MockLine
<1>11. Speaks(ClaudeParse(MockScript(c)[i], k), k)
  BY <1>10, ClaudeSpeaks
<1>12. ParseLine("mock", MockScript(c)[i], k) = ClaudeParse(MockScript(c)[i], k)
  BY Zenon DEF ParseLine
<1> QED BY <1>11, <1>12

\* Whatever a worker prints.
LEMMA NextLineSpeaks ==
  ASSUME Inv, NEW k \in Turns, NEW l \in NextLines(k)
  PROVE  /\ Speaks(ParseLine(agent, l, k), k)
         /\ UseOutputAsResult(agent) /\ ParseLine(agent, l, k).text # <<>> => l.form # "blank"
<1>1. agent \in Agents
  BY DEF Inv, TypeOK
<1>2. CASE agent = "mock"
  <2>1. PICK i \in DOMAIN MockScript(command[k]) : l = MockScript(command[k])[i]
    BY <1>2 DEF NextLines
  <2> QED BY <1>2, <2>1, MockSpeaks DEF UseOutputAsResult
<1>3. CASE agent # "mock"
  <2>1. l \in Lines[agent]
    BY <1>3 DEF NextLines
  <2>2. CASE agent = "claude"
    <3>1. ParseLine(agent, l, k) = ClaudeParse(l, k)
      BY <2>2 DEF ParseLine
    <3> QED BY <2>1, <2>2, <3>1, ClaudeSpeaks, LinesAssumption DEF UseOutputAsResult
  <2>3. CASE agent = "cursor"
    <3>1. ParseLine(agent, l, k) = TolerantParse(l, k, FALSE)
      BY <2>3 DEF ParseLine
    <3> QED BY <2>1, <2>3, <3>1, TolerantSpeaks, LinesAssumption
  <2>4. CASE agent = "custom"
    <3>1. ParseLine(agent, l, k) = TolerantParse(l, k, TRUE)
      BY <2>4 DEF ParseLine
    <3> QED BY <2>1, <2>4, <3>1, TolerantSpeaks, LinesAssumption
  <2>5. CASE agent = "kimi"
    <3>1. ParseLine(agent, l, k) = KimiParse(l, k)
      BY <2>5 DEF ParseLine
    <3> QED BY <2>5, <3>1, KimiSpeaks DEF UseOutputAsResult
  <2> QED BY <1>1, <1>3, <2>2, <2>3, <2>4, <2>5 DEF Agents
<1> QED BY <1>2, <1>3

-----------------------------------------------------------------------------
(* Whose words a result is made of, and that there are some.               *)

Line == [of : 0..MaxTurns, blank : BOOLEAN]

\* The transcript has at most one line beyond its limit, which is the marker.
Transcribed ==
  /\ lines \in Seq(Line)
  /\ turnStart \in Nat
  /\ Len(lines) > Limit => Len(lines) = Limit + 1 /\ lines[Limit + 1] = Marker
  /\ phase \in {"reset", "running", "exited"} => turnStart <= Len(lines)

\* Nobody's word, a word of the turn or one of a late pump.
Mine(n) == n \in {turn, 0} \cup late

MineOnly(text) == \A i \in DOMAIN text : Mine(text[i].of)

\* While a turn lasts all it may answer with is its own, its lines included, and
\* so is what it answered with, on the task and in the record.
OwnWords ==
  /\ phase \in {"reset", "running", "exited"} =>
       /\ MineOnly(resultText)
       /\ MineOnly(lastText)
       /\ \A j \in DOMAIN lines : j > turnStart => Mine(lines[j].of)
  /\ phase = "over" => MineOnly(resultText) /\ MineOnly(record.result)

\* A line of the turn that leaves something when it is trimmed.
Visible == \E j \in DOMAIN lines : j > turnStart /\ ~lines[j].blank

\* The turn has more lines than are kept, and keeps them after a restart.
Long == Len(lines) - turnStart > ResultLines /\ Limit - turnStart > ResultLines

\* What was heard of a turn is there to be its answer, and is the answer once the
\* turn is over.
Heard ==
  said =>
    /\ phase \in {"running", "exited"} =>
         \/ resultText # <<>>
         \/ ~UseOutputAsResult(agent) /\ lastText # <<>>
         \/ UseOutputAsResult(agent) /\ (turnStart <= Limit => Visible)
    /\ phase = "over" =>
         \/ resultText # <<>> /\ record.result # <<>>
         \/ UseOutputAsResult(agent) /\ (turnStart <= Limit => Long)

\* Nothing was heard before the launch.
Unheard == phase = "reset" => ~said

Answers == Transcribed /\ OwnWords /\ Heard /\ Unheard

\* appendLine on a transcript: what was there stays, what is new is the line or
\* the marker, and a turn that began before the limit has something to show for
\* a line with something on it.
LEMMA AppendedLines ==
  ASSUME Transcribed, NEW line \in Line, NEW r, r = Appended(line)
  PROVE  /\ r \in Seq(Line)
         /\ Len(lines) <= Len(r)
         /\ Len(r) > Limit => Len(r) = Limit + 1 /\ r[Limit + 1] = Marker
         /\ \A j \in DOMAIN lines : j \in DOMAIN r /\ r[j] = lines[j]
         /\ \A j \in DOMAIN r : j \in DOMAIN lines \/ r[j] \in {line, Marker}
         /\ ~line.blank /\ turnStart <= Len(lines) /\ turnStart <= Limit =>
              \E j \in DOMAIN r : j > turnStart /\ ~r[j].blank
<1> USE OutputAssumption
<1>1. Marker \in Line /\ Marker.blank = FALSE
  BY DEF Marker, Line
<1>2. lines \in Seq(Line) /\ Len(lines) \in Nat /\ Limit \in Nat /\ turnStart \in Nat
  BY DEF Transcribed
<1>3. CASE Len(lines) > Limit
  <2>1. r = lines
    BY <1>3 DEF Appended
  <2>2. Len(lines) = Limit + 1 /\ lines[Limit + 1] = Marker
    BY <1>3 DEF Transcribed
  <2>3. Limit + 1 \in DOMAIN lines
    BY <1>2, <2>2
  <2>4. turnStart <= Limit => \E j \in DOMAIN r : j > turnStart /\ ~r[j].blank
    <3>1. turnStart <= Limit => Limit + 1 > turnStart
      BY <1>2
    <3> QED BY <1>1, <2>1, <2>2, <2>3, <3>1
  <2> QED BY <1>2, <2>1, <2>2, <2>4
<1>4. ASSUME NEW e \in {line, Marker}, r = Append(lines, e), Len(lines) <= Limit,
             Len(lines) = Limit => e = Marker, Len(lines) < Limit => e = line
      PROVE  /\ r \in Seq(Line)
             /\ Len(lines) <= Len(r)
             /\ Len(r) > Limit => Len(r) = Limit + 1 /\ r[Limit + 1] = Marker
             /\ \A j \in DOMAIN lines : j \in DOMAIN r /\ r[j] = lines[j]
             /\ \A j \in DOMAIN r : j \in DOMAIN lines \/ r[j] \in {line, Marker}
             /\ ~line.blank /\ turnStart <= Len(lines) =>
                  \E j \in DOMAIN r : j > turnStart /\ ~r[j].blank
  <2>1. e \in Line
    BY <1>1
  <2>2. r \in Seq(Line) /\ Len(r) = Len(lines) + 1
    BY <1>2, <1>4, <2>1
  <2>3. \A j \in DOMAIN lines : j \in DOMAIN r /\ r[j] = lines[j]
    BY <1>2, <1>4
  <2>4. Len(lines) + 1 \in DOMAIN r /\ r[Len(lines) + 1] = e
    BY <1>2, <1>4
  <2>5. \A j \in DOMAIN r : j \in DOMAIN lines \/ j = Len(lines) + 1
    BY <1>2, <2>2
  <2>6. Len(r) > Limit => Len(r) = Limit + 1 /\ r[Limit + 1] = Marker
    BY <1>2, <1>4, <2>2, <2>4
  <2>7. ~line.blank => ~e.blank
    BY <1>1, <1>4
  <2>8. turnStart <= Len(lines) => Len(lines) + 1 > turnStart
    BY <1>2
  <2>9. ~line.blank /\ turnStart <= Len(lines) =>
          \E j \in DOMAIN r : j > turnStart /\ ~r[j].blank
    BY <2>4, <2>7, <2>8
  <2> QED BY <1>2, <2>2, <2>3, <2>4, <2>5, <2>6, <2>9
<1>5. CASE Len(lines) = Limit
  BY <1>2, <1>4, <1>5 DEF Appended
<1>6. CASE Len(lines) < Limit
  BY <1>2, <1>4, <1>6 DEF Appended
<1> QED BY <1>2, <1>3, <1>5, <1>6

\* tailLines of a turn's lines: words of these lines only, none if there is
\* nothing to be seen among the last of them, and the marker is to be seen.
LEMMA TailOfTurn ==
  ASSUME Transcribed, turnStart <= Len(lines)
  PROVE  /\ \A i \in DOMAIN TailLines :
              \E j \in DOMAIN lines : j > turnStart /\ TailLines[i].of = lines[j].of
         /\ TailLines = <<>> /\ turnStart <= Limit /\ Visible => Long
<1> USE OutputAssumption
<1> DEFINE own == SubSeq(lines, turnStart + 1, Len(lines))
           tail == SubSeq(own, Len(own) - ResultLines + 1, Len(own))
           window == IF Len(own) > ResultLines THEN tail ELSE own
           readable == Keep(window, Readable)
           skipped == Len(lines) - Len(window)
<1>1. lines \in Seq(Line) /\ Len(lines) \in Nat /\ Limit \in Nat \ {0} /\ turnStart \in Nat
      /\ ResultLines \in Nat \ {0}
  BY DEF Transcribed
<1>2. TailLines = [i \in DOMAIN readable |-> [from |-> "line", of |-> readable[i].of]]
  BY Zenon DEF TailLines
<1>3. /\ own \in Seq(Line) /\ Len(own) = Len(lines) - turnStart
      /\ \A i \in 1..Len(own) : own[i] = lines[turnStart + i]
  <2>1. turnStart + 1 \in 1..(Len(lines) + 1)
    BY <1>1
  <2> QED BY <1>1, <2>1, SubSeqProperties
<1> HIDE DEF own
<1>4. /\ window \in Seq(Line) /\ turnStart <= skipped /\ skipped \in Nat
      /\ DOMAIN window = 1..Len(window) /\ Len(window) \in Nat
      /\ \A i \in 1..Len(window) : window[i] = lines[skipped + i]
      /\ Len(own) <= ResultLines => skipped = turnStart
      /\ skipped = Len(lines) => Len(own) = 0
  <2>1. CASE Len(own) > ResultLines
    <3>1. Len(own) - ResultLines + 1 \in 1..(Len(own) + 1)
      BY <1>1, <1>3, <2>1
    <3>2. /\ tail \in Seq(Line) /\ Len(tail) = ResultLines
          /\ \A i \in 1..ResultLines : tail[i] = own[Len(own) - ResultLines + i]
      BY <1>1, <1>3, <3>1, SubSeqProperties
    <3>3. window = tail
      BY <2>1
    <3> HIDE DEF tail, window
    <3>4. Len(window) = ResultLines
      BY <3>2, <3>3
    <3> HIDE DEF skipped
    <3>5. skipped = Len(lines) - ResultLines
      BY <3>4 DEF skipped
    <3>6. skipped = turnStart + (Len(own) - ResultLines) /\ skipped \in Nat
      BY <1>1, <1>3, <2>1, <3>5
    <3>7. ASSUME NEW i \in 1..ResultLines
          PROVE  window[i] = lines[skipped + i]
      <4>1. Len(own) - ResultLines + i \in 1..Len(own)
        BY <1>1, <1>3, <2>1
      <4>2. turnStart + (Len(own) - ResultLines + i) = skipped + i
        BY <1>1, <1>3, <3>6
      <4> QED BY <1>3, <3>2, <3>3, <4>1, <4>2
    <3>8. DOMAIN window = 1..Len(window) /\ Len(window) = ResultLines
      BY <3>2, <3>3
    <3>9. turnStart <= skipped /\ skipped # Len(lines)
      BY <1>1, <1>3, <2>1, <3>6, <3>8
    <3> QED BY <1>1, <2>1, <3>2, <3>3, <3>6, <3>7, <3>8, <3>9
  <2>2. CASE Len(own) <= ResultLines
    <3>1. window = own
      BY <1>1, <1>3, <2>2
    <3> HIDE DEF window
    <3>2. Len(window) = Len(lines) - turnStart
      BY <1>3, <3>1
    <3> HIDE DEF skipped
    <3>3. skipped = turnStart
      BY <1>1, <3>2 DEF skipped
    <3>4. Len(own) \in Nat /\ DOMAIN own = 1..Len(own)
      BY <1>3
    <3>5. skipped = Len(lines) => Len(own) = 0
      BY <1>1, <1>3, <3>3
    <3> QED BY <1>1, <1>3, <3>1, <3>3, <3>4, <3>5
  <2>3. Len(own) > ResultLines \/ Len(own) <= ResultLines
    BY <1>1, <1>3
  <2> QED BY <2>1, <2>2, <2>3
<1> HIDE DEF window
<1>5. readable \in Seq(Line) /\ \A x : In(x, readable) <=> x \in Readable /\ In(x, window)
  BY <1>4, KeepPicks
<1>6. skipped + Len(window) = Len(lines)
  BY <1>1, <1>4
<1> HIDE DEF readable, skipped
<1>7. \A i \in 1..Len(window) : skipped + i \in DOMAIN lines /\ skipped + i > turnStart
  BY <1>1, <1>4, <1>6
<1>8. ASSUME NEW i \in DOMAIN TailLines
      PROVE  \E j \in DOMAIN lines : j > turnStart /\ TailLines[i].of = lines[j].of
  <2>1. i \in DOMAIN readable /\ TailLines[i].of = readable[i].of
    BY <1>2, <1>8
  <2>2. In(readable[i], window)
    BY <1>5, <2>1 DEF In
  <2>3. PICK n \in 1..Len(window) : window[n] = readable[i]
    BY <1>4, <2>2 DEF In
  <2> QED BY <1>4, <1>7, <2>1, <2>3
<1>9. ASSUME NEW n \in 1..Len(window), ~window[n].blank
      PROVE  TailLines # <<>>
  <2>1. window[n] \in Readable
    <3>1. window[n] \in Line
      BY <1>4
    <3>2. window[n].blank = FALSE
      BY <1>9, <3>1 DEF Line
    <3> QED BY <3>1, <3>2 DEF Line, Readable
  <2>2. In(window[n], readable)
    BY <1>4, <1>5, <2>1 DEF In
  <2>3. PICK i \in DOMAIN readable : TRUE
    BY <2>2 DEF In
  <2>4. i \in DOMAIN TailLines
    BY <1>2, <2>3
  <2> QED BY <2>4
<1>10. ASSUME TailLines = <<>>, turnStart <= Limit, Visible
       PROVE  Long
  <2>1. PICK j \in DOMAIN lines : j > turnStart /\ ~lines[j].blank
    BY <1>10 DEF Visible
  <2>2. j \in 1..Len(lines)
    BY <1>1, <2>1
  <2>3. j <= skipped
    <3>1. SUFFICES ASSUME j > skipped PROVE FALSE
      BY <1>1, <1>4, <2>2
    <3>2. j - skipped \in 1..Len(window) /\ skipped + (j - skipped) = j
      BY <1>1, <1>4, <1>6, <2>2, <3>1
    <3>3. window[j - skipped] = lines[j]
      BY <1>4, <3>2
    <3> QED BY <1>9, <1>10, <2>1, <3>2, <3>3
  <2>4. Len(own) > ResultLines
    BY <1>1, <1>3, <1>4, <2>1, <2>2, <2>3
  <2>5. Len(lines) <= Limit
    <3>1. SUFFICES ASSUME Len(lines) > Limit PROVE FALSE
      BY <1>1
    <3>2. Len(lines) = Limit + 1 /\ lines[Limit + 1] = Marker
      BY <3>1 DEF Transcribed
    <3>3. Len(window) > 0
      <4>1. skipped # Len(lines)
        BY <1>1, <1>4, <2>4
      <4> QED BY <1>1, <1>4, <1>6, <4>1
    <3>4. Len(window) \in 1..Len(window) /\ window[Len(window)] = lines[Len(lines)]
      BY <1>4, <1>6, <3>3
    <3>5. ~window[Len(window)].blank
      BY <3>2, <3>4 DEF Marker
    <3> QED BY <1>9, <1>10, <3>4, <3>5
  <2> QED BY <1>1, <1>3, <2>4, <2>5 DEF Long
<1> QED BY <1>8, <1>10

\* In the beginning there are no lines and nothing was heard.
LEMMA InitAnswers == Init => Answers
<1> SUFFICES ASSUME Init PROVE Answers
  OBVIOUS
<1>1. lines = <<>> /\ turnStart = 0 /\ phase = "new" /\ said = FALSE
  BY DEF Init
<1>2. Transcribed
  BY <1>1, OutputAssumption DEF Transcribed
<1> QED BY <1>1, <1>2 DEF Answers, OwnWords, Heard, Unheard

\* What comes before the launch.  The reset block leaves nothing of an earlier
\* turn to answer with.
LEMMA AskAnswers ==
  ASSUME Inv, Answers,
         \/ \E plan \in BOOLEAN, prompt \in Prompts : StartTask(plan, prompt)
         \/ \E prompt \in Prompts : Followup(prompt)
         \/ Reset
         \/ Fail
  PROVE  Answers'
<1> USE DEF Answers, launch, process, task, seen, server
<1>1. CASE \/ \E plan \in BOOLEAN, prompt \in Prompts : StartTask(plan, prompt)
           \/ \E prompt \in Prompts : Followup(prompt)
  <2>1. phase' = "claimed" /\ UNCHANGED <<lines, turnStart>>
    BY <1>1 DEF StartTask, Followup
  <2> QED BY <2>1 DEF Transcribed, OwnWords, Heard, Unheard
<1>2. CASE Reset
  <2>1. /\ phase' = "reset" /\ resultText' = <<>> /\ lastText' = <<>> /\ said' = FALSE
        /\ turnStart' = Len(lines) /\ lines' = lines
    BY <1>2 DEF Reset
  <2>2. Transcribed'
    BY <2>1 DEF Transcribed
  <2>3. \A j \in DOMAIN lines : ~(j > Len(lines))
    BY DEF Transcribed
  <2>4. OwnWords'
    BY <2>1, <2>3 DEF OwnWords, MineOnly
  <2> QED BY <2>1, <2>2, <2>4 DEF Heard, Unheard
<1>3. CASE Fail
  <2>1. phase' = "failed" /\ turnStart' = turnStart
        /\ lines' = Appended([of |-> turn, blank |-> FALSE])
    BY <1>3 DEF Fail
  <2>2. [of |-> turn, blank |-> FALSE] \in Line
    BY DEF Inv, TypeOK, Line
  <2>3. /\ lines' \in Seq(Line)
        /\ Len(lines') > Limit => Len(lines') = Limit + 1 /\ lines'[Limit + 1] = Marker
    BY <2>1, <2>2, AppendedLines
  <2> QED BY <2>1, <2>3 DEF Transcribed, OwnWords, Heard, Unheard
<1> QED BY <1>1, <1>2, <1>3

\* A launch, the end of a pump, a stop and the exit of the worker change neither
\* the lines nor the texts.
LEMMA QuietAnswers ==
  ASSUME Inv, Answers,
         \/ \E endpoint \in BOOLEAN : Launch(endpoint)
         \/ \E k \in Turns : PumpEnds(k)
         \/ \E who \in {"timeout", "cancel"} : Stop(who)
         \/ \E how \in {"ok", "bad"} : WorkerExits(how)
         \/ UNCHANGED vars
  PROVE  Answers'
<1>1. UNCHANGED <<agent, turn, lines, turnStart, resultText, lastText, record, said, late>>
  BY DEF Launch, PumpEnds, Stop, WorkerExits, launch, process, task, seen, server, vars
<1>2. \/ phase' = phase
      \/ phase = "reset" /\ phase' = "running"
      \/ phase = "running" /\ phase' = "exited"
  BY DEF Launch, PumpEnds, Stop, WorkerExits, launch, process, task, seen, server, vars
<1>3. Transcribed'
  BY <1>1, <1>2 DEF Answers, Transcribed
<1>4. OwnWords'
  BY <1>1, <1>2 DEF Answers, OwnWords, MineOnly, Mine
<1>5. Heard' /\ Unheard'
  BY <1>1, <1>2 DEF Answers, Heard, Unheard, Visible, Long
<1> QED BY <1>3, <1>4, <1>5 DEF Answers

\* A line that is read, of either stream: what it brings is the turn's own, or
\* its pump was late, and a line with something on it can be seen.
LEMMA LineAnswers ==
  ASSUME Inv, Answers, NEW k \in Turns, NEW line \in Line,
         line.of = k, lines' = Appended(line),
         late' = IF InTime(k) THEN late ELSE late \cup {k},
         UNCHANGED <<phase, turn, turnStart>>
  PROVE  /\ Transcribed'
         /\ turn' = turn /\ late \subseteq late' /\ k \in {turn} \cup late'
         /\ phase \in {"reset", "running", "exited"} =>
              \A j \in DOMAIN lines' : j > turnStart => lines'[j].of \in {turn, 0} \cup late'
         /\ Visible => Visible'
         /\ Long => Long'
         /\ phase \in {"reset", "running", "exited"} /\ turnStart <= Limit /\ ~line.blank
              => Visible'
<1>1. Transcribed
  BY DEF Answers
<1>2. /\ lines' \in Seq(Line)
      /\ Len(lines) <= Len(lines')
      /\ Len(lines') > Limit => Len(lines') = Limit + 1 /\ lines'[Limit + 1] = Marker
      /\ \A j \in DOMAIN lines : j \in DOMAIN lines' /\ lines'[j] = lines[j]
      /\ \A j \in DOMAIN lines' : j \in DOMAIN lines \/ lines'[j] \in {line, Marker}
      /\ ~line.blank /\ turnStart <= Len(lines) /\ turnStart <= Limit =>
           \E j \in DOMAIN lines' : j > turnStart /\ ~lines'[j].blank
  BY <1>1, AppendedLines
<1>3. /\ Len(lines) \in Nat /\ Len(lines') \in Nat /\ turnStart \in Nat
      /\ phase \in {"reset", "running", "exited"} => turnStart <= Len(lines)
  BY <1>1, <1>2 DEF Transcribed
<1>4. Transcribed'
  BY <1>2, <1>3 DEF Transcribed
<1>5. turn' = turn /\ late \subseteq late' /\ k \in {turn} \cup late'
  BY DEF InTime
<1>6. ASSUME phase \in {"reset", "running", "exited"}, NEW j \in DOMAIN lines', j > turnStart
      PROVE  lines'[j].of \in {turn, 0} \cup late'
  <2>1. CASE j \in DOMAIN lines
    <3>1. lines[j].of \in {turn, 0} \cup late
      BY <1>6, <2>1 DEF Answers, OwnWords, Mine
    <3> QED BY <1>2, <1>5, <2>1, <3>1
  <2>2. CASE j \notin DOMAIN lines
    BY <1>2, <1>5, <2>2 DEF Marker
  <2> QED BY <2>1, <2>2
<1>7. Visible => Visible'
  BY <1>2 DEF Visible
<1>8. Long => Long'
  BY <1>2, <1>3, OutputAssumption DEF Long
<1>9. phase \in {"reset", "running", "exited"} /\ turnStart <= Limit /\ ~line.blank => Visible'
  BY <1>2, <1>3 DEF Visible
<1> QED BY <1>4, <1>5, <1>6, <1>7, <1>8, <1>9

LEMMA ReadStderrAnswers ==
  ASSUME Inv, Answers, NEW k \in Turns, ReadStderr(k)
  PROVE  Answers'
<1> DEFINE line == [of |-> k, blank |-> FALSE]
<1>1. line \in Line /\ line.of = k
  BY DEF Line, Turns
<1>2. /\ lines' = Appended(line)
      /\ late' = IF InTime(k) THEN late ELSE late \cup {k}
      /\ UNCHANGED <<agent, phase, turn, turnStart, resultText, lastText, record, said>>
  BY DEF ReadStderr, launch, process, server
<1> HIDE DEF line
<1>3. /\ Transcribed'
      /\ turn' = turn /\ late \subseteq late'
      /\ phase \in {"reset", "running", "exited"} =>
           \A j \in DOMAIN lines' : j > turnStart => lines'[j].of \in {turn, 0} \cup late'
      /\ Visible => Visible'
      /\ Long => Long'
  BY <1>1, <1>2, LineAnswers
<1>4. OwnWords'
  BY <1>2, <1>3 DEF Answers, OwnWords, MineOnly, Mine
<1>5. Heard' /\ Unheard'
  BY <1>2, <1>3 DEF Answers, Heard, Unheard
<1> QED BY <1>3, <1>4, <1>5 DEF Answers

LEMMA ReadLineAnswers ==
  ASSUME Inv, Answers, NEW k \in Turns, ReadLine(k)
  PROVE  Answers'
<1>1. PICK l \in NextLines(k) :
        LET ev == ParseLine(agent, l, k)
        IN  /\ lines' = Appended([of |-> k, blank |-> l.form = "blank"])
            /\ lastText' = IF ev.text # <<>> THEN ev.text ELSE lastText
            /\ resultText' = IF ev.final /\ ev.finalText # <<>> THEN ev.finalText ELSE resultText
            /\ said' = (said \/ (InTime(k) /\ (ev.text # <<>> \/ ev.finalText # <<>>)))
  BY DEF ReadLine
<1> DEFINE ev == ParseLine(agent, l, k)
           line == [of |-> k, blank |-> l.form = "blank"]
<1>2. Speaks(ev, k) /\ (UseOutputAsResult(agent) /\ ev.text # <<>> => l.form # "blank")
  BY NextLineSpeaks
<1> HIDE DEF ev
<1>3. /\ lines' = Appended(line)
      /\ lastText' = IF ev.text # <<>> THEN ev.text ELSE lastText
      /\ resultText' = IF ev.final /\ ev.finalText # <<>> THEN ev.finalText ELSE resultText
      /\ said' <=> said \/ (InTime(k) /\ (ev.text # <<>> \/ ev.finalText # <<>>))
  BY <1>1 DEF ev
<1>4. /\ late' = IF InTime(k) THEN late ELSE late \cup {k}
      /\ UNCHANGED <<agent, phase, turn, turnStart, record>>
  BY DEF ReadLine, launch, process, server
<1>5. line \in Line /\ line.of = k /\ (line.blank <=> l.form = "blank")
  <2>1. ASSUME NEW b \in BOOLEAN
        PROVE  /\ [of |-> k, blank |-> b] \in Line
               /\ [of |-> k, blank |-> b].of = k /\ [of |-> k, blank |-> b].blank = b
    BY DEF Line, Turns
  <2>2. (l.form = "blank") \in BOOLEAN
    OBVIOUS
  <2>3. line \in Line /\ line.of = k /\ line.blank = (l.form = "blank")
    BY <2>1, <2>2, Zenon
  <2> QED BY <2>3
<1> HIDE DEF line
<1>6. /\ Transcribed'
      /\ turn' = turn /\ late \subseteq late' /\ k \in {turn} \cup late'
      /\ phase \in {"reset", "running", "exited"} =>
           \A j \in DOMAIN lines' : j > turnStart => lines'[j].of \in {turn, 0} \cup late'
      /\ Visible => Visible'
      /\ Long => Long'
      /\ phase \in {"reset", "running", "exited"} /\ turnStart <= Limit /\ ~line.blank
           => Visible'
  BY <1>3, <1>4, <1>5, LineAnswers
<1>7. /\ \A i \in DOMAIN ev.text : ev.text[i].of = k
      /\ \A i \in DOMAIN ev.finalText : ev.finalText[i].of = k
      /\ ev.finalText # <<>> => ev.final
  <2>1. ASSUME NEW text \in Seq(Words(k)), NEW i \in DOMAIN text
        PROVE  text[i].of = k
    <3>1. text[i] \in Words(k)
      OBVIOUS
    <3> QED BY <3>1 DEF Words
  <2> QED BY <1>2, <2>1 DEF Speaks
<1>8. OwnWords'
  <2>1. ASSUME MineOnly(resultText)
        PROVE  MineOnly(resultText)'
    BY <1>3, <1>6, <1>7, <2>1 DEF MineOnly, Mine
  <2>2. ASSUME MineOnly(lastText)
        PROVE  MineOnly(lastText)'
    BY <1>3, <1>6, <1>7, <2>2 DEF MineOnly, Mine
  <2>3. ASSUME MineOnly(record.result)
        PROVE  MineOnly(record.result)'
    BY <1>4, <1>6, <2>3 DEF MineOnly, Mine
  <2> QED BY <1>4, <1>6, <2>1, <2>2, <2>3 DEF Answers, OwnWords, Mine
<1>9. Heard'
  <2> SUFFICES ASSUME said' PROVE Heard'
    BY DEF Heard
  <2>1. (resultText # <<>> => resultText' # <<>>) /\ (lastText # <<>> => lastText' # <<>>)
    BY <1>3
  <2>2. CASE said
    BY <1>4, <1>6, <2>1, <2>2 DEF Answers, Heard
  <2>3. CASE ~said
    <3>1. InTime(k) /\ (ev.text # <<>> \/ ev.finalText # <<>>)
      BY <1>3, <2>3
    <3>2. phase \in {"running", "exited"}
      BY <3>1 DEF InTime
    <3>3. ev.finalText # <<>> => resultText' # <<>>
      BY <1>3, <1>7
    <3>4. ev.text # <<>> => lastText' # <<>>
      BY <1>3
    <3>5. ev.text # <<>> /\ UseOutputAsResult(agent) => (turnStart <= Limit => Visible')
      BY <1>2, <1>5, <1>6, <3>2
    <3> QED BY <1>4, <3>1, <3>2, <3>3, <3>4, <3>5 DEF Heard
  <2> QED BY <2>2, <2>3
<1>10. Unheard'
  BY <1>3, <1>4 DEF Answers, Unheard, InTime
<1> QED BY <1>6, <1>8, <1>9, <1>10 DEF Answers

\* The final block: the answer is of the turn, and there is one if something was
\* heard, unless it is a custom agent's that has slipped out of what is kept.
LEMMA SettleAnswers ==
  ASSUME Inv, Answers, Settle
  PROVE  Answers'
<1>1. /\ phase = "exited" /\ phase' = "over"
      /\ resultText' = Answer /\ record'.result = Answer
      /\ UNCHANGED <<agent, turn, turnStart, lines, said, late>>
  BY DEF Settle, launch, process, seen
<1>2. /\ MineOnly(resultText) /\ MineOnly(lastText)
      /\ \A j \in DOMAIN lines : j > turnStart => Mine(lines[j].of)
  BY <1>1 DEF Answers, OwnWords
<1>3. /\ \A i \in DOMAIN TailLines :
           \E j \in DOMAIN lines : j > turnStart /\ TailLines[i].of = lines[j].of
      /\ TailLines = <<>> /\ turnStart <= Limit /\ Visible => Long
  BY <1>1, TailOfTurn DEF Answers, Transcribed
<1>4. \A i \in DOMAIN Answer : Answer[i].of \in {turn, 0} \cup late
  BY <1>2, <1>3 DEF Answer, MineOnly, Mine
<1>5. said => \/ Answer # <<>>
              \/ UseOutputAsResult(agent) /\ (turnStart <= Limit => Long)
  BY <1>1, <1>3 DEF Answers, Heard, Answer
<1>6. Transcribed'
  BY <1>1 DEF Answers, Transcribed
<1>7. OwnWords'
  BY <1>1, <1>4 DEF OwnWords, MineOnly, Mine
<1>8. Heard' /\ Unheard'
  BY <1>1, <1>5 DEF Heard, Unheard, Long
<1> QED BY <1>6, <1>7, <1>8 DEF Answers

\* A server started later has the answer from the record, and the transcript
\* without the marker.
LEMMA RestartAnswers ==
  ASSUME Inv, Answers, Restart
  PROVE  Answers'
<1> USE OutputAssumption
<1> DEFINE n == IF Len(lines) > Limit THEN Limit ELSE Len(lines)
<1>1. /\ phase = "over" /\ phase' = "over"
      /\ resultText' = record.result /\ lines' = SubSeq(lines, 1, n)
      /\ UNCHANGED <<agent, turn, turnStart, record, said, late>>
  BY DEF Restart, launch, process, seen
<1>2. lines \in Seq(Line) /\ Len(lines) \in Nat /\ turnStart \in Nat
  BY DEF Answers, Transcribed
<1>3. n \in 0..Len(lines) /\ n <= Limit
  BY <1>2
<1>4. lines' \in Seq(Line) /\ Len(lines') = n
  <2> HIDE DEF n
  <2> QED BY <1>1, <1>2, <1>3, SubSeqProperties
<1>5. Transcribed'
  <2>1. ~(Len(lines') > Limit)
    BY <1>3, <1>4
  <2> QED BY <1>1, <1>2, <1>4, <2>1 DEF Transcribed
<1>6. OwnWords'
  BY <1>1 DEF Answers, OwnWords, MineOnly, Mine
<1>7. Long => Long'
  BY <1>1, <1>2, <1>3, <1>4 DEF Long
<1>8. Heard' /\ Unheard'
  BY <1>1, <1>7 DEF Answers, Heard, Unheard
<1> QED BY <1>5, <1>6, <1>8 DEF Answers

\* Every step keeps what can be said about the answers.
LEMMA NextAnswers == Inv /\ Answers /\ [Next]_vars => Answers'
<1> SUFFICES ASSUME Inv, Answers, [Next]_vars PROVE Answers'
  OBVIOUS
<1> QED BY AskAnswers, QuietAnswers, ReadLineAnswers, ReadStderrAnswers, SettleAnswers,
           RestartAnswers DEF Next

LEMMA AnswersAlways == Spec => []Answers
<1>1. Init => Inv /\ Answers
  BY InitInv, InitAnswers
<1>2. Inv /\ Answers /\ [Next]_vars => (Inv /\ Answers)'
  BY NextInv, NextAnswers
<1> QED BY <1>1, <1>2, PTL DEF Spec

\* A settled turn answers with its own words, or with those of a pump that read
\* on after its turn, however many turns there were before.
THEOREM AnswerIsOwn == Spec => []AnswerIsOfThisTurn
<1>1. Answers => AnswerIsOfThisTurn
  BY DEF Answers, OwnWords, MineOnly, Mine, AnswerIsOfThisTurn
<1> QED BY <1>1, AnswersAlways, PTL

\* Whoever was heard while the turn lasted has an answer at its end.
THEOREM HeardIsAnswered == Spec => []SaidIsAnswered
<1>1. Answers => SaidIsAnswered
  <2> SUFFICES ASSUME Answers, phase = "over", said, resultText = <<>>,
                      UseOutputAsResult(agent) => turnStart <= Limit
                                                  /\ Len(lines) - turnStart <= ResultLines
               PROVE  FALSE
    BY DEF SaidIsAnswered
  <2>1. UseOutputAsResult(agent) /\ Long
    BY DEF Answers, Heard
  <2> QED BY <2>1, OutputAssumption DEF Answers, Transcribed, Long
<1> QED BY <1>1, AnswersAlways, PTL
=============================================================================
