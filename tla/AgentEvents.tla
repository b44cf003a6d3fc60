---------------------------- MODULE AgentEvents ----------------------------
(***************************************************************************)
(* What the adapters of internal/agent understand of one line an agent     *)
(* prints: ParseLine of each adapter, as a function from a line to an      *)
(* event.                                                                  *)
(*                                                                         *)
(* A line is a record of what its JSON holds.  A text is the sequence of   *)
(* the words it is put together from, empty when the code's string is; a   *)
(* word says where in the line it comes from and which turn's worker wrote *)
(* it.  Lines that are no JSON object have a form of their own:            *)
(*   blank   white space only                                              *)
(*   plain   anything else that does not begin with a brace                *)
(*   broken  begins with a brace and does not parse                        *)
(***************************************************************************)
EXTENDS Naturals, Sequences, SequencesExt

NoSession == "none"

Agents == {"claude", "cursor", "kimi", "custom", "mock"}

\* A text of one word, empty when the field is.
Text(said, where, turn) == IF said THEN <<[from |-> where, of |-> turn]>> ELSE <<>>

NoUsage == [cost |-> 0, turns |-> 0]

\* The Event of a line of which nothing but the raw text is kept.
Nothing ==
  [session |-> NoSession, model |-> FALSE, text |-> <<>>,
   final |-> FALSE, finalError |-> FALSE, finalText |-> <<>>,
   tool |-> FALSE, toolResult |-> FALSE, toolResultError |-> FALSE, usage |-> NoUsage]

\* Usage.Add: what is counted adds up, the agent's own count of its turns is a
\* running total.  Nothing was reported when all of it is zero (Usage.Empty).
Plus(u, v) ==
  [cost |-> u.cost + v.cost, turns |-> IF v.turns > u.turns THEN v.turns ELSE u.turns]

-----------------------------------------------------------------------------
(* Claude Code, and the mock agent: a discriminator type, and blocks in    *)
(* the message of an assistant or a user, whose texts are joined, the      *)
(* empty ones left out (appendPart).  A message that does not decode has   *)
(* no blocks.                                                              *)

\* terminalReason: why a run stopped that has no result to show.
Reason(l, turn) == Text(l.reason # "none", "reason", turn)

\* A block of a message: its kind, and whether it has what the kind is read for.
Block == [is : {"text", "tool_use", "tool_result", "other"}, said : BOOLEAN, isError : BOOLEAN]

AssistantPart(b, turn) ==
  CASE b.is = "text"     -> Text(b.said, "text", turn)
    [] b.is = "tool_use" -> Text(b.said, "tool", turn)
    [] OTHER             -> <<>>

\* The last line a tool printed.  A failure without output is made visible.
ToolPart(b, turn) ==
  IF b.is # "tool_result" THEN <<>> ELSE Text(b.said \/ b.isError, "output", turn)

Blocks(l) == {l.blocks[i] : i \in DOMAIN l.blocks}

ClaudeText(l, turn) ==
  CASE l.form = "json" /\ l.type = "assistant" ->
         FlattenSeq([i \in DOMAIN l.blocks |-> AssistantPart(l.blocks[i], turn)])
    [] l.form = "json" /\ l.type = "user" ->
         FlattenSeq([i \in DOMAIN l.blocks |-> ToolPart(l.blocks[i], turn)])
    [] OTHER -> <<>>

ClaudeParse(l, turn) ==
  LET is(type) == l.form = "json" /\ l.type = type
      ended    == is("result")
  IN  [session         |-> IF l.form = "json" THEN l.session ELSE NoSession,
       model           |-> l.form = "json" /\ l.model,
       text            |-> ClaudeText(l, turn),
       final           |-> ended,
       finalError      |-> ended /\ l.isError,
       finalText       |-> IF ~ended THEN <<>>
                           ELSE IF l.said THEN Text(TRUE, "result", turn) ELSE Reason(l, turn),
       tool            |-> is("assistant") /\ \E b \in Blocks(l) : b.is = "tool_use" /\ b.said,
       toolResult      |-> is("user") /\ \E b \in Blocks(l) : b.is = "tool_result",
       toolResultError |-> is("user") /\ \E b \in Blocks(l) : b.is = "tool_result" /\ b.isError,
       usage           |-> IF ended THEN [cost |-> l.cost, turns |-> l.turns] ELSE NoUsage]

-----------------------------------------------------------------------------
(* Agents whose schema is not pinned: Cursor, and whatever is configured   *)
(* as the custom agent.  A line's session is the one under the first of    *)
(* sessionKeys that has a string.  `type` is sorted into the values that   *)
(* mean an end ("final"), those that mean speech ("message"), and others.  *)

TolerantParse(l, turn, plainAsText) ==
  LET seen  == [Nothing EXCEPT !.session = l.session]
      words == Text(l.text, "text", turn)
  IN  CASE l.form # "json" ->
             [Nothing EXCEPT !.text = Text(plainAsText /\ l.form # "blank", "line", turn)]
        [] l.form = "json" /\ l.type = "final" ->
             [seen EXCEPT
                !.final = TRUE,
                !.finalError = l.isError,
                !.finalText = CASE l.result = "said"   -> Text(TRUE, "result", turn)
                                [] l.result = "empty"  -> <<>>
                                [] l.result = "absent" -> words]
        [] l.form = "json" /\ l.type = "message" -> [seen EXCEPT !.text = words]
        [] OTHER -> [seen EXCEPT !.text = IF plainAsText THEN words ELSE <<>>]

-----------------------------------------------------------------------------
(* Kimi Code: a discriminator role, and no event that ends a run.          *)

KimiParse(l, turn) ==
  LET seen == [Nothing EXCEPT !.session = l.session]
      content == Text(l.said, "text", turn)
  IN  CASE l.form \in {"blank", "plain"} ->
             [Nothing EXCEPT !.text = Text(l.form = "plain", "line", turn)]
        [] l.form = "broken" -> Nothing
        [] l.form = "json" /\ l.role = "assistant" ->
             [seen EXCEPT !.text = content \o Text(l.calls, "tool", turn), !.tool = l.calls]
        [] l.form = "json" /\ l.role = "tool" ->
             [seen EXCEPT !.text = Text(l.said \/ l.isError, "output", turn),
                          !.toolResult = TRUE,
                          !.toolResultError = l.isError]
        [] l.form = "json" /\ l.role = "meta" ->
             [seen EXCEPT !.text = IF l.error THEN content ELSE <<>>]
        [] OTHER -> [seen EXCEPT !.text = content]

-----------------------------------------------------------------------------

\* ParseLine of the adapter of an agent.
ParseLine(agent, l, turn) ==
  CASE agent \in {"claude", "mock"} -> ClaudeParse(l, turn)
    [] agent = "cursor" -> TolerantParse(l, turn, FALSE)
    [] agent = "custom" -> TolerantParse(l, turn, TRUE)
    [] agent = "kimi"   -> KimiParse(l, turn)

\* Only the custom agent has what it printed for a result.
UseOutputAsResult(agent) == agent = "custom"

\* CanPlan: who can be trusted with a turn that executes nothing.
CanPlan(agent) == agent \in {"claude", "mock"}
=============================================================================
