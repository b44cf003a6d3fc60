---- MODULE MCTurnOutput ----
(* A small instance of TurnOutput for TLC: for each agent a few lines that  *)
(* between them leave every field of an event set and unset.               *)
EXTENDS TurnOutput

Claude(type, blocks) ==
  [form |-> "json", type |-> type, blocks |-> blocks, session |-> "s1", model |-> TRUE,
   isError |-> FALSE, said |-> FALSE, reason |-> "none", cost |-> 0, turns |-> 1]

Tolerant(type, result, text) ==
  [form |-> "json", type |-> type, session |-> "s1", isError |-> FALSE,
   result |-> result, text |-> text]

Kimi(role, has, uses) ==
  [form |-> "json", role |-> role, session |-> NoSession, said |-> has, calls |-> uses,
   isError |-> FALSE, error |-> FALSE]

MCLines ==
  [claude |-> {
     [form |-> "broken"],
     Claude("assistant", MockBlock("text", TRUE, FALSE) \o MockBlock("tool_use", TRUE, FALSE)),
     [Claude("result", <<>>) EXCEPT !.said = TRUE, !.cost = 1],
     [Claude("result", <<>>) EXCEPT !.isError = TRUE, !.reason = "max_turns", !.cost = 2]},
   cursor |-> {
     [form |-> "plain"],
     Tolerant("message", "absent", TRUE),
     [Tolerant("final", "empty", FALSE) EXCEPT !.isError = TRUE],
     Tolerant("final", "absent", TRUE)},
   custom |-> {
     [form |-> "blank"], [form |-> "plain"],
     Tolerant("other", "absent", TRUE),
     Tolerant("final", "said", FALSE)},
   kimi |-> {
     [form |-> "plain"], [form |-> "broken"],
     Kimi("assistant", TRUE, TRUE),
     [Kimi("tool", FALSE, FALSE) EXCEPT !.isError = TRUE],
     [Kimi("meta", TRUE, FALSE) EXCEPT !.session = "s1"]}]
====
