------------------------------- MODULE Grants -------------------------------
(***************************************************************************)
(* The permissions a person has granted for good: internal/grants.  A      *)
(* grant names a tool and, for a shell tool, the program it may run; the   *)
(* store keeps a list of them under one mutex, so each call is one step.   *)
(*                                                                         *)
(* The code compares names with EqualFold: a name here stands for all its  *)
(* spellings.                                                              *)
(***************************************************************************)

CONSTANTS
  Tools,      \* tool names
  Commands,   \* program names as CommandVerb extracts them, "" among them
  Verb        \* what CommandVerb makes of such a name, a second time

ASSUME GrantsAssumption ==
  /\ "" \in Commands
  /\ Verb \in [Commands -> Commands]
  /\ Verb[""] = ""

Grant == [tool : Tools, command : Commands]

\* A name that CommandVerb leaves as it is: it has no space and no "=" in it.
Names(command) == Verb[command] = command

\* A grant covers a use of its tool when it is for the whole tool, or when the
\* first word of the command is the program it was given for.
Allows(list, tool, command) ==
  \E g \in list :
    /\ g.tool = tool
    /\ \/ g.command = ""
       \/ Verb[command] # "" /\ g.command = Verb[command]

\* Mutant: a tool with some grant is taken for a tool that is granted.
AddedToNewTools(list, g) ==
  IF \E h \in list : h.tool = g.tool
  THEN list
  ELSE list \cup {g}

\* Adding a grant an existing one covers changes nothing; a grant for a whole
\* tool replaces the narrower ones of that tool.
Added(list, g) ==
  IF \E h \in list : h.tool = g.tool /\ h.command \in {"", g.command}
  THEN list
  ELSE {h \in list : g.command # "" \/ h.tool # g.tool} \cup {g}

\* Without a command every grant of the tool goes.
Removed(list, tool, command) ==
  {h \in list : h.tool # tool \/ command \notin {"", h.command}}
=============================================================================
