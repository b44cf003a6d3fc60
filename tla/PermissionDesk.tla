--------------------------- MODULE PermissionDesk ---------------------------
(***************************************************************************)
(* How a worker gets permission for a tool it was not given: the approval  *)
(* endpoint (internal/approval), the desk that decides (permissions.go),   *)
(* the requests parked in the task manager (internal/task/permission.go)   *)
(* and the tools by which a person answers and revokes                     *)
(* (permission_tools.go), over the grants of module Grants and the file    *)
(* they are kept in, across restarts of the server.                        *)
(*                                                                         *)
(* A request is one tool call of a worker, made in one turn of its task.   *)
(* Every step is one acquisition of a lock (the broker's, the desk's, the  *)
(* task's, the store's) or one choice of a select; the rest interleaves.   *)
(***************************************************************************)
EXTENDS Naturals, Grants

CONSTANTS
  Tasks,
  Requests,
  MaxTurns,    \* bound: turns per task that hand out an approval URL, per start
  MaxStarts,   \* bound: starts of the server
  Owner,       \* the task whose worker makes a request
  Wants,       \* the tool and command a request is for
  NoRequest

ASSUME DeskAssumption ==
  /\ MaxTurns \in Nat \ {0}
  /\ MaxStarts \in Nat \ {0}
  /\ Owner \in [Requests -> Tasks]
  /\ Wants \in [Requests -> Grant]
  /\ NoRequest \notin Requests

Turns == 1..MaxTurns
NoTurn == 0

(***************************************************************************)
(* A turn is idle, open (its worker may ask), settled (the worker is gone, *)
(* the deferred release is still to run), revoked (the token is gone, the  *)
(* session entry not yet), or over.                                        *)
(*                                                                         *)
(* A request is idle, asked (sent to the endpoint), routed (its token was  *)
(* valid), unlisted (no grant covers it), eliciting (put to the client),   *)
(* parking (AskPermission begins), pended (in the desk's map), waiting     *)
(* (in the select), leaving and cleared (the deferred cleanup), or done.   *)
(***************************************************************************)
VARIABLES
  turn,        \* phase of each turn of each task
  session,     \* desk.sessions has an entry for the task
  canElicit,   \* the server's client can be asked directly; fixed at initialize
  req,         \* phase of each request
  by,          \* the turn a request was made in
  decision,    \* "none", "allow" or "deny"
  pending,     \* m.desk.pending
  shown,       \* t.pending: the request a task's status shows, or NoRequest
  answer,      \* the request's buffered channel: "none", "yes" or "no"
  hand,        \* what an answering call holds after it took the request
  meant,       \* the request the answering call is about, or NoRequest
  consent,     \* requests somebody has said yes to, now or by a grant
  granted,     \* grants.Store.list
  stored,      \* the list in grants.json
  opened,      \* the store could read that file when it was opened
  revoked,     \* uses a person was told are revoked, and nobody granted since
  starts       \* how often the server was started

turnVars   == <<turn, session, canElicit>>
parkVars   == <<pending, shown>>
answerVars == <<answer, hand, meant>>
grantVars  == <<granted, stored, opened, revoked>>
vars == <<turnVars, req, by, decision, parkVars, answerVars, consent, grantVars, starts>>

(***************************************************************************)
(* What a client says of itself at initialize, if it has initialized.      *)
(***************************************************************************)
Clients == [initialized : BOOLEAN, elicits : BOOLEAN, unprompted : BOOLEAN]

\* A client is asked directly only if it can be elicited, by a protocol that
\* lets the server open the question.
CannotAsk(client) ==
  \/ ~client.initialized
  \/ ~client.elicits
  \/ ~client.unprompted

Answerable == {~CannotAsk(client) : client \in Clients}

Init ==
  /\ turn = [t \in Tasks |-> [k \in Turns |-> "idle"]]
  /\ session = [t \in Tasks |-> FALSE]
  /\ canElicit \in Answerable
  /\ req = [r \in Requests |-> "idle"]
  /\ by = [r \in Requests |-> NoTurn]
  /\ decision = [r \in Requests |-> "none"]
  /\ pending = {}
  /\ shown = [t \in Tasks |-> NoRequest]
  /\ answer = [r \in Requests |-> "none"]
  /\ hand = [r \in Requests |-> "none"]
  /\ meant = [r \in Requests |-> NoRequest]
  /\ consent = {}
  /\ granted = {}
  /\ stored = {}
  /\ opened = TRUE
  /\ revoked = {}
  /\ starts = 1

\* Broker.grants has the token of the turn.
TokenValid(t, k) == turn[t][k] \in {"open", "settled"}

Move(r, from, to) ==
  /\ req[r] = from
  /\ req' = [req EXCEPT ![r] = to]

-----------------------------------------------------------------------------
(* The turn: runTurn asks the approver for a grant and defers its release. *)

\* NewGrant: a fresh token, in the endpoint's map before anybody can use it.
TokenIssued(t, k) ==
  /\ turn[t][k] = "idle"
  /\ turn' = [turn EXCEPT ![t][k] = "open"]

\* A token is issued and the session recorded before the worker starts.  The
\* next turn of a task may begin as soon as the previous one is not running,
\* whether or not its release has been reached.
TurnOpens(t, k) ==
  /\ k > 1 => turn[t][k - 1] \notin {"idle", "open"}
  /\ TokenIssued(t, k)
  /\ session' = [session EXCEPT ![t] = TRUE]
  /\ UNCHANGED <<canElicit, req, by, decision, parkVars, answerVars, consent, grantVars, starts>>

\* The worker is gone and the task no longer running.
TurnSettles(t, k) ==
  /\ turn[t][k] = "open"
  /\ turn' = [turn EXCEPT ![t][k] = "settled"]
  /\ UNCHANGED <<session, canElicit, req, by, decision, parkVars, answerVars, consent,
                 grantVars, starts>>

\* release, first half: Grant.Close revokes the token.
TokenRevoked(t, k) ==
  /\ turn[t][k] = "settled"
  /\ turn' = [turn EXCEPT ![t][k] = "revoked"]
  /\ UNCHANGED <<session, canElicit, req, by, decision, parkVars, answerVars, consent,
                 grantVars, starts>>

\* release, second half: the entry of the task is deleted, whoever made it.
SessionDropped(t, k) ==
  /\ turn[t][k] = "revoked"
  /\ turn' = [turn EXCEPT ![t][k] = "over"]
  /\ session' = [session EXCEPT ![t] = FALSE]
  /\ UNCHANGED <<canElicit, req, by, decision, parkVars, answerVars, consent, grantVars, starts>>

-----------------------------------------------------------------------------
(* The request, from the endpoint to Decide.                               *)

\* The worker calls the permission tool of its turn.
Ask(r, k) ==
  /\ turn[Owner[r]][k] = "open"
  /\ Move(r, "idle", "asked")
  /\ by' = [by EXCEPT ![r] = k]
  /\ UNCHANGED <<turnVars, decision, parkVars, answerVars, consent, grantVars, starts>>

\* serverFor knows the token.
Route(r) ==
  /\ Move(r, "asked", "routed")
  /\ TokenValid(Owner[r], by[r])
  /\ UNCHANGED <<turnVars, by, decision, parkVars, answerVars, consent, grantVars, starts>>

\* It does not: every request is refused.
RouteRefused(r) ==
  /\ Move(r, "asked", "done")
  /\ ~TokenValid(Owner[r], by[r])
  /\ decision' = [decision EXCEPT ![r] = "deny"]
  /\ UNCHANGED <<turnVars, by, parkVars, answerVars, consent, grantVars, starts>>

\* What is already granted is allowed without asking.
AllowGranted(r) ==
  /\ Allows(granted, Wants[r].tool, Wants[r].command)
  /\ Move(r, "routed", "done")
  /\ decision' = [decision EXCEPT ![r] = "allow"]
  /\ consent' = consent \cup {r}
  /\ UNCHANGED <<turnVars, by, parkVars, answerVars, grantVars, starts>>

AskSomebody(r) ==
  /\ ~Allows(granted, Wants[r].tool, Wants[r].command)
  /\ Move(r, "routed", "unlisted")
  /\ UNCHANGED <<turnVars, by, decision, parkVars, answerVars, consent, grantVars, starts>>

\* A session that can be elicited is asked directly.
Elicit(r) ==
  /\ session[Owner[r]] /\ canElicit
  /\ Move(r, "unlisted", "eliciting")
  /\ UNCHANGED <<turnVars, by, decision, parkVars, answerVars, consent, grantVars, starts>>

ElicitedYes(r) ==
  /\ Move(r, "eliciting", "done")
  /\ decision' = [decision EXCEPT ![r] = "allow"]
  /\ consent' = consent \cup {r}
  /\ UNCHANGED <<turnVars, by, parkVars, answerVars, grantVars, starts>>

\* Declined, dismissed, timed out or failed.
ElicitedNo(r) ==
  /\ Move(r, "eliciting", "done")
  /\ decision' = [decision EXCEPT ![r] = "deny"]
  /\ UNCHANGED <<turnVars, by, parkVars, answerVars, consent, grantVars, starts>>

\* Anything else is parked.
Park(r) ==
  /\ ~(session[Owner[r]] /\ canElicit)
  /\ Move(r, "unlisted", "parking")
  /\ UNCHANGED <<turnVars, by, decision, parkVars, answerVars, consent, grantVars, starts>>

-----------------------------------------------------------------------------
(* AskPermission                                                           *)

\* The task has left the registry: it ended, or an eviction raced the claim of
\* its follow-up.
ParkRefused(r) ==
  /\ Move(r, "parking", "done")
  /\ decision' = [decision EXCEPT ![r] = "deny"]
  /\ UNCHANGED <<turnVars, by, parkVars, answerVars, consent, grantVars, starts>>

\* Under the desk's lock.
Pend(r) ==
  /\ Move(r, "parking", "pended")
  /\ pending' = pending \cup {r}
  /\ UNCHANGED <<turnVars, by, decision, shown, answerVars, consent, grantVars, starts>>

\* Under the task's lock: the latest request is the one its status shows.
Show(r) ==
  /\ Move(r, "pended", "waiting")
  /\ shown' = [shown EXCEPT ![Owner[r]] = r]
  /\ UNCHANGED <<turnVars, by, decision, pending, answerVars, consent, grantVars, starts>>

\* The three ways out of the select.  When several are ready, any is taken.
Receive(r) ==
  /\ answer[r] # "none"
  /\ Move(r, "waiting", "leaving")
  /\ decision' = [decision EXCEPT ![r] = IF answer[r] = "yes" THEN "allow" ELSE "deny"]
  /\ answer' = [answer EXCEPT ![r] = "none"]
  /\ UNCHANGED <<turnVars, by, parkVars, hand, meant, consent, grantVars, starts>>

\* Mutant: silence is consent.
TimesOutAllows(r) ==
  /\ Move(r, "waiting", "leaving")
  /\ decision' = [decision EXCEPT ![r] = "allow"]
  /\ UNCHANGED <<turnVars, by, parkVars, answerVars, consent, grantVars, starts>>

\* Mutant: only the request the task shows has a timer.
TimesOutIfShown(r) ==
  /\ shown[Owner[r]] = r
  /\ Move(r, "waiting", "leaving")
  /\ decision' = [decision EXCEPT ![r] = "deny"]
  /\ UNCHANGED <<turnVars, by, parkVars, answerVars, consent, grantVars, starts>>

TimesOut(r) ==
  /\ Move(r, "waiting", "leaving")
  /\ decision' = [decision EXCEPT ![r] = "deny"]
  /\ UNCHANGED <<turnVars, by, parkVars, answerVars, consent, grantVars, starts>>

\* The connection of the worker is gone: it ended, or it gave up waiting.
Abandoned(r) ==
  /\ Move(r, "waiting", "leaving")
  /\ decision' = [decision EXCEPT ![r] = "deny"]
  /\ UNCHANGED <<turnVars, by, parkVars, answerVars, consent, grantVars, starts>>

\* Mutant: the request is left in the desk's map.
UnpendForgotten(r) ==
  /\ Move(r, "leaving", "cleared")
  /\ UNCHANGED <<turnVars, by, decision, parkVars, answerVars, consent, grantVars, starts>>

\* The deferred cleanup, under the desk's lock ...
Unpend(r) ==
  /\ Move(r, "leaving", "cleared")
  /\ pending' = pending \ {r}
  /\ UNCHANGED <<turnVars, by, decision, shown, answerVars, consent, grantVars, starts>>

\* ... and under the task's, unless a later request has taken its place.
Unshow(r) ==
  /\ Move(r, "cleared", "done")
  /\ shown' = [shown EXCEPT ![Owner[r]] = IF @ = r THEN NoRequest ELSE @]
  /\ UNCHANGED <<turnVars, by, decision, pending, answerVars, consent, grantVars, starts>>

-----------------------------------------------------------------------------
(* agent_answer_permission and agent_revoke_permission                     *)

\* Mutant: the request stays in the map while the answer is on its way.
TakeKeeping(r, a) ==
  /\ r \in pending
  /\ hand' = [hand EXCEPT ![r] = a]
  /\ consent' = IF a = "no" THEN consent ELSE consent \cup {r}
  /\ UNCHANGED <<turnVars, req, by, decision, parkVars, answer, grantVars, starts>>

\* AnswerPermission takes the request out of the map.  The answer is "no",
\* "yes", or "always" for a yes that is to be remembered.
Take(r, a) ==
  /\ r \in pending
  /\ pending' = pending \ {r}
  /\ hand' = [hand EXCEPT ![r] = a]
  /\ consent' = IF a = "no" THEN consent ELSE consent \cup {r}
  /\ UNCHANGED <<turnVars, req, by, decision, shown, answer, grantVars, starts>>

\* With a request id, whichever task it belongs to.
AnswerById(r, a) ==
  /\ Take(r, a)
  /\ meant' = [meant EXCEPT ![r] = r]

\* Without one: some parked request of the task, in the order of a Go map.
\* The person has seen the one the task's status shows.
AnswerByTask(r, a) ==
  /\ Take(r, a)
  /\ meant' = [meant EXCEPT ![r] = shown[Owner[r]]]

\* The answer is sent to the waiter, unless its buffer is full; what is to be
\* remembered is granted afterwards.
Deliver(r) ==
  /\ hand[r] \in {"yes", "always", "no"}
  /\ answer' = [answer EXCEPT ![r] = IF @ # "none" THEN @
                                     ELSE IF hand[r] = "no" THEN "no" ELSE "yes"]
  /\ hand' = [hand EXCEPT ![r] = IF hand[r] = "always" /\ answer[r] = "none"
                                 THEN "remember" ELSE "none"]
  /\ meant' = [meant EXCEPT ![r] = NoRequest]
  /\ UNCHANGED <<turnVars, req, by, decision, parkVars, consent, grantVars, starts>>

\* saveLocked, for a store that knows its file: the file is replaced in one
\* step by a rename.
Saves ==
  /\ opened
  /\ stored' = granted'

\* It could not be written or renamed: it stays what it was.
SaveFails ==
  /\ granted' # granted
  /\ stored' = stored

\* Store.Add; when it cannot save, the grant holds in memory all the same.  What
\* is covered already is not saved again.
Remember(r) ==
  /\ hand[r] = "remember"
  /\ granted' = Added(granted, Wants[r])
  /\ \/ granted' = granted /\ stored' = stored
     \/ granted' # granted /\ Saves
     \/ SaveFails
  /\ revoked' = {g \in revoked : ~Allows({Wants[r]}, g.tool, g.command)}
  /\ hand' = [hand EXCEPT ![r] = "none"]
  /\ UNCHANGED <<turnVars, req, by, decision, parkVars, answer, meant, consent, opened, starts>>

\* The uses a call that revokes is about.
Uses(tool, command) ==
  {g \in Grant : g.tool = tool /\ command \in {"", g.command} /\ Names(g.command)}

\* Mutant: the reply does not wait for the save.
RevokeUnsaved(tool, command) ==
  /\ granted' = Removed(granted, tool, command)
  /\ granted' # granted
  /\ Saves \/ SaveFails
  /\ revoked' = revoked \cup Uses(tool, command)
  /\ UNCHANGED <<turnVars, req, by, decision, parkVars, answerVars, consent, opened, starts>>

\* Store.Remove, for one command of a tool or for all of them.  "Revoked." is
\* the reply when the list was saved, an error when it was not; the list in
\* memory is without the grant either way.
Revoke(tool, command) ==
  /\ granted' = Removed(granted, tool, command)
  /\ granted' # granted
  /\ \/ Saves /\ revoked' = revoked \cup Uses(tool, command)
     \/ SaveFails /\ revoked' = revoked
  /\ UNCHANGED <<turnVars, req, by, decision, parkVars, answerVars, consent, opened, starts>>

-----------------------------------------------------------------------------
(* The server ends, by itself or by a crash, and another one starts.       *)

\* The endpoint goes down with the server: a worker that is waiting for it is
\* told an error, which is not a yes.  A worker that survives has a URL nobody
\* listens on.
EndpointEnds ==
  /\ req' = [r \in Requests |-> IF req[r] = "idle" THEN "idle" ELSE "done"]
  /\ decision' = [r \in Requests |->
                    IF req[r] \in {"idle", "done"} THEN decision[r] ELSE "deny"]

\* The new endpoint has handed out no token.
EndpointStarts ==
  turn' = [t \in Tasks |-> [k \in Turns |-> "idle"]]

\* The new desk has no session, and no request is parked.
DeskStarts ==
  /\ session' = [t \in Tasks |-> FALSE]
  /\ canElicit' \in Answerable
  /\ pending' = {}
  /\ shown' = [t \in Tasks |-> NoRequest]
  /\ answer' = [r \in Requests |-> "none"]
  /\ hand' = [r \in Requests |-> "none"]
  /\ meant' = [r \in Requests |-> NoRequest]

\* grants.Open reads the file.  When it cannot, the server serves with a store
\* that is empty and has no file to save to.
OpenStore ==
  /\ \/ opened' = TRUE /\ granted' = stored
     \/ opened' = FALSE /\ granted' = {}
  /\ UNCHANGED <<stored, revoked>>

Restart ==
  /\ starts < MaxStarts
  /\ starts' = starts + 1
  /\ EndpointEnds
  /\ OpenStore
  /\ DeskStarts
  /\ EndpointStarts
  /\ UNCHANGED <<by, consent>>

-----------------------------------------------------------------------------

TurnStep(t, k) ==
  \/ TurnOpens(t, k)
  \/ TurnSettles(t, k)
  \/ TokenRevoked(t, k)
  \/ SessionDropped(t, k)

\* What the goroutine that serves a request does without waiting for anybody.
RequestStep(r) ==
  \/ Route(r)
  \/ RouteRefused(r)
  \/ AllowGranted(r)
  \/ AskSomebody(r)
  \/ Elicit(r)
  \/ Park(r)
  \/ ParkRefused(r)
  \/ Pend(r)
  \/ Show(r)
  \/ Receive(r)
  \/ Unpend(r)
  \/ Unshow(r)

AnswerStep(r) ==
  \/ \E a \in {"yes", "always", "no"} : AnswerById(r, a) \/ AnswerByTask(r, a)
  \/ Deliver(r)
  \/ Remember(r)

Next ==
  \/ \E t \in Tasks, k \in Turns : TurnStep(t, k)
  \/ \E r \in Requests :
       \/ \E k \in Turns : Ask(r, k)
       \/ RequestStep(r)
       \/ ElicitedYes(r)
       \/ ElicitedNo(r)
       \/ TimesOut(r)
       \/ Abandoned(r)
       \/ AnswerStep(r)
  \/ \E tool \in Tools, command \in Commands : Revoke(tool, command)
  \/ Restart

Spec == Init /\ [][Next]_vars

(***************************************************************************)
(* Fairness: the goroutine of a request runs, and both waits have a        *)
(* deadline.  Nobody has to answer, and no worker has to ask or to end.    *)
(***************************************************************************)
Fairness ==
  \A r \in Requests :
    /\ WF_vars(RequestStep(r))
    /\ WF_vars(ElicitedNo(r))
    /\ WF_vars(TimesOut(r))

FairSpec == Spec /\ Fairness

-----------------------------------------------------------------------------
(* Properties                                                              *)

\* The variables have the types the code gives them.
TypeOK ==
  /\ turn \in [Tasks -> [Turns -> {"idle", "open", "settled", "revoked", "over"}]]
  /\ session \in [Tasks -> BOOLEAN]
  /\ canElicit \in BOOLEAN
  /\ req \in [Requests -> {"idle", "asked", "routed", "unlisted", "eliciting", "parking",
                           "pended", "waiting", "leaving", "cleared", "done"}]
  /\ by \in [Requests -> Turns \cup {NoTurn}]
  /\ decision \in [Requests -> {"none", "allow", "deny"}]
  /\ pending \subseteq Requests
  /\ shown \in [Tasks -> Requests \cup {NoRequest}]
  /\ answer \in [Requests -> {"none", "yes", "no"}]
  /\ hand \in [Requests -> {"none", "yes", "always", "no", "remember"}]
  /\ meant \in [Requests -> Requests \cup {NoRequest}]
  /\ consent \subseteq Requests
  /\ granted \subseteq Grant
  /\ stored \subseteq Grant
  /\ opened \in BOOLEAN
  /\ revoked \subseteq Grant
  /\ starts \in 1..MaxStarts

\* Every path that is not an explicit yes is a no: nothing is allowed that
\* nobody said yes to, however answers, timeouts and revocations race.
AllowedOnlyByYes ==
  \A r \in Requests : decision[r] = "allow" => r \in consent

\* The desk and the task's status know no request that nobody waits on: what
\* a person is asked to answer can still be answered, or is just going.
DeskHoldsOnlyWaiting ==
  /\ \A r \in pending : req[r] \in {"pended", "waiting", "leaving"}
  /\ \A t \in Tasks :
       shown[t] # NoRequest =>
         /\ Owner[shown[t]] = t
         /\ req[shown[t]] \in {"waiting", "leaving", "cleared"}

\* A call that took a request can hand over its answer: the buffer is free,
\* however many calls answer the same task at once (AnswerPermission's default
\* branch is dead).
AnswerIsDelivered ==
  \A r \in Requests : hand[r] \in {"yes", "always", "no"} => answer[r] = "none"

\* A worker that asks is told something, whether or not anybody answers.
EveryRequestIsDecided ==
  \A r \in Requests : req[r] = "asked" ~> req[r] = "done" /\ decision[r] # "none"

\* What a person asked to be remembered is allowed from then on, and so is all
\* that was allowed before: Add replaces narrower grants only by a wider one.
RememberingWidens ==
  [][\A r \in Requests :
       hand[r] = "remember" /\ hand'[r] = "none" /\ starts' = starts =>
         /\ Names(Wants[r].command) => Allows(granted', Wants[r].tool, Wants[r].command)
         /\ \A g \in Grant :
              Allows(granted, g.tool, g.command) => Allows(granted', g.tool, g.command)]_vars

\* "Revoked. Workers will ask about it again.": until somebody grants a use
\* again, neither the list nor the file a later server would load allows it,
\* by that grant or by a wider one, whichever saves failed.
RevokedStaysRevoked ==
  \A g \in revoked :
    ~Allows(granted, g.tool, g.command) /\ ~Allows(stored, g.tool, g.command)

-----------------------------------------------------------------------------
(* What a comment claims and the code does not keep.                       *)

\* "When id is empty it answers the task's current one."  When every parked
\* request has been shown, the one released is the one the task shows.
AnswersTheCurrentOne ==
  [][\A r \in Requests :
       (\A q \in pending : req[q] = "waiting") /\ meant'[r] \notin {meant[r], NoRequest}
       => meant'[r] = r]_vars
=============================================================================
