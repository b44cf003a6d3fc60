------------------------ MODULE PermissionDeskProofs ------------------------
(***************************************************************************)
(* Theorems about the permission desk, for every set of tasks and requests.*)
(*                                                                         *)
(* AllowedOnlyByYes follows an answer backwards through the hand of the    *)
(* call that carries it.  That the buffer of the channel suffices needs    *)
(* that a request is taken out of the map once: before that, nobody has an *)
(* answer for it in his hand or in the channel (Untouched).  That what was *)
(* revoked stays revoked needs that no list, in memory or in the file,     *)
(* holds a grant beside one for the whole of its tool (Minimal).           *)
(***************************************************************************)
EXTENDS PermissionDesk, TLAPS

\* A yes on its way to the waiter was said by somebody.
YesIsMeant ==
  \A r \in Requests : answer[r] = "yes" \/ hand[r] \in {"yes", "always"} => r \in consent

\* The phases of a request before it is in the map.
Unparked == {"idle", "asked", "routed", "unlisted", "eliciting", "parking"}

\* Only a request that was taken out of the map has an answer under way.
Untouched ==
  \A r \in Requests :
    req[r] \in Unparked \/ r \in pending =>
      answer[r] = "none" /\ hand[r] \notin {"yes", "always", "no"}

DeskInv ==
  /\ AllowedOnlyByYes
  /\ YesIsMeant
  /\ DeskHoldsOnlyWaiting
  /\ Untouched
  /\ AnswerIsDelivered

-----------------------------------------------------------------------------
(* Types                                                                   *)

\* Adding and removing grants yields grants.
LEMMA GrantsTyped ==
  ASSUME NEW list \in SUBSET Grant, NEW g \in Grant, NEW tool, NEW command
  PROVE  Added(list, g) \subseteq Grant /\ Removed(list, tool, command) \subseteq Grant
BY DEF Added, Removed

\* Whether a client can be asked is yes or no.
LEMMA AnswerableTyped == Answerable \subseteq BOOLEAN
BY DEF Answerable, CannotAsk

\* Every step of the desk keeps the types of its variables.
LEMMA DeskTypeStep == TypeOK /\ [Next]_vars => TypeOK'
<1> SUFFICES ASSUME TypeOK, [Next]_vars PROVE TypeOK'
  OBVIOUS
<1> USE DeskAssumption DEF TypeOK, turnVars, parkVars, answerVars, grantVars
<1>1. ASSUME NEW t \in Tasks, NEW k \in Turns, TurnStep(t, k) PROVE TypeOK'
  <2>1. CASE TurnOpens(t, k)
    BY <2>1 DEF TurnOpens, TokenIssued
  <2>2. CASE TurnSettles(t, k)
    BY <2>2 DEF TurnSettles
  <2>3. CASE TokenRevoked(t, k)
    BY <2>3 DEF TokenRevoked
  <2>4. CASE SessionDropped(t, k)
    BY <2>4 DEF SessionDropped
  <2>5. QED BY <1>1, <2>1, <2>2, <2>3, <2>4 DEF TurnStep
<1>2. ASSUME NEW r \in Requests, NEW k \in Turns, Ask(r, k) PROVE TypeOK'
  BY <1>2 DEF Ask, Move
<1>3. ASSUME NEW r \in Requests, RequestStep(r) PROVE TypeOK'
  <2> USE DEF Move
  <2>1. CASE Route(r)
    BY <2>1 DEF Route
  <2>2. CASE RouteRefused(r)
    BY <2>2 DEF RouteRefused
  <2>3. CASE AllowGranted(r)
    BY <2>3 DEF AllowGranted
  <2>4. CASE AskSomebody(r)
    BY <2>4 DEF AskSomebody
  <2>5. CASE Elicit(r)
    BY <2>5 DEF Elicit
  <2>6. CASE Park(r)
    BY <2>6 DEF Park
  <2>7. CASE ParkRefused(r)
    BY <2>7 DEF ParkRefused
  <2>8. CASE Pend(r)
    BY <2>8 DEF Pend
  <2>9. CASE Show(r)
    BY <2>9 DEF Show
  <2>10. CASE Receive(r)
    BY <2>10 DEF Receive
  <2>11. CASE Unpend(r)
    BY <2>11 DEF Unpend
  <2>12. CASE Unshow(r)
    BY <2>12 DEF Unshow
  <2>13. QED BY <1>3, <2>1, <2>2, <2>3, <2>4, <2>5, <2>6, <2>7, <2>8, <2>9, <2>10,
                <2>11, <2>12 DEF RequestStep
<1>4. ASSUME NEW r \in Requests, ElicitedYes(r) \/ ElicitedNo(r) PROVE TypeOK'
  <2>1. CASE ElicitedYes(r)
    BY <2>1 DEF ElicitedYes, Move
  <2>2. CASE ElicitedNo(r)
    BY <2>2 DEF ElicitedNo, Move
  <2>3. QED BY <1>4, <2>1, <2>2
<1>5. ASSUME NEW r \in Requests, TimesOut(r) \/ Abandoned(r) PROVE TypeOK'
  <2>1. CASE TimesOut(r)
    BY <2>1 DEF TimesOut, Move
  <2>2. CASE Abandoned(r)
    BY <2>2 DEF Abandoned, Move
  <2>3. QED BY <1>5, <2>1, <2>2
<1>6. ASSUME NEW r \in Requests, AnswerStep(r) PROVE TypeOK'
  <2>1. ASSUME NEW a \in {"yes", "always", "no"}, AnswerById(r, a) \/ AnswerByTask(r, a)
        PROVE  TypeOK'
    <3>1. Take(r, a)
      BY <2>1 DEF AnswerById, AnswerByTask
    <3>2. consent' \subseteq Requests /\ hand' \in [Requests -> {"none", "yes", "always", "no", "remember"}]
      BY <3>1 DEF Take
    <3>3. meant' \in [Requests -> Requests \cup {NoRequest}]
      <4>1. CASE AnswerById(r, a)
        BY <4>1 DEF AnswerById
      <4>2. CASE AnswerByTask(r, a)
        BY <4>2 DEF AnswerByTask
      <4>3. QED BY <2>1, <4>1, <4>2
    <3>4. QED BY <3>1, <3>2, <3>3 DEF Take
  <2>2. CASE Deliver(r)
    BY <2>2 DEF Deliver
  <2>3. CASE Remember(r)
    <3>1. granted' \subseteq Grant
      BY <2>3, GrantsTyped DEF Remember
    <3>2. stored' \subseteq Grant /\ revoked' \subseteq Grant
      BY <2>3, <3>1 DEF Remember, Saves, SaveFails
    <3>3. QED BY <2>3, <3>1, <3>2 DEF Remember
  <2>4. QED BY <1>6, <2>1, <2>2, <2>3 DEF AnswerStep
<1>7. ASSUME NEW tool \in Tools, NEW command \in Commands, Revoke(tool, command)
      PROVE  TypeOK'
  <2>1. granted' \subseteq Grant
    BY <1>7 DEF Revoke, Removed
  <2>2. stored' \subseteq Grant /\ revoked' \subseteq Grant
    BY <1>7, <2>1 DEF Revoke, Saves, SaveFails, Uses
  <2>3. QED BY <1>7, <2>1, <2>2 DEF Revoke
<1>8. CASE Restart
  <2>1. turn' \in [Tasks -> [Turns -> {"idle", "open", "settled", "revoked", "over"}]]
    BY <1>8 DEF Restart, EndpointStarts
  <2>2. /\ req' \in [Requests -> {"idle", "asked", "routed", "unlisted", "eliciting",
                                  "parking", "pended", "waiting", "leaving", "cleared",
                                  "done"}]
        /\ decision' \in [Requests -> {"none", "allow", "deny"}]
    BY <1>8 DEF Restart, EndpointEnds
  <2>3. /\ session' \in [Tasks -> BOOLEAN]
        /\ canElicit' \in BOOLEAN
        /\ pending' \subseteq Requests
        /\ shown' \in [Tasks -> Requests \cup {NoRequest}]
        /\ answer' \in [Requests -> {"none", "yes", "no"}]
        /\ hand' \in [Requests -> {"none", "yes", "always", "no", "remember"}]
        /\ meant' \in [Requests -> Requests \cup {NoRequest}]
    BY <1>8, AnswerableTyped DEF Restart, DeskStarts
  <2>4. granted' \subseteq Grant /\ stored' \subseteq Grant /\ revoked' \subseteq Grant
        /\ opened' \in BOOLEAN
    BY <1>8 DEF Restart, OpenStore
  <2>5. starts' \in 1..MaxStarts
    BY <1>8 DEF Restart
  <2>6. by' = by /\ consent' = consent
    BY <1>8 DEF Restart
  <2>7. QED BY <2>1, <2>2, <2>3, <2>4, <2>5, <2>6
<1>9. CASE UNCHANGED vars
  BY <1>9 DEF vars
<1>10. QED BY <1>1, <1>2, <1>3, <1>4, <1>5, <1>6, <1>7, <1>8, <1>9 DEF Next

\* The variables of the desk start with their types.
LEMMA DeskTypeInit == Init => TypeOK
BY DeskAssumption, AnswerableTyped DEF Init, TypeOK, Turns, NoTurn

\* The variables of the desk keep their types in every behaviour.
THEOREM DeskTypeCorrect == Spec => []TypeOK
BY DeskTypeInit, DeskTypeStep, PTL DEF Spec

-----------------------------------------------------------------------------
(* The life of an answer                                                   *)

\* What is neither a request nor an answer disturbs nothing.
LEMMA DeskFrame ==
  DeskInv /\ UNCHANGED <<req, decision, parkVars, answer, hand, consent>> => DeskInv'
BY DEF DeskInv, AllowedOnlyByYes, YesIsMeant, DeskHoldsOnlyWaiting, Untouched,
       AnswerIsDelivered, parkVars

\* A request on its way to the desk, or refused before it gets there.
LEMMA BeforeTheDesk ==
  ASSUME TypeOK, DeskInv, NEW r \in Requests, NEW from \in Unparked,
         NEW to \in Unparked \cup {"done"}, Move(r, from, to),
         \/ decision' = decision /\ consent' = consent
         \/ decision' = [decision EXCEPT ![r] = "deny"] /\ consent' = consent
         \/ decision' = [decision EXCEPT ![r] = "allow"] /\ consent' = consent \cup {r},
         UNCHANGED <<parkVars, answer, hand>>
  PROVE  DeskInv'
<1> USE DEF Move, parkVars, Unparked, TypeOK
<1>1. AllowedOnlyByYes' /\ YesIsMeant'
  BY DEF DeskInv, AllowedOnlyByYes, YesIsMeant
<1>2. DeskHoldsOnlyWaiting'
  BY DEF DeskInv, DeskHoldsOnlyWaiting
<1>3. Untouched' /\ AnswerIsDelivered'
  BY DEF DeskInv, Untouched, AnswerIsDelivered
<1>4. QED BY <1>1, <1>2, <1>3 DEF DeskInv

\* A request is parked under the desk's lock, and shown under the task's.
LEMMA Parking ==
  ASSUME TypeOK, DeskInv, NEW r \in Requests, Pend(r) \/ Show(r)
  PROVE  DeskInv'
<1> USE DeskAssumption DEF Move, answerVars, TypeOK
<1>1. CASE Pend(r)
  <2>1. AllowedOnlyByYes' /\ YesIsMeant' /\ AnswerIsDelivered'
    BY <1>1 DEF Pend, DeskInv, AllowedOnlyByYes, YesIsMeant, AnswerIsDelivered
  <2>2. DeskHoldsOnlyWaiting'
    BY <1>1 DEF Pend, DeskInv, DeskHoldsOnlyWaiting
  <2>3. Untouched'
    BY <1>1 DEF Pend, DeskInv, Untouched, Unparked
  <2>4. QED BY <2>1, <2>2, <2>3 DEF DeskInv
<1>2. CASE Show(r)
  <2>1. AllowedOnlyByYes' /\ YesIsMeant' /\ AnswerIsDelivered'
    BY <1>2 DEF Show, DeskInv, AllowedOnlyByYes, YesIsMeant, AnswerIsDelivered
  <2>2. DeskHoldsOnlyWaiting'
    BY <1>2 DEF Show, DeskInv, DeskHoldsOnlyWaiting
  <2>3. Untouched'
    BY <1>2 DEF Show, DeskInv, Untouched, Unparked
  <2>4. QED BY <2>1, <2>2, <2>3 DEF DeskInv
<1>3. QED BY <1>1, <1>2

\* The waiter leaves the select with the answer, or without one.
LEMMA Leaving ==
  ASSUME TypeOK, DeskInv, NEW r \in Requests, Receive(r) \/ TimesOut(r) \/ Abandoned(r)
  PROVE  DeskInv'
<1> USE DEF Move, parkVars, answerVars, TypeOK
<1>1. CASE Receive(r)
  <2>1. AllowedOnlyByYes' /\ YesIsMeant' /\ AnswerIsDelivered'
    BY <1>1 DEF Receive, DeskInv, AllowedOnlyByYes, YesIsMeant, AnswerIsDelivered
  <2>2. DeskHoldsOnlyWaiting'
    BY <1>1 DEF Receive, DeskInv, DeskHoldsOnlyWaiting
  <2>3. Untouched'
    BY <1>1 DEF Receive, DeskInv, Untouched, Unparked
  <2>4. QED BY <2>1, <2>2, <2>3 DEF DeskInv
<1>2. CASE TimesOut(r) \/ Abandoned(r)
  <2>0. /\ Move(r, "waiting", "leaving")
        /\ decision' = [decision EXCEPT ![r] = "deny"]
        /\ UNCHANGED <<parkVars, answerVars, consent>>
    BY <1>2 DEF TimesOut, Abandoned
  <2>1. AllowedOnlyByYes' /\ YesIsMeant' /\ AnswerIsDelivered'
    BY <2>0 DEF DeskInv, AllowedOnlyByYes, YesIsMeant, AnswerIsDelivered
  <2>2. DeskHoldsOnlyWaiting'
    BY <2>0 DEF DeskInv, DeskHoldsOnlyWaiting
  <2>3. Untouched'
    BY <2>0 DEF DeskInv, Untouched, Unparked
  <2>4. QED BY <2>1, <2>2, <2>3 DEF DeskInv
<1>3. QED BY <1>1, <1>2

\* The deferred cleanup takes the request out of the map and off the status.
LEMMA Cleanup ==
  ASSUME TypeOK, DeskInv, NEW r \in Requests, Unpend(r) \/ Unshow(r)
  PROVE  DeskInv'
<1> USE DeskAssumption DEF Move, answerVars, TypeOK
<1>1. CASE Unpend(r)
  <2>1. AllowedOnlyByYes' /\ YesIsMeant' /\ AnswerIsDelivered'
    BY <1>1 DEF Unpend, DeskInv, AllowedOnlyByYes, YesIsMeant, AnswerIsDelivered
  <2>2. DeskHoldsOnlyWaiting'
    BY <1>1 DEF Unpend, DeskInv, DeskHoldsOnlyWaiting
  <2>3. Untouched'
    BY <1>1 DEF Unpend, DeskInv, Untouched, Unparked
  <2>4. QED BY <2>1, <2>2, <2>3 DEF DeskInv
<1>2. CASE Unshow(r)
  <2>1. AllowedOnlyByYes' /\ YesIsMeant' /\ AnswerIsDelivered'
    BY <1>2 DEF Unshow, DeskInv, AllowedOnlyByYes, YesIsMeant, AnswerIsDelivered
  <2>2. DeskHoldsOnlyWaiting'
    BY <1>2 DEF Unshow, DeskInv, DeskHoldsOnlyWaiting
  <2>3. Untouched'
    BY <1>2 DEF Unshow, DeskInv, Untouched, Unparked
  <2>4. QED BY <2>1, <2>2, <2>3 DEF DeskInv
<1>3. QED BY <1>1, <1>2

\* A call that answers takes the request, and only one call can.
LEMMA Taking ==
  ASSUME TypeOK, DeskInv, NEW r \in Requests, NEW a \in {"yes", "always", "no"}, Take(r, a)
  PROVE  DeskInv'
<1> USE DEF TypeOK
<1>1. /\ r \in pending
      /\ pending' = pending \ {r}
      /\ hand' = [hand EXCEPT ![r] = a]
      /\ consent \subseteq consent'
      /\ a # "no" => r \in consent'
      /\ UNCHANGED <<req, decision, shown, answer>>
  BY DEF Take
<1>2. AllowedOnlyByYes' /\ YesIsMeant'
  BY <1>1 DEF DeskInv, AllowedOnlyByYes, YesIsMeant, Untouched
<1>3. DeskHoldsOnlyWaiting'
  BY <1>1 DEF DeskInv, DeskHoldsOnlyWaiting
<1>4. Untouched' /\ AnswerIsDelivered'
  BY <1>1 DEF DeskInv, Untouched, Unparked, AnswerIsDelivered, DeskHoldsOnlyWaiting
<1>5. QED BY <1>2, <1>3, <1>4 DEF DeskInv

\* It hands the answer over, and grants afterwards what is to be remembered.
LEMMA Handing ==
  ASSUME TypeOK, DeskInv, NEW r \in Requests, Deliver(r) \/ Remember(r)
  PROVE  DeskInv'
<1> USE DEF parkVars, TypeOK
<1>1. CASE Deliver(r)
  <2>1. AllowedOnlyByYes' /\ DeskHoldsOnlyWaiting'
    BY <1>1 DEF Deliver, DeskInv, AllowedOnlyByYes, DeskHoldsOnlyWaiting
  <2>2. YesIsMeant' /\ AnswerIsDelivered'
    BY <1>1 DEF Deliver, DeskInv, YesIsMeant, AnswerIsDelivered
  <2>3. Untouched'
    BY <1>1 DEF Deliver, DeskInv, Untouched
  <2>4. QED BY <2>1, <2>2, <2>3 DEF DeskInv
<1>2. CASE Remember(r)
  <2>1. AllowedOnlyByYes' /\ DeskHoldsOnlyWaiting'
    BY <1>2 DEF Remember, DeskInv, AllowedOnlyByYes, DeskHoldsOnlyWaiting
  <2>2. YesIsMeant' /\ AnswerIsDelivered'
    BY <1>2 DEF Remember, DeskInv, YesIsMeant, AnswerIsDelivered
  <2>3. Untouched'
    BY <1>2 DEF Remember, DeskInv, Untouched
  <2>4. QED BY <2>1, <2>2, <2>3 DEF DeskInv
<1>3. QED BY <1>1, <1>2

\* A restart forgets every request and every answer, and allows nothing.
LEMMA Restarting ==
  ASSUME TypeOK, DeskInv, Restart
  PROVE  DeskInv'
<1> USE DEF Restart, EndpointEnds, DeskStarts, TypeOK
<1>1. AllowedOnlyByYes' /\ YesIsMeant'
  BY DEF DeskInv, AllowedOnlyByYes, YesIsMeant
<1>2. DeskHoldsOnlyWaiting'
  BY DEF DeskInv, DeskHoldsOnlyWaiting
<1>3. Untouched' /\ AnswerIsDelivered'
  BY DEF Untouched, AnswerIsDelivered
<1>4. QED BY <1>1, <1>2, <1>3 DEF DeskInv

\* Every step of the desk keeps the invariant.
LEMMA DeskStep == TypeOK /\ DeskInv /\ [Next]_vars => DeskInv'
<1> SUFFICES ASSUME TypeOK, DeskInv, [Next]_vars PROVE DeskInv'
  OBVIOUS
<1> USE DEF turnVars, answerVars, Unparked, grantVars
<1>1. ASSUME NEW t \in Tasks, NEW k \in Turns, TurnStep(t, k) PROVE DeskInv'
  BY <1>1, DeskFrame DEF TurnStep, TurnOpens, TurnSettles, TokenRevoked, SessionDropped
<1>2. ASSUME NEW r \in Requests, NEW k \in Turns, Ask(r, k) PROVE DeskInv'
  BY <1>2, BeforeTheDesk DEF Ask
<1>3. ASSUME NEW r \in Requests, RequestStep(r) PROVE DeskInv'
  <2>1. CASE Route(r) \/ RouteRefused(r)
    BY <2>1, BeforeTheDesk DEF Route, RouteRefused
  <2>2. CASE AllowGranted(r) \/ AskSomebody(r)
    BY <2>2, BeforeTheDesk DEF AllowGranted, AskSomebody
  <2>3. CASE Elicit(r) \/ Park(r) \/ ParkRefused(r)
    BY <2>3, BeforeTheDesk DEF Elicit, Park, ParkRefused
  <2>4. CASE Pend(r) \/ Show(r)
    BY <2>4, Parking
  <2>5. CASE Receive(r)
    BY <2>5, Leaving
  <2>6. CASE Unpend(r) \/ Unshow(r)
    BY <2>6, Cleanup
  <2>7. QED BY <1>3, <2>1, <2>2, <2>3, <2>4, <2>5, <2>6 DEF RequestStep
<1>4. ASSUME NEW r \in Requests, ElicitedYes(r) \/ ElicitedNo(r) PROVE DeskInv'
  BY <1>4, BeforeTheDesk DEF ElicitedYes, ElicitedNo
<1>5. ASSUME NEW r \in Requests, TimesOut(r) \/ Abandoned(r) PROVE DeskInv'
  BY <1>5, Leaving
<1>6. ASSUME NEW r \in Requests, AnswerStep(r) PROVE DeskInv'
  <2>1. ASSUME NEW a \in {"yes", "always", "no"}, AnswerById(r, a) \/ AnswerByTask(r, a)
        PROVE  DeskInv'
    BY <2>1, Taking DEF AnswerById, AnswerByTask
  <2>2. QED BY <1>6, <2>1, Handing DEF AnswerStep
<1>7. ASSUME NEW tool \in Tools, NEW command \in Commands, Revoke(tool, command)
      PROVE  DeskInv'
  BY <1>7, DeskFrame DEF Revoke
<1>8. CASE Restart
  BY <1>8, Restarting
<1>9. CASE UNCHANGED vars
  BY <1>9, DeskFrame DEF vars
<1>10. QED BY <1>1, <1>2, <1>3, <1>4, <1>5, <1>6, <1>7, <1>8, <1>9 DEF Next

\* The invariant of the desk holds in every behaviour.
LEMMA DeskInductive == Spec => []DeskInv
<1>1. Init => DeskInv
  BY DEF Init, DeskInv, AllowedOnlyByYes, YesIsMeant, DeskHoldsOnlyWaiting, Untouched,
         AnswerIsDelivered
<1>2. QED BY <1>1, DeskStep, DeskTypeCorrect, PTL DEF Spec

\* No interleaving of answers, timeouts, lost connections, revocations and
\* turns allows a worker something nobody said yes to.
THEOREM OnlyByYes == Spec => []AllowedOnlyByYes
<1>1. DeskInv => AllowedOnlyByYes
  BY DEF DeskInv
<1>2. QED BY <1>1, DeskInductive, PTL

\* What the desk holds and what a task shows is always a request of that task
\* with a worker behind it.
THEOREM NoDanglingRequest == Spec => []DeskHoldsOnlyWaiting
<1>1. DeskInv => DeskHoldsOnlyWaiting
  BY DEF DeskInv
<1>2. QED BY <1>1, DeskInductive, PTL

\* One slot in the channel is enough, however many calls answer a request.
THEOREM Delivered == Spec => []AnswerIsDelivered
<1>1. DeskInv => AnswerIsDelivered
  BY DEF DeskInv
<1>2. QED BY <1>1, DeskInductive, PTL

-----------------------------------------------------------------------------
(* What is remembered and what is revoked                                  *)

\* A list holds no grant beside one for the whole of its tool.
Minimal(list) ==
  \A g, h \in list : g.tool = h.tool /\ g.command = "" => h.command = ""

\* The list and the file are minimal, so that a revocation which takes a grant
\* away leaves no wider one, and neither allows what was revoked.
RevokedInv ==
  /\ Minimal(granted)
  /\ Minimal(stored)
  /\ RevokedStaysRevoked

\* Neither the requests nor the turns touch the grants.
LEMMA GrantsAside ==
  ASSUME [Next]_vars,
         \A r \in Requests : ~Remember(r),
         \A tool \in Tools, command \in Commands : ~Revoke(tool, command),
         ~Restart
  PROVE  UNCHANGED grantVars
<1>1. ASSUME NEW t \in Tasks, NEW k \in Turns, TurnStep(t, k) PROVE UNCHANGED grantVars
  BY <1>1 DEF TurnStep, TurnOpens, TurnSettles, TokenRevoked, SessionDropped
<1>2. ASSUME NEW r \in Requests, NEW k \in Turns, Ask(r, k) PROVE UNCHANGED grantVars
  BY <1>2 DEF Ask
<1>3. ASSUME NEW r \in Requests, RequestStep(r) PROVE UNCHANGED grantVars
  BY <1>3 DEF RequestStep, Route, RouteRefused, AllowGranted, AskSomebody, Elicit, Park,
              ParkRefused, Pend, Show, Receive, Unpend, Unshow
<1>4. ASSUME NEW r \in Requests,
             ElicitedYes(r) \/ ElicitedNo(r) \/ TimesOut(r) \/ Abandoned(r)
      PROVE  UNCHANGED grantVars
  BY <1>4 DEF ElicitedYes, ElicitedNo, TimesOut, Abandoned
<1>5. ASSUME NEW r \in Requests, AnswerStep(r) PROVE UNCHANGED grantVars
  BY <1>5 DEF AnswerStep, AnswerById, AnswerByTask, Take, Deliver
<1>6. CASE UNCHANGED vars
  BY <1>6 DEF vars
<1>7. QED BY <1>1, <1>2, <1>3, <1>4, <1>5, <1>6 DEF Next

\* Adding a grant keeps a list minimal.
LEMMA AddedMinimal ==
  ASSUME NEW list \in SUBSET Grant, Minimal(list), NEW w \in Grant
  PROVE  Minimal(Added(list, w))
<1>1. CASE \E h \in list : h.tool = w.tool /\ h.command \in {"", w.command}
  BY <1>1 DEF Minimal, Added
<1>2. CASE ~\E h \in list : h.tool = w.tool /\ h.command \in {"", w.command}
  <2>1. Added(list, w) = {h \in list : w.command # "" \/ h.tool # w.tool} \cup {w}
    BY <1>2 DEF Added
  <2>2. QED BY <1>2, <2>1 DEF Minimal
<1>3. QED BY <1>1, <1>2

\* What is taken out of a minimal list is allowed by none of the grants left.
LEMMA RemovedDenies ==
  ASSUME NEW list \in SUBSET Grant, Minimal(list), NEW tool, NEW command,
         Removed(list, tool, command) # list, NEW g \in Uses(tool, command)
  PROVE  ~Allows(Removed(list, tool, command), g.tool, g.command)
<1>1. g \in Grant /\ g.tool = tool /\ command \in {"", g.command} /\ Verb[g.command] = g.command
  BY DEF Uses, Names
<1>2. ASSUME NEW h \in Removed(list, tool, command), h.tool = tool,
             h.command \in {"", g.command}
      PROVE  FALSE
  <2>1. h \in list /\ command \notin {"", h.command}
    BY <1>2 DEF Removed
  <2>2. h.command = ""
    BY <1>1, <1>2, <2>1
  <2>3. \A f \in list : f.tool = tool => f.command = ""
    BY <1>2, <2>1, <2>2 DEF Minimal
  <2>4. Removed(list, tool, command) = list
    BY <2>1, <2>2, <2>3 DEF Removed
  <2>5. QED BY <2>4
<1>3. QED BY <1>1, <1>2 DEF Allows

\* What is granted when a grant is remembered was granted before, or is that one.
LEMMA AddedAllows ==
  ASSUME NEW list \in SUBSET Grant, NEW w \in Grant, NEW g \in Grant,
         Allows(Added(list, w), g.tool, g.command)
  PROVE  Allows(list, g.tool, g.command) \/ Allows({w}, g.tool, g.command)
BY DEF Allows, Added

\* Remembering, revoking and restarting keep what was revoked revoked.
LEMMA RevokedStep == TypeOK /\ RevokedInv /\ [Next]_vars => RevokedInv'
<1> SUFFICES ASSUME TypeOK, RevokedInv, [Next]_vars PROVE RevokedInv'
  OBVIOUS
<1>0. granted \in SUBSET Grant /\ stored \in SUBSET Grant /\ revoked \in SUBSET Grant
  BY DEF TypeOK
<1>1. ASSUME NEW r \in Requests, Remember(r) PROVE RevokedInv'
  <2>1. Wants[r] \in Grant
    BY DeskAssumption
  <2>2. granted' = Added(granted, Wants[r]) /\ (stored' = granted' \/ stored' = stored)
    BY <1>1 DEF Remember, Saves, SaveFails
  <2>3. Minimal(granted)' /\ Minimal(stored)'
    <3>1. Minimal(Added(granted, Wants[r]))
      BY <1>0, <2>1, AddedMinimal DEF RevokedInv
    <3>2. QED BY <2>2, <3>1 DEF RevokedInv, Minimal
  <2>4. ASSUME NEW g \in revoked' PROVE ~Allows(granted', g.tool, g.command)
                                        /\ ~Allows(stored', g.tool, g.command)
    <3>1. g \in revoked /\ g \in Grant /\ ~Allows({Wants[r]}, g.tool, g.command)
      BY <1>0, <1>1, <2>4 DEF Remember
    <3>2. ~Allows(granted, g.tool, g.command) /\ ~Allows(stored, g.tool, g.command)
      BY <3>1 DEF RevokedInv, RevokedStaysRevoked
    <3>3. ~Allows(granted', g.tool, g.command)
      BY <1>0, <2>1, <2>2, <3>1, <3>2, AddedAllows
    <3>4. QED BY <2>2, <3>2, <3>3
  <2>5. RevokedStaysRevoked'
    BY <2>4 DEF RevokedStaysRevoked, Allows
  <2>6. QED BY <2>3, <2>5 DEF RevokedInv
<1>2. ASSUME NEW tool \in Tools, NEW command \in Commands, Revoke(tool, command)
      PROVE  RevokedInv'
  <2>1. /\ granted' = Removed(granted, tool, command)
        /\ granted' # granted
        /\ \/ stored' = granted' /\ revoked' = revoked \cup Uses(tool, command)
           \/ stored' = stored /\ revoked' = revoked
    BY <1>2 DEF Revoke, Saves, SaveFails
  <2>2. granted' \subseteq granted
    BY <2>1 DEF Removed
  <2>3. Minimal(granted)' /\ Minimal(stored)'
    BY <2>1, <2>2 DEF RevokedInv, Minimal
  <2>4. ASSUME NEW g \in revoked' PROVE ~Allows(granted', g.tool, g.command)
                                        /\ ~Allows(stored', g.tool, g.command)
    <3>1. CASE g \in revoked
      BY <2>1, <2>2, <3>1 DEF RevokedInv, RevokedStaysRevoked, Allows
    <3>2. CASE g \notin revoked
      <4>1. g \in Uses(tool, command) /\ stored' = granted'
        BY <2>1, <2>4, <3>2
      <4>2. ~Allows(granted', g.tool, g.command)
        BY <1>0, <2>1, <4>1, RemovedDenies DEF RevokedInv
      <4>3. QED BY <4>1, <4>2
    <3>3. QED BY <3>1, <3>2
  <2>5. RevokedStaysRevoked'
    BY <2>4 DEF RevokedStaysRevoked, Allows
  <2>6. QED BY <2>3, <2>5 DEF RevokedInv
<1>3. CASE Restart
  <2>1. (granted' = stored \/ granted' = {}) /\ stored' = stored /\ revoked' = revoked
    BY <1>3 DEF Restart, OpenStore
  <2>2. QED BY <2>1 DEF RevokedInv, RevokedStaysRevoked, Minimal, Allows
<1>4. CASE UNCHANGED grantVars
  BY <1>4 DEF grantVars, RevokedInv, RevokedStaysRevoked, Minimal, Allows
<1>5. QED BY <1>1, <1>2, <1>3, <1>4, GrantsAside

\* Whatever was added before, whichever saves failed and however often the
\* server was restarted: a use a person was told is revoked is asked about
\* again, until somebody grants it again.
THEOREM RevokedForGood == Spec => []RevokedStaysRevoked
<1>1. Init => RevokedInv
  BY DEF Init, RevokedInv, RevokedStaysRevoked, Minimal
<1>2. RevokedInv => RevokedStaysRevoked
  BY DEF RevokedInv
<1>3. QED BY <1>1, <1>2, RevokedStep, DeskTypeCorrect, PTL DEF Spec

\* A grant that was added covers its use, and every use covered before.
LEMMA AddedCovers ==
  ASSUME NEW list \in SUBSET Grant, NEW w \in Grant
  PROVE  /\ Names(w.command) => Allows(Added(list, w), w.tool, w.command)
         /\ \A g \in Grant :
              Allows(list, g.tool, g.command) => Allows(Added(list, w), g.tool, g.command)
<1>1. CASE \E h \in list : h.tool = w.tool /\ h.command \in {"", w.command}
  <2>1. Added(list, w) = list
    BY <1>1 DEF Added
  <2>2. Names(w.command) => Allows(list, w.tool, w.command)
    BY <1>1 DEF Allows, Names
  <2>3. QED BY <2>1, <2>2
<1>2. CASE ~\E h \in list : h.tool = w.tool /\ h.command \in {"", w.command}
  <2>1. Added(list, w) = {h \in list : w.command # "" \/ h.tool # w.tool} \cup {w}
    BY <1>2 DEF Added
  <2>2. Names(w.command) => Allows(Added(list, w), w.tool, w.command)
    BY <2>1 DEF Allows, Names
  <2>3. ASSUME NEW g \in Grant, Allows(list, g.tool, g.command)
        PROVE  Allows(Added(list, w), g.tool, g.command)
    BY <2>1, <2>3 DEF Allows
  <2>4. QED BY <2>2, <2>3
<1>3. QED BY <1>1, <1>2

\* Only Remember empties a hand that has something to remember.
LEMMA OnlyRememberForgets ==
  ASSUME TypeOK, [Next]_vars, NEW r \in Requests, hand[r] = "remember", hand'[r] = "none",
         starts' = starts
  PROVE  granted' = Added(granted, Wants[r])
<1> USE DEF answerVars
<1>1. ASSUME NEW t \in Tasks, NEW k \in Turns, TurnStep(t, k) PROVE FALSE
  BY <1>1 DEF TurnStep, TurnOpens, TurnSettles, TokenRevoked, SessionDropped
<1>2. ASSUME NEW q \in Requests, NEW k \in Turns, Ask(q, k) PROVE FALSE
  BY <1>2 DEF Ask
<1>3. ASSUME NEW q \in Requests, RequestStep(q) PROVE FALSE
  BY <1>3 DEF RequestStep, Route, RouteRefused, AllowGranted, AskSomebody, Elicit, Park,
              ParkRefused, Pend, Show, Receive, Unpend, Unshow
<1>4. ASSUME NEW q \in Requests,
             ElicitedYes(q) \/ ElicitedNo(q) \/ TimesOut(q) \/ Abandoned(q)
      PROVE  FALSE
  BY <1>4 DEF ElicitedYes, ElicitedNo, TimesOut, Abandoned
<1>5. ASSUME NEW q \in Requests, AnswerStep(q) PROVE granted' = Added(granted, Wants[r])
  <2>1. ASSUME NEW a \in {"yes", "always", "no"}, Take(q, a) PROVE FALSE
    BY <2>1 DEF Take, TypeOK
  <2>2. CASE Deliver(q)
    BY <2>2 DEF Deliver, TypeOK
  <2>3. CASE Remember(q)
    BY <2>3 DEF Remember, TypeOK
  <2>4. QED BY <1>5, <2>1, <2>2, <2>3 DEF AnswerStep, AnswerById, AnswerByTask
<1>6. ASSUME NEW tool \in Tools, NEW command \in Commands, Revoke(tool, command) PROVE FALSE
  BY <1>6 DEF Revoke
<1>7. CASE Restart
  BY <1>7 DEF Restart, TypeOK
<1>8. CASE UNCHANGED vars
  BY <1>8 DEF vars
<1>9. QED BY <1>1, <1>2, <1>3, <1>4, <1>5, <1>6, <1>7, <1>8 DEF Next

\* Remembering allows what was asked for, and takes nothing away.
THEOREM RememberedForGood == Spec => RememberingWidens
<1>1. TypeOK /\ [Next]_vars =>
        [\A r \in Requests :
           hand[r] = "remember" /\ hand'[r] = "none" /\ starts' = starts =>
             /\ Names(Wants[r].command) => Allows(granted', Wants[r].tool, Wants[r].command)
             /\ \A g \in Grant :
                  Allows(granted, g.tool, g.command)
                  => Allows(granted', g.tool, g.command)]_vars
  <2> SUFFICES ASSUME TypeOK, [Next]_vars, NEW r \in Requests,
                      hand[r] = "remember", hand'[r] = "none", starts' = starts
               PROVE  /\ Names(Wants[r].command) =>
                           Allows(granted', Wants[r].tool, Wants[r].command)
                      /\ \A g \in Grant : Allows(granted, g.tool, g.command)
                                          => Allows(granted', g.tool, g.command)
    OBVIOUS
  <2>1. granted \in SUBSET Grant /\ Wants[r] \in Grant
    BY DeskAssumption DEF TypeOK
  <2>2. granted' = Added(granted, Wants[r])
    BY OnlyRememberForgets
  <2>3. QED BY <2>1, <2>2, AddedCovers
<1>2. QED BY <1>1, DeskTypeCorrect, PTL DEF Spec, RememberingWidens
=============================================================================
