----------------------------- MODULE ViewerPage -----------------------------
(***************************************************************************)
(* The local web viewer, `cli-agent-mcp ui`: a page polls the task list    *)
(* and the log of the selected task, and the Source behind it keeps a      *)
(* bounded number of transcripts decoded.  The server that runs the tasks  *)
(* appends to their files and rewrites their records beside it.            *)
(*                                                                         *)
(* A line is its index in the transcript; what is on the page is the       *)
(* sequence of the lines it was given, each with the task it is of and the *)
(* mode it was rendered in.                                                *)
(***************************************************************************)
EXTENDS Integers, Sequences, SequencesExt

CONSTANTS
  Tasks,        \* the stored tasks
  MaxCached,    \* maxCachedLogs
  Chunk,        \* lines one Next of a follower reads at most
  MaxFile,      \* bound on the lines of a transcript, by task
  MaxClicks,    \* bound on what the user clicks
  MaxOthers,    \* bound on the requests of other pages
  MaxFailures,  \* bound on the requests that are lost
  Nobody        \* no task

ASSUME ViewerAssumption ==
  /\ MaxCached \in Nat \ {0} /\ Chunk \in Nat \ {0}
  /\ MaxFile \in [Tasks -> Nat] /\ MaxClicks \in Nat /\ MaxOthers \in Nat /\ MaxFailures \in Nat
  /\ Nobody \notin Tasks

VARIABLES
  file,      \* lines in the transcript of a task
  live,      \* its worker is running
  record,    \* its stored record: the status and total_output_lines
  cached,    \* Source.order, the transcripts held decoded
  decoded,   \* how many of its lines each has
  tasks,     \* the task list the page has
  selected,  \* the task the page shows
  raw,       \* its mode
  cursor,    \* the next line it asks for
  shown,     \* logEl.textContent
  flight,    \* the log request under way, logBusy when there is one
  round,     \* what the round of loop in progress is still waiting for; the list
             \* it starts from, when the page was only opened
  clicks, others, failures,
  crossed,   \* the log was begun anew while a request for the same task was under way
  shrunk     \* an answer's total was below what the page already had

disk   == <<file, live, record>>
source == <<cached, decoded>>
page   == <<tasks, selected, raw, cursor, shown>>
counts == <<clicks, others, failures>>
ghosts == <<crossed, shrunk>>
vars == <<disk, source, page, flight, round, counts, ghosts>>

NoFlight == [at |-> "none"]

\* A record as the list shows it.  A task that was pruned has none.
NoRecord == [status |-> "none", total |-> 0]

Init ==
  /\ file = [t \in Tasks |-> 0]
  /\ live = [t \in Tasks |-> TRUE]
  /\ record = [t \in Tasks |-> [status |-> "running", total |-> 0]]
  /\ cached = <<>>
  /\ decoded = [t \in Tasks |-> 0]
  /\ tasks = [t \in Tasks |-> NoRecord]
  /\ selected = Nobody /\ raw = FALSE /\ cursor = 0 /\ shown = <<>>
  /\ flight = NoFlight
  /\ round = {"arrival"}
  /\ clicks = 0 /\ others = 0 /\ failures = 0
  /\ crossed = FALSE /\ shrunk = FALSE

-----------------------------------------------------------------------------
(* The server that owns the tasks, as far as its files show it.            *)

\* A line is appended.  A follow-up appends to a task whose record still says
\* that it has ended.
Write(t) ==
  /\ file[t] < MaxFile[t]
  /\ record[t] # NoRecord
  /\ live' = [live EXCEPT ![t] = TRUE]
  /\ file' = [file EXCEPT ![t] = @ + 1]
  /\ UNCHANGED <<record, source, page, flight, round, counts, ghosts>>

\* The record is rewritten while the worker runs, as it asks for a permission.
\* What it counts is only shown, and only read again once the task has ended.
Persist(t) ==
  /\ live[t]
  /\ record' = [record EXCEPT ![t] = [status |-> "running", total |-> 0]]
  /\ UNCHANGED <<file, live, source, page, flight, round, counts, ghosts>>

\* The turn ends and is recorded.
Settle(t) ==
  /\ live[t]
  /\ live' = [live EXCEPT ![t] = FALSE]
  /\ record' = [record EXCEPT ![t] = [status |-> "ended", total |-> file[t]]]
  /\ UNCHANGED <<file, source, page, flight, round, counts, ghosts>>

\* Another start of the server prunes the task.
Prune(t) ==
  /\ ~live[t]
  /\ record[t] # NoRecord
  /\ record' = [record EXCEPT ![t] = NoRecord]
  /\ file' = [file EXCEPT ![t] = 0]
  /\ UNCHANGED <<live, source, page, flight, round, counts, ghosts>>

-----------------------------------------------------------------------------
(* Source.                                                                 *)

\* touchLocked and evictLocked: the task comes last, the oldest make room.
Touch(t) ==
  LET order == Append(SelectSeq(cached, LAMBDA c : c # t), t)
  IN  IF Len(order) > MaxCached THEN SubSeq(order, 2, Len(order)) ELSE order

\* How much of t is decoded after one Next: a transcript that is not held is
\* followed from its beginning, and one Next reads no more than a chunk.
Decoded(t) ==
  LET have  == IF Contains(cached, t) THEN decoded[t] ELSE 0
      fresh == IF file[t] > have + Chunk THEN Chunk
               ELSE IF file[t] > have THEN file[t] - have ELSE 0
  IN  have + fresh

\* Lines: what a request for t does to the cache.
Lines(t) ==
  /\ cached' = Touch(t)
  /\ decoded' = [decoded EXCEPT ![t] = Decoded(t)]

\* Another page, or another tab, asks for a log.
OtherPage(t) ==
  /\ others < MaxOthers
  /\ others' = others + 1
  /\ record[t] # NoRecord
  /\ Lines(t)
  /\ UNCHANGED <<disk, page, flight, round, clicks, failures, ghosts>>

\* handleLog: the lines from `since` on, and the total, which is the next cursor.
HandleLog ==
  /\ flight.at = "asked"
  /\ record[flight.id] # NoRecord
  /\ Lines(flight.id)
  /\ LET total == Decoded(flight.id)
         since == IF flight.since > total THEN total ELSE flight.since
     IN  /\ flight' = [flight EXCEPT !.at = "answered", !.since = since, !.total = total]
         /\ shrunk' = (shrunk \/ (flight.id = selected /\ total < flight.since))
  /\ UNCHANGED <<disk, page, round, counts, crossed>>

\* The request is refused, as there is no such task, or it is lost.
RequestFails ==
  /\ flight.at = "asked"
  /\ \/ record[flight.id] = NoRecord /\ failures' = failures
     \/ failures < MaxFailures /\ failures' = failures + 1
  /\ flight' = NoFlight
  /\ round' = round \ {"log"}
  /\ UNCHANGED <<disk, source, page, clicks, others, ghosts>>

-----------------------------------------------------------------------------
(* The page.                                                               *)

\* fetchLog: nothing when no task is selected or a request is under way.
Request(id, mode, since) ==
  IF id = Nobody \/ flight # NoFlight THEN flight
  ELSE [at |-> "asked", id |-> id, mode |-> mode, since |-> since, total |-> 0]

\* reloadLog, for what is selected now.
ReloadLog(id, mode) ==
  /\ selected' = id /\ raw' = mode
  /\ cursor' = 0
  /\ shown' = <<>>
  /\ flight' = Request(id, mode, 0)
  /\ crossed' = (flight # NoFlight /\ flight.id = id)
  /\ shrunk' = FALSE

\* A click on a task of the list.
Select(t) ==
  /\ clicks < MaxClicks
  /\ clicks' = clicks + 1
  /\ tasks[t] # NoRecord /\ selected # t
  /\ ReloadLog(t, raw)
  /\ UNCHANGED <<disk, source, tasks, round, others, failures>>

\* A click on "raw".
ToggleRaw ==
  /\ clicks < MaxClicks
  /\ clicks' = clicks + 1
  /\ selected # Nobody /\ tasks[selected] # NoRecord
  /\ ReloadLog(selected, ~raw)
  /\ UNCHANGED <<disk, source, tasks, round, others, failures>>

\* Source.Tasks, as handleTasks answers: every record there is.
Listed == record

\* What the page opens on arrival: a task that runs, else any.
MostInteresting ==
  LET running == {t \in Tasks : Listed[t].status = "running"}
  IN  IF running # {} THEN running ELSE {t \in Tasks : Listed[t] # NoRecord}

\* The page is opened: it fetches the list, selects a task of it, and begins to
\* loop with the request for its log under way.
Arrive ==
  /\ "arrival" \in round
  /\ round' = {}
  /\ tasks' = Listed
  /\ IF MostInteresting = {}
     THEN UNCHANGED <<selected, raw, cursor, shown, flight, ghosts>>
     ELSE \E t \in MostInteresting : ReloadLog(t, raw)
  /\ UNCHANGED <<disk, source, counts>>

\* Mutant: only a running task is asked for.
BehindOnlyIfRunning == selected # Nobody /\ tasks[selected].status = "running"

\* The list, as old as it is, says that there is more to read.
Behind ==
  /\ selected # Nobody /\ tasks[selected] # NoRecord
  /\ tasks[selected].status = "running" \/ cursor < tasks[selected].total

\* loop: a round fetches the list, and the log when it is behind.
Loop ==
  /\ round = {}
  /\ flight' = IF Behind THEN Request(selected, raw, cursor) ELSE flight
  /\ round' = {"list"} \cup (IF Behind /\ flight = NoFlight THEN {"log"} ELSE {})
  /\ UNCHANGED <<disk, source, page, counts, ghosts>>

\* fetchTasks: the list is read and shown; a selected task that was pruned is
\* dropped.
FetchTasks ==
  /\ "list" \in round
  /\ round' = round \ {"list"}
  /\ tasks' = Listed
  /\ IF selected # Nobody /\ Listed[selected] = NoRecord
     THEN selected' = Nobody /\ shown' = <<>>
     ELSE UNCHANGED <<selected, shown>>
  /\ UNCHANGED <<disk, source, raw, cursor, flight, counts, ghosts>>

\* What an answer adds to the page.
Answer ==
  [i \in 1..(flight.total - flight.since) |->
     [of |-> flight.id, mode |-> flight.mode, line |-> flight.since + i]]

\* Mutant: the answer is taken for the task that is selected now.
ReceiveForAnyTask ==
  /\ flight.at = "answered"
  /\ cursor' = flight.total
  /\ shown' = shown \o Answer
  /\ flight' = NoFlight
  /\ round' = round \ {"log"}
  /\ UNCHANGED <<disk, source, tasks, selected, raw, counts, ghosts>>

\* The answer of fetchLog arrives; it is dropped when the user has moved on.
Receive ==
  /\ flight.at = "answered"
  /\ IF flight.id = selected
     THEN cursor' = flight.total /\ shown' = shown \o Answer
     ELSE UNCHANGED <<cursor, shown>>
  /\ flight' = NoFlight
  /\ round' = round \ {"log"}
  /\ UNCHANGED <<disk, source, tasks, selected, raw, counts, ghosts>>

-----------------------------------------------------------------------------

Next ==
  \/ \E t \in Tasks : Write(t)
  \/ \E t \in Tasks : Persist(t)
  \/ \E t \in Tasks : Settle(t)
  \/ \E t \in Tasks : Prune(t)
  \/ \E t \in Tasks : OtherPage(t)
  \/ HandleLog
  \/ RequestFails
  \/ \E t \in Tasks : Select(t)
  \/ ToggleRaw
  \/ Arrive
  \/ Loop
  \/ FetchTasks
  \/ Receive

\* The timers of the page fire, and requests are answered or fail.
Fairness ==
  /\ WF_vars(Arrive) /\ WF_vars(Loop) /\ WF_vars(FetchTasks) /\ WF_vars(Receive)
  /\ WF_vars(HandleLog \/ RequestFails)

Spec == Init /\ [][Next]_vars
FairSpec == Spec /\ Fairness

-----------------------------------------------------------------------------
(* Properties.                                                             *)

TypeOK ==
  /\ file \in [Tasks -> Nat]
  /\ live \in [Tasks -> BOOLEAN]
  /\ record \in [Tasks -> [status : {"none", "running", "ended"}, total : Nat]]
  /\ decoded \in [Tasks -> Nat]
  /\ tasks \in [Tasks -> [status : {"none", "running", "ended"}, total : Nat]]
  /\ selected \in Tasks \cup {Nobody}
  /\ raw \in BOOLEAN
  /\ cursor \in Nat
  /\ round \subseteq {"arrival", "list", "log"}

\* The page shows the selected task and nothing else, in the mode it says, every
\* line once and in order, up to its cursor (live.html: a line index never
\* shifts, so a caller goes on from the total it was given).  Two things break
\* this in the code, and the ghosts name them: the log is begun anew while a
\* request for the same task is under way, or the Source has evicted the
\* transcript and has read only part of it again.
PageIsPrefix ==
  selected # Nobody /\ ~crossed /\ ~shrunk =>
    shown = [i \in 1..cursor |-> [of |-> selected, mode |-> raw, line |-> i]]

\* Once nothing changes any more, a page that shows a task that has ended has all
\* the lines its record counts (loop: "stopping on the status alone would
\* silently drop the last lines — the ones being waited for").
PageCatchesUp ==
  <>[](selected # Nobody /\ record[selected].status = "ended" =>
         cursor >= record[selected].total)
=============================================================================
