----------------------------- MODULE Transcript -----------------------------
(***************************************************************************)
(* The transcript of one task and its readers: the server that runs the    *)
(* task appends to t.lines and to the .log file; a client follows it with  *)
(* agent_watch or pages through it with agent_get_output, the command      *)
(* `cli-agent-mcp logs` reads the file from outside, and another server    *)
(* keeps a copy of the task as an orphan.                                  *)
(*                                                                         *)
(* The file is append-only, so a byte is named by its place in it.  It is  *)
(* its size and the set of places that follow a newline; a line is the     *)
(* pair of the places where it begins and ends.  What a reader has got is  *)
(* then a set or a sequence of such pairs, and a pair that is not a line   *)
(* of the file is a fragment.                                              *)
(***************************************************************************)
EXTENDS Integers, Sequences, FiniteSets, FiniteSetsExt

CONSTANTS
  Limit,         \* maxTranscriptLines
  Widths,        \* sizes of a line on disk with its newline, at most maxLineBytes
  Chunk,         \* maxChunk, what one Next reads at most
  Window,        \* tailWindow, how far Follow looks back
  SettleDrains,  \* settleDrains, polls of `logs` after the task has ended
  Backlogs,      \* values of the flag -n: how many earlier lines
  Modes,         \* "once" is --no-follow, "follow" the default, "forever" -f
  Pages,         \* values of max_lines of agent_get_output, 0 for all there are
  Refreshers,    \* callers that may refresh the orphan at the same time
  MaxLines,      \* bound on the lines of the turn
  MaxLate        \* bound on the lines after it, from pumps that outlive pumpGrace

ASSUME TranscriptAssumption ==
  /\ {Limit, Chunk, Window, SettleDrains} \subseteq Nat \ {0}
  /\ {MaxLines, MaxLate} \subseteq Nat
  /\ Pages \subseteq Nat
  /\ Widths \subseteq 2..(Window - 1)
  /\ Backlogs \subseteq Nat \cup {-1}
  /\ Modes \subseteq {"once", "follow", "forever"}

VARIABLES
  total,    \* len(t.lines) at the owner, the truncation marker included
  running,  \* t.running at the owner
  late,     \* lines that came after the turn
  up,       \* the owner's process is alive
  size,     \* bytes in the .log file
  ends,     \* places in the file that follow a newline
  target,   \* where the write in progress will end; t.mu is held until it does
  record,   \* the status in the stored record
  logs,     \* the `logs` command and its Follower
  copy,     \* the orphan: its status and its t.lines
  refresh,  \* the calls of refreshOrphan in progress
  watch     \* agent_watch or agent_get_output: the cursor, the lines the client has

owner == <<total, running, late, up>>
file  == <<size, ends, target>>
vars  == <<owner, file, record, logs, copy, refresh, watch>>

-----------------------------------------------------------------------------

Statuses == {"running", "ended"}

\* Where the lines of the file begin.
Starts == {s \in {0} \cup ends : s < size}

\* The lines from a to b, the first one beginning at a, with these newlines.
LinesBetween(newlines, a, b) ==
  {l \in ({a} \cup newlines) \X newlines :
     /\ a <= l[1] /\ l[1] < l[2] /\ l[2] <= b
     /\ \A e \in newlines : ~(l[1] < e /\ e < l[2])}

\* Store.ReadLines: the text after the last newline counts as a line too.
ReadLines ==
  LET Nth(i) == CHOOSE s \in Starts : Cardinality({r \in Starts : r <= s}) = i
      n      == Cardinality(Starts)
  IN  [i \in 1..n |-> <<Nth(i), IF i < n THEN Nth(i + 1) ELSE size>>]

\* The owner holds t.mu while a line is written.
Unlocked == size = target

Init ==
  /\ total = 0 /\ running = TRUE /\ late = 0 /\ up = TRUE
  /\ size = 0 /\ ends = {} /\ target = 0
  /\ record = "running"
  /\ logs = [at |-> "closed", mode |-> "none", back |-> 0, from |-> 0, off |-> 0,
             held |-> 0, shown |-> {}, status |-> "running", settled |-> 0, full |-> FALSE]
  /\ copy = [at |-> "none", lines |-> <<>>]
  /\ refresh = [r \in Refreshers |-> [at |-> "idle", have |-> 0, status |-> "running"]]
  /\ watch = [at |-> "idle", since |-> 0, heard |-> {}]

-----------------------------------------------------------------------------
(* The owner.                                                              *)

\* appendLine: at the limit the marker goes to memory only, and every line
\* after it nowhere.
AppendLine ==
  /\ up /\ Unlocked
  /\ total' = IF total <= Limit THEN total + 1 ELSE total
  /\ IF total < Limit THEN \E w \in Widths : target' = size + w
                      ELSE UNCHANGED target
  /\ UNCHANGED <<running, up, size, ends, record, logs, copy, refresh, watch>>

Output == running /\ total < MaxLines /\ AppendLine /\ UNCHANGED late

LateOutput ==
  /\ ~running /\ late < MaxLate
  /\ AppendLine
  /\ late' = late + (total' - total)

\* The write of Fprintln reaches the file, in one or several pieces.
Lands ==
  /\ up
  /\ size' \in (size + 1)..target
  /\ ends' = IF size' = target THEN ends \cup {target} ELSE ends
  /\ UNCHANGED <<owner, target, record, logs, copy, refresh, watch>>

\* Mutant: the record says that the task has ended before its pumps are done.
PersistEarly ==
  /\ up /\ Unlocked
  /\ record = "running"
  /\ record' = "ended"
  /\ UNCHANGED <<owner, file, logs, copy, refresh, watch>>

\* The final block of runTurn; the pumps are done or given up.
Settle ==
  /\ up /\ Unlocked /\ running
  /\ running' = FALSE
  /\ UNCHANGED <<total, late, up, file, record, logs, copy, refresh, watch>>

Persist ==
  /\ up /\ Unlocked /\ ~running
  /\ record = "running"
  /\ record' = "ended"
  /\ UNCHANGED <<owner, file, logs, copy, refresh, watch>>

\* The process of the owner ends, perhaps in the middle of a write.
Dies ==
  /\ up
  /\ up' = FALSE
  /\ UNCHANGED <<total, running, late, file, record, logs, copy, refresh, watch>>

-----------------------------------------------------------------------------
(* agent_watch with until="done", one WatchFrom after the other.           *)

\* Mutant: a task that has ended has nothing more to say.
WatchFromEndsFirst ==
  /\ up /\ Unlocked
  /\ watch.at = "watching"
  /\ watch' = IF running
              THEN [watch EXCEPT !.since = total, !.heard = @ \cup (watch.since + 1)..total]
              ELSE [watch EXCEPT !.at = "over"]
  /\ UNCHANGED <<owner, file, record, logs, copy, refresh>>

WatchFrom ==
  /\ up /\ Unlocked
  /\ watch.at = "watching"
  /\ watch' = [at    |-> IF running THEN "watching" ELSE "over",
               since |-> total,
               heard |-> watch.heard \cup (watch.since + 1)..total]
  /\ UNCHANGED <<owner, file, record, logs, copy, refresh>>

\* The first call starts at since_line 0; a later one at the line where the
\* window of the one before it closed, which is the same cursor.
WatchBegins ==
  /\ up /\ watch.at = "idle"
  /\ watch' = [watch EXCEPT !.at = "watching"]
  /\ UNCHANGED <<owner, file, record, logs, copy, refresh>>

(* agent_get_output, called again with the line it got to.                 *)

\* Output, the page of the reply.  A client that was told by an earlier reply
\* that the task has ended, and is now at the end, need not ask again.
GetOutput(max) ==
  /\ up /\ Unlocked
  /\ watch.at \in {"idle", "paging", "last"}
  /\ LET end == IF max > 0 /\ watch.since + max < total THEN watch.since + max ELSE total
     IN  watch' = [at    |-> IF watch.at = "last" /\ end = total THEN "over" ELSE "paged",
                   since |-> end,
                   heard |-> watch.heard \cup (watch.since + 1)..end]
  /\ UNCHANGED <<owner, file, record, logs, copy, refresh>>

\* Snapshot, the status of the reply, which is read after the page.
GetStatus ==
  /\ up /\ Unlocked
  /\ watch.at = "paged"
  /\ watch' = [watch EXCEPT !.at = IF running THEN "paging" ELSE "last"]
  /\ UNCHANGED <<owner, file, record, logs, copy, refresh>>

-----------------------------------------------------------------------------
(* The Follower, and tailOne and tailAll which drive it.                   *)

\* Mutant: the newline at the very end counts.
BackNLinesCountsLast(n, start) ==
  LET Newlines == {e \in ends : start < e}
      Found    == {e \in Newlines : Cardinality({d \in Newlines : d >= e}) = n}
  IN  IF Found # {} THEN CHOOSE e \in Found : TRUE
      ELSE IF start = 0 THEN 0
      ELSE IF Newlines # {} THEN Min(Newlines)
      ELSE size

\* backNLines on the bytes from start to the end of the file: where the last
\* n lines begin.  The newline at the very end begins no line.  When there are
\* fewer than n, all of them, without the first if it may be a fragment.
BackNLines(n, start) ==
  LET Newlines == {e \in ends : start < e}
      Found    == {e \in Newlines \ {size} :
                     Cardinality({d \in Newlines \ {size} : d >= e}) = n}
  IN  IF Found # {} THEN CHOOSE e \in Found : TRUE
      ELSE IF start = 0 THEN 0
      ELSE IF Newlines # {} THEN Min(Newlines)
      ELSE size

\* Where Store.Follow puts a new follower.
FollowAt(n) ==
  IF n < 0 THEN 0
  ELSE IF n = 0 THEN size
  ELSE BackNLines(n, IF size > Window THEN size - Window ELSE 0)

\* Mutant: what follows the last newline is not kept for the next time.
ReadsNextDropsPart(at) ==
  LET read == IF size - logs.off > Chunk THEN Chunk ELSE size - logs.off
      off  == logs.off + read
      done == {e \in ends : logs.off < e /\ e <= off}
      held == IF done = {} THEN logs.held ELSE Max(done)
  IN  logs' = [logs EXCEPT !.at = at, !.off = off, !.held = off,
                           !.shown = @ \cup LinesBetween(ends, logs.held, held),
                           !.full = read = Chunk]

\* Mutant: a backlog of more than one chunk is not read.
ReadsNextInOnePiece(at) ==
  LET read == IF size - logs.off > Chunk THEN 0 ELSE size - logs.off
      off  == logs.off + read
      done == {e \in ends : logs.off < e /\ e <= off}
      held == IF done = {} THEN logs.held ELSE Max(done)
  IN  logs' = [logs EXCEPT !.at = at, !.off = off, !.held = held,
                           !.shown = @ \cup LinesBetween(ends, logs.held, held),
                           !.full = size - logs.off >= Chunk]

\* Follower.Next and the printing of what it returns: one chunk from the
\* offset on; what follows the last newline in it is held back.
ReadsNext(at) ==
  LET read == IF size - logs.off > Chunk THEN Chunk ELSE size - logs.off
      off  == logs.off + read
      done == {e \in ends : logs.off < e /\ e <= off}
      held == IF done = {} THEN logs.held ELSE Max(done)
  IN  logs' = [logs EXCEPT !.at = at, !.off = off, !.held = held,
                           !.shown = @ \cup LinesBetween(ends, logs.held, held),
                           !.full = read = Chunk]

LogsStep == UNCHANGED <<owner, file, record, copy, refresh, watch>>

\* A new follower, n lines from the end.
Opens(n, mode, at) ==
  logs' = [logs EXCEPT !.at = at, !.mode = mode, !.back = n,
             !.from = FollowAt(n), !.off = FollowAt(n), !.held = FollowAt(n)]

LogsOpens(n, m) ==
  /\ logs.at = "closed"
  /\ Opens(n, m, "opened")
  /\ LogsStep

\* logs --all: the list, read at the start and at each rescan, has the task as
\* running.
StreamFound ==
  /\ logs.at = "closed"
  /\ record = "running"
  /\ logs' = [logs EXCEPT !.at = "found"]
  /\ LogsStep

\* It is attached to as long as it runs and a little longer, and first read at
\* the next tick.
StreamAttaches(n) ==
  /\ logs.at = "found"
  /\ Opens(n, "all", "waiting")
  /\ LogsStep

LogsDrains ==
  /\ logs.at = "opened"
  /\ ReadsNext("drained")
  /\ LogsStep

\* Mutant: a task that has ended needs no second read.
LogsLooksOnce ==
  /\ logs.at = "drained"
  /\ LET waits == \/ logs.mode = "forever"
                  \/ logs.mode = "follow" /\ record = "running"
     IN  logs' = [logs EXCEPT !.at = IF waits THEN "waiting" ELSE "left",
                              !.status = record]
  /\ LogsStep

\* Is there anything to wait for?
LogsLooks ==
  /\ logs.at = "drained"
  /\ LET waits == \/ logs.mode = "forever"
                  \/ logs.mode = "follow" /\ record = "running"
     IN  logs' = [logs EXCEPT !.at = IF waits THEN "waiting" ELSE "closing",
                              !.status = record]
  /\ LogsStep

LogsCloses ==
  /\ logs.at = "closing"
  /\ ReadsNext("left")
  /\ LogsStep

LogsTicks ==
  /\ logs.at = "waiting"
  /\ ReadsNext("polled")
  /\ LogsStep

\* Mutant: one poll too many.
LogsLooksOnceMore ==
  /\ logs.at = "polled"
  /\ LET goes == logs.mode # "forever" /\ record # "running"
         n    == IF goes THEN logs.settled + 1 ELSE 0
     IN  logs' = [logs EXCEPT !.at = IF n > SettleDrains THEN "left" ELSE "waiting",
                              !.status = record, !.settled = n]
  /\ LogsStep

\* The record is read after the lines: a task that has ended is polled on until
\* its last lines are sure to have been read.
LogsLooksAgain ==
  /\ logs.at = "polled"
  /\ LET goes == logs.mode # "forever" /\ record # "running"
         n    == IF goes THEN logs.settled + 1 ELSE 0
     IN  logs' = [logs EXCEPT !.at = IF n >= SettleDrains THEN "left" ELSE "waiting",
                              !.status = record, !.settled = n]
  /\ LogsStep

Follow == LogsDrains \/ LogsLooks \/ LogsCloses \/ LogsTicks \/ LogsLooksAgain

-----------------------------------------------------------------------------
(* The orphan in another server.                                           *)

CopyStep == UNCHANGED <<owner, file, record, logs, watch>>

\* Restore has read the record; a running task becomes an orphan.
AdoptRecord ==
  /\ copy.at = "none"
  /\ copy' = [copy EXCEPT !.at = IF record = "running" THEN "adopting" ELSE "settling"]
  /\ UNCHANGED refresh
  /\ CopyStep

\* taskFromSnapshot reads the transcript.
AdoptLines ==
  /\ copy.at \in {"adopting", "settling"}
  /\ copy' = [at    |-> IF copy.at = "adopting" THEN "orphaned" ELSE "settled",
              lines |-> ReadLines]
  /\ UNCHANGED refresh
  /\ CopyStep

\* Mutant: the number of lines the copy has is not asked for.
RefreshBeginsAtZero(r) ==
  /\ copy.at = "orphaned"
  /\ refresh[r].at = "idle"
  /\ refresh' = [refresh EXCEPT ![r].at = "begun", ![r].have = 0]
  /\ UNCHANGED copy
  /\ CopyStep

\* refreshOrphan: under t.mu, then the record, then the lines and t.mu again.
RefreshBegins(r) ==
  /\ copy.at = "orphaned"
  /\ refresh[r].at = "idle"
  /\ refresh' = [refresh EXCEPT ![r].at = "begun", ![r].have = Len(copy.lines)]
  /\ UNCHANGED copy
  /\ CopyStep

RefreshReadsRecord(r) ==
  /\ refresh[r].at = "begun"
  /\ refresh' = [refresh EXCEPT ![r].at = "read", ![r].status = record]
  /\ UNCHANGED copy
  /\ CopyStep

RefreshApplies(r) ==
  /\ refresh[r].at = "read"
  /\ refresh' = [refresh EXCEPT ![r] = [at |-> "idle", have |-> 0, status |-> "running"]]
  /\ copy' = [at    |-> IF refresh[r].status = "ended" THEN "settled" ELSE copy.at,
              lines |-> copy.lines \o SubSeq(ReadLines, refresh[r].have + 1, Len(ReadLines))]
  /\ CopyStep

Refresh(r) == RefreshBegins(r) \/ RefreshReadsRecord(r) \/ RefreshApplies(r)

-----------------------------------------------------------------------------

Next ==
  \/ Output \/ LateOutput \/ Lands \/ Settle \/ Persist \/ Dies
  \/ WatchBegins \/ WatchFrom
  \/ \E max \in Pages : GetOutput(max)
  \/ GetStatus
  \/ \E n \in Backlogs, m \in Modes : LogsOpens(n, m)
  \/ StreamFound
  \/ \E n \in Backlogs : StreamAttaches(n)
  \/ Follow
  \/ AdoptRecord \/ AdoptLines
  \/ \E r \in Refreshers : Refresh(r)

Spec == Init /\ [][Next]_vars

\* The ticker of `logs` goes on by itself.
Fairness == WF_vars(Follow)

-----------------------------------------------------------------------------
(* Properties.                                                             *)

Places == 0..size
Lines == {l \in Places \X Places : l[1] < l[2]}

\* The types of the variables.
TypeOK ==
  /\ total \in 0..(Limit + 1) /\ late \in 0..MaxLate
  /\ running \in BOOLEAN /\ up \in BOOLEAN
  /\ size \in Nat /\ target \in Nat /\ size <= target /\ ends \subseteq 1..size
  /\ record \in Statuses
  /\ logs \in [at : {"closed", "found", "opened", "drained", "waiting", "polled", "closing",
                     "left"},
               mode : Modes \cup {"none", "all"}, back : Backlogs \cup {0}, from : Places,
               off : Places, held : Places, shown : SUBSET Lines, status : Statuses,
               settled : 0..SettleDrains, full : BOOLEAN]
  /\ copy.at \in {"none", "adopting", "settling", "orphaned", "settled"}
  /\ \A i \in DOMAIN copy.lines : copy.lines[i] \in Lines
  /\ refresh \in [Refreshers -> [at : {"idle", "begun", "read"}, have : Nat, status : Statuses]]
  /\ watch.at \in {"idle", "watching", "paged", "paging", "last", "over"}
  /\ watch.since \in 0..total
  /\ watch.heard \subseteq 1..total

\* How many lines the turn has written to the file.
Due == Min({total - late, Limit})

\* `logs` shows whole lines, none left out, none in parts: each chunk may end
\* in the middle of a line the writer has or has not finished.  Only -n 0 may
\* begin in the middle of one, the one that was being written.
FollowerShowsWholeLines ==
  /\ logs.shown = LinesBetween(ends, logs.from, logs.held)
  /\ logs.back # 0 => logs.from \in {0} \cup ends

\* `logs -n N` begins with the last N lines, the one being written included;
\* with fewer only if there are no more in the window.
TailIsTheLastN ==
  [][\A n \in Backlogs \ {-1, 0} :
       (\E m \in Modes : LogsOpens(n, m)) \/ StreamAttaches(n) =>
       LET got == {s \in Starts : s >= logs'.from}
       IN  /\ Cardinality(got) <= n
           /\ \/ Cardinality(got) = n
              \/ \A s \in Starts : s > size - Window => s \in got]_vars

\* When `logs` leaves a task it has seen to have ended, it has shown every line
\* of the turn from its beginning on, unless the last read filled its chunk.
LogsShowsAll ==
  logs.at = "left" /\ logs.status = "ended" /\ ~logs.full =>
    \A i \in 1..Due : ReadLines[i][1] >= logs.from => ReadLines[i] \in logs.shown

\* A line keeps its number in the orphan's transcript: entry i is line i of the
\* file, or the part of it that had been written when it was read.
CopyKeepsNumbers ==
  /\ Len(copy.lines) <= Len(ReadLines)
  /\ \A i \in DOMAIN copy.lines :
       /\ copy.lines[i][1] = ReadLines[i][1]
       /\ copy.lines[i][2] <= ReadLines[i][2]

\* An orphan that has settled has all lines of the turn.
SettledCopyIsComplete ==
  copy.at = "settled" => Len(copy.lines) >= Due

\* agent_watch, and agent_get_output page by page, give the client every line up
\* to its cursor.  When agent_watch says that the task is over there is no line
\* of the turn beyond the cursor; nor when agent_get_output gets to the end after
\* it has said so, where the reply that says so may still be short of lines.
WatchMissesNothing ==
  /\ watch.heard = 1..watch.since
  /\ watch.at = "over" => watch.since >= total - late

\* `logs -f` catches up: in the end it has shown every line there is.
LogsCatchesUp ==
  <>[](logs.mode = "forever" => logs.held = Max({logs.from} \cup ends))
=============================================================================
