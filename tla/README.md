# A formal model of cli-agent-mcp

cli-agent-mcp is an MCP server that delegates work to command line coding agents.
A client calls `agent_start_task`; the server starts an agent as a worker process,
collects its output, answers questions about it, resumes it with follow-ups, and
keeps a record of it on disk. Everything interesting happens between the
goroutines of that server, and between several servers that share one state
directory. This directory holds TLA+ modules of those parts, TLC runs of small
instances, and theorems that TLAPS checks for every instance.

## The system

| Part | Source | State it keeps | What happens to it |
| --- | --- | --- | --- |
| Task registry | `internal/task/manager.go` | `m.tasks`, `m.order`, the cap | start, admit, evict, look up, count |
| Turn runner | `internal/task/manager.go`, `kill_*.go` | per task: `running`, `status`, `cancel`, flags, session | claim, reset, build, spawn, wait, settle, persist; timer, pumps and cancel watcher beside it |
| Shutdown | `Manager.Shutdown`, `main.go` | `m.root` | cancels every turn and waits for a grace period |
| Permission desk | `permissions.go`, `internal/task/permission.go` | `desk.sessions`, `desk.pending`, `t.pending` | decide, elicit, park, answer, time out |
| Approval endpoint | `internal/approval` | token to task | issue, route, revoke |
| Grants | `internal/grants` | list in memory and a file | allow, add, remove |
| Restore, orphans | `internal/task/persist.go` | restored tasks | restore at start, refresh |
| State store | `internal/state` | records, transcripts, lock, cancel requests | save, append, prune, acquire, forget |
| Transcript | `manager.go`, `state/follow.go` | `t.lines`, the `.log` file, cursors | append, watch, follow |
| Worktrees | `task/workspace.go`, `gitx`, `worktrees.go` | `t.workspace`, `t.baseCommit`, a git worktree per isolated task | create, remove, diff |
| Budget | `manager.go` `budgetFor` | usage per task | check before a turn, account for what its lines report |
| Handlers and startup | `main.go` | none of their own | call the above in order |
| Agent adapters | `internal/agent` | none | build command lines, parse events |
| Web viewer | `internal/inspect` (`source.go`, `web.go`, `live.html`) | decoded transcripts; the page's list, selection, cursor and text | poll, select, read, evict |
| Terminal viewer, board, audit, configuration | `internal/inspect`, `ui`, `audit`, `config` | none that the above reads | present, log, parse |

How they interact. A tool handler calls the manager, which starts a goroutine per
turn (`runDetached`, `runTurn`) hanging off `m.root` and not off the call. That
goroutine asks the desk for an approval URL, builds the command through the
adapter, and starts the worker. Beside it run the output pumps, a timer, and a
watcher for the cancel request of another server. The worker calls the approval
endpoint, which calls the desk, which asks the client or parks the request in the
manager until `agent_answer_permission` comes. Snapshots of the task go to the
state store, from which the next server process restores it. Every line of a worker
goes through its adapter, whose events set the result, the error, the session and
the accounting of the task. The viewers are processes of their own that read the
store's files and write nothing.

What is hard. The manager uses two locks (`m.mu`, `t.mu`) one after the other, so
everything a call reads under the first may be stale under the second. Follow-ups
race the end of the turn before them. Companions of a turn (timer, pump, watcher,
the deferred release of its approval) outlive it. An answer races its timeout.
Shutdown observes a flag that changes before the work it stands for is finished.
Several processes write one directory. Five agents print five kinds of output, and
what a turn is called and answers with depends on which fields its lines have left
set. A page polls with a cursor that outlives what it was counted in. `PROJECT.json` lists each of these hazards
at its line, with the properties that would catch it going wrong.

What makes each part correct:

- registry: only idle tasks are dropped, oldest first, none without need; the
  bound holds; the cap holds;
- turn runner: one turn per task; `running` is exact; a live worker can always be
  cancelled; every turn ends when a timeout is set; what the record tells of an
  outcome is true, whoever's persist lands last;
- shutdown: nothing is left running, or it says so;
- desk: nothing is allowed without a yes; every request is decided; what is shown
  can be answered; an answer reaches the request that was meant;
- grants: what is remembered is not asked again; what is revoked is, also after a
  save that failed and a restart;
- output and budget: a turn answers with words of its own, with something when it
  said something, is called done when it is, and the turns of a task together stay
  within the budget;
- web viewer: the page shows each line of the selected task once and in order, and
  gets to the end;
- worktrees: no uncommitted work is lost without force unless a follow-up got in the
  way; a tree that stands can be removed; the diff shows all that was done, as far as
  git could tell;
- store and instances: the first worker of a task stays alone; what a process shows
  as running is its own; isolation from a live owner; no cancel request is erased by
  the turn it is for;
- transcript: no line is lost, renumbered or torn for any reader, and who is told of
  the end has them all.

## The modules

**TaskManager** models `manager.go`. A turn is one call on one task: call 1 is the
`StartTask` that creates it, later calls are follow-ups. `pc[t][c]` is the phase of
the turn; each action is what the code does under one acquisition of `m.mu` or
`t.mu`, or one file operation.

| Variables | Code |
| --- | --- |
| `running status canceledRequested timedOut isError session` | fields of `Task` |
| `cancelFn` | `t.cancel`, as the call whose context it cancels |
| `stamp admissions` | `m.tasks` and `m.order`: the place of a task, 0 when it is not registered |
| `ctxDone` | the context of a turn; `CtxDone` adds its parent `m.root` |
| `timer watch pump` | `time.AfterFunc`, `watchCancelRequest`, `Task.pump` |
| `exit snap` | what `cmd.Wait` returned, the snapshot a persist holds |
| `ask` | each `AskPermission` call: which of its two persists it is in, and the snapshot that one holds |
| `disk cancelFile` | the record's status and the `.cancel` file in the state store |
| `server` | `Shutdown`'s progress and result |

Start: `StartCleared`, `StartRefused`, `Admit` (with `evictLocked` and the removal
of files inside), `PersistStart`. Follow-up: `FollowupLookup`, `FollowupRefused`,
`FollowupClaim`. Turn: `ResetTurn`, `FailTurn`, `BuildCommand`, `Spawn`,
`WorkerExit`, `Settle`, `TakeSnapshot`, `SaveAndUnwind`. Companions: `TimerFires`,
`TimeoutMarks`, `PumpSession`, `PumpFinal`, `PumpEnds`, `WatchFinds`,
`WatchCancels`, `WatchStops`. Permission requests: `AskSnapshot`, `AskSaves`,
`LeaveSnapshot`, `LeaveSaves`, the two persists of an HTTP goroutine that nothing
orders with the persist that ends the turn; what becomes of the request itself is in
PermissionDesk. Outside: `Cancel`, `PeerRequestsCancel`, `Shutdown`,
`ShutdownClean`, `ShutdownLate`.

**TurnLease** is the abstract specification: each task is held by one call or by
nobody, a call takes it once and gives back only what it holds. `ImplementsLease`
is the refinement, with `HolderOf` and `Spent` as the mapping.

**PermissionDesk**, over **Grants**, models a worker's request from the approval
endpoint to its decision, and the tools by which a person answers. Requests run
through `Ask`, `Route`, `AllowGranted` or `AskSomebody`, then `Elicit` or `Park`,
`Pend`, `Show`, one of `Receive`, `TimesOut`, `Abandoned`, and the deferred
`Unpend` and `Unshow`. An answering call runs `AnswerById` or `AnswerByTask`,
`Deliver`, `Remember`; `Revoke` is the other tool. Both change the list in memory and
then save it to `grants.json`, which may fail. `Restart` is the end of the server,
by itself or by a crash, and the start of the next: the endpoint forgets its tokens,
the desk its sessions and requests, and the store is read from its file, or stays
empty and without a file when that cannot be read. Turns open and release the endpoint in the two halves of
`release`, and the release of one turn may come after the next has opened.

| Variables | Code |
| --- | --- |
| `turn session canElicit` | a token's way through `Broker.grants` and `release`; `desk.sessions`; what the client said at initialize |
| `req by decision` | the goroutine of a request, the turn it was made in, what it was told |
| `pending shown answer` | `m.desk.pending`, `t.pending`, the buffered channel of a request |
| `hand` | what an answering call holds |
| `granted stored opened` | `Store.list`, `grants.json`, whether the store knows its file |

Four variables are not in the code. `consent` has the requests somebody said yes to,
`revoked` the uses of which a person was told "Revoked." and which nobody granted
since, `meant` the request an answering call is about, and `starts` bounds the
restarts.

**Instances** models several server processes on one state directory: `main.go`'s
startup, `persist.go`, and the parts of `state.go` that deal in records. A process
that is started again is another member of `Procs`.

| Variables | Code |
| --- | --- |
| `stage prev` | how far `main` is; what `Acquire` returned |
| `known shown` | `m.order`, and `t.status` of the process's copy of a task |
| `turn unsaved worker` | its turn on the task, the persist after it, the process it started |
| `asking` | an `AskPermission` of the task whose deferred persist is to come |
| `watch late` | `watchCancelRequest` of the turn in progress, and of one that is over |
| `lock disk files cancelFile` | `server.lock`, the records and their modification order, the requests |
| `creator followups` | which process made the task; the bound on its turns |

Startup: `Prune`, `AcquireReads`, `AcquireWrites`, `Restore`. Own tasks: `Admit`,
`Record`, `Claim`, `WatchStarts`, `Launch`, `Fail`, `WorkerEnds`, `Settle`, `Save`,
`PersistParked`, `PersistLeft`. The watcher for cancel requests: `WatchTakes` clears the
file, `WatchCancels` or `WatchAborts` then cancels the turn, with a worker or before it
has one; behind the turn's final block the watcher is `late`, until the deferred
cancel, and `LateTakes` or `LateEnds`. Other processes' tasks: `RefreshOrphan`,
`RequestCancel`. `Dies` ends a process anywhere, with any of its workers surviving.

**Transcript** models the transcript of one task with one turn, from the pump that
appends a line to everybody who reads it: `appendLine`, `Store.AppendLine`,
`WatchFrom` under `agent_watch`, `agent_get_output` called page after page, the
`Follower` as the command `logs` drives it (`tailOne`, and `tailAll` for one task),
and the copy of the task that another server restored as an orphan.

The file is append-only, so a byte is its place. A line is a pair of places, where
it begins and where it ends behind its newline; the file is its size and the set of
places behind newlines. What a reader was given is made of such pairs, and a pair
that is no line of the file is a fragment.

| Variables | Code |
| --- | --- |
| `total running late up` | `len(t.lines)`, `t.running`, how many lines came after the turn, the process |
| `size ends target` | the `.log` file; `target` is where the `Fprintln` in progress ends, under `t.mu` |
| `record` | the status in the stored record |
| `logs` | the command: its mode and `-n`, `f.off`, where `f.part` begins (`held`), what it printed, the status it saw, `settled` |
| `copy refresh` | the orphan's status and `t.lines`; the locals of each `refreshOrphan` in progress |
| `watch` | the client of `agent_watch` or `agent_get_output`: its cursor, the lines it was given, the status it was told |

Owner: `Output`, `LateOutput`, `Lands` (a write reaches the file, perhaps in
pieces), `Settle`, `Persist`, `Dies` (perhaps in the middle of a line). Client:
`WatchBegins`, `WatchFrom`; `GetOutput` (the page) and `GetStatus` (the status of the
same reply, read after it). Command: `LogsOpens`, `LogsDrains`, `LogsLooks`,
`LogsCloses`, `LogsTicks`, `LogsLooksAgain`; with `--all` it begins with `StreamFound`
and `StreamAttaches` and goes on with the ticks. Other server: `AdoptRecord`,
`AdoptLines`, `RefreshBegins`, `RefreshReadsRecord`, `RefreshApplies`.

`agent_watch` reads the lines and the status under one lock, so the reply that says
that the task is over has its last line. The handler of `agent_get_output` reads them
one after the other: the reply that first says so may lack lines, and a client has
to read to the end once more. `WatchMissesNothing` states both.

**Worktrees** models tasks that run isolated: `NewWorktree`, the handlers that start
a task in it, its turns as far as they matter to the tree, `RemoveWorktree` with
the two git commands of `gitx.RemoveWorktree`, and what `agent_task_diff` reports.
Git is external: a tree stands or not, holds uncommitted work or not, is torn by a
removal that was stopped or not, and has a number of commits since it was cut. Every
git command may fail. `git worktree remove` looks for changes, then deletes file by
file, and may be stopped by its timeout or survive the server in between.

| Variables | Code |
| --- | --- |
| `stage turn orphan isolated base` | `m.tasks` and what came before, `t.running` by phase, `t.status`, `t.workspace.Isolated()`, `t.baseCommit` |
| `record unsaved` | the stored status, the persist at the end of a turn |
| `stands branch commits dirty torn` | the worktree and its branch, in git |
| `stray` | a worker that survived the server it was started by |
| `removal` | the calls of `RemoveWorktree`, how far they are, and (for the properties) whether a follow-up has claimed the task since (`crossed`) |
| `turns restarts restored` | bounds; and which tasks an earlier server made, for the properties |

Start: `NewWorktree`, `NewTask`, `StartRefused`, `PersistStart`. Turn:
`FollowupClaims`, `Launch`, `LaunchFails`, `Settle`, `Save`, `Evict`. In the tree:
`Edits`, `Commits`, `StrayEnds`. Removal: `Looks`, `Checks`, then git's `GitLooks`,
`DeletesSome`, `DeletesRest`, `RemoveFails`, and `DeletesBranch`, `Forgets`,
`Persists`. `Restart` ends the server anywhere and restores the records in the next
one; a git that deletes may go on (`adrift`). `Summarize` is a report of what the
commands that did not fail have to say.

**AgentEvents** is `ParseLine` of the five adapters: a function from a line to an
event. A line is a record of what its JSON holds, a text the sequence of the words
it is put together from, each with the turn whose worker wrote it. It has no state.

**TurnOutput**, over **AgentEvents**, models one task of one agent from the side of
its output: the command line each turn is started with, the lines its pump reads,
and the result, error, session and accounting they leave on the task.

| Variables | Code |
| --- | --- |
| `turn phase spec command` | the turn in progress, how far `runTurn` is, its `RunSpec`, what `Command` made of it |
| `pump reads` | the pumps of each turn, which may outlive it |
| `exit stop` | what `cmd.Wait` returned, `t.timedOut` and `t.canceledRequested` |
| `session modelUsed lines turnStart resultText lastText isError status usage` | fields of `Task` and of `runTurn` |
| `record restarts` | the stored record; the bound on restarts |
| `billed spent lateCost said ending late` | not in the code: what the properties look back on |

A turn is asked for (`StartTask`, `Followup`), runs (`Reset`, `Fail`, `Launch`), is
read (`ReadLine`, `ReadStderr`, `PumpEnds`), perhaps stopped (`Stop`), and ends
(`WorkerExits`, `Settle`). `Restart` is a server that starts from the record. The
mock agent prints the script it has in `mock.go`; what the others print is a
constant, any set of lines.

**ViewerPage** models the command `ui`: the page in `live.html`, `handleTasks` and
`handleLog`, and the `Source` with its bounded cache of decoded transcripts, beside
the server whose files it reads.

| Variables | Code |
| --- | --- |
| `file live record` | the transcript, the worker and the stored record of a task |
| `cached decoded` | `Source.order`; the length of `v.lines` of each entry |
| `tasks selected raw cursor shown` | the variables of the page; `shown` is the text of its log |
| `flight round` | the log request under way (`logBusy`), what the round of `loop` waits for |
| `clicks others failures` | bounds |
| `crossed shrunk` | not in the code: the two things that spoil the page, see `PageIsPrefix` |

The server: `Write`, `Persist`, `Settle`, `Prune`. The viewer: `HandleLog`,
`RequestFails`, `OtherPage`. The page: `Arrive`, `Loop`, `FetchTasks`, `Receive`,
and the user's `Select` and `ToggleRaw`.

`MCTaskManager`, `MCPermissionDesk`, `MCInstances`, `MCTranscript`, `MCWorktrees`,
`MCTurnOutput` and `MCViewerPage` give the constants values for TLC. `MCInstances` also
has a specification in which startups do not overlap (for `adoption`) and one in which
few things are out at a time (`Bounded`, for `instances`), `MCTranscript` one with a single reader in a behaviour.
`TaskManagerProofs`, `PermissionDeskProofs`, `InstancesProofs`, `TranscriptProofs`,
`WorktreesProofs`, `TurnOutputProofs` and `ViewerPageProofs` hold the theorems.
**Filters** is what the orders of Instances and the lines of TurnOutput are filtered
with, and **DataLemmas** the facts about data that the proofs of several modules rest on.

Operators with `Mutant:` in their comment are changed copies of the action after
them, one for each property; they are used by no specification and show that the
property depends on that code.

### Abstractions

- Outside Transcript and TurnOutput, lines of output, prompts, costs, models and messages are left
  out. A worker's output is what it does to the session id and to `isError`.
- `Running` and `evictLocked` read one task after another under `t.mu`; here they
  are one step. `Cancel` looks the task up and locks it in one step. `StartTask`
  builds the record and checks the capacity in one step: the record is private.
- `persist` is a snapshot and a later write. The record is its status; writes do
  not fail, as the code ignores their errors. A permission request can be made once a
  worker was started and at any time after that, as a call may be slow to arrive;
  that its wait ends is left open, it may also never end.
- The cancel watcher runs only where another instance can leave a request.
- Restored tasks are not in TaskManager's registry; Instances has them.
- In Instances a turn is reduced to what reaches the disk: no sessions, verdicts
  or flags, and every record that is not running has `ended`. The persist that ends
  a turn writes the status of the moment in one step; the deferred one of
  `AskPermission` writes that or an older `running` (`PersistLeft`), which stands for
  its first persist too if that one is late. A watcher that
  has taken a request when its turn ends comes too late and is dropped: what it then
  marks is wiped or ignored, in TaskManager. A refresh reads and applies a record in
  one step, `Restore` loads all records in one step, and modification times differ.
- On Windows the workers of a process die with it (the job object), elsewhere they
  may survive; `Dies` has every choice. Process ids are not reused.
- In PermissionDesk a task's eviction may happen at any time (`ParkRefused`), and
  the worker may drop its connection at any time (`Abandoned`).
- In Transcript an item of `t.lines` is a number at the owner and a pair of places at
  the copy. A poll of `WatchFrom` that finds nothing is a stutter. The file never
  shrinks and is not removed: task ids are not reused, and `Forget` is in Instances.
  Escaping (`escape`, `unescape`) is left out, with it the contents of a line: a
  stored line has exactly one newline, its last byte. What the compact mode leaves
  out is left out, as cursors count raw lines in both modes. A stream of `--all` is
  attached to once: only a follow-up would make a task that has ended run again, and
  then its backlog is shown once more. `Next` opens, asks for the
  size and reads in one step; the file only grows, and it reads no more than the
  size it asked for.
- In Worktrees a git command that is stopped has done nothing, but for the deletion.
  A deletion takes all uncommitted work with its first step or leaves it for later;
  files that were deleted count as changes. `git rev-parse` failing in `Summarize`
  makes the tool report an error, which tells nobody anything wrong, and is left out.
  Crash and restore are one step. Trees have random names, so no two tasks share one.
- In PermissionDesk the turns of a task are numbered anew at each start of the
  server, and a restart is one step: nothing can ask between the end of one server
  and the start of the next. A request that was waiting is refused, as the
  connection it came by breaks. The patterns of grants that a worker is given on its
  command line (`Patterns`, `manager.go:848`) are not modelled: what they allow never
  reaches the endpoint.
- In TurnOutput a text is empty or not, and remembers whose it is; tool names,
  models and messages are left out. The two pumps of a turn end together. Only Claude
  Code reports costs; the limit it is given is enforced by nobody but itself, and it
  spends at most `Overrun` beyond. A server starts again only after a turn that was
  recorded; the records of turns that were cut off or failed are in TaskManager and
  Instances.
- In ViewerPage a transcript has no lines that the compact mode leaves out. The list
  is read and answered in one step, a log is answered in one and received in another;
  a fetch of the list that fails, two of them that overlap, and a hidden tab, which
  polls less and once more when it is shown, are left out. The guard is passed.
- Names are compared with `EqualFold` in the code; a name in Grants is one
  spelling for all. `CommandVerb` is the constant `Verb` from a command to its
  program, and `RememberingWidens` is stated for commands that are their own
  program (`Names`): `Allows` applies `CommandVerb` a second time, to what it has
  extracted already, and a path with a space does not survive that.

## The runs

| Run | Instance | Shows |
| --- | --- | --- |
| `turns` | 1 task, a start and a follow-up, timeout, cancels of both kinds | `RunningIffTurn`, `WorkerIsKillable`, `TurnsEnd` |
| `followups` | 1 task, 2 racing follow-ups, a permission request, shutdown | `OneTurnPerTask`, `ImplementsLease`, `FinishedRunIsRecorded`, `RecordedOutcomeIsTrue`, `ShutdownStopsWorkers` |
| `registry` | 3 tasks, 2 places, cap 1, shutdown, symmetric | `EvictsOldestIdle`, `RetentionBound`, `CleanShutdownLeavesNoWorker` |
| `permissions` | 1 task, 2 requests: one for a program, one for the whole tool; 2 starts | `AllowedOnlyByYes`, `DeskHoldsOnlyWaiting`, `AnswerIsDelivered`, `RevokedStaysRevoked`, `EveryRequestIsDecided`, `RememberingWidens` |
| `instances` | 2 processes, 2 tasks, room for 1, a follow-up, a permission request and a late watcher at a time, symmetric | `FirstWorkerIsAlone`, `RunningIsOurs`, `IsolatedFromLiveOwner`, `RequestIsNotErased` |
| `transcript` | lines of 2 and 4 bytes, chunks of 3, a window of 5, limit 2, 3 lines and a late one, every `-n` and mode, pages of 1 line and of all | `FollowerShowsWholeLines`, `TailIsTheLastN`, `LogsShowsAll`, `LogsCatchesUp`, `CopyKeepsNumbers`, `SettledCopyIsComplete`, `WatchMissesNothing` |
| `worktrees` | 1 task with a follow-up, 2 commits, 2 removals, 2 restarts | `UnforcedKeepsWork`, `StrayKeepsItsTree`, `TreeStaysRemovable`, `DiffShowsTheWork` |
| `answers` | 5 agents, 2 turns of 2 lines of up to 5 kinds (the mock: 2 prompts), budget 2 and overrun 1, a transcript of 3 lines, a restart | `AnswerIsOfThisTurn`, `SaidIsAnswered`, `DoneIsTrue`, `WithinBudget` |
| `viewer` | 2 tasks of 2 lines and 1, one in the cache, one a read; one click, one other page, one lost request | `PageIsPrefix`, `PageCatchesUp` |

The bounds. Exclusion is about pairs of calls; three calls are the least where two
follow-ups race while the first turn is still unwinding. Eviction compares two idle
tasks and needs a third to push them out. Two requests are the least where one
hides the other on the task's status. Two tasks for one place make `Prune` and
eviction drop records of live tasks; two processes make adoption, restart and
isolation happen, and the theorems cover any number. `FewAtOnce` keeps one permission
request out at a time, one watcher behind its turn and one task with follow-ups,
whichever they are: each of them meets the turns, prunes and crashes of everybody
else, but not a second of its own kind. One permission request in `followups` is the
least that races the persist at the end of the turn; it is made in any of the three
turns. Chunk and window are smaller
than two lines and no multiple of one, so that both cut a line in every way, and
three lines over a limit of two reach the truncation marker. Readers write nothing
that the owner or another reader looks at, so one of them in a behaviour is enough;
one refresh at a time is what the throttle of one second allows as long as reading
the files takes less. Isolated tasks share nothing but the restart, so one is
enough; two removals race each other, and a second restart meets what the first
has left. In the desk a second start of the server is where a save that failed
shows. Two turns are the least where one can answer for the other; two lines a turn
put each field of an event before and after each other, and three lines in the
transcript let the limit fall into the second turn. The first task of the viewer is
longer than one read and the cache holds less than the tasks, so that an entry is
evicted and read again in part; one click on top of what the page opens by itself
begins a log during a request of the same task or of another. `MaxFollowups`, `MaxCalls` and `MaxTurns` cap the calls; each
flag (`TimeoutSet`, `ClientCancels`, `PeerCancels`, `LatePumps`, `ShutsDown`) is on in some run and
off where it would only multiply states. The safety theorems hold for all values of
all constants, so no run has to combine every flag. Runs of safety and liveness
stop when the bounded calls are used up, so deadlock is not checked.

Fairness. The goroutine of a turn runs on (`TurnStep`), a worker whose context is
done is killed and waited for (`Killed`: `cmd.Cancel` and `WaitDelay`), a pump
comes to the end of the output of a process that is gone, an armed timer fires. In
the desk the goroutine of a request runs, and both waits end: the timeout is always
positive (`config.go:335`). In Transcript only the ticker of `logs` is fair; the owner may stop
anywhere, also in a line. In ViewerPage the timers of the page fire, the first list
is fetched, and a request is answered or fails, as a browser sees to; requests are
lost `MaxFailures` times, and nothing is assumed of the user or the server that
writes. No fairness is assumed of a worker left alone, of the
client, or of any person.

### What the code does not keep

Three runs expect a violation: each states a sentence of the documentation or of a
comment that the code does not keep, quoted in `PROJECT.json`.

- `adoption`: the lock names only the last starter. A serves, B starts and ends (a
  second window, or `--list-agents`), C starts and adopts A's live tasks.
- `twoworkers`: a follow-up's claim is not persisted. A crash during one leaves a
  record that says the task has ended, and the next process resumes it beside the
  worker that survived.
- `wronganswer`: an answer without a request id may release a request of the task
  other than the one its status shows.

Seen while modelling and stated by no run:

- a cancel that is accepted between the claim of a turn and `runTurn`'s reset block
  is wiped by it (`manager.go:774`): the tool has said that the task is being
  cancelled, and the worker starts;
- the budget is promised "across all of its turns" (`README.md:606`), but a restart
  begins the accounting anew, what a turn that was killed has spent is never
  reported, and what a late line reports is not there when the next turn is checked;
- a line of an earlier turn that is read late can fail the turn in progress
  (`isError`; `DoneIsTrue` names it, `ending.of`) or answer it (`AnswerIsOfThisTurn`
  admits it by name, `late`);
- the deferred persist of a permission request may take its snapshot while the turn
  runs and rename it over the record of its outcome: the record of a finished task
  then says `running` until something else persists it, and the next server restores
  it as orphaned (`RunningOutlived`);
- a cancel request that is written as a turn ends may be taken by the watcher of that
  turn, which cancels nothing, though it was meant for the follow-up; a process that
  dies between clearing the request and the cancel has lost it;
- an agent whose output is its result answers with nothing when the transcript was cut
  off before the turn began, or when its last 200 lines are blank. The first needs no
  long turn: the marker of a transcript that is cut off during a turn is that turn's
  answer, while a turn that begins after it has nothing to answer with, and a server
  that starts again does not even have the marker;
- after a save that failed, a second Add of the same grant is a no-op without an
  error, and the tool says that it is "pre-approved for every future task"
  (`permission_tools.go:91`); a second Remove finds nothing to revoke, while the file
  keeps the grant for the next start;
- a worker keeps the patterns it was launched with after a revoke, where the reply
  says that workers will ask about it again;
- a page whose log is begun anew while a request for the same task is under way (the
  raw toggle, or a click away and back) gives its new log only what that request
  brings, in the old mode, and goes on from there;
- a transcript of more than one chunk that the Source evicts is read again a chunk a
  request, so the total goes backwards and the page shows lines twice;
  `source.go:207` says that a caller keeps polling with the returned total;
- the claim of a follow-up is not persisted, so the page does not show the lines of a
  follow-up until its record changes, and the list calls the task ended;
- the total of a record counts the truncation marker, which is in no file: the page
  of such a task polls for ever for a line that is not there;
- `Manager.List` takes the reference of the map of tasks under the lock and reads the
  map after it (`manager.go:1197`), while a start may write it: a data race, at which
  the Go runtime may stop the server;
- a reply of `agent_get_output` can say that the task has ended without its last
  lines; `logs --all` never shows a task that begins and ends between two rescans,
  two seconds apart;
- the viewer's registry (`source.go:69`) has no adapter for Kimi, whose lines it shows
  untouched, though the comment says it renders as the tools do;
- a follow-up that has looked its task up can claim it after an admission evicted it;
  its worker is then counted, listed and cancelled by nobody;
- `taskFromSnapshot` restores neither the workspace nor the base commit nor the
  usage: after a restart `agent_remove_worktree` says of an isolated task that it did
  not run in a worktree, `agent_task_diff` compares with `HEAD` and shows nothing of
  what was committed, where `README.md:564` promises the opposite, and the budget
  starts anew; `Worktrees` states its properties for tasks of the server that made
  them (`restored`);
- a follow-up that claims a task after a removal has looked at it loses its worktree
  while it works, though the removal refuses a running task (`workspace.go:111`), and
  with it what it wrote after git's look, without force (`crossed`);
- a removal that git's timeout stops half way leaves a torn tree, which the next call
  refuses as uncommitted changes unless it is forced; two removals at once may both
  report success;
- `agent_task_diff` says that the worker left the directory as it was when the base
  could not be read and the work was committed, or when a git command failed:
  `Summarize` passes over the errors of `log`, `diff`, `ls-files` and `status`;
- a start that is refused (the cap on workers) leaves its worktree behind, as does a
  task that is evicted; no tool can remove it;
- `agent_remove_worktree` reports the branch as removed when `git branch -D` failed;
- a task evicted while `agent_remove_worktree` runs gets its record back, and the
  handler then calls a method of a nil task;
- follow-ups are not subject to the cap on workers (`prepareFollowup` has no check);
- a turn that fails before its worker starts is not persisted;
- a clean `Shutdown` may come before the last persist of a turn; the task is then
  restored as orphaned although it had ended;
- a remembered program whose path has a space is asked about again;
- `logs -n -1` of a task that has ended reads two chunks (8 MiB) and leaves, where
  `cli.go:268` says everything; `LogsShowsAll` excuses a last read that was full;
- `logs -n 0` opened in the middle of a line shows the rest of it as a line;
- a line that an orphan's server read while it was being written stays cut off in
  its copy, and two refreshes at once, the first slower than the throttle, add the
  same lines twice;
- a pump that writes after its task was evicted creates a `.log` again that nothing
  removes.

## What is proved

`TaskManagerProofs`, for any finite set of tasks and any values of the bounds and
flags (`ConstantsAssumption`):

- `TypeCorrect`: the types of the variables.
- `Exclusive`, `RunningIsExact`, `Killable`: the three properties are inductive only
  together, and with `CreatedBeforeFound`. A follow-up may claim because `running`
  is false, which means that no turn is in progress because `RunningIffTurn`; a
  start may claim because nobody has found a task that is not registered yet. Four
  lemmas say what a frame, a move within the claim, an end and a claim do to the
  invariant; the step lemma sorts the actions into them.
- `Refinement`: every step takes the lease, returns it, or leaves it alone.
- `CleanStop`: as long as there is room for every task, a clean shutdown leaves no
  worker. The assumption is needed: with eviction the worker of a follow-up that
  claims an evicted task survives unseen.
- `Retention`, `Bounded`: what an admission does to the registry. No two tasks have
  the same place in `m.order` and none a place to come (`Ordered`). `Eviction` then
  says of any registry that what is taken from it are its oldest idle tasks, as many
  as are too many, or all of them: the k-th idle task is the one of rank k.
- `RunIsRecorded`, `OutcomeIsTrue`: no status on disk or in the snapshot of any
  persist under way is an outcome the task has not come to (`AllRight`): a snapshot
  is taken of a status that tells an outcome only after there is one (`StatusFits`),
  and while the first run is the only one the status does not change again. So
  whichever rename lands last, what it brings is the run's own outcome or an old
  `running`, and the latter only from a request whose last snapshot is that old
  (`Saved`). With a follow-up an older outcome may land over a newer one, and the
  properties do not say otherwise.

`PermissionDeskProofs`, for any tasks, owners, requests and grants
(`DeskAssumption`):

- `DeskTypeCorrect`: the types of the variables.
- `OnlyByYes`, `NoDanglingRequest`, `Delivered`: the invariant follows an answer
  back through the channel and the hand of the call that carries it (`YesIsMeant`),
  and says that before a request is taken out of the map nobody has an answer for it
  (`Untouched`), which is why one slot in the channel is enough.
- `RevokedForGood`: neither the list in memory nor the file allows what a person was
  told is revoked (`RevokedInv`): the reply comes after the save, so what a restart
  reads is as narrow as what was in memory, or nothing. It rests on `Minimal`, for
  both lists: no grant stands beside one for the whole of its tool, because `Add`
  drops the narrower ones; so removing what was granted leaves nothing that covers
  the same use. `RememberedForGood` needs no invariant
  beyond the types: `Add` covers what it adds and what it drops.

`InstancesProofs`, for any processes, tasks and bounds (`InstancesAssumption`):

- `FirstWorker`: from its admission to the end of its first worker (`InFirst`) no
  record and no copy of a task says that it has ended and no earlier persist is
  outstanding, so whoever loads it has an orphan, which nobody may resume
  (`Undecided`). The invariant needs that no trace of a task precedes its creation
  and that workers without a turn belong to processes that are gone.
- `OwnRunning`, `Isolation`: conjuncts of the same invariant.
- `Requests`: the one action property; the cases are the ways a request can go, and
  the ways the watcher that has taken one can end.
- `OrdersAgree`: the list of a registry has exactly the tasks of its map and the files
  are exactly the records (`Ordered`): `admit`, `evictLocked`, `Restore` and `Forget`
  change both, and none of them may forget one. A task that is in the list alone would
  be counted for ever, one in the map alone never evicted. No run has this as a
  property; it is what `TypeCorrect` needs, as the head of an order must be a task.

`TranscriptProofs`, for any sizes of lines, chunks and window with lines shorter
than the window (`TranscriptAssumption`; a stored line is at most 128 KiB and a
window 1 MiB):

- `WholeLines`: what the command shows is exactly the set of lines between where it
  began and the begin of the part it holds back. The invariant is that this part
  holds no newline (`Held`) and that a write in progress began behind a newline
  (`FileInv`). Then what a chunk completes joins what was shown before: the lines
  up to `b` and those from `b` to `c` are those up to `c` when `b` follows a newline
  (`Telescope`). That a place has a nearest newline before and behind it is the
  least element of a set of naturals (`Least`, `Greatest`), from the well-founded
  order.
- `WatchIsComplete`: the cursor of a client is where its lines end, and a turn that
  is over has no line behind the cursor of a client that was told so.
- `TailIsExact`: `backNLines` is on the n-th line from the end. A line begins where
  another ends, and the n-th newline from the end of the window has n - 1 newlines
  behind it in the window (`RankFromAbove`); the line being written has none, which is
  why the code counts from another place when the file ends with a newline.
- `ShowsAll`, for `SettleDrains` above one (the code has three): a poll that comes
  after the record was seen to have ended and did not fill its chunk is past the last
  line of the turn (`LogsInv`), because the owner writes the record last. With one
  poll this is false: the lines could come between it and the record.
- `SettledIsComplete`, for any number of refreshes at once: an ending that a refresh
  has read has taken place, so the file it reads afterwards has every line of the turn
  (`CopyInv`). This is where the order of the two reads in `refreshOrphan` matters.
- `NumbersAreKept`, for one refresh at a time: how many lines a refresh believes the
  copy to have is how many it has (`NumbersInv`). The assumption is needed: two
  overlapping refreshes add the same lines twice (see above).
- `TypesHold`: that every place a reader holds is a place in the file is a consequence
  of the other invariants, not an invariant by itself.

`WorktreesProofs`, for any numbers of tasks, removals, turns, commits and restarts:

- every property of the run, from one invariant that follows a tree: nothing has
  happened in it before its task exists (`Fresh`), a task of this server knows its
  tree, and where it began if git could tell (`Mine`), the tree of a removal that got
  through is gone (`Gone`), where a worker of an earlier server runs nobody can ask
  for a removal (`Lost`), and beside a call that may still take the tree nobody works
  in it but a follow-up that crossed the call, so that what git has seen stays so
  (`Quiet`). `WorkIsKept` and `StrayIsSafe` rest on the last: only the deletion ends
  uncommitted work other than a commit does, and it was clean when git looked.

`TurnOutputProofs`, for any lines of any agent, budget, overrun, limits and numbers
of turns and restarts (`OutputAssumption`; `LinesAssumption`: what an agent claims
to have spent is a natural number, the message of a line of Claude Code is a sequence of
`Block`s as `claudeMessage` decodes it, and the result of a final event is there, empty
or absent):

- `BudgetHolds`: while a turn lasts, what the task had spent before it and the limit
  it was handed make the budget, and what it has billed since and what was late is
  all that was added (`Money`). Nothing is billed to a turn before its launch
  (`Unread`). Over all servers the invariant follows what was reported in time, less
  one budget with its overrun (`Cap`) for every earlier server (`Counted`).
- `VerdictIsTrue`: until the end of a turn the task's `isError` is the one of the
  last final event read since the reset block, which has wiped what came before
  (`Judged`), and a turn whose events are read in another one is late.
- `AnswerIsOwn`: while a turn lasts, whatever it may answer with (`resultText`,
  `lastText`, the lines after `turnStart`) is of its own worker, of nobody (the
  truncation marker) or of a pump that read on (`OwnWords`). That
  every word of an event is one of the line's worker is shown adapter by adapter; the
  words of Claude Code are folded together from the blocks of a message.
- `HeardIsAnswered`: what was heard is there to be the answer (`Heard`): as the result,
  as the last text, or, where the output is the result, as a line of the turn that is
  not blank and is not lost by keeping the last 200 lines. The proof found an earlier
  form of the property to be false: it asked only that the transcript has a place left
  at the end of the turn. With a limit of one line, a turn that begins after the cut in
  a server that was started again answers with nothing. TLC confirmed it, and the
  property now speaks of where the turn begins. The run has a limit of three lines;
  turns that begin beyond it are covered by the theorem.

`ViewerPageProofs`, for any tasks, transcripts, chunk and size of the cache
(`ViewerAssumption`):

- `PageShowsPrefix`: a request under way for what the page shows goes on exactly where
  the page ends and in its mode (`Continues`), unless one of the two ghosts says
  otherwise; so an answer prolongs a prefix (`PrefixGrows`).

`DataLemmas` has no theorem of a module, but what several of them need. `LeastExists`,
from the library's well-founded order, says that a set of naturals that is not empty
has a least element. From it follow the ranks (every rank up to the cardinality is taken
by one element) and all inductions over data: no argument is the least one for which a
recursive function is undefined, or has not the property claimed of it. So
`KeepsExists` and `KeepPicks` say what `Keep` leaves of any sequence, and
`FlattenJoins`, in TurnOutputProofs, what the fold of the community modules makes of
any sequence of texts. `Filters` has `Keep` because the prover knows
nothing of `SelectSeq`.

Only model-checked: `TurnsEnd`, `ShutdownStopsWorkers`, `EveryRequestIsDecided`,
`LogsCatchesUp` and `PageCatchesUp`. They are liveness under fairness,
which is out of the prover's reach. Every safety property of a passing run is proved.

## Not modelled, and the plan

In the order in which they are worth doing:

1. **TaskAndDesk**: TaskManager and PermissionDesk composed, for the evicted task in
   the answer's handler and the sessions of overlapping turns. The persists of
   `AskPermission` are in TaskManager and Instances already.
2. Several servers on one `grants.json`: abstract specification one shared set. The
   code does not implement it (each server reads the file once and writes its list
   whole), so this is a question of what to promise.
3. `logs --all` (`tailAll`) with several tasks that come and go, and with follow-ups;
   the stream of one task with one turn is in Transcript.
4. In ViewerPage, the terminal list (`ui` without a browser) and records that lag by
   the persists of a permission request.

Theorems worth proving next: that a process alone on its directory never has two workers
on a task, restarts without surviving workers included; `RunIsRecorded` for the last of
several runs, as far as it holds; that an orphan's copy never has more lines than the
limit and the marker.

Left out for good: what of the adapters' command lines nothing else depends on,
finding and creating processes on each operating system, the formatting of the viewers, the board, the audit log and the parsing of the configuration:
they keep no state that another part depends on. What git, the file system, the
operating system's process table and the MCP library do is external.

## Running the checks

    tlc -workers 2 -config turns.cfg MCTaskManager
    tlc -workers 2 -config permissions.cfg MCPermissionDesk
    tlc -workers 2 -config instances.cfg MCInstances
    tlc -workers 2 -config transcript.cfg MCTranscript
    tlc -workers 2 -config worktrees.cfg MCWorktrees
    tlc -workers 2 -config answers.cfg MCTurnOutput
    tlc -workers 2 -config viewer.cfg MCViewerPage
    tlapm DataLemmas.tla
    tlapm TaskManagerProofs.tla
    tlapm PermissionDeskProofs.tla
    tlapm InstancesProofs.tla
    tlapm TranscriptProofs.tla
    tlapm WorktreesProofs.tla
    tlapm TurnOutputProofs.tla
    tlapm ViewerPageProofs.tla

`PROJECT.json` names the module of every configuration.
