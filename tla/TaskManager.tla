---------------------------- MODULE TaskManager ----------------------------
(***************************************************************************)
(* The task manager of internal/task/manager.go: the registry of tasks,    *)
(* the calls that start, resume, cancel and stop work, and the goroutine   *)
(* (runTurn) that carries each turn from its claim to its outcome.         *)
(*                                                                         *)
(* A turn is one call on one task: call 1 of a task is the StartTask that  *)
(* creates it, calls 2..MaxCalls are follow-ups.  Every step below is what *)
(* the code does under one acquisition of m.mu or t.mu, or one file        *)
(* operation; everything between two such steps interleaves freely.        *)
(***************************************************************************)
EXTENDS Naturals, FiniteSets

CONSTANTS
  Tasks,           \* task ids, each created at most once (newID never repeats)
  MaxCalls,        \* bound: StartTask plus at most MaxCalls-1 follow-ups a task
  MaxTasks,        \* m.maxTasks, the number of retained records
  MaxConcurrent,   \* m.maxConcurrent, 0 disables the cap
  TimeoutSet,      \* m.timeout > 0
  ClientCancels,   \* whether the client ever cancels a task
  PeerCancels,     \* whether another server instance leaves cancel requests
  LatePumps,       \* whether something holds a worker's stdout past pumpGrace
  Requests,        \* bound: the AskPermission calls a task ever sees
  ShutsDown        \* whether the client ever closes the server

ASSUME ConstantsAssumption ==
  /\ IsFiniteSet(Tasks)
  /\ MaxCalls \in Nat \ {0}
  /\ MaxTasks \in Nat \ {0}
  /\ MaxConcurrent \in Nat
  /\ TimeoutSet \in BOOLEAN
  /\ ClientCancels \in BOOLEAN
  /\ PeerCancels \in BOOLEAN
  /\ LatePumps \in BOOLEAN
  /\ ShutsDown \in BOOLEAN

Calls == 1..MaxCalls
NoCall == 0

(***************************************************************************)
(* The life of a turn.                                                     *)
(*   cleared   StartTask only: newTask done, checkCapacity passed          *)
(*   admitted  StartTask only: in the map, the first persist is pending    *)
(*   found     follow-up only: Get returned the task, nothing claimed yet  *)
(*   launched  claimed; the runTurn goroutine is on its way                *)
(*   prepared  runTurn's reset block is done, the context is live          *)
(*   built     Command succeeded, the cancel watcher runs                  *)
(*   alive     the worker process runs                                     *)
(*   exited    cmd.Wait returned                                           *)
(*   settled   the outcome is in memory; running is false                  *)
(*   snapped   persist has taken its snapshot, the rename is pending       *)
(*   over      the goroutine is gone                                       *)
(*   aborted   it is gone through fail: no worker ever ran                 *)
(*   refused   the call returned an error, no turn took place              *)
(***************************************************************************)
Phases == {"idle", "cleared", "admitted", "found", "launched", "prepared",
           "built", "alive", "exited", "settled", "snapped", "over", "aborted", "refused"}

\* The phases in which a turn holds its task: t.running is true because of it.
Active == {"cleared", "admitted", "launched", "prepared", "built", "alive", "exited"}

\* The phases of a turn that ran and let go of its task.
Ended == {"settled", "snapped", "over", "aborted"}

\* An AskPermission call: in its first persist, waiting for the answer, in its
\* deferred persist, gone.
AskPhases == {"idle", "asking", "waiting", "leaving", "over"}

Outcomes == {"done", "failed", "canceled"}

Statuses == {"none", "running"} \cup Outcomes

VARIABLES
  pc,                 \* phase of each turn
  ctxDone,            \* the turn's own context has been cancelled
  exit,               \* what cmd.Wait just reported: "none", "ok" or "bad"
  timer,              \* the turn's time.AfterFunc: "off", "armed" or "fired"
  watch,              \* its watchCancelRequest: "off", "polling" or "found"
  pump,               \* its stdout pump: "off" or "reading"
  snap,               \* the status in the snapshot its persist holds
  running,            \* t.running
  status,             \* t.status
  canceledRequested,  \* t.canceledRequested
  timedOut,           \* t.timedOut
  isError,            \* t.isError
  cancelFn,           \* t.cancel: the call whose context it cancels, or NoCall
  session,            \* t.sessionID # ""
  stamp,              \* place in m.order, 0 when the task is not in m.tasks
  admissions,         \* number of tasks ever appended to m.order
  disk,               \* status in the stored record, or "absent"
  cancelFile,         \* a .cancel file exists for the task
  ask,                \* each AskPermission call: where it is, and the status in the
                      \* last snapshot one of its persists took
  server              \* "serving", "stopping", or how Shutdown ended

turnVars == <<pc, ctxDone, exit, timer, watch, pump, snap>>
taskVars == <<running, status, canceledRequested, timedOut, isError, cancelFn, session>>
registry == <<stamp, admissions>>
store    == <<disk, cancelFile>>
vars     == <<turnVars, taskVars, registry, store, ask, server>>

-----------------------------------------------------------------------------

Registered == {t \in Tasks : stamp[t] > 0}

\* Manager.Running: the registered tasks whose running flag is set.
Running == {t \in Registered : running[t]}

\* The process is still there to take steps.
Up == server \in {"serving", "stopping"}

\* Mutant: the turn hangs off context.Background() instead of m.root.
CtxDoneDetached(t, c) == ctxDone[t][c]

\* A turn's context is done when it was cancelled itself or when its parent,
\* m.root, was: the turn hangs off m.root and not off the call that asked.
CtxDone(t, c) == ctxDone[t][c] \/ server # "serving"

\* The record of the task has been written once, so another instance that
\* shares the state directory may know the task.
Recorded(t) == pc[t][1] \notin {"idle", "cleared", "admitted", "refused"}

Step(t, c, from, to) ==
  /\ Up
  /\ pc[t][c] = from
  /\ pc' = [pc EXCEPT ![t][c] = to]

Init ==
  /\ pc = [t \in Tasks |-> [c \in Calls |-> "idle"]]
  /\ ctxDone = [t \in Tasks |-> [c \in Calls |-> FALSE]]
  /\ exit = [t \in Tasks |-> [c \in Calls |-> "none"]]
  /\ timer = [t \in Tasks |-> [c \in Calls |-> "off"]]
  /\ watch = [t \in Tasks |-> [c \in Calls |-> "off"]]
  /\ pump = [t \in Tasks |-> [c \in Calls |-> "off"]]
  /\ snap = [t \in Tasks |-> [c \in Calls |-> "none"]]
  /\ running = [t \in Tasks |-> FALSE]
  /\ status = [t \in Tasks |-> "none"]
  /\ canceledRequested = [t \in Tasks |-> FALSE]
  /\ timedOut = [t \in Tasks |-> FALSE]
  /\ isError = [t \in Tasks |-> FALSE]
  /\ cancelFn = [t \in Tasks |-> NoCall]
  /\ session = [t \in Tasks |-> FALSE]
  /\ stamp = [t \in Tasks |-> 0]
  /\ admissions = 0
  /\ disk = [t \in Tasks |-> "absent"]
  /\ cancelFile = [t \in Tasks |-> FALSE]
  /\ ask = [t \in Tasks |-> [r \in Requests |-> [at |-> "idle", snap |-> "none"]]]
  /\ server = "serving"

-----------------------------------------------------------------------------
(* StartTask: newTask, then admit (capacity check, insertion), then the    *)
(* first persist, then the goroutine.                                      *)

\* checkCapacity counts the live workers; the manager lock is free again by
\* the time the task is inserted.
HasCapacity == MaxConcurrent = 0 \/ Cardinality(Running) < MaxConcurrent

\* newTask builds a record that is already running; when the capacity check
\* passes it is on its way into the map.
StartCleared(t) ==
  /\ Step(t, 1, "idle", "cleared")
  /\ HasCapacity
  /\ running' = [running EXCEPT ![t] = TRUE]
  /\ status' = [status EXCEPT ![t] = "running"]
  /\ UNCHANGED <<ctxDone, exit, timer, watch, pump, snap, canceledRequested, timedOut,
                 isError, cancelFn, session, registry, store, ask, server>>

\* At capacity the call fails and its record is dropped unseen.
StartRefused(t) ==
  /\ Step(t, 1, "idle", "refused")
  /\ ~HasCapacity
  /\ UNCHANGED <<ctxDone, exit, timer, watch, pump, snap, taskVars, registry, store,
                 ask, server>>

\* Mutant: the newest idle tasks go first.
DroppedNewest(reg) ==
  {u \in reg : /\ ~running[u]
               /\ Cardinality({v \in reg : ~running[v] /\ stamp[v] > stamp[u]})
                    < Cardinality(reg) - MaxTasks}

\* Mutant: one task too many is kept.
DroppedTooFew(reg) ==
  {u \in reg : /\ ~running[u]
               /\ Cardinality({v \in reg : ~running[v] /\ stamp[v] < stamp[u]}) + 1
                    < Cardinality(reg) - MaxTasks}

\* evictLocked: the oldest tasks that are not running, as many as the registry
\* reg has beyond MaxTasks.
Dropped(reg) ==
  {u \in reg : /\ ~running[u]
               /\ Cardinality({v \in reg : ~running[v] /\ stamp[v] < stamp[u]})
                    < Cardinality(reg) - MaxTasks}

\* admit inserts the task and evicts in the same critical section; an evicted
\* task's files are removed by store.Forget.
Admit(t) ==
  LET out == Dropped(Registered \cup {t})
  IN  /\ Step(t, 1, "cleared", "admitted")
      /\ admissions' = admissions + 1
      /\ stamp' = [u \in Tasks |-> IF u = t THEN admissions + 1
                                   ELSE IF u \in out THEN 0 ELSE stamp[u]]
      /\ disk' = [u \in Tasks |-> IF u \in out THEN "absent" ELSE disk[u]]
      /\ cancelFile' = [u \in Tasks |-> u \notin out /\ cancelFile[u]]
      /\ UNCHANGED <<ctxDone, exit, timer, watch, pump, snap, taskVars, ask, server>>

\* StartTask persists the record before it launches the turn.
PersistStart(t) ==
  /\ Step(t, 1, "admitted", "launched")
  /\ disk' = [disk EXCEPT ![t] = status[t]]
  /\ UNCHANGED <<ctxDone, exit, timer, watch, pump, snap, taskVars, registry,
                 cancelFile, ask, server>>

-----------------------------------------------------------------------------
(* Follow-ups: prepareFollowup looks the task up under m.mu and claims it  *)
(* under t.mu.  No capacity check, no persist.                             *)

\* Bound: call c of a task is used only after call c-1.
FollowupLookup(t, c) ==
  /\ c > 1
  /\ pc[t][c - 1] # "idle"
  /\ t \in Registered
  /\ Step(t, c, "idle", "found")
  /\ UNCHANGED <<ctxDone, exit, timer, watch, pump, snap, taskVars, registry, store,
                 ask, server>>

\* A task that is running, or that never captured a session, is refused.
FollowupRefused(t, c) ==
  /\ Step(t, c, "found", "refused")
  /\ running[t] \/ ~session[t]
  /\ UNCHANGED <<ctxDone, exit, timer, watch, pump, snap, taskVars, registry, store,
                 ask, server>>

\* Mutant: the guard is tested here and running is left to runTurn.
FollowupClaimLate(t, c) ==
  /\ Step(t, c, "found", "launched")
  /\ ~running[t]
  /\ session[t]
  /\ UNCHANGED <<ctxDone, exit, timer, watch, pump, snap, taskVars, registry, store, ask, server>>

\* The claim: running is tested and set under one acquisition of t.mu.
FollowupClaim(t, c) ==
  /\ Step(t, c, "found", "launched")
  /\ ~running[t]
  /\ session[t]
  /\ running' = [running EXCEPT ![t] = TRUE]
  /\ status' = [status EXCEPT ![t] = "running"]
  /\ UNCHANGED <<ctxDone, exit, timer, watch, pump, snap, canceledRequested, timedOut,
                 isError, cancelFn, session, registry, store, ask, server>>

-----------------------------------------------------------------------------
(* runTurn                                                                 *)

\* The reset block: every flag a previous turn left behind is cleared.
ResetTurn(t, c) ==
  /\ Step(t, c, "launched", "prepared")
  /\ cancelFn' = [cancelFn EXCEPT ![t] = c]
  /\ status' = [status EXCEPT ![t] = "running"]
  /\ running' = [running EXCEPT ![t] = TRUE]
  /\ canceledRequested' = [canceledRequested EXCEPT ![t] = FALSE]
  /\ timedOut' = [timedOut EXCEPT ![t] = FALSE]
  /\ isError' = [isError EXCEPT ![t] = FALSE]
  /\ UNCHANGED <<ctxDone, exit, timer, watch, pump, snap, session, registry, store,
                 ask, server>>

\* Mutant: an early return that leaves the task running.
FailTurnStuck(t, c) ==
  /\ \/ Step(t, c, "prepared", "aborted")
     \/ Step(t, c, "built", "aborted")
  /\ cancelFn' = [cancelFn EXCEPT ![t] = NoCall]
  /\ status' = [status EXCEPT ![t] = "failed"]
  /\ ctxDone' = [ctxDone EXCEPT ![t][c] = TRUE]
  /\ UNCHANGED <<exit, timer, watch, pump, snap, running, canceledRequested, timedOut,
                 isError, session, registry, store, ask, server>>

\* fail: no budget left, Command, a pipe or Start returned an error.  The
\* record on disk is not rewritten; the deferred cancel ends the watcher.
FailTurn(t, c) ==
  /\ \/ Step(t, c, "prepared", "aborted")
     \/ Step(t, c, "built", "aborted")
  /\ running' = [running EXCEPT ![t] = FALSE]
  /\ cancelFn' = [cancelFn EXCEPT ![t] = NoCall]
  /\ status' = [status EXCEPT ![t] = "failed"]
  /\ ctxDone' = [ctxDone EXCEPT ![t][c] = TRUE]
  /\ UNCHANGED <<exit, timer, watch, pump, snap, canceledRequested, timedOut, isError,
                 session, registry, store, ask, server>>

\* The command is built and the watcher for another instance's cancel starts;
\* where no request can come it is left out.
BuildCommand(t, c) ==
  /\ Step(t, c, "prepared", "built")
  /\ watch' = [watch EXCEPT ![t][c] = IF PeerCancels THEN "polling" ELSE "off"]
  /\ UNCHANGED <<ctxDone, exit, timer, pump, snap, taskVars, registry, store, ask, server>>

\* cmd.Start refuses a context that is already done; otherwise the worker is
\* alive, the timeout is armed and the output is read.
Spawn(t, c) ==
  /\ Step(t, c, "built", "alive")
  /\ ~CtxDone(t, c)
  /\ timer' = [timer EXCEPT ![t][c] = IF TimeoutSet THEN "armed" ELSE "off"]
  /\ pump' = [pump EXCEPT ![t][c] = "reading"]
  /\ UNCHANGED <<ctxDone, exit, watch, snap, taskVars, registry, store, ask, server>>

\* Mutant: the task is free as soon as its worker is gone.
WorkerExitFrees(t, c, how) ==
  /\ Step(t, c, "alive", "exited")
  /\ exit' = [exit EXCEPT ![t][c] = how]
  /\ running' = [running EXCEPT ![t] = FALSE]
  /\ UNCHANGED <<ctxDone, timer, watch, pump, snap, status, canceledRequested, timedOut,
                 isError, cancelFn, session, registry, store, ask, server>>

\* The worker ends, by itself or killed, and cmd.Wait returns.
WorkerExit(t, c, how) ==
  /\ Step(t, c, "alive", "exited")
  /\ exit' = [exit EXCEPT ![t][c] = how]
  /\ UNCHANGED <<ctxDone, timer, watch, pump, snap, taskVars, registry, store, ask, server>>

\* The outcome of a turn, in the order the code tests for it.
Verdict(t, c) ==
  IF timedOut[t] THEN "failed"
  ELSE IF canceledRequested[t] THEN "canceled"
  ELSE IF exit[t][c] = "ok" /\ ~isError[t] THEN "done"
  ELSE "failed"

\* The final block.  It waits for the pumps for at most pumpGrace, so a pump
\* that somebody keeps from its end of file is still reading.
Settle(t, c) ==
  /\ pump[t][c] = "off" \/ LatePumps
  /\ Step(t, c, "exited", "settled")
  /\ running' = [running EXCEPT ![t] = FALSE]
  /\ cancelFn' = [cancelFn EXCEPT ![t] = NoCall]
  /\ status' = [status EXCEPT ![t] = Verdict(t, c)]
  /\ exit' = [exit EXCEPT ![t][c] = "none"]
  /\ UNCHANGED <<ctxDone, timer, watch, pump, snap, canceledRequested, timedOut,
                 isError, session, registry, store, ask, server>>

\* persist, first half: the snapshot is taken under t.mu.
TakeSnapshot(t, c) ==
  /\ Step(t, c, "settled", "snapped")
  /\ snap' = [snap EXCEPT ![t][c] = status[t]]
  /\ UNCHANGED <<ctxDone, exit, timer, watch, pump, taskVars, registry, store, ask, server>>

\* Mutant: the final persist is missing.
SaveAndUnwindUnsaved(t, c) ==
  /\ Step(t, c, "snapped", "over")
  /\ snap' = [snap EXCEPT ![t][c] = "none"]
  /\ timer' = [timer EXCEPT ![t][c] = IF timer[t][c] = "armed" THEN "off" ELSE timer[t][c]]
  /\ ctxDone' = [ctxDone EXCEPT ![t][c] = TRUE]
  /\ UNCHANGED <<exit, watch, pump, taskVars, registry, store, ask, server>>

\* Mutant: t.cancel is cleared by a deferred call, after running is false.
SaveAndUnwindClears(t, c) ==
  /\ Step(t, c, "snapped", "over")
  /\ disk' = [disk EXCEPT ![t] = snap[t][c]]
  /\ snap' = [snap EXCEPT ![t][c] = "none"]
  /\ cancelFn' = [cancelFn EXCEPT ![t] = NoCall]
  /\ ctxDone' = [ctxDone EXCEPT ![t][c] = TRUE]
  /\ UNCHANGED <<exit, timer, watch, pump, running, status, canceledRequested, timedOut,
                 isError, session, registry, cancelFile, ask, server>>

\* persist, second half, then the deferred calls: SaveTask renames the record
\* into place, timer.Stop prevents a timer that has not fired, cancel() ends
\* the watcher.
SaveAndUnwind(t, c) ==
  /\ Step(t, c, "snapped", "over")
  /\ disk' = [disk EXCEPT ![t] = snap[t][c]]
  /\ snap' = [snap EXCEPT ![t][c] = "none"]
  /\ timer' = [timer EXCEPT ![t][c] = IF timer[t][c] = "armed" THEN "off" ELSE timer[t][c]]
  /\ ctxDone' = [ctxDone EXCEPT ![t][c] = TRUE]
  /\ UNCHANGED <<exit, watch, pump, taskVars, registry, cancelFile, ask, server>>

-----------------------------------------------------------------------------
(* AskPermission, on a goroutine of the HTTP server.  It persists the task  *)
(* twice, when it has parked its request and when it leaves, and neither    *)
(* persist is ordered with the one that ends the turn.  What becomes of the *)
(* request itself is in PermissionDesk.                                     *)

\* First half of the first persist, once the request is parked.  Only a worker
\* can make the call, so one has run; the call may have been on its way for
\* longer than that.
AskSnapshot(t, r) ==
  /\ Up
  /\ t \in Registered
  /\ \E c \in Calls : pc[t][c] \in {"alive", "exited", "settled", "snapped", "over"}
  /\ ask[t][r].at = "idle"
  /\ ask' = [ask EXCEPT ![t][r] = [at |-> "asking", snap |-> status[t]]]
  /\ UNCHANGED <<turnVars, taskVars, registry, store, server>>

\* Its second half: the rename, whatever was renamed into place since.
AskSaves(t, r) ==
  /\ Up
  /\ ask[t][r].at = "asking"
  /\ disk' = [disk EXCEPT ![t] = ask[t][r].snap]
  /\ ask' = [ask EXCEPT ![t][r].at = "waiting"]
  /\ UNCHANGED <<turnVars, taskVars, registry, cancelFile, server>>

\* An answer, the timeout or a disconnect ends the wait at any time, and the
\* deferred persist takes its snapshot.
LeaveSnapshot(t, r) ==
  /\ Up
  /\ ask[t][r].at = "waiting"
  /\ ask' = [ask EXCEPT ![t][r] = [at |-> "leaving", snap |-> status[t]]]
  /\ UNCHANGED <<turnVars, taskVars, registry, store, server>>

\* It renames its record into place as well, and the call returns.
LeaveSaves(t, r) ==
  /\ Up
  /\ ask[t][r].at = "leaving"
  /\ disk' = [disk EXCEPT ![t] = ask[t][r].snap]
  /\ ask' = [ask EXCEPT ![t][r].at = "over"]
  /\ UNCHANGED <<turnVars, taskVars, registry, cancelFile, server>>

AskStep(t, r) ==
  \/ AskSnapshot(t, r)
  \/ AskSaves(t, r)
  \/ LeaveSnapshot(t, r)
  \/ LeaveSaves(t, r)

-----------------------------------------------------------------------------
(* The goroutines beside a turn: timer, output pump, cancel watcher.  Each *)
(* of them can outlive the turn that started it.                           *)

\* The timer fires: its function runs on a goroutine of its own.
TimerFires(t, c) ==
  /\ Up
  /\ timer[t][c] = "armed"
  /\ timer' = [timer EXCEPT ![t][c] = "fired"]
  /\ UNCHANGED <<pc, ctxDone, exit, watch, pump, snap, taskVars, registry, store, ask, server>>

\* Mutant: the turn is marked and its worker left alone.
TimeoutMarksOnly(t, c) ==
  /\ Up
  /\ timer[t][c] = "fired"
  /\ timer' = [timer EXCEPT ![t][c] = "off"]
  /\ timedOut' = [timedOut EXCEPT ![t] = TRUE]
  /\ UNCHANGED <<pc, ctxDone, exit, watch, pump, snap, running, status, canceledRequested,
                 isError, cancelFn, session, registry, store, ask, server>>

\* That function marks the task as timed out and cancels the turn.
TimeoutMarks(t, c) ==
  /\ Up
  /\ timer[t][c] = "fired"
  /\ timer' = [timer EXCEPT ![t][c] = "off"]
  /\ timedOut' = [timedOut EXCEPT ![t] = TRUE]
  /\ ctxDone' = [ctxDone EXCEPT ![t][c] = TRUE]
  /\ UNCHANGED <<pc, exit, watch, pump, snap, running, status, canceledRequested, isError,
                 cancelFn, session, registry, store, ask, server>>

\* A line of output names the session.
PumpSession(t, c) ==
  /\ Up
  /\ pump[t][c] = "reading"
  /\ session' = [session EXCEPT ![t] = TRUE]
  /\ UNCHANGED <<turnVars, running, status, canceledRequested, timedOut, isError, cancelFn,
                 registry, store, ask, server>>

\* Mutant: a final event settles the status, while the worker still runs.
PumpFinalSettles(t, c, err) ==
  /\ Up
  /\ pump[t][c] = "reading"
  /\ isError' = [isError EXCEPT ![t] = err]
  /\ status' = [status EXCEPT ![t] = IF err THEN "failed" ELSE "done"]
  /\ UNCHANGED <<turnVars, running, canceledRequested, timedOut, cancelFn, session,
                 registry, store, ask, server>>

\* A final event says whether the agent calls its own result an error.
PumpFinal(t, c, err) ==
  /\ Up
  /\ pump[t][c] = "reading"
  /\ isError' = [isError EXCEPT ![t] = err]
  /\ UNCHANGED <<turnVars, running, status, canceledRequested, timedOut, cancelFn, session,
                 registry, store, ask, server>>

\* End of output, or the read end closed under the pump.
PumpEnds(t, c) ==
  /\ Up
  /\ pump[t][c] = "reading"
  /\ pump' = [pump EXCEPT ![t][c] = "off"]
  /\ UNCHANGED <<pc, ctxDone, exit, timer, watch, snap, taskVars, registry, store, ask, server>>

\* The watcher's tick finds a request and takes the file away.
WatchFinds(t, c) ==
  /\ Up
  /\ watch[t][c] = "polling"
  /\ cancelFile[t]
  /\ watch' = [watch EXCEPT ![t][c] = "found"]
  /\ cancelFile' = [cancelFile EXCEPT ![t] = FALSE]
  /\ UNCHANGED <<pc, ctxDone, exit, timer, pump, snap, taskVars, registry, disk, ask, server>>

\* It then marks the task and cancels the turn it was started for.
WatchCancels(t, c) ==
  /\ Up
  /\ watch[t][c] = "found"
  /\ watch' = [watch EXCEPT ![t][c] = "off"]
  /\ canceledRequested' = [canceledRequested EXCEPT ![t] = TRUE]
  /\ ctxDone' = [ctxDone EXCEPT ![t][c] = TRUE]
  /\ UNCHANGED <<pc, exit, timer, pump, snap, running, status, timedOut, isError, cancelFn,
                 session, registry, store, ask, server>>

\* The watcher ends with its context.
WatchStops(t, c) ==
  /\ Up
  /\ watch[t][c] = "polling"
  /\ CtxDone(t, c)
  /\ watch' = [watch EXCEPT ![t][c] = "off"]
  /\ UNCHANGED <<pc, ctxDone, exit, timer, pump, snap, taskVars, registry, store, ask, server>>

-----------------------------------------------------------------------------
(* Cancel, the other instance, and Shutdown.                               *)

\* Manager.Cancel on a running task: the flag, then t.cancel if there is one.
\* On a task that is not running the call changes nothing.
Cancel(t) ==
  /\ ClientCancels
  /\ Up
  /\ t \in Registered
  /\ running[t]
  /\ canceledRequested' = [canceledRequested EXCEPT ![t] = TRUE]
  /\ ctxDone' = [ctxDone EXCEPT ![t] =
                              [c \in Calls |-> ctxDone[t][c] \/ c = cancelFn[t]]]
  /\ UNCHANGED <<pc, exit, timer, watch, pump, snap, running, status, timedOut, isError,
                 cancelFn, session, registry, store, ask, server>>

\* Another instance that holds the task as orphaned asks for a cancel.
PeerRequestsCancel(t) ==
  /\ PeerCancels
  /\ Recorded(t)
  /\ cancelFile' = [cancelFile EXCEPT ![t] = TRUE]
  /\ UNCHANGED <<turnVars, taskVars, registry, disk, ask, server>>

\* Shutdown cancels m.root, and with it the context of every turn.
Shutdown ==
  /\ ShutsDown
  /\ server = "serving"
  /\ server' = "stopping"
  /\ UNCHANGED <<turnVars, taskVars, registry, store, ask>>

\* Mutant: it returns as soon as it has cancelled the root.
ShutdownCleanAtOnce ==
  /\ server = "stopping"
  /\ server' = "clean"
  /\ UNCHANGED <<turnVars, taskVars, registry, store, ask>>

\* It returns true once no registered task is running.
ShutdownClean ==
  /\ server = "stopping"
  /\ Running = {}
  /\ server' = "clean"
  /\ UNCHANGED <<turnVars, taskVars, registry, store, ask>>

\* The grace period is over and something still runs.
ShutdownLate ==
  /\ server = "stopping"
  /\ Running # {}
  /\ server' = "late"
  /\ UNCHANGED <<turnVars, taskVars, registry, store, ask>>

-----------------------------------------------------------------------------

\* What the runTurn goroutine of a turn does next.
TurnStep(t, c) ==
  \/ ResetTurn(t, c)
  \/ FailTurn(t, c)
  \/ BuildCommand(t, c)
  \/ Spawn(t, c)
  \/ Settle(t, c)
  \/ TakeSnapshot(t, c)
  \/ SaveAndUnwind(t, c)

\* What its companions do.
CompanionStep(t, c) ==
  \/ TimerFires(t, c)
  \/ TimeoutMarks(t, c)
  \/ PumpSession(t, c)
  \/ \E err \in BOOLEAN : PumpFinal(t, c, err)
  \/ PumpEnds(t, c)
  \/ WatchFinds(t, c)
  \/ WatchCancels(t, c)
  \/ WatchStops(t, c)

StartStep(t) ==
  \/ StartCleared(t)
  \/ StartRefused(t)
  \/ Admit(t)
  \/ PersistStart(t)

FollowupStep(t, c) ==
  \/ FollowupLookup(t, c)
  \/ FollowupRefused(t, c)
  \/ FollowupClaim(t, c)

Next ==
  \/ \E t \in Tasks :
       \/ StartStep(t)
       \/ Cancel(t)
       \/ PeerRequestsCancel(t)
       \/ \E r \in Requests : AskStep(t, r)
       \/ \E c \in Calls :
            \/ FollowupStep(t, c)
            \/ TurnStep(t, c)
            \/ CompanionStep(t, c)
            \/ \E how \in {"ok", "bad"} : WorkerExit(t, c, how)
  \/ Shutdown
  \/ ShutdownClean
  \/ ShutdownLate

Spec == Init /\ [][Next]_vars

(***************************************************************************)
(* Fairness.  The goroutines of the server run; a worker that is told to   *)
(* stop is killed and waited for.  A worker left alone may run for ever,   *)
(* and nobody has to call, cancel or shut down.                            *)
(***************************************************************************)
Killed(t, c) == CtxDone(t, c) /\ \E how \in {"ok", "bad"} : WorkerExit(t, c, how)

Fairness ==
  \A t \in Tasks :
    /\ WF_vars(Admit(t))
    /\ WF_vars(PersistStart(t))
    /\ \A c \in Calls :
         /\ WF_vars(TurnStep(t, c))
         /\ WF_vars(Killed(t, c))
         /\ WF_vars(PumpEnds(t, c) /\ pc[t][c] = "exited")
         /\ WF_vars(TimerFires(t, c))
         /\ WF_vars(TimeoutMarks(t, c))

FairSpec == Spec /\ Fairness

-----------------------------------------------------------------------------
(* Properties                                                              *)

\* The variables have the types the code gives them.
TypeOK ==
  /\ pc \in [Tasks -> [Calls -> Phases]]
  /\ ctxDone \in [Tasks -> [Calls -> BOOLEAN]]
  /\ exit \in [Tasks -> [Calls -> {"none", "ok", "bad"}]]
  /\ timer \in [Tasks -> [Calls -> {"off", "armed", "fired"}]]
  /\ watch \in [Tasks -> [Calls -> {"off", "polling", "found"}]]
  /\ pump \in [Tasks -> [Calls -> {"off", "reading"}]]
  /\ snap \in [Tasks -> [Calls -> Statuses]]
  /\ running \in [Tasks -> BOOLEAN]
  /\ status \in [Tasks -> Statuses]
  /\ canceledRequested \in [Tasks -> BOOLEAN]
  /\ timedOut \in [Tasks -> BOOLEAN]
  /\ isError \in [Tasks -> BOOLEAN]
  /\ cancelFn \in [Tasks -> Calls \cup {NoCall}]
  /\ session \in [Tasks -> BOOLEAN]
  /\ stamp \in [Tasks -> Nat]
  /\ admissions \in Nat
  /\ disk \in [Tasks -> Statuses \cup {"absent"}]
  /\ cancelFile \in [Tasks -> BOOLEAN]
  /\ ask \in [Tasks -> [Requests -> [at : AskPhases, snap : Statuses]]]
  /\ server \in {"serving", "stopping", "clean", "late"}

\* No two turns of a task are in progress at once, however its follow-ups
\* race: two workers would interleave into one session (prepareFollowup).
OneTurnPerTask ==
  \A t \in Tasks : \A c, d \in Calls :
    pc[t][c] \in Active /\ pc[t][d] \in Active => c = d

\* A task reads as running exactly while one of its turns is in progress: no
\* path through runTurn leaves it running for ever, or frees it too early.
RunningIffTurn ==
  \A t \in Tasks : running[t] <=> \E c \in Calls : pc[t][c] \in Active

\* Whatever turns came and went before it, a turn with a worker is the one
\* that t.cancel stops: a local cancel of a live worker is never lost.
WorkerIsKillable ==
  \A t \in Tasks : \A c \in Calls :
    pc[t][c] \in {"prepared", "built", "alive", "exited"} => cancelFn[t] = c

\* An admission that drops tasks drops idle ones, keeps no older idle one in
\* their place, and drops none without need (evictLocked).
EvictsOldestIdle ==
  [][\A u \in Tasks : stamp[u] > 0 /\ stamp'[u] = 0 =>
       /\ ~running[u]
       /\ \A v \in Tasks : stamp'[v] > 0 /\ ~running[v] => stamp[v] > stamp[u]
       /\ Cardinality({v \in Tasks : stamp'[v] > 0}) >= MaxTasks]_vars

\* After an admission the registry holds at most MaxTasks tasks, or only
\* running ones beyond what was idle (evictLocked: "everything is running").
RetentionBound ==
  [][admissions' # admissions =>
       \/ Cardinality({t \in Tasks : stamp'[t] > 0}) <= MaxTasks
       \/ \A t \in Tasks : stamp'[t] > 0 => running[t]]_vars

\* When Shutdown reports a clean stop, no worker is left behind.
CleanShutdownLeavesNoWorker ==
  server = "clean" => \A t \in Tasks, c \in Calls : pc[t][c] # "alive"

\* No follow-up has claimed the task.
Unclaimed(t) == \A c \in Calls \ {1} : pc[t][c] \in {"idle", "found", "refused"}

\* A permission request that outlived the turn renamed an older "running" over
\* its outcome; it has its second persist still to finish, or took its last
\* snapshot before the turn ended.
RunningOutlived(t) ==
  /\ disk[t] = "running"
  /\ \E r \in Requests : \/ ask[t][r].at \in {"waiting", "leaving"}
                         \/ ask[t][r].at = "over" /\ ask[t][r].snap = "running"

\* A registered task whose only run ended on its own terms is on disk with
\* the outcome it has in memory once its goroutine is gone, unless it is that
\* of RunningOutlived (persist is a snapshot under t.mu and a later rename).
FinishedRunIsRecorded ==
  \A t \in Registered :
    pc[t][1] = "over" /\ Unclaimed(t) => disk[t] = status[t] \/ RunningOutlived(t)

\* A record that tells an outcome tells a true one: whichever goroutine's
\* persist wrote it and whenever, the first run had ended, and while it is the
\* only one the outcome is its own.  Another instance prunes and resumes by it.
RecordedOutcomeIsTrue ==
  \A t \in Tasks : disk[t] \in Outcomes =>
    /\ pc[t][1] \in Ended
    /\ Unclaimed(t) => disk[t] = status[t]

\* With a timeout configured every turn comes to an end, unless the server
\* itself does: a headless worker that hangs does not hold its task for ever.
TurnsEnd ==
  \A t \in Tasks :
    (\E c \in Calls : pc[t][c] \in Active) ~> (~Up \/ \A c \in Calls : pc[t][c] \notin Active)

\* Without any timeout, Shutdown alone brings every worker down, or gives up.
ShutdownStopsWorkers ==
  server = "stopping" ~> (server = "late" \/ \A t \in Tasks, c \in Calls : pc[t][c] # "alive")

(***************************************************************************)
(* The lease each task grants to one call at a time (TurnLease): it is     *)
(* taken by the claim and given back by fail or the final block.           *)
(***************************************************************************)
HolderOf(t) == IF running[t] THEN CHOOSE c \in Calls : pc[t][c] \in Active ELSE NoCall

Spent == {x \in Tasks \X Calls : pc[x[1]][x[2]] \in Ended}

Lease == INSTANCE TurnLease
           WITH holder <- [t \in Tasks |-> HolderOf(t)], spent <- Spent

\* Every behaviour of the manager is one of the lease: no call gets a task that
\* another one holds, none runs twice, none gives back what is not its own.
ImplementsLease == Lease!Spec

=============================================================================
