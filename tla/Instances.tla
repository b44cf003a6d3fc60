----------------------------- MODULE Instances -----------------------------
(***************************************************************************)
(* Several server processes on one state directory: what main.go does at   *)
(* startup (Prune, Acquire, Restore), what a process writes to disk while  *)
(* its tasks run, how another process refreshes an orphan and asks for its *)
(* cancel, and what a crash leaves behind.                                 *)
(*                                                                         *)
(* A process that is started again is another member of Procs: it has      *)
(* another pid and an empty memory.  The turns of a task, which            *)
(* TaskManager has in full, are reduced here to what reaches the disk.     *)
(***************************************************************************)
EXTENDS Integers, Sequences, FiniteSets, Functions, Filters

CONSTANTS
  Procs,           \* server processes, each started at most once
  Tasks,           \* task ids, each created at most once
  None,            \* no process
  MaxTasks,        \* m.maxTasks, and what Prune keeps
  MaxFollowups     \* bound on the follow-ups of one task

ASSUME InstancesAssumption ==
  /\ None \notin Procs
  /\ MaxTasks \in Nat \ {0}
  /\ MaxFollowups \in Nat

(***************************************************************************)
(* The startup of a process and its turn on a task.                        *)
(*   looked    Acquire has read the lock file and not yet written it       *)
(*   admitted  the new task is in the registry, its first record is to come*)
(*   recorded  it is on disk, the worker is to come                        *)
(*   claimed   a follow-up has the task, the worker is to come             *)
(*   alive     the worker was started and cmd.Wait has not returned        *)
(***************************************************************************)
Stages == {"off", "pruned", "looked", "locked", "serving", "gone"}
Turns == {"none", "admitted", "recorded", "claimed", "alive"}
Shown == {"absent", "running", "orphaned", "ended"}
Records == {"absent", "running", "ended"}

VARIABLES
  stage,       \* how far each process is
  prev,        \* what Acquire reported to it: a live owner, or None
  known,       \* its m.order: the ids in its registry, oldest first
  shown,       \* t.status of its copy of a task, "absent" when not in m.tasks
  turn,        \* its turn on a task
  unsaved,     \* the persist at the end of a turn of its is to come
  asking,      \* a permission request of the task has not made its last persist
  watch,       \* the watcher of its turn: "off", "polling", or "taken" a request
  late,        \* the watcher of a turn that is over still polls
  worker,      \* the worker it started on a task, by turn: "none", "first", "later"
  creator,     \* the process whose StartTask made the task
  followups,   \* number of follow-ups a task had
  lock,        \* the pid in server.lock
  disk,        \* status in the stored record
  files,       \* the ids of the stored records, by modification time
  cancelFile   \* a .cancel file exists for the task

persists == <<unsaved, asking>>
watchers == <<watch, late>>
memory   == <<known, shown, turn, persists, watchers>>
store    == <<disk, files, cancelFile>>
vars     == <<stage, prev, memory, worker, creator, followups, lock, store>>

-----------------------------------------------------------------------------

Alive(p) == stage[p] \notin {"off", "gone"}

Serving(p) == stage[p] = "serving"

\* The first n of a sequence, none if n is negative.
First(s, n) == {s[i] : i \in {j \in DOMAIN s : j <= n}}

\* Store.Forget, of every task in S.
Forget(S) ==
  /\ disk' = [t \in Tasks |-> IF t \in S THEN "absent" ELSE disk[t]]
  /\ files' = Keep(files, Tasks \ S)
  /\ cancelFile' = [t \in Tasks |-> t \notin S /\ cancelFile[t]]

\* Store.SaveTask: the renamed file is the newest.
SaveTask(t, s) ==
  /\ disk' = [disk EXCEPT ![t] = s]
  /\ files' = Append(Keep(files, Tasks \ {t}), t)
  /\ UNCHANGED cancelFile

\* evictLocked on a registry with this order, whose tasks have these statuses:
\* the oldest that do not run, as many as there are beyond MaxTasks.
Evicted(order, st) ==
  LET Idle(i) == st[order[i]] # "running"
  IN  {order[i] : i \in {j \in DOMAIN order :
         /\ Idle(j)
         /\ Cardinality({k \in 1..(j - 1) : Idle(k)}) < Len(order) - MaxTasks}}

Init ==
  /\ stage = [p \in Procs |-> "off"]
  /\ prev = [p \in Procs |-> None]
  /\ known = [p \in Procs |-> <<>>]
  /\ shown = [p \in Procs |-> [t \in Tasks |-> "absent"]]
  /\ turn = [p \in Procs |-> [t \in Tasks |-> "none"]]
  /\ unsaved = [p \in Procs |-> [t \in Tasks |-> FALSE]]
  /\ asking = [p \in Procs |-> [t \in Tasks |-> FALSE]]
  /\ watch = [p \in Procs |-> [t \in Tasks |-> "off"]]
  /\ late = [p \in Procs |-> [t \in Tasks |-> FALSE]]
  /\ worker = [p \in Procs |-> [t \in Tasks |-> "none"]]
  /\ creator = [t \in Tasks |-> None]
  /\ followups = [t \in Tasks |-> 0]
  /\ lock = None
  /\ disk = [t \in Tasks |-> "absent"]
  /\ files = <<>>
  /\ cancelFile = [t \in Tasks |-> FALSE]

-----------------------------------------------------------------------------
(* Startup, in the order of main.go.                                       *)

\* store.Prune keeps the newest records, whoever owns the others.
Prune(p) ==
  /\ stage[p] = "off"
  /\ stage' = [stage EXCEPT ![p] = "pruned"]
  /\ Forget(First(files, Len(files) - MaxTasks))
  /\ UNCHANGED <<prev, memory, worker, creator, followups, lock>>

\* Acquire reads the lock and asks whether its process is alive.
AcquireReads(p) ==
  /\ stage[p] = "pruned"
  /\ stage' = [stage EXCEPT ![p] = "looked"]
  /\ prev' = [prev EXCEPT ![p] = IF lock # None /\ Alive(lock) THEN lock ELSE None]
  /\ UNCHANGED <<memory, worker, creator, followups, lock, store>>

\* It then writes its own pid, whatever it has read.
AcquireWrites(p) ==
  /\ stage[p] = "looked"
  /\ stage' = [stage EXCEPT ![p] = "locked"]
  /\ lock' = p
  /\ UNCHANGED <<prev, memory, worker, creator, followups, store>>

\* Mutant: a task that was running gets a status of its own, which nothing knows.
AsRestoredLost(s) == IF s = "running" THEN "lost" ELSE s

\* Mutant: the record's status is taken as it is.
AsRestoredVerbatim(s) == s

\* taskFromSnapshot: a task that was running is an orphan here.
AsRestored(s) == IF s = "running" THEN "orphaned" ELSE s

\* Mutant: every record is adopted, whether or not its owner lives.
AdoptableAlways(p) == files

\* Restore takes nothing over while the previous owner is alive.
Adoptable(p) == IF prev[p] = None THEN files ELSE <<>>

\* Restore loads the records, oldest first, and evicts at the end.
Restore(p) ==
  LET order == Adoptable(p)
      st == [t \in Tasks |-> IF t \in Range(order) THEN AsRestored(disk[t]) ELSE "absent"]
      out == Evicted(order, st)
  IN  /\ stage[p] = "locked"
      /\ stage' = [stage EXCEPT ![p] = "serving"]
      /\ known' = [known EXCEPT ![p] = Keep(order, Tasks \ out)]
      /\ shown' = [shown EXCEPT ![p] = [t \in Tasks |-> IF t \in out THEN "absent" ELSE st[t]]]
      /\ Forget(out)
      /\ UNCHANGED <<prev, turn, persists, watchers, worker, creator, followups, lock>>

-----------------------------------------------------------------------------
(* The turns of a process.                                                 *)

\* newTask and admit, with its eviction.
Admit(p, t) ==
  LET order == Append(known[p], t)
      st == [shown[p] EXCEPT ![t] = "running"]
      out == Evicted(order, st)
  IN  /\ Serving(p)
      /\ creator[t] = None
      /\ creator' = [creator EXCEPT ![t] = p]
      /\ turn' = [turn EXCEPT ![p][t] = "admitted"]
      /\ known' = [known EXCEPT ![p] = Keep(order, Tasks \ out)]
      /\ shown' = [shown EXCEPT ![p] = [u \in Tasks |-> IF u \in out THEN "absent" ELSE st[u]]]
      /\ Forget(out)
      /\ UNCHANGED <<stage, prev, persists, watchers, worker, followups, lock>>

\* StartTask persists the new task before its turn is launched.
Record(p, t) ==
  /\ Serving(p)
  /\ turn[p][t] = "admitted"
  /\ turn' = [turn EXCEPT ![p][t] = "recorded"]
  /\ SaveTask(t, shown[p][t])
  /\ UNCHANGED <<stage, prev, known, shown, persists, watchers, worker, creator, followups, lock>>

\* Mutant: an orphan can be resumed like any other task.
ResumableAny(p, t) == shown[p][t] \in {"orphaned", "ended"}

\* prepareFollowup refuses a task that is running here or an orphan.
Resumable(p, t) == shown[p][t] = "ended"

\* The claim of a follow-up is not persisted.
Claim(p, t) ==
  /\ Serving(p)
  /\ Resumable(p, t)
  /\ followups[t] < MaxFollowups
  /\ followups' = [followups EXCEPT ![t] = @ + 1]
  /\ shown' = [shown EXCEPT ![p][t] = "running"]
  /\ turn' = [turn EXCEPT ![p][t] = "claimed"]
  /\ UNCHANGED <<stage, prev, known, persists, watchers, worker, creator, lock, store>>

\* Mutant: the watcher of a new turn clears what looks like a stale request.
WatchStartsClearing(p, t) ==
  /\ Serving(p)
  /\ turn[p][t] \in {"recorded", "claimed"}
  /\ watch[p][t] = "off"
  /\ watch' = [watch EXCEPT ![p][t] = "polling"]
  /\ cancelFile' = [cancelFile EXCEPT ![t] = FALSE]
  /\ UNCHANGED <<stage, prev, known, shown, turn, persists, late, worker, creator, followups,
                 lock, disk, files>>

\* The watcher for the requests of other processes starts; a request that is
\* already there stays there.
WatchStarts(p, t) ==
  /\ Serving(p)
  /\ turn[p][t] \in {"recorded", "claimed"}
  /\ watch[p][t] = "off"
  /\ watch' = [watch EXCEPT ![p][t] = "polling"]
  /\ UNCHANGED <<stage, prev, known, shown, turn, persists, late, worker, creator, followups,
                 lock, store>>

\* The worker is started.
Launch(p, t) ==
  /\ Serving(p)
  /\ turn[p][t] \in {"recorded", "claimed"}
  /\ watch[p][t] # "off"
  /\ turn' = [turn EXCEPT ![p][t] = "alive"]
  /\ worker' = [worker EXCEPT ![p][t] = IF turn[p][t] = "recorded" THEN "first" ELSE "later"]
  /\ UNCHANGED <<stage, prev, known, shown, persists, watchers, creator, followups, lock, store>>

\* The turn of p on t is over.  Its watcher polls on until the turn's deferred
\* cancel; if it has taken a request, it comes too late with it.
TurnOver(p, t) ==
  /\ turn' = [turn EXCEPT ![p][t] = "none"]
  /\ shown' = [shown EXCEPT ![p][t] = "ended"]
  /\ watch' = [watch EXCEPT ![p][t] = "off"]
  /\ late' = [late EXCEPT ![p][t] = @ \/ watch[p][t] = "polling"]

\* fail: the turn ends without a worker and without a persist.
Fail(p, t) ==
  /\ Serving(p)
  /\ turn[p][t] \in {"recorded", "claimed"}
  /\ TurnOver(p, t)
  /\ UNCHANGED <<stage, prev, known, persists, worker, creator, followups, lock, store>>

\* A worker ends, by itself or killed by the process that started it.
WorkerEnds(p, t) ==
  /\ worker[p][t] # "none"
  /\ worker' = [worker EXCEPT ![p][t] = "none"]
  /\ UNCHANGED <<stage, prev, memory, creator, followups, lock, store>>

\* The final block of a turn: the outcome is in memory.
Settle(p, t) ==
  /\ Serving(p)
  /\ turn[p][t] = "alive"
  /\ worker[p][t] = "none"
  /\ TurnOver(p, t)
  /\ unsaved' = [unsaved EXCEPT ![p][t] = TRUE]
  /\ UNCHANGED <<stage, prev, known, asking, worker, creator, followups, lock, store>>

-----------------------------------------------------------------------------
(* persist: a snapshot under the task's lock, and its rename later.  The    *)
(* persist that ends a turn and the two of a permission request, when it is *)
(* parked and when it leaves, are ordered by nothing.                       *)

\* What a record of t that p writes says.
Written(p, t) == IF shown[p][t] = "running" THEN "running" ELSE "ended"

\* The persist at the end of a turn, which writes what the task is by then: a
\* follow-up may have claimed it, and an eviction that dropped it does not stop
\* the write.
Save(p, t) ==
  /\ Serving(p)
  /\ unsaved[p][t]
  /\ unsaved' = [unsaved EXCEPT ![p][t] = FALSE]
  /\ SaveTask(t, Written(p, t))
  /\ UNCHANGED <<stage, prev, known, shown, turn, asking, watchers, worker, creator, followups,
                 lock>>

\* AskPermission, called by a worker, persists the task in the middle of its turn.
PersistParked(p, t) ==
  /\ Serving(p)
  /\ turn[p][t] = "alive"
  /\ ~asking[p][t]
  /\ asking' = [asking EXCEPT ![p][t] = TRUE]
  /\ SaveTask(t, Written(p, t))
  /\ UNCHANGED <<stage, prev, known, shown, turn, unsaved, watchers, worker, creator, followups,
                 lock>>

\* Its deferred persist is renamed whenever the wait has ended, and may have been
\* taken while the turn was still running.
PersistLeft(p, t) ==
  /\ Serving(p)
  /\ asking[p][t]
  /\ asking' = [asking EXCEPT ![p][t] = FALSE]
  /\ \E s \in {"running", Written(p, t)} : SaveTask(t, s)
  /\ UNCHANGED <<stage, prev, known, shown, turn, unsaved, watchers, worker, creator, followups,
                 lock>>

-----------------------------------------------------------------------------
(* The tasks of another process.                                           *)

\* refreshOrphan takes the outcome from a settled record.
RefreshOrphan(p, t) ==
  /\ Serving(p)
  /\ shown[p][t] = "orphaned"
  /\ disk[t] = "ended"
  /\ shown' = [shown EXCEPT ![p][t] = "ended"]
  /\ UNCHANGED <<stage, prev, known, turn, persists, watchers, worker, creator, followups, lock, store>>

\* Cancel of an orphan leaves a request for its owner.
RequestCancel(p, t) ==
  /\ Serving(p)
  /\ shown[p][t] = "orphaned"
  /\ cancelFile' = [cancelFile EXCEPT ![t] = TRUE]
  /\ UNCHANGED <<stage, prev, memory, worker, creator, followups, lock, disk, files>>

-----------------------------------------------------------------------------
(* watchCancelRequest, beside a turn of its own process.                   *)

\* The tick finds a request and takes the file away.
WatchTakes(p, t) ==
  /\ Serving(p)
  /\ watch[p][t] = "polling"
  /\ cancelFile[t]
  /\ cancelFile' = [cancelFile EXCEPT ![t] = FALSE]
  /\ watch' = [watch EXCEPT ![p][t] = "taken"]
  /\ UNCHANGED <<stage, prev, known, shown, turn, persists, late, worker, creator, followups,
                 lock, disk, files>>

\* After that it cancels the turn, and so its worker.
WatchCancels(p, t) ==
  /\ Serving(p)
  /\ watch[p][t] = "taken"
  /\ turn[p][t] = "alive"
  /\ watch' = [watch EXCEPT ![p][t] = "off"]
  /\ worker' = [worker EXCEPT ![p][t] = "none"]
  /\ UNCHANGED <<stage, prev, known, shown, turn, persists, late, creator, followups, lock, store>>

\* Before the worker is started, the cancel makes the start fail.
WatchAborts(p, t) ==
  /\ Serving(p)
  /\ watch[p][t] = "taken"
  /\ turn[p][t] \in {"recorded", "claimed"}
  /\ TurnOver(p, t)
  /\ UNCHANGED <<stage, prev, known, persists, worker, creator, followups, lock, store>>

\* The watcher of a turn that is over finds a request.  It takes it all the same,
\* though there is nothing left that its cancel could stop.
LateTakes(p, t) ==
  /\ Serving(p)
  /\ late[p][t]
  /\ cancelFile[t]
  /\ cancelFile' = [cancelFile EXCEPT ![t] = FALSE]
  /\ late' = [late EXCEPT ![p][t] = FALSE]
  /\ UNCHANGED <<stage, prev, known, shown, turn, persists, watch, worker, creator, followups,
                 lock, disk, files>>

\* It ends with its context, which the turn cancels behind its last persist.
LateEnds(p, t) ==
  /\ Serving(p)
  /\ late[p][t]
  /\ ~unsaved[p][t]
  /\ late' = [late EXCEPT ![p][t] = FALSE]
  /\ UNCHANGED <<stage, prev, known, shown, turn, persists, watch, worker, creator, followups,
                 lock, store>>

-----------------------------------------------------------------------------

\* A process ends, at any point of its startup or its service; --list-agents
\* ends in this way right after Restore.  Its memory is gone, the records and
\* the lock stay as they are, and of its workers any may survive it.
Dies(p, survivors) ==
  /\ Alive(p)
  /\ stage' = [stage EXCEPT ![p] = "gone"]
  /\ prev' = [prev EXCEPT ![p] = None]
  /\ known' = [known EXCEPT ![p] = <<>>]
  /\ shown' = [shown EXCEPT ![p] = [t \in Tasks |-> "absent"]]
  /\ turn' = [turn EXCEPT ![p] = [t \in Tasks |-> "none"]]
  /\ unsaved' = [unsaved EXCEPT ![p] = [t \in Tasks |-> FALSE]]
  /\ asking' = [asking EXCEPT ![p] = [t \in Tasks |-> FALSE]]
  /\ watch' = [watch EXCEPT ![p] = [t \in Tasks |-> "off"]]
  /\ late' = [late EXCEPT ![p] = [t \in Tasks |-> FALSE]]
  /\ worker' = [worker EXCEPT ![p] = [t \in Tasks |-> IF t \in survivors THEN worker[p][t]
                                                                         ELSE "none"]]
  /\ UNCHANGED <<creator, followups, lock, store>>

Startup(p) ==
  \/ Prune(p)
  \/ AcquireReads(p)
  \/ AcquireWrites(p)
  \/ Restore(p)

OwnTask(p, t) ==
  \/ Admit(p, t)
  \/ Record(p, t)
  \/ Claim(p, t)
  \/ WatchStarts(p, t)
  \/ Launch(p, t)
  \/ Fail(p, t)
  \/ WorkerEnds(p, t)
  \/ Settle(p, t)
  \/ Save(p, t)
  \/ PersistParked(p, t)
  \/ PersistLeft(p, t)

Watching(p, t) ==
  \/ WatchTakes(p, t)
  \/ WatchCancels(p, t)
  \/ WatchAborts(p, t)
  \/ LateTakes(p, t)
  \/ LateEnds(p, t)

OthersTask(p, t) ==
  \/ RefreshOrphan(p, t)
  \/ RequestCancel(p, t)

Next ==
  \E p \in Procs :
    \/ Startup(p)
    \/ \E t \in Tasks : OwnTask(p, t) \/ Watching(p, t) \/ OthersTask(p, t)
    \/ \E survivors \in SUBSET {t \in Tasks : worker[p][t] # "none"} : Dies(p, survivors)

Spec == Init /\ [][Next]_vars

-----------------------------------------------------------------------------
(* Properties                                                              *)

\* The variables have the types the code gives them.
TypeOK ==
  /\ stage \in [Procs -> Stages]
  /\ prev \in [Procs -> Procs \cup {None}]
  /\ known \in [Procs -> Seq(Tasks)]
  /\ shown \in [Procs -> [Tasks -> Shown]]
  /\ turn \in [Procs -> [Tasks -> Turns]]
  /\ unsaved \in [Procs -> [Tasks -> BOOLEAN]]
  /\ asking \in [Procs -> [Tasks -> BOOLEAN]]
  /\ watch \in [Procs -> [Tasks -> {"off", "polling", "taken"}]]
  /\ late \in [Procs -> [Tasks -> BOOLEAN]]
  /\ worker \in [Procs -> [Tasks -> {"none", "first", "later"}]]
  /\ creator \in [Tasks -> Procs \cup {None}]
  /\ followups \in [Tasks -> 0..MaxFollowups]
  /\ lock \in Procs \cup {None}
  /\ disk \in [Tasks -> Records]
  /\ files \in Seq(Tasks)
  /\ cancelFile \in [Tasks -> BOOLEAN]

\* While the worker of a task's first turn lives, no process has another one in
\* its session and none shows an outcome for it, whoever crashed, restarted,
\* adopted, pruned or refreshed meanwhile (prepareFollowup's refusal of orphans).
FirstWorkerIsAlone ==
  \A p, q \in Procs, t \in Tasks :
    worker[p][t] = "first" =>
      /\ shown[q][t] # "ended"
      /\ q # p => worker[q][t] = "none"

\* What a process shows as running has a turn of its own behind it: nobody can
\* wait in agent_watch for something this process will never see finish.
RunningIsOurs ==
  \A p \in Procs, t \in Tasks : shown[p][t] = "running" => turn[p][t] # "none"

\* A process that found a live owner shows, for as long as it serves, no task
\* but those it made itself (Restore: "Sessions do not share their agents").
IsolatedFromLiveOwner ==
  \A p \in Procs, t \in Tasks :
    prev[p] # None /\ shown[p][t] # "absent" => creator[t] = p

\* A request another instance left is not taken away but with the record, or by
\* a watcher, and the watcher of the turn in progress that took it stops that turn
\* unless the turn ends or the process dies before (watchCancelRequest: "Clearing
\* on entry therefore erases legitimate requests").  What the watcher of a turn
\* that is over takes has no such effect.
RequestIsNotErased ==
  [][\A t \in Tasks :
       /\ cancelFile[t] /\ ~cancelFile'[t] =>
            \/ disk'[t] = "absent"
            \/ \E p \in Procs : late[p][t] \/ watch'[p][t] = "taken"
       /\ \A p \in Procs : watch[p][t] = "taken" /\ watch'[p][t] # "taken" =>
            \/ stage'[p] = "gone"
            \/ worker'[p][t] = "none" /\ turn'[p][t] \in {"none", "alive"}]_vars

-----------------------------------------------------------------------------
(* What the documentation and the comments claim, and the code does not    *)
(* keep.  Each is the one property of a run that expects its violation.    *)

\* "it was wrong while another server is still running": Restore adopts only
\* tasks that no living process made.
AdoptsOnlyFromTheDead ==
  [][\A p \in Procs, t \in Tasks :
       shown[p][t] = "absent" /\ shown'[p][t] \in {"orphaned", "ended"} =>
         creator[t] = None \/ ~Alive(creator[t])]_vars

\* "resuming would put a second worker on a session the old instance may still
\* be driving": no task has two workers at a time.
OneWorkerPerTask ==
  \A t \in Tasks : \A p, q \in Procs :
    worker[p][t] # "none" /\ worker[q][t] # "none" => p = q
=============================================================================
