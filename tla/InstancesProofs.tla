-------------------------- MODULE InstancesProofs --------------------------
(***************************************************************************)
(* Proofs about Instances, for any number of processes and tasks.          *)
(*                                                                         *)
(* The argument for FirstWorkerIsAlone.  From the admission of a task to   *)
(* the end of its first worker (InFirst) no record and no copy of it says  *)
(* that it has ended, and no persist of an earlier turn is outstanding.    *)
(* Whoever loads or refreshes its record gets an orphan, which nobody may  *)
(* resume.  A crash of the process changes none of this: the record keeps  *)
(* the status it had.                                                      *)
(***************************************************************************)
EXTENDS Instances, DataLemmas, TLAPS

\* The part of TypeOK the argument needs: all but the two orders, the lock and
\* the bounded counter.
Types ==
  /\ stage \in [Procs -> Stages]
  /\ prev \in [Procs -> Procs \cup {None}]
  /\ shown \in [Procs -> [Tasks -> Shown]]
  /\ turn \in [Procs -> [Tasks -> Turns]]
  /\ unsaved \in [Procs -> [Tasks -> BOOLEAN]]
  /\ asking \in [Procs -> [Tasks -> BOOLEAN]]
  /\ watch \in [Procs -> [Tasks -> {"off", "polling", "taken"}]]
  /\ late \in [Procs -> [Tasks -> BOOLEAN]]
  /\ worker \in [Procs -> [Tasks -> {"none", "first", "later"}]]
  /\ creator \in [Tasks -> Procs \cup {None}]
  /\ lock \in Procs \cup {None}
  /\ disk \in [Tasks -> Records]
  /\ cancelFile \in [Tasks -> BOOLEAN]

\* A process that does not serve has no tasks, and only one that is gone has
\* workers without a turn.
IdleUnlessServing(p, t) ==
  /\ ~Serving(p) => /\ shown[p][t] = "absent"
                    /\ turn[p][t] = "none"
                    /\ ~unsaved[p][t]
                    /\ ~asking[p][t]
  /\ worker[p][t] # "none" => turn[p][t] = "alive" \/ stage[p] = "gone"

\* The running flag and the turn go together.
RunningIffTurn(p, t) == shown[p][t] = "running" <=> turn[p][t] # "none"

\* Of a task that was not created yet there is no trace.
NoTrace(p, t) ==
  creator[t] = None => /\ disk[t] = "absent"
                       /\ shown[p][t] = "absent"
                       /\ turn[p][t] = "none"
                       /\ ~unsaved[p][t]
                       /\ ~asking[p][t]
                       /\ worker[p][t] = "none"

\* The first turn of a task has not come to its end in p.
InFirst(p, t) == turn[p][t] \in {"admitted", "recorded"} \/ worker[p][t] = "first"

\* Until then q knows no outcome and has no turn of its own.
Undecided(p, q, t) ==
  InFirst(p, t) =>
    /\ disk[t] # "ended"
    /\ shown[q][t] # "ended"
    /\ ~unsaved[q][t]
    /\ q # p => worker[q][t] = "none" /\ turn[q][t] = "none" /\ ~asking[q][t]

\* A process that found a live owner has only what it made itself.
Isolated(p, t) == prev[p] # None /\ shown[p][t] # "absent" => creator[t] = p

Inv ==
  /\ Types
  /\ \A p \in Procs, t \in Tasks : IdleUnlessServing(p, t)
  /\ \A p \in Procs, t \in Tasks : RunningIffTurn(p, t)
  /\ \A p \in Procs, t \in Tasks : NoTrace(p, t)
  /\ \A p \in Procs, t \in Tasks : Isolated(p, t)
  /\ \A p, q \in Procs, t \in Tasks : Undecided(p, q, t)

-----------------------------------------------------------------------------

\* Init has no process, no task and no record.
LEMMA InitInv == Init => Inv
BY DEF Init, Inv, Types, IdleUnlessServing, RunningIffTurn, NoTrace, Isolated, Undecided,
       InFirst, Serving, Stages, Turns, Shown, Records

\* What evictLocked drops does not run.
LEMMA EvictedIdle ==
  ASSUME NEW order, NEW st, NEW u \in Evicted(order, st)
  PROVE  st[u] # "running"
BY DEF Evicted

-----------------------------------------------------------------------------
(* Startup: nothing but Restore gives a process a task, and what it gives  *)
(* is an orphan or has ended.                                              *)

LEMMA PruneInv ==
  ASSUME Inv, NEW p \in Procs, Prune(p)
  PROVE  Inv'
BY SMTT(30) DEF Prune, Inv, Types, IdleUnlessServing, RunningIffTurn, NoTrace, Isolated, Undecided,
       InFirst, Serving, Stages, Turns, Shown, Records,
       memory, persists, watchers, store, Forget, SaveTask

LEMMA AcquireReadsInv ==
  ASSUME Inv, NEW p \in Procs, AcquireReads(p)
  PROVE  Inv'
BY SMTT(30) DEF AcquireReads, Inv, Types, IdleUnlessServing, RunningIffTurn, NoTrace, Isolated, Undecided,
       InFirst, Serving, Stages, Turns, Shown, Records,
       memory, persists, watchers, store, Forget, SaveTask, Alive

LEMMA AcquireWritesInv ==
  ASSUME Inv, NEW p \in Procs, AcquireWrites(p)
  PROVE  Inv'
BY SMTT(30) DEF AcquireWrites, Inv, Types, IdleUnlessServing, RunningIffTurn, NoTrace, Isolated, Undecided,
       InFirst, Serving, Stages, Turns, Shown, Records,
       memory, persists, watchers, store, Forget, SaveTask

LEMMA RestoreInv ==
  ASSUME Inv, NEW p \in Procs, Restore(p)
  PROVE  Inv'
BY EvictedIdle, SMTT(30) DEF Restore, Inv, Types, IdleUnlessServing, RunningIffTurn, NoTrace, Isolated, Undecided,
       InFirst, Serving, Stages, Turns, Shown, Records,
       memory, persists, watchers, store, Forget, SaveTask, AsRestored, Adoptable, Range

-----------------------------------------------------------------------------
(* The turns of a process.                                                 *)

LEMMA AdmitInv ==
  ASSUME Inv, NEW p \in Procs, NEW t \in Tasks, Admit(p, t)
  PROVE  Inv'
<1> DEFINE order == Append(known[p], t)
           st == [shown[p] EXCEPT ![t] = "running"]
           out == Evicted(order, st)
<1>1. Types /\ Serving(p) /\ creator[t] = None
  BY DEF Admit, Inv
<1>2. /\ creator' = [creator EXCEPT ![t] = p]
      /\ turn' = [turn EXCEPT ![p][t] = "admitted"]
      /\ shown' = [shown EXCEPT ![p] = [u \in Tasks |-> IF u \in out THEN "absent" ELSE st[u]]]
      /\ UNCHANGED <<stage, prev, unsaved, asking, watch, late, worker, lock>>
  BY DEF Admit, persists, watchers
<1>3. /\ disk' = [u \in Tasks |-> IF u \in out THEN "absent" ELSE disk[u]]
      /\ cancelFile' = [u \in Tasks |-> u \notin out /\ cancelFile[u]]
  BY DEF Admit, Forget
<1>4. \A u \in out : st[u] # "running"
  BY EvictedIdle
<1>5. t \notin out
  BY <1>1, <1>4 DEF Types
<1>6. \A u \in Tasks \ {t} : u \in out => shown[p][u] # "running"
  BY <1>1, <1>4 DEF Types
<1>7. shown'[p][t] = "running"
  BY <1>1, <1>2, <1>5 DEF Types
<1>8. \A u \in Tasks \ {t} : shown'[p][u] = IF u \in out THEN "absent" ELSE shown[p][u]
  BY <1>1, <1>2 DEF Types
<1>9. \A q \in Procs \ {p} : shown'[q] = shown[q]
  BY <1>1, <1>2 DEF Types
<1>10. shown' \in [Procs -> [Tasks -> Shown]]
  BY <1>1, <1>2 DEF Types, Shown
<1> HIDE DEF order, st, out
<1>11. Types'
  BY <1>1, <1>2, <1>3, <1>10 DEF Types, Turns, Records
<1>12. ASSUME NEW q \in Procs, NEW u \in Tasks
       PROVE  (IdleUnlessServing(q, u) /\ RunningIffTurn(q, u) /\ NoTrace(q, u) /\ Isolated(q, u))'
  <2>1. CASE q = p /\ u = t
    <3>1. turn'[p][t] = "admitted" /\ creator'[t] = p /\ worker'[p][t] = "none"
      BY <1>1, <1>2 DEF Inv, Types, NoTrace
    <3> QED BY <1>1, <1>2, <1>7, <2>1, <3>1, InstancesAssumption
            DEF IdleUnlessServing, RunningIffTurn, NoTrace, Isolated, Serving
  <2>2. CASE q = p /\ u # t
    <3>1. turn'[p][u] = turn[p][u] /\ creator'[u] = creator[u]
      BY <1>1, <1>2, <2>2 DEF Types
    <3>2. disk[u] = "absent" => disk'[u] = "absent"
      BY <1>3
    <3>3. \/ shown'[p][u] = shown[p][u]
          \/ shown'[p][u] = "absent" /\ shown[p][u] # "running"
      BY <1>6, <1>8, <2>2
    <3> QED BY <1>1, <1>2, <2>2, <3>1, <3>2, <3>3
            DEF Inv, IdleUnlessServing, RunningIffTurn, NoTrace, Isolated, Serving
  <2>3. CASE q # p
    BY <1>1, <1>2, <1>3, <1>5, <1>9, <2>3, InstancesAssumption
       DEF Inv, Types, IdleUnlessServing, RunningIffTurn, NoTrace, Isolated, Serving
  <2> QED BY <2>1, <2>2, <2>3
<1>13. ASSUME NEW q \in Procs, NEW r \in Procs, NEW u \in Tasks
       PROVE  Undecided(q, r, u)'
  <2>1. CASE u = t
    <3>1. /\ \A x \in Procs : NoTrace(x, t)
          /\ disk[t] = "absent"
      BY <1>1 DEF Inv, NoTrace
    <3>2. disk'[t] = "absent"
      BY <1>1, <1>3, <3>1
    <3>3. \A x \in Procs \ {p} : shown'[x][t] = "absent" /\ turn'[x][t] = "none"
      BY <1>1, <1>2, <1>9, <3>1 DEF NoTrace, Types
    <3>4. \A x \in Procs : ~unsaved'[x][t] /\ ~asking'[x][t] /\ worker'[x][t] = "none"
      BY <1>1, <1>2, <3>1 DEF NoTrace
    <3> QED BY <1>7, <2>1, <3>2, <3>3, <3>4 DEF Undecided, InFirst
  <2>2. CASE u # t
    <3>1. turn'[q][u] = turn[q][u] /\ turn'[r][u] = turn[r][u]
      BY <1>1, <1>2, <2>2 DEF Types
    <3>2. shown'[r][u] = "ended" => shown[r][u] = "ended"
      BY <1>8, <1>9, <2>2
    <3>3. disk'[u] = "ended" => disk[u] = "ended"
      BY <1>3
    <3>4. Undecided(q, r, u)
      BY DEF Inv
    <3> QED BY <1>2, <3>1, <3>2, <3>3, <3>4 DEF Undecided, InFirst
  <2> QED BY <2>1, <2>2
<1> QED BY <1>11, <1>12, <1>13 DEF Inv

LEMMA RecordInv ==
  ASSUME Inv, NEW p \in Procs, NEW t \in Tasks, Record(p, t)
  PROVE  Inv'
BY SMTT(30) DEF Record, Inv, Types, IdleUnlessServing, RunningIffTurn, NoTrace, Isolated, Undecided,
       InFirst, Serving, Stages, Turns, Shown, Records,
       memory, persists, watchers, store, Forget, SaveTask

LEMMA ClaimInv ==
  ASSUME Inv, NEW p \in Procs, NEW t \in Tasks, Claim(p, t)
  PROVE  Inv'
BY SMTT(30) DEF Claim, Inv, Types, IdleUnlessServing, RunningIffTurn, NoTrace, Isolated, Undecided,
       InFirst, Serving, Stages, Turns, Shown, Records,
       memory, persists, watchers, store, Forget, SaveTask, Resumable

LEMMA WatchStartsInv ==
  ASSUME Inv, NEW p \in Procs, NEW t \in Tasks, WatchStarts(p, t)
  PROVE  Inv'
BY SMTT(30) DEF WatchStarts, Inv, Types, IdleUnlessServing, RunningIffTurn, NoTrace, Isolated, Undecided,
       InFirst, Serving, Stages, Turns, Shown, Records,
       memory, persists, watchers, store, Forget, SaveTask

LEMMA LaunchInv ==
  ASSUME Inv, NEW p \in Procs, NEW t \in Tasks, Launch(p, t)
  PROVE  Inv'
BY SMTT(30) DEF Launch, Inv, Types, IdleUnlessServing, RunningIffTurn, NoTrace, Isolated, Undecided,
       InFirst, Serving, Stages, Turns, Shown, Records,
       memory, persists, watchers, store, Forget, SaveTask

\* A turn that ends before its worker was started (fail) had nobody else beside
\* it: the task's first turn is not in progress anywhere.
LEMMA EndsWithoutWorker ==
  ASSUME Inv, NEW p \in Procs, NEW t \in Tasks,
         Serving(p), turn[p][t] \in {"recorded", "claimed"},
         TurnOver(p, t),
         UNCHANGED <<stage, prev, unsaved, asking, worker, creator, lock, disk, cancelFile>>
  PROVE  Inv'
<1>0. /\ turn' = [turn EXCEPT ![p][t] = "none"]
      /\ shown' = [shown EXCEPT ![p][t] = "ended"]
  BY DEF TurnOver
<1>1. Types /\ Types'
  BY DEF Inv, Types, Turns, Shown, TurnOver
<1>2. worker[p][t] = "none" /\ creator[t] # None /\ shown[p][t] = "running"
  BY DEF Inv, IdleUnlessServing, NoTrace, RunningIffTurn, Serving
<1>3. ASSUME NEW q \in Procs, NEW u \in Tasks
      PROVE  (IdleUnlessServing(q, u) /\ RunningIffTurn(q, u) /\ NoTrace(q, u) /\ Isolated(q, u))'
  <2>1. CASE q = p /\ u = t
    <3>1. turn'[p][t] = "none" /\ shown'[p][t] = "ended"
      BY <1>0, <1>1 DEF Types
    <3> QED BY <1>1, <1>2, <2>1, <3>1
            DEF Inv, IdleUnlessServing, RunningIffTurn, NoTrace, Isolated, Serving
  <2>2. CASE q # p \/ u # t
    <3>1. turn'[q][u] = turn[q][u] /\ shown'[q][u] = shown[q][u]
      BY <1>0, <1>1, <2>2 DEF Types
    <3> QED BY <3>1 DEF Inv, IdleUnlessServing, RunningIffTurn, NoTrace, Isolated, Serving
  <2> QED BY <2>1, <2>2
<1>4. ASSUME NEW q \in Procs, NEW r \in Procs, NEW u \in Tasks
      PROVE  Undecided(q, r, u)'
  <2>1. CASE u = t
    <3>1. turn'[q][t] \notin {"admitted", "recorded"}
      BY <1>0, <1>1, <1>2 DEF Inv, Types, Undecided, InFirst
    <3>2. worker'[q][t] # "first"
      BY <1>2 DEF Inv, Undecided, InFirst
    <3> QED BY <2>1, <3>1, <3>2 DEF Undecided, InFirst
  <2>2. CASE u # t
    <3>1. \A x \in Procs : turn'[x][u] = turn[x][u] /\ shown'[x][u] = shown[x][u]
      BY <1>0, <1>1, <2>2 DEF Types
    <3> QED BY <3>1 DEF Inv, Undecided, InFirst
  <2> QED BY <2>1, <2>2
<1> QED BY <1>1, <1>3, <1>4 DEF Inv

LEMMA FailInv ==
  ASSUME Inv, NEW p \in Procs, NEW t \in Tasks, Fail(p, t)
  PROVE  Inv'
BY EndsWithoutWorker DEF Fail, persists, store

LEMMA WatchAbortsInv ==
  ASSUME Inv, NEW p \in Procs, NEW t \in Tasks, WatchAborts(p, t)
  PROVE  Inv'
BY EndsWithoutWorker DEF WatchAborts, persists, store

LEMMA PersistParkedInv ==
  ASSUME Inv, NEW p \in Procs, NEW t \in Tasks, PersistParked(p, t)
  PROVE  Inv'
BY SMTT(30) DEF PersistParked, Written, Inv, Types, IdleUnlessServing, RunningIffTurn, NoTrace, Isolated, Undecided,
       InFirst, Serving, Stages, Turns, Shown, Records,
       memory, persists, watchers, store, Forget, SaveTask

LEMMA PersistLeftInv ==
  ASSUME Inv, NEW p \in Procs, NEW t \in Tasks, PersistLeft(p, t)
  PROVE  Inv'
BY SMTT(30) DEF PersistLeft, Written, Inv, Types, IdleUnlessServing, RunningIffTurn, NoTrace, Isolated, Undecided,
       InFirst, Serving, Stages, Turns, Shown, Records,
       memory, persists, watchers, store, Forget, SaveTask

LEMMA WorkerEndsInv ==
  ASSUME Inv, NEW p \in Procs, NEW t \in Tasks, WorkerEnds(p, t)
  PROVE  Inv'
BY SMTT(30) DEF WorkerEnds, Inv, Types, IdleUnlessServing, RunningIffTurn, NoTrace, Isolated, Undecided,
       InFirst, Serving, Stages, Turns, Shown, Records,
       memory, persists, watchers, store, Forget, SaveTask

LEMMA SettleInv ==
  ASSUME Inv, NEW p \in Procs, NEW t \in Tasks, Settle(p, t)
  PROVE  Inv'
BY SMTT(30) DEF Settle, TurnOver, Inv, Types, IdleUnlessServing, RunningIffTurn, NoTrace, Isolated, Undecided,
       InFirst, Serving, Stages, Turns, Shown, Records,
       memory, persists, watchers, store, Forget, SaveTask

LEMMA SaveInv ==
  ASSUME Inv, NEW p \in Procs, NEW t \in Tasks, Save(p, t)
  PROVE  Inv'
BY SMTT(30) DEF Save, Written, Inv, Types, IdleUnlessServing, RunningIffTurn, NoTrace, Isolated, Undecided,
       InFirst, Serving, Stages, Turns, Shown, Records,
       memory, persists, watchers, store, Forget, SaveTask

LEMMA WatchTakesInv ==
  ASSUME Inv, NEW p \in Procs, NEW t \in Tasks, WatchTakes(p, t)
  PROVE  Inv'
BY SMTT(30) DEF WatchTakes, Inv, Types, IdleUnlessServing, RunningIffTurn, NoTrace, Isolated, Undecided,
       InFirst, Serving, Stages, Turns, Shown, Records,
       memory, persists, watchers, store, Forget, SaveTask

LEMMA LateTakesInv ==
  ASSUME Inv, NEW p \in Procs, NEW t \in Tasks, LateTakes(p, t)
  PROVE  Inv'
BY SMTT(30) DEF LateTakes, Inv, Types, IdleUnlessServing, RunningIffTurn, NoTrace, Isolated, Undecided,
       InFirst, Serving, Stages, Turns, Shown, Records,
       memory, persists, watchers, store, Forget, SaveTask

LEMMA LateEndsInv ==
  ASSUME Inv, NEW p \in Procs, NEW t \in Tasks, LateEnds(p, t)
  PROVE  Inv'
BY SMTT(30) DEF LateEnds, Inv, Types, IdleUnlessServing, RunningIffTurn, NoTrace, Isolated, Undecided,
       InFirst, Serving, Stages, Turns, Shown, Records,
       memory, persists, watchers, store, Forget, SaveTask

LEMMA WatchCancelsInv ==
  ASSUME Inv, NEW p \in Procs, NEW t \in Tasks, WatchCancels(p, t)
  PROVE  Inv'
BY SMTT(30) DEF WatchCancels, Inv, Types, IdleUnlessServing, RunningIffTurn, NoTrace, Isolated, Undecided,
       InFirst, Serving, Stages, Turns, Shown, Records,
       memory, persists, watchers, store, Forget, SaveTask

-----------------------------------------------------------------------------
(* The tasks of another process, and a crash.                              *)

LEMMA RefreshOrphanInv ==
  ASSUME Inv, NEW p \in Procs, NEW t \in Tasks, RefreshOrphan(p, t)
  PROVE  Inv'
BY SMTT(30) DEF RefreshOrphan, Inv, Types, IdleUnlessServing, RunningIffTurn, NoTrace, Isolated, Undecided,
       InFirst, Serving, Stages, Turns, Shown, Records,
       memory, persists, watchers, store, Forget, SaveTask

LEMMA RequestCancelInv ==
  ASSUME Inv, NEW p \in Procs, NEW t \in Tasks, RequestCancel(p, t)
  PROVE  Inv'
BY SMTT(30) DEF RequestCancel, Inv, Types, IdleUnlessServing, RunningIffTurn, NoTrace, Isolated, Undecided,
       InFirst, Serving, Stages, Turns, Shown, Records,
       memory, persists, watchers, store, Forget, SaveTask

LEMMA DiesInv ==
  ASSUME Inv, NEW p \in Procs, NEW survivors, Dies(p, survivors)
  PROVE  Inv'
BY SMTT(30) DEF Dies, Alive, Inv, Types, IdleUnlessServing, RunningIffTurn, NoTrace, Isolated, Undecided,
       InFirst, Serving, Stages, Turns, Shown, Records,
       memory, persists, watchers, store, Forget, SaveTask

LEMMA StepInv == Inv /\ [Next]_vars => Inv'
<1> SUFFICES ASSUME Inv, [Next]_vars
             PROVE  Inv'
  OBVIOUS
<1>1. CASE UNCHANGED vars
  BY <1>1 DEF vars, Inv, Types, IdleUnlessServing, RunningIffTurn, NoTrace, Isolated, Undecided,
       InFirst, Serving, Stages, Turns, Shown, Records,
       memory, persists, watchers, store, Forget, SaveTask
<1>2. ASSUME NEW p \in Procs, Startup(p)
      PROVE  Inv'
  BY <1>2, PruneInv, AcquireReadsInv, AcquireWritesInv, RestoreInv DEF Startup
<1>3. ASSUME NEW p \in Procs, NEW t \in Tasks, OwnTask(p, t)
      PROVE  Inv'
  BY <1>3, AdmitInv, RecordInv, ClaimInv, WatchStartsInv, LaunchInv, FailInv, WorkerEndsInv,
     SettleInv, SaveInv, PersistParkedInv, PersistLeftInv DEF OwnTask
<1>4. ASSUME NEW p \in Procs, NEW t \in Tasks, OthersTask(p, t)
      PROVE  Inv'
  BY <1>4, RefreshOrphanInv, RequestCancelInv DEF OthersTask
<1>5. ASSUME NEW p \in Procs, NEW survivors, Dies(p, survivors)
      PROVE  Inv'
  BY <1>5, DiesInv
<1>6. ASSUME NEW p \in Procs, NEW t \in Tasks, Watching(p, t)
      PROVE  Inv'
  BY <1>6, WatchTakesInv, WatchCancelsInv, WatchAbortsInv, LateTakesInv, LateEndsInv DEF Watching
<1> QED BY <1>1, <1>2, <1>3, <1>4, <1>5, <1>6 DEF Next

LEMMA InvHolds == Spec => []Inv
BY InitInv, StepInv, PTL DEF Spec

-----------------------------------------------------------------------------
(* The theorems.                                                           *)

\* While the first worker of a task lives, nobody has another one in its session
\* and nobody shows an outcome, however many processes start, crash, adopt and
\* refresh (prepareFollowup, Restore, refreshOrphan, Acquire).
THEOREM FirstWorker == Spec => []FirstWorkerIsAlone
<1>1. Inv => FirstWorkerIsAlone
  BY DEF Inv, Undecided, InFirst, FirstWorkerIsAlone
<1> QED BY <1>1, InvHolds, PTL

\* A task shown as running has a turn of the process that shows it
\* (taskFromSnapshot makes an orphan of every other).
THEOREM OwnRunning == Spec => []RunningIsOurs
<1>1. Inv => RunningIsOurs
  BY DEF Inv, RunningIffTurn, RunningIsOurs
<1> QED BY <1>1, InvHolds, PTL

\* A process that found a live owner never shows a task it did not make
\* (Restore).
THEOREM Isolation == Spec => []IsolatedFromLiveOwner
<1>1. Inv => IsolatedFromLiveOwner
  BY DEF Inv, Isolated, IsolatedFromLiveOwner
<1> QED BY <1>1, InvHolds, PTL

\* Forgetting a task's files is the one way to lose a request with its record.
LEMMA ForgetErases ==
  ASSUME NEW S, Forget(S), NEW t \in Tasks, cancelFile[t], ~cancelFile'[t]
  PROVE  disk'[t] = "absent"
BY DEF Forget

\* No request of another instance is erased by the start of a turn, and the
\* watcher that takes it for the turn in progress stops that turn, unless the turn
\* ends or its process dies in between (watchCancelRequest, manager.go).
THEOREM Requests == Spec => RequestIsNotErased
<1> DEFINE Taken(t) == \/ disk'[t] = "absent"
                       \/ \E p \in Procs : late[p][t] \/ watch'[p][t] = "taken"
           Stopped(p, t) == \/ stage'[p] = "gone"
                            \/ worker'[p][t] = "none" /\ turn'[p][t] \in {"none", "alive"}
<1>1. ASSUME Inv, [Next]_vars, NEW t \in Tasks, cancelFile[t], ~cancelFile'[t]
      PROVE  Taken(t)
  <2> USE <1>1
  <2>1. ASSUME NEW p \in Procs, Startup(p)
        PROVE  Taken(t)
    BY <2>1, ForgetErases DEF Startup, Prune, AcquireReads, AcquireWrites, Restore, store
  <2>2. ASSUME NEW p \in Procs, NEW u \in Tasks, OwnTask(p, u)
        PROVE  Taken(t)
    <3>1. CASE Admit(p, u)
      BY <3>1, ForgetErases DEF Admit
    <3> QED
      BY <2>2, <3>1
         DEF OwnTask, Record, Claim, WatchStarts, Launch, Fail, WorkerEnds, Settle, Save,
             PersistParked, PersistLeft, SaveTask, store
  <2>3. ASSUME NEW p \in Procs, NEW u \in Tasks, OthersTask(p, u)
        PROVE  Taken(t)
    BY <2>3 DEF OthersTask, RefreshOrphan, RequestCancel, store, Inv, Types
  <2>4. ASSUME NEW p \in Procs, NEW u \in Tasks, Watching(p, u)
        PROVE  Taken(t)
    <3>1. CASE WatchTakes(p, u)
      BY <3>1 DEF WatchTakes, Inv, Types
    <3>2. CASE LateTakes(p, u)
      BY <3>2 DEF LateTakes, Inv, Types
    <3> QED
      BY <2>4, <3>1, <3>2 DEF Watching, WatchCancels, WatchAborts, LateEnds, store
  <2>5. ASSUME NEW p \in Procs, NEW survivors, Dies(p, survivors)
        PROVE  Taken(t)
    BY <2>5 DEF Dies, store
  <2>6. CASE UNCHANGED vars
    BY <2>6 DEF vars, store
  <2> QED BY <2>1, <2>2, <2>3, <2>4, <2>5, <2>6 DEF Next
<1>2. ASSUME Inv, [Next]_vars, NEW q \in Procs, NEW t \in Tasks,
             watch[q][t] = "taken", watch'[q][t] # "taken"
      PROVE  Stopped(q, t)
  <2> USE <1>2
  <2>1. ASSUME NEW p \in Procs, NEW u \in Tasks, OwnTask(p, u)
        PROVE  Stopped(q, t)
    <3>1. CASE WatchStarts(p, u)
      BY <3>1 DEF WatchStarts, Inv, Types
    <3>2. CASE Fail(p, u)
      BY <3>2 DEF Fail, TurnOver, Inv, Types, IdleUnlessServing, Serving
    <3>3. CASE Settle(p, u)
      BY <3>3 DEF Settle, TurnOver, Inv, Types
    <3> QED
      BY <2>1, <3>1, <3>2, <3>3
         DEF OwnTask, Admit, Record, Claim, Launch, WorkerEnds, Save, PersistParked, PersistLeft,
             memory, watchers
  <2>2. ASSUME NEW p \in Procs, NEW u \in Tasks, Watching(p, u)
        PROVE  Stopped(q, t)
    <3>1. CASE WatchTakes(p, u)
      BY <3>1 DEF WatchTakes, Inv, Types
    <3>2. CASE WatchCancels(p, u)
      BY <3>2 DEF WatchCancels, Inv, Types
    <3>3. CASE WatchAborts(p, u)
      BY <3>3 DEF WatchAborts, TurnOver, Inv, Types, IdleUnlessServing, Serving
    <3> QED
      BY <2>2, <3>1, <3>2, <3>3 DEF Watching, LateTakes, LateEnds
  <2>3. ASSUME NEW p \in Procs, NEW survivors, Dies(p, survivors)
        PROVE  Stopped(q, t)
    BY <2>3 DEF Dies, Inv, Types
  <2>4. ASSUME NEW p \in Procs, Startup(p)
        PROVE  Stopped(q, t)
    BY <2>4 DEF Startup, Prune, AcquireReads, AcquireWrites, Restore, memory, watchers
  <2>5. ASSUME NEW p \in Procs, NEW u \in Tasks, OthersTask(p, u)
        PROVE  Stopped(q, t)
    BY <2>5 DEF OthersTask, RefreshOrphan, RequestCancel, memory, watchers
  <2>6. CASE UNCHANGED vars
    BY <2>6 DEF vars, memory, watchers
  <2> QED BY <2>1, <2>2, <2>3, <2>4, <2>5, <2>6 DEF Next
<1>3. Inv /\ [Next]_vars
        => [\A t \in Tasks :
              /\ cancelFile[t] /\ ~cancelFile'[t] => Taken(t)
              /\ \A p \in Procs :
                   watch[p][t] = "taken" /\ watch'[p][t] # "taken" => Stopped(p, t)]_vars
  BY <1>1, <1>2
<1> QED BY <1>3, InvHolds, PTL DEF Spec, RequestIsNotErased

-----------------------------------------------------------------------------
(* The orders.  A registry is a map and a list, and the store is read by   *)
(* the age of its files: the list has exactly the tasks of the map, and    *)
(* the files are exactly the records there are.                            *)

Ordered ==
  /\ known \in [Procs -> Seq(Tasks)]
  /\ files \in Seq(Tasks)
  /\ followups \in [Tasks -> 0..MaxFollowups]
  /\ \A t \in Tasks : disk[t] # "absent" <=> In(t, files)
  /\ \A p \in Procs, t \in Tasks : shown[p][t] # "absent" <=> In(t, known[p])

\* The files of the store and its records, after a Forget.
LEMMA ForgetKeepsFiles ==
  ASSUME Ordered, NEW S, Forget(S)
  PROVE  /\ files' \in Seq(Tasks)
         /\ \A t \in Tasks : disk'[t] # "absent" <=> In(t, files')
<1>1. files' \in Seq(Tasks) /\ \A x : In(x, files') <=> x \in Tasks \ S /\ In(x, files)
  BY KeepPicks DEF Forget, Ordered
<1>2. \A t \in Tasks : disk'[t] # "absent" <=> t \notin S /\ disk[t] # "absent"
  BY DEF Forget
<1> QED BY <1>1, <1>2 DEF Ordered

\* And after a SaveTask.
LEMMA SaveTaskKeepsFiles ==
  ASSUME Ordered, NEW t \in Tasks, NEW s \in Records \ {"absent"}, SaveTask(t, s),
         disk \in [Tasks -> Records]
  PROVE  /\ files' \in Seq(Tasks)
         /\ \A u \in Tasks : disk'[u] # "absent" <=> In(u, files')
<1> DEFINE rest == Keep(files, Tasks \ {t})
<1>1. rest \in Seq(Tasks) /\ \A x : In(x, rest) <=> x \in Tasks \ {t} /\ In(x, files)
  BY KeepPicks DEF Ordered
<1>2. files' = Append(rest, t)
  BY DEF SaveTask
<1> HIDE DEF rest
<1>3. files' \in Seq(Tasks) /\ \A x : In(x, files') <=> x = t \/ In(x, rest)
  BY <1>1, <1>2, InAppended
<1>4. \A u \in Tasks : disk'[u] # "absent" <=> u = t \/ disk[u] # "absent"
  BY DEF SaveTask
<1> QED BY <1>1, <1>3, <1>4 DEF Ordered

LEMMA InitOrdered == Init => Ordered
<1>1. ~\E x : In(x, <<>>)
  BY DEF In
<1> QED BY <1>1, InstancesAssumption DEF Init, Ordered

LEMMA PruneOrdered ==
  ASSUME Inv, Ordered, NEW p \in Procs, Prune(p)
  PROVE  Ordered'
BY ForgetKeepsFiles DEF Prune, Ordered, memory

\* The registry after Restore has what the store has, less what is evicted.
LEMMA RestoreOrdered ==
  ASSUME Inv, Ordered, NEW p \in Procs, Restore(p)
  PROVE  Ordered'
<1> DEFINE order == Adoptable(p)
           st == [t \in Tasks |-> IF t \in Range(order) THEN AsRestored(disk[t]) ELSE "absent"]
           out == Evicted(order, st)
<1>1. /\ known' = [known EXCEPT ![p] = Keep(order, Tasks \ out)]
      /\ shown' = [shown EXCEPT ![p] = [t \in Tasks |-> IF t \in out THEN "absent" ELSE st[t]]]
      /\ Forget(out)
      /\ UNCHANGED followups
  BY DEF Restore
<1>2. order \in Seq(Tasks) /\ \A t \in Tasks : In(t, order) => disk[t] # "absent"
  <2>1. ~\E x : In(x, <<>>)
    BY DEF In
  <2> QED BY <2>1 DEF Ordered, Adoptable
<1>3. \A t \in Tasks : st[t] # "absent" <=> In(t, order)
  BY <1>2 DEF Range, In, AsRestored
<1> HIDE DEF order, st, out
<1>4. /\ Keep(order, Tasks \ out) \in Seq(Tasks)
      /\ \A x : In(x, Keep(order, Tasks \ out)) <=> x \in Tasks \ out /\ In(x, order)
  BY <1>2, KeepPicks
<1>5. known' \in [Procs -> Seq(Tasks)]
  BY <1>1, <1>4 DEF Ordered
<1>6. ASSUME NEW q \in Procs, NEW t \in Tasks
      PROVE  shown'[q][t] # "absent" <=> In(t, known'[q])
  <2>1. CASE q = p
    <3>1. known'[p] = Keep(order, Tasks \ out)
      BY <1>1 DEF Ordered
    <3>2. shown'[p][t] = IF t \in out THEN "absent" ELSE st[t]
      BY <1>1 DEF Inv, Types
    <3> QED BY <1>3, <1>4, <2>1, <3>1, <3>2
  <2>2. CASE q # p
    BY <1>1, <2>2 DEF Ordered, Inv, Types
  <2> QED BY <2>1, <2>2
<1> QED BY <1>1, <1>5, <1>6, ForgetKeepsFiles DEF Ordered

\* A task that is admitted is new to the registry and at its end.
LEMMA AdmitOrdered ==
  ASSUME Inv, Ordered, NEW p \in Procs, NEW t \in Tasks, Admit(p, t)
  PROVE  Ordered'
<1> DEFINE order == Append(known[p], t)
           st == [shown[p] EXCEPT ![t] = "running"]
           out == Evicted(order, st)
<1>1. /\ known' = [known EXCEPT ![p] = Keep(order, Tasks \ out)]
      /\ shown' = [shown EXCEPT ![p] = [u \in Tasks |-> IF u \in out THEN "absent" ELSE st[u]]]
      /\ Forget(out)
      /\ UNCHANGED followups
  BY DEF Admit
<1>2. order \in Seq(Tasks) /\ \A x : In(x, order) <=> x = t \/ In(x, known[p])
  BY InAppended DEF Ordered
<1>3. \A u \in Tasks : st[u] # "absent" <=> In(u, order)
  BY <1>2 DEF Ordered, Inv, Types
<1> HIDE DEF order, st, out
<1>4. /\ Keep(order, Tasks \ out) \in Seq(Tasks)
      /\ \A x : In(x, Keep(order, Tasks \ out)) <=> x \in Tasks \ out /\ In(x, order)
  BY <1>2, KeepPicks
<1>5. known' \in [Procs -> Seq(Tasks)]
  BY <1>1, <1>4 DEF Ordered
<1>6. ASSUME NEW q \in Procs, NEW u \in Tasks
      PROVE  shown'[q][u] # "absent" <=> In(u, known'[q])
  <2>1. CASE q = p
    <3>1. known'[p] = Keep(order, Tasks \ out)
      BY <1>1 DEF Ordered
    <3>2. shown'[p][u] = IF u \in out THEN "absent" ELSE st[u]
      BY <1>1 DEF Inv, Types
    <3> QED BY <1>3, <1>4, <2>1, <3>1, <3>2
  <2>2. CASE q # p
    BY <1>1, <2>2 DEF Ordered, Inv, Types
  <2> QED BY <2>1, <2>2
<1> QED BY <1>1, <1>5, <1>6, ForgetKeepsFiles DEF Ordered

\* What one process does later to a task it has: the registry keeps its tasks.
LEMMA TurnOrdered ==
  ASSUME Inv, Ordered, NEW p \in Procs, NEW t \in Tasks,
         \/ WatchStarts(p, t)
         \/ Launch(p, t)
         \/ WorkerEnds(p, t)
         \/ WatchTakes(p, t)
         \/ LateTakes(p, t)
         \/ LateEnds(p, t)
         \/ WatchCancels(p, t)
         \/ RequestCancel(p, t)
         \/ Claim(p, t)
         \/ Fail(p, t)
         \/ Settle(p, t)
         \/ WatchAborts(p, t)
         \/ RefreshOrphan(p, t)
  PROVE  Ordered'
<1>1. UNCHANGED <<known, disk, files>>
  BY DEF WatchStarts, Launch, WorkerEnds, WatchTakes, LateTakes, LateEnds, WatchCancels,
         RequestCancel, Claim, Fail, Settle, WatchAborts, RefreshOrphan, memory, store
<1>2. followups' \in [Tasks -> 0..MaxFollowups]
  <2>1. CASE Claim(p, t)
    BY <2>1, InstancesAssumption DEF Claim, Ordered
  <2>2. CASE ~Claim(p, t)
    BY <2>2 DEF WatchStarts, Launch, WorkerEnds, WatchTakes, LateTakes, LateEnds, WatchCancels,
       RequestCancel, Fail, Settle, WatchAborts, RefreshOrphan, Ordered
  <2> QED BY <2>1, <2>2
<1>3. \/ shown' = shown
      \/ /\ shown[p][t] # "absent"
         /\ \E s \in {"running", "ended"} : shown' = [shown EXCEPT ![p][t] = s]
  <2>1. turn[p][t] # "none" => shown[p][t] = "running"
    BY DEF Inv, RunningIffTurn
  <2> QED BY <2>1 DEF WatchStarts, Launch, WorkerEnds, WatchTakes, LateTakes, LateEnds,
                      WatchCancels, RequestCancel, Claim, Fail, Settle, WatchAborts, TurnOver,
                      RefreshOrphan, Resumable, memory
<1>4. ASSUME NEW q \in Procs, NEW u \in Tasks
      PROVE  shown'[q][u] # "absent" <=> shown[q][u] # "absent"
  <2>1. CASE shown' = shown
    BY <2>1
  <2>2. ASSUME shown[p][t] # "absent", NEW s \in {"running", "ended"},
               shown' = [shown EXCEPT ![p][t] = s]
        PROVE  shown'[q][u] # "absent" <=> shown[q][u] # "absent"
    <3>1. shown' = [shown EXCEPT ![p] = [shown[p] EXCEPT ![t] = s]]
      BY <2>2
    <3>2. shown \in [Procs -> [Tasks -> Shown]] /\ s # "absent"
      BY DEF Inv, Types
    <3>3. shown'[q][u] = IF q = p /\ u = t THEN s ELSE shown[q][u]
      BY <3>1, <3>2
    <3> QED BY <2>2, <3>2, <3>3
  <2> QED BY <1>3, <2>1, <2>2
<1> QED BY <1>1, <1>2, <1>4 DEF Ordered

\* A persist writes what runs or has ended, never a record without a status.
LEMMA PersistOrdered ==
  ASSUME Inv, Ordered, NEW p \in Procs, NEW t \in Tasks,
         Record(p, t) \/ PersistParked(p, t) \/ PersistLeft(p, t) \/ Save(p, t)
  PROVE  Ordered'
<1>1. PICK s \in Records \ {"absent"} : SaveTask(t, s)
  <2>1. turn[p][t] # "none" => shown[p][t] = "running"
    BY DEF Inv, RunningIffTurn
  <2>2. Written(p, t) \in Records \ {"absent"} /\ "running" \in Records \ {"absent"}
    BY DEF Written, Records
  <2>3. CASE Record(p, t)
    BY <2>1, <2>2, <2>3 DEF Record
  <2>4. CASE PersistParked(p, t) \/ PersistLeft(p, t) \/ Save(p, t)
    BY <2>2, <2>4 DEF PersistParked, PersistLeft, Save
  <2> QED BY <2>3, <2>4
<1>2. UNCHANGED <<known, shown, followups>>
  BY DEF Record, PersistParked, PersistLeft, Save
<1> QED BY <1>1, <1>2, SaveTaskKeepsFiles DEF Ordered, Inv, Types

\* A process that dies has neither map nor list.
LEMMA DiesOrdered ==
  ASSUME Inv, Ordered, NEW p \in Procs, NEW survivors, Dies(p, survivors)
  PROVE  Ordered'
<1>1. /\ known' = [known EXCEPT ![p] = <<>>]
      /\ shown' = [shown EXCEPT ![p] = [t \in Tasks |-> "absent"]]
      /\ UNCHANGED <<followups, disk, files>>
  BY DEF Dies, store
<1>2. ~\E x : In(x, <<>>)
  BY DEF In
<1>3. ASSUME NEW q \in Procs, NEW t \in Tasks
      PROVE  shown'[q][t] # "absent" <=> In(t, known'[q])
  <2>1. CASE q = p
    BY <1>1, <1>2, <2>1 DEF Ordered, Inv, Types
  <2>2. CASE q # p
    BY <1>1, <2>2 DEF Ordered, Inv, Types
  <2> QED BY <2>1, <2>2
<1>4. known' \in [Procs -> Seq(Tasks)]
  BY <1>1 DEF Ordered
<1> QED BY <1>1, <1>3, <1>4 DEF Ordered

LEMMA StepOrdered == Inv /\ Ordered /\ [Next]_vars => Ordered'
<1> SUFFICES ASSUME Inv, Ordered, [Next]_vars
             PROVE  Ordered'
  OBVIOUS
<1>1. CASE UNCHANGED vars
  BY <1>1 DEF vars, memory, store, Ordered
<1>2. ASSUME NEW p \in Procs, AcquireReads(p) \/ AcquireWrites(p)
      PROVE  Ordered'
  BY <1>2 DEF AcquireReads, AcquireWrites, memory, store, Ordered
<1>3. ASSUME NEW p \in Procs, Startup(p)
      PROVE  Ordered'
  BY <1>2, <1>3, PruneOrdered, RestoreOrdered DEF Startup
<1>4. ASSUME NEW p \in Procs, NEW t \in Tasks,
             OwnTask(p, t) \/ Watching(p, t) \/ OthersTask(p, t)
      PROVE  Ordered'
  BY <1>4, AdmitOrdered, TurnOrdered, PersistOrdered DEF OwnTask, Watching, OthersTask
<1>5. ASSUME NEW p \in Procs, NEW survivors, Dies(p, survivors)
      PROVE  Ordered'
  BY <1>5, DiesOrdered
<1> QED BY <1>1, <1>3, <1>4, <1>5 DEF Next

\* In every reachable state the list of a registry has exactly the tasks of its
\* map and the files are exactly the records (admit, evictLocked, Restore and
\* Store.Forget change both): no task is counted or evicted that is not there,
\* and none is kept that no eviction can reach.
THEOREM OrdersAgree == Spec => []Ordered
<1>1. Init => Inv /\ Ordered
  BY InitInv, InitOrdered
<1>2. Inv /\ Ordered /\ [Next]_vars => (Inv /\ Ordered)'
  BY StepInv, StepOrdered
<1> QED BY <1>1, <1>2, PTL DEF Spec

\* Every variable has its type.
THEOREM TypeCorrect == Spec => []TypeOK
<1>1. Inv /\ Ordered => TypeOK
  BY DEF Inv, Types, Ordered, TypeOK
<1> QED BY <1>1, InvHolds, OrdersAgree, PTL
=============================================================================
