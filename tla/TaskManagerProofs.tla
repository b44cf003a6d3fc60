------------------------- MODULE TaskManagerProofs -------------------------
(***************************************************************************)
(* Theorems about the task manager, for every set of tasks and every bound.*)
(*                                                                         *)
(* OneTurnPerTask, RunningIffTurn and WorkerIsKillable only hold together: *)
(* a follow-up may claim because running is false, which says that no turn *)
(* is in progress because running is exact, and StartTask may do so because*)
(* nothing can have found a task that is not in the registry yet.          *)
(***************************************************************************)
EXTENDS TaskManager, FiniteSetTheorems, DataLemmas, TLAPS

\* Nobody finds a task before its StartTask has inserted it, and the call that
\* creates a task is never a follow-up.
CreatedBeforeFound ==
  \A t \in Tasks :
    /\ pc[t][1] # "found"
    /\ pc[t][1] \in {"idle", "cleared", "refused"} =>
         stamp[t] = 0 /\ \A c \in Calls : c # 1 => pc[t][c] = "idle"

\* What the exclusion argument needs of a state, beside its types.
Exclusion ==
  /\ OneTurnPerTask
  /\ RunningIffTurn
  /\ WorkerIsKillable
  /\ CreatedBeforeFound

IInv == TypeOK /\ Exclusion

-----------------------------------------------------------------------------
(* Types                                                                   *)

\* Call 1, the one that creates the task, exists.
LEMMA FirstCall == 1 \in Calls /\ NoCall \notin Calls /\ Calls \subseteq Nat
  BY ConstantsAssumption DEF Calls, NoCall

\* A permission request touches no more than its own state and the record.
LEMMA AskFrame ==
  ASSUME NEW t \in Tasks, NEW r \in Requests, AskStep(t, r)
  PROVE  UNCHANGED <<turnVars, taskVars, registry, cancelFile, server>>
  BY DEF AskStep, AskSnapshot, AskSaves, LeaveSnapshot, LeaveSaves, store

\* Every step of the manager keeps the types of its variables.
LEMMA TypeStep == TypeOK /\ [Next]_vars => TypeOK'
<1> SUFFICES ASSUME TypeOK, [Next]_vars PROVE TypeOK'
  OBVIOUS
<1> USE FirstCall, ConstantsAssumption DEF Step
<1>1. ASSUME NEW t \in Tasks, StartStep(t) PROVE TypeOK'
  <2>1. CASE StartCleared(t)
    BY <2>1 DEF StartCleared, TypeOK, Phases, Statuses, Outcomes, registry, store
  <2>2. CASE StartRefused(t)
    BY <2>2 DEF StartRefused, TypeOK, Phases, taskVars, registry, store
  <2>3. CASE Admit(t)
    <3> DEFINE out == Dropped(Registered \cup {t})
    <3>1. /\ stamp' = [u \in Tasks |-> IF u = t THEN admissions + 1
                                       ELSE IF u \in out THEN 0 ELSE stamp[u]]
          /\ admissions' = admissions + 1
          /\ disk' = [u \in Tasks |-> IF u \in out THEN "absent" ELSE disk[u]]
          /\ cancelFile' = [u \in Tasks |-> u \notin out /\ cancelFile[u]]
          /\ pc' = [pc EXCEPT ![t][1] = "admitted"]
          /\ UNCHANGED <<ctxDone, exit, timer, watch, pump, snap, taskVars, ask, server>>
      BY <2>3 DEF Admit
    <3> HIDE DEF out
    <3>2. stamp' \in [Tasks -> Nat] /\ admissions' \in Nat
      BY <3>1 DEF TypeOK
    <3>3. disk' \in [Tasks -> Statuses \cup {"absent"}]
      BY <3>1 DEF TypeOK
    <3>4. cancelFile' \in [Tasks -> BOOLEAN]
      BY <3>1, Zenon DEF TypeOK
    <3>5. QED BY <3>1, <3>2, <3>3, <3>4 DEF TypeOK, Phases, taskVars
  <2>4. CASE PersistStart(t)
    BY <2>4 DEF PersistStart, TypeOK, Phases, taskVars, registry
  <2>5. QED BY <1>1, <2>1, <2>2, <2>3, <2>4 DEF StartStep
<1>2. ASSUME NEW t \in Tasks, NEW c \in Calls, FollowupStep(t, c) PROVE TypeOK'
  <2>1. CASE FollowupLookup(t, c)
    BY <2>1 DEF FollowupLookup, TypeOK, Phases, taskVars, registry, store
  <2>2. CASE FollowupRefused(t, c)
    BY <2>2 DEF FollowupRefused, TypeOK, Phases, taskVars, registry, store
  <2>3. CASE FollowupClaim(t, c)
    BY <2>3 DEF FollowupClaim, TypeOK, Phases, Statuses, Outcomes, registry, store
  <2>4. QED BY <1>2, <2>1, <2>2, <2>3 DEF FollowupStep
<1>3. ASSUME NEW t \in Tasks, NEW c \in Calls, TurnStep(t, c) PROVE TypeOK'
  <2>1. CASE ResetTurn(t, c)
    BY <2>1 DEF ResetTurn, TypeOK, Phases, Statuses, Outcomes, registry, store
  <2>2. CASE FailTurn(t, c)
    <3>1. pc' = [pc EXCEPT ![t][c] = "aborted"]
      BY <2>2 DEF FailTurn
    <3>2. QED BY <2>2, <3>1 DEF FailTurn, TypeOK, Phases, Statuses, Outcomes, registry, store
  <2>3. CASE BuildCommand(t, c)
    BY <2>3 DEF BuildCommand, TypeOK, Phases, taskVars, registry, store
  <2>4. CASE Spawn(t, c)
    BY <2>4 DEF Spawn, TypeOK, Phases, taskVars, registry, store
  <2>5. CASE Settle(t, c)
    <3>1. Verdict(t, c) \in Statuses
      BY DEF Verdict, Statuses, Outcomes
    <3>2. QED BY <2>5, <3>1 DEF Settle, TypeOK, Phases, registry, store
  <2>6. CASE TakeSnapshot(t, c)
    BY <2>6 DEF TakeSnapshot, TypeOK, Phases, taskVars, registry, store
  <2>7. CASE SaveAndUnwind(t, c)
    BY <2>7 DEF SaveAndUnwind, TypeOK, Phases, Statuses, Outcomes, taskVars, registry
  <2>8. QED BY <1>3, <2>1, <2>2, <2>3, <2>4, <2>5, <2>6, <2>7 DEF TurnStep
<1>4. ASSUME NEW t \in Tasks, NEW c \in Calls, CompanionStep(t, c) PROVE TypeOK'
  <2> USE DEF registry, store
  <2>1. CASE TimerFires(t, c)
    BY <2>1 DEF TimerFires, TypeOK, taskVars
  <2>2. CASE TimeoutMarks(t, c)
    BY <2>2 DEF TimeoutMarks, TypeOK
  <2>3. CASE PumpSession(t, c)
    BY <2>3 DEF PumpSession, TypeOK, turnVars
  <2>4. CASE \E err \in BOOLEAN : PumpFinal(t, c, err)
    <3>1. PICK err \in BOOLEAN : PumpFinal(t, c, err)
      BY <2>4
    <3>2. isError' \in [Tasks -> BOOLEAN]
      BY <3>1, Zenon DEF PumpFinal, TypeOK
    <3>3. QED BY <3>1, <3>2 DEF PumpFinal, TypeOK, turnVars
  <2>5. CASE PumpEnds(t, c)
    BY <2>5 DEF PumpEnds, TypeOK, taskVars
  <2>6. CASE WatchFinds(t, c)
    BY <2>6 DEF WatchFinds, TypeOK, taskVars
  <2>7. CASE WatchCancels(t, c)
    BY <2>7 DEF WatchCancels, TypeOK
  <2>8. CASE WatchStops(t, c)
    BY <2>8 DEF WatchStops, TypeOK, taskVars
  <2>9. QED BY <1>4, <2>1, <2>2, <2>3, <2>4, <2>5, <2>6, <2>7, <2>8 DEF CompanionStep
<1>5. ASSUME NEW t \in Tasks, NEW c \in Calls, NEW how \in {"ok", "bad"},
             WorkerExit(t, c, how)
      PROVE TypeOK'
  BY <1>5 DEF WorkerExit, TypeOK, Phases, taskVars, registry, store
<1>6. ASSUME NEW t \in Tasks, Cancel(t) PROVE TypeOK'
  <2> DEFINE called == [c \in Calls |-> ctxDone[t][c] \/ c = cancelFn[t]]
  <2>1. called \in [Calls -> BOOLEAN]
    BY Zenon
  <2> HIDE DEF called
  <2>2. ctxDone' = [ctxDone EXCEPT ![t] = called]
    BY <1>6 DEF Cancel, called
  <2>3. QED BY <1>6, <2>1, <2>2 DEF Cancel, TypeOK, registry, store
<1>7. ASSUME NEW t \in Tasks, PeerRequestsCancel(t) PROVE TypeOK'
  BY <1>7 DEF PeerRequestsCancel, TypeOK, turnVars, taskVars, registry
<1>8. CASE Shutdown \/ ShutdownClean \/ ShutdownLate
  BY <1>8 DEF Shutdown, ShutdownClean, ShutdownLate, TypeOK, turnVars, taskVars,
              registry, store
<1>9. CASE UNCHANGED vars
  BY <1>9 DEF vars, TypeOK, turnVars, taskVars, registry, store
<1>10. ASSUME NEW t \in Tasks, NEW r \in Requests, AskStep(t, r) PROVE TypeOK'
  <2> DEFINE Asked(at, s) == ask' = [ask EXCEPT ![t][r] = [at |-> at, snap |-> s]]
  <2>1. ASSUME NEW at \in AskPhases, NEW s \in Statuses, Asked(at, s)
        PROVE  ask' \in [Tasks -> [Requests -> [at : AskPhases, snap : Statuses]]]
    BY <2>1 DEF TypeOK
  <2>2. ask[t][r] \in [at : AskPhases, snap : Statuses] /\ status[t] \in Statuses
    BY DEF TypeOK
  <2>3. CASE AskSnapshot(t, r) \/ LeaveSnapshot(t, r)
    <3>1. Asked("asking", status[t]) \/ Asked("leaving", status[t])
      BY <2>3 DEF AskSnapshot, LeaveSnapshot
    <3>2. UNCHANGED <<turnVars, taskVars, registry, store, server>>
      BY <2>3 DEF AskSnapshot, LeaveSnapshot
    <3>3. "asking" \in AskPhases /\ "leaving" \in AskPhases
      BY DEF AskPhases
    <3> HIDE DEF Asked
    <3>4. ask' \in [Tasks -> [Requests -> [at : AskPhases, snap : Statuses]]]
      BY <2>1, <2>2, <3>1, <3>3
    <3> QED BY <3>2, <3>4 DEF TypeOK, turnVars, taskVars, registry, store
  <2>4. CASE AskSaves(t, r) \/ LeaveSaves(t, r)
    <3>1. /\ ask' = [ask EXCEPT ![t][r].at = "waiting"] \/ ask' = [ask EXCEPT ![t][r].at = "over"]
          /\ disk' = [disk EXCEPT ![t] = ask[t][r].snap]
          /\ UNCHANGED <<turnVars, taskVars, registry, cancelFile, server>>
      BY <2>4 DEF AskSaves, LeaveSaves
    <3>2. ASSUME NEW at \in AskPhases, ask' = [ask EXCEPT ![t][r].at = at]
          PROVE  Asked(at, ask[t][r].snap)
      <4>1. [ask[t][r] EXCEPT !.at = at] = [at |-> at, snap |-> ask[t][r].snap]
        BY <2>2
      <4> QED BY <3>2, <4>1 DEF TypeOK
    <3>3. "waiting" \in AskPhases /\ "over" \in AskPhases
      BY DEF AskPhases
    <3>6. Asked("waiting", ask[t][r].snap) \/ Asked("over", ask[t][r].snap)
      BY <3>1, <3>2, <3>3
    <3> HIDE DEF Asked
    <3>4. ask' \in [Tasks -> [Requests -> [at : AskPhases, snap : Statuses]]]
      BY <2>1, <2>2, <3>3, <3>6
    <3>5. disk' \in [Tasks -> Statuses \cup {"absent"}]
      BY <2>2, <3>1 DEF TypeOK
    <3> QED BY <3>1, <3>4, <3>5 DEF TypeOK, turnVars, taskVars, registry
  <2> QED BY <1>10, <2>3, <2>4 DEF AskStep
<1>11. QED
  BY <1>1, <1>2, <1>3, <1>4, <1>5, <1>6, <1>7, <1>8, <1>9, <1>10 DEF Next

\* The variables of the manager keep their types in every behaviour.
THEOREM TypeCorrect == Spec => []TypeOK
<1>1. Init => TypeOK
  BY FirstCall DEF Init, TypeOK, Phases, AskPhases, Statuses, Outcomes, Calls
<1>2. QED BY <1>1, TypeStep, PTL DEF Spec
-----------------------------------------------------------------------------
(* One turn at a time                                                      *)

\* A step that touches neither the phases nor the claim flags nor t.cancel, and
\* puts no task into the registry, cannot disturb the exclusion.
LEMMA ExclusionFrame ==
  ASSUME Exclusion, UNCHANGED <<pc, running, cancelFn, stamp>>
  PROVE  Exclusion'
  BY DEF Exclusion, OneTurnPerTask, RunningIffTurn, WorkerIsKillable, CreatedBeforeFound

\* A turn that moves on without leaving or entering the claim keeps it, as long
\* as it registers its kill handle when it starts to need one.
LEMMA ExclusionMove ==
  ASSUME TypeOK, Exclusion, NEW t \in Tasks, NEW c \in Calls, NEW to \in Phases,
         pc' = [pc EXCEPT ![t][c] = to],
         running' = [running EXCEPT ![t] = running[t]],
         pc[t][c] \in Active <=> to \in Active,
         pc[t][c] \notin {"idle", "cleared", "refused", "found"},
         to \notin {"idle", "cleared", "refused", "found"},
         \/ cancelFn' = [cancelFn EXCEPT ![t] = c] /\ to \in Active
         \/ /\ UNCHANGED cancelFn
            /\ to \in {"prepared", "built", "alive", "exited"} =>
                 pc[t][c] \in {"prepared", "built", "alive", "exited"},
         UNCHANGED stamp
  PROVE  Exclusion'
<1> USE FirstCall
<1>1. /\ \A u \in Tasks : running'[u] = running[u]
      /\ \A u \in Tasks, d \in Calls : <<u, d>> # <<t, c>> => pc'[u][d] = pc[u][d]
      /\ pc'[t][c] = to
  BY DEF TypeOK
<1>2. \A u \in Tasks, d \in Calls : pc'[u][d] \in Active <=> pc[u][d] \in Active
  BY <1>1
<1>3. OneTurnPerTask' /\ RunningIffTurn'
  BY <1>1, <1>2 DEF Exclusion, OneTurnPerTask, RunningIffTurn
<1>4. WorkerIsKillable'
  <2> SUFFICES ASSUME NEW u \in Tasks, NEW d \in Calls,
                      pc'[u][d] \in {"prepared", "built", "alive", "exited"}
               PROVE  cancelFn'[u] = d
    BY DEF WorkerIsKillable
  <2>1. CASE <<u, d>> = <<t, c>>
    BY <2>1, <1>1 DEF TypeOK, Exclusion, WorkerIsKillable
  <2>2. CASE <<u, d>> # <<t, c>>
    <3>1. cancelFn[u] = d /\ pc[u][d] \in Active
      BY <2>2, <1>1 DEF Exclusion, WorkerIsKillable, Active
    <3>2. ~(u = t /\ to \in Active)
      BY <3>1, <2>2 DEF Exclusion, OneTurnPerTask
    <3>3. QED BY <3>1, <3>2 DEF TypeOK
  <2>3. QED BY <2>1, <2>2
<1>5. CreatedBeforeFound'
  BY <1>1 DEF Exclusion, CreatedBeforeFound
<1>6. QED BY <1>3, <1>4, <1>5 DEF Exclusion

\* A turn that ends frees the task that no other turn can hold.
LEMMA ExclusionEnd ==
  ASSUME TypeOK, Exclusion, NEW t \in Tasks, NEW c \in Calls,
         NEW to \in {"settled", "aborted"},
         pc[t][c] \in {"prepared", "built", "exited"},
         pc' = [pc EXCEPT ![t][c] = to],
         running' = [running EXCEPT ![t] = FALSE],
         cancelFn' = [cancelFn EXCEPT ![t] = NoCall],
         UNCHANGED stamp
  PROVE  Exclusion'
<1> USE FirstCall
<1>1. /\ \A u \in Tasks, d \in Calls : <<u, d>> # <<t, c>> => pc'[u][d] = pc[u][d]
      /\ pc'[t][c] = to
      /\ \A u \in Tasks : u # t => running'[u] = running[u] /\ cancelFn'[u] = cancelFn[u]
      /\ ~running'[t]
  BY DEF TypeOK
<1>2. \A d \in Calls : pc'[t][d] \notin Active
  BY <1>1 DEF Exclusion, OneTurnPerTask, Active
<1>3. \A u \in Tasks, d \in Calls : u # t => pc'[u][d] = pc[u][d]
  BY <1>1
<1>4. OneTurnPerTask' /\ RunningIffTurn'
  BY <1>1, <1>2, <1>3 DEF Exclusion, OneTurnPerTask, RunningIffTurn
<1>5. WorkerIsKillable'
  BY <1>1, <1>2, <1>3 DEF Exclusion, WorkerIsKillable, Active
<1>6. CreatedBeforeFound'
  BY <1>1 DEF Exclusion, CreatedBeforeFound
<1>7. QED BY <1>4, <1>5, <1>6 DEF Exclusion

\* A claim of an idle task makes the claiming turn its only one.
LEMMA ExclusionClaim ==
  ASSUME TypeOK, Exclusion, NEW t \in Tasks, NEW c \in Calls,
         NEW to \in {"cleared", "launched"},
         \/ c = 1 /\ to = "cleared" /\ pc[t][c] = "idle"
         \/ c # 1 /\ to = "launched" /\ pc[t][c] = "found" /\ ~running[t],
         pc' = [pc EXCEPT ![t][c] = to],
         running' = [running EXCEPT ![t] = TRUE],
         UNCHANGED <<cancelFn, stamp>>
  PROVE  Exclusion'
<1> USE FirstCall
<1>1. /\ \A u \in Tasks, d \in Calls : <<u, d>> # <<t, c>> => pc'[u][d] = pc[u][d]
      /\ pc'[t][c] = to
      /\ \A u \in Tasks : u # t => running'[u] = running[u]
      /\ running'[t]
  BY DEF TypeOK
<1>2. \A d \in Calls : pc[t][d] \notin Active
  <2>1. CASE c = 1
    BY <2>1 DEF Exclusion, CreatedBeforeFound, Active
  <2>2. CASE c # 1
    BY <2>2 DEF Exclusion, RunningIffTurn
  <2>3. QED BY <2>1, <2>2
<1>3. OneTurnPerTask' /\ RunningIffTurn'
  BY <1>1, <1>2 DEF Exclusion, OneTurnPerTask, RunningIffTurn, Active
<1>4. WorkerIsKillable'
  BY <1>1 DEF Exclusion, WorkerIsKillable
<1>5. CreatedBeforeFound'
  BY <1>1 DEF Exclusion, CreatedBeforeFound
<1>6. QED BY <1>3, <1>4, <1>5 DEF Exclusion

\* A call that looks a task up, or is refused, holds nothing.
LEMMA ExclusionOutside ==
  ASSUME TypeOK, Exclusion, NEW t \in Tasks, NEW c \in Calls,
         NEW to \in {"found", "refused"},
         \/ c = 1 /\ to = "refused" /\ pc[t][c] = "idle"
         \/ c # 1 /\ to = "found" /\ pc[t][c] = "idle" /\ stamp[t] > 0
         \/ to = "refused" /\ pc[t][c] = "found",
         pc' = [pc EXCEPT ![t][c] = to],
         UNCHANGED <<running, cancelFn, stamp>>
  PROVE  Exclusion'
<1> USE FirstCall
<1>1. /\ \A u \in Tasks, d \in Calls : <<u, d>> # <<t, c>> => pc'[u][d] = pc[u][d]
      /\ pc'[t][c] = to
      /\ pc[t][c] \notin Active
      /\ to \notin Active
  BY DEF TypeOK, Active
<1>2. OneTurnPerTask' /\ RunningIffTurn' /\ WorkerIsKillable'
  BY <1>1 DEF Exclusion, OneTurnPerTask, RunningIffTurn, WorkerIsKillable, Active
<1>3. CreatedBeforeFound'
  BY <1>1 DEF Exclusion, CreatedBeforeFound, TypeOK
<1>4. QED BY <1>2, <1>3 DEF Exclusion

\* Every step of the manager keeps the exclusion.
LEMMA ExclusionStep == TypeOK /\ Exclusion /\ [Next]_vars => Exclusion'
<1> SUFFICES ASSUME TypeOK, Exclusion, [Next]_vars PROVE Exclusion'
  OBVIOUS
<1> USE FirstCall DEF Step
<1>1. ASSUME NEW t \in Tasks, StartStep(t) PROVE Exclusion'
  <2>1. CASE StartCleared(t)
    BY <2>1, ExclusionClaim DEF StartCleared, registry
  <2>2. CASE StartRefused(t)
    BY <2>2, ExclusionOutside DEF StartRefused, taskVars, registry
  <2>3. CASE Admit(t)
    <3>1. /\ pc[t][1] = "cleared"
          /\ pc' = [pc EXCEPT ![t][1] = "admitted"]
          /\ UNCHANGED <<running, cancelFn>>
      BY <2>3 DEF Admit, taskVars
    <3>2. \A u \in Tasks : u # t => stamp'[u] = 0 \/ stamp'[u] = stamp[u]
      BY <2>3 DEF Admit
    <3>3. /\ \A u \in Tasks, d \in Calls : <<u, d>> # <<t, 1>> => pc'[u][d] = pc[u][d]
          /\ pc'[t][1] = "admitted"
      BY <3>1 DEF TypeOK
    <3>4. OneTurnPerTask' /\ RunningIffTurn' /\ WorkerIsKillable'
      BY <3>1, <3>3 DEF Exclusion, OneTurnPerTask, RunningIffTurn, WorkerIsKillable, Active
    <3>5. CreatedBeforeFound'
      <4>1. CreatedBeforeFound
        BY DEF Exclusion
      <4>2. \A u \in Tasks : u # t => pc'[u][1] = pc[u][1] /\ \A d \in Calls : pc'[u][d] = pc[u][d]
        BY <3>3
      <4> QED BY <3>2, <3>3, <4>1, <4>2 DEF CreatedBeforeFound
    <3>6. QED BY <3>4, <3>5 DEF Exclusion
  <2>4. CASE PersistStart(t)
    <3>1. /\ pc[t][1] = "admitted"
          /\ pc' = [pc EXCEPT ![t][1] = "launched"]
          /\ running' = [running EXCEPT ![t] = running[t]]
          /\ UNCHANGED <<cancelFn, stamp>>
      BY <2>4 DEF PersistStart, TypeOK, taskVars, registry
    <3>2. QED BY <3>1, ExclusionMove DEF Phases, Active
  <2>5. QED BY <1>1, <2>1, <2>2, <2>3, <2>4 DEF StartStep
<1>2. ASSUME NEW t \in Tasks, NEW c \in Calls, FollowupStep(t, c) PROVE Exclusion'
  <2>1. CASE FollowupLookup(t, c)
    <3>1. /\ c # 1
          /\ stamp[t] > 0
          /\ pc[t][c] = "idle"
          /\ pc' = [pc EXCEPT ![t][c] = "found"]
          /\ UNCHANGED <<running, cancelFn, stamp>>
      BY <2>1 DEF FollowupLookup, Registered, taskVars, registry
    <3>2. QED BY <3>1, ExclusionOutside
  <2>2. CASE FollowupRefused(t, c)
    BY <2>2, ExclusionOutside DEF FollowupRefused, taskVars, registry
  <2>3. CASE FollowupClaim(t, c)
    <3>1. c # 1
      BY <2>3 DEF FollowupClaim, Exclusion, CreatedBeforeFound
    <3>2. QED BY <2>3, <3>1, ExclusionClaim DEF FollowupClaim, registry
  <2>4. QED BY <1>2, <2>1, <2>2, <2>3 DEF FollowupStep
<1>3. ASSUME NEW t \in Tasks, NEW c \in Calls, TurnStep(t, c) PROVE Exclusion'
  <2>1. CASE ResetTurn(t, c)
    <3>1. running[t] = TRUE
      BY <2>1 DEF ResetTurn, Exclusion, RunningIffTurn, Active, TypeOK
    <3>2. QED BY <2>1, <3>1, ExclusionMove DEF ResetTurn, Phases, Active, registry
  <2>2. CASE FailTurn(t, c)
    <3>1. pc' = [pc EXCEPT ![t][c] = "aborted"]
      BY <2>2 DEF FailTurn
    <3>2. QED BY <2>2, <3>1, ExclusionEnd DEF FailTurn, registry
  <2>3. CASE BuildCommand(t, c)
    BY <2>3, ExclusionMove DEF BuildCommand, TypeOK, Phases, Active, taskVars, registry
  <2>4. CASE Spawn(t, c)
    BY <2>4, ExclusionMove DEF Spawn, TypeOK, Phases, Active, taskVars, registry
  <2>5. CASE Settle(t, c)
    BY <2>5, ExclusionEnd DEF Settle, registry
  <2>6. CASE TakeSnapshot(t, c)
    BY <2>6, ExclusionMove DEF TakeSnapshot, TypeOK, Phases, Active, taskVars, registry
  <2>7. CASE SaveAndUnwind(t, c)
    BY <2>7, ExclusionMove DEF SaveAndUnwind, TypeOK, Phases, Active, taskVars, registry
  <2>8. QED BY <1>3, <2>1, <2>2, <2>3, <2>4, <2>5, <2>6, <2>7 DEF TurnStep
<1>4. ASSUME NEW t \in Tasks, NEW c \in Calls, CompanionStep(t, c) PROVE Exclusion'
  <2>1. UNCHANGED <<pc, running, cancelFn, stamp>>
    BY <1>4 DEF CompanionStep, TimerFires, TimeoutMarks, PumpSession, PumpFinal, PumpEnds,
                WatchFinds, WatchCancels, WatchStops, turnVars, taskVars, registry
  <2>2. QED BY <2>1, ExclusionFrame
<1>5. ASSUME NEW t \in Tasks, NEW c \in Calls, NEW how \in {"ok", "bad"},
             WorkerExit(t, c, how)
      PROVE Exclusion'
  BY <1>5, ExclusionMove DEF WorkerExit, TypeOK, Phases, Active, taskVars, registry
<1>6. ASSUME NEW t \in Tasks, Cancel(t) \/ PeerRequestsCancel(t) PROVE Exclusion'
  BY <1>6, ExclusionFrame DEF Cancel, PeerRequestsCancel, turnVars, taskVars, registry
<1>7. CASE Shutdown \/ ShutdownClean \/ ShutdownLate \/ UNCHANGED vars
  BY <1>7, ExclusionFrame DEF Shutdown, ShutdownClean, ShutdownLate, vars, turnVars,
                              taskVars, registry
<1>8. ASSUME NEW t \in Tasks, NEW r \in Requests, AskStep(t, r) PROVE Exclusion'
  BY <1>8, AskFrame, ExclusionFrame DEF turnVars, taskVars, registry
<1>9. QED BY <1>1, <1>2, <1>3, <1>4, <1>5, <1>6, <1>7, <1>8 DEF Next

\* The inductive invariant holds in every behaviour.
LEMMA Inductive == Spec => []IInv
<1>1. Init => IInv
  <2>1. Init => TypeOK
    BY FirstCall DEF Init, TypeOK, Phases, AskPhases, Statuses, Outcomes, Calls
  <2>2. Init => Exclusion
    BY FirstCall DEF Init, Exclusion, OneTurnPerTask, RunningIffTurn, WorkerIsKillable,
                     CreatedBeforeFound, Active
  <2>3. QED BY <2>1, <2>2 DEF IInv
<1>2. IInv /\ [Next]_vars => IInv'
  BY TypeStep, ExclusionStep DEF IInv
<1>3. QED BY <1>1, <1>2, PTL DEF Spec

\* However the calls on a task race, no two of its turns are in progress at
\* once, so no two workers ever share its session.
THEOREM Exclusive == Spec => []OneTurnPerTask
<1>1. IInv => OneTurnPerTask
  BY DEF IInv, Exclusion
<1>2. QED BY <1>1, Inductive, PTL

\* A task reads as running exactly while one of its turns is in progress.
THEOREM RunningIsExact == Spec => []RunningIffTurn
<1>1. IInv => RunningIffTurn
  BY DEF IInv, Exclusion
<1>2. QED BY <1>1, Inductive, PTL

\* t.cancel always reaches the turn that has a worker.
THEOREM Killable == Spec => []WorkerIsKillable
<1>1. IInv => WorkerIsKillable
  BY DEF IInv, Exclusion
<1>2. QED BY <1>1, Inductive, PTL

-----------------------------------------------------------------------------
(* The manager implements the lease                                        *)

\* The lease of a task is with its turn in progress, or with nobody.
HolderCorrect ==
  \A t \in Tasks :
    /\ HolderOf(t) \in Calls \cup {NoCall}
    /\ \A c \in Calls : HolderOf(t) = c <=> pc[t][c] \in Active

\* Under the exclusion the holder HolderOf chooses is the only one there is.
LEMMA HolderFacts == Exclusion => HolderCorrect
<1> USE FirstCall DEF OneTurnPerTask, RunningIffTurn, HolderOf
<1> SUFFICES ASSUME Exclusion, NEW t \in Tasks
             PROVE  /\ HolderOf(t) \in Calls \cup {NoCall}
                    /\ \A c \in Calls : HolderOf(t) = c <=> pc[t][c] \in Active
  BY DEF HolderCorrect
<1>1. CASE \E d \in Calls : pc[t][d] \in Active
  <2>1. PICK d \in Calls : pc[t][d] \in Active
    BY <1>1
  <2>2. HolderOf(t) = d
    BY <2>1 DEF Exclusion
  <2>3. QED BY <2>1, <2>2 DEF Exclusion
<1>2. CASE ~ \E d \in Calls : pc[t][d] \in Active
  BY <1>2 DEF Exclusion
<1>3. QED BY <1>1, <1>2

\* The same of the next state.
LEMMA HolderFactsNext == Exclusion' => HolderCorrect'
  BY HolderFacts, PTL

\* A step that moves no turn into or out of its task, and ends none, leaves
\* the lease alone.
LEMMA LeaseStutters ==
  ASSUME HolderCorrect, HolderCorrect',
         \A t \in Tasks, c \in Calls :
           /\ pc'[t][c] \in Active <=> pc[t][c] \in Active
           /\ pc'[t][c] \in Ended <=> pc[t][c] \in Ended
  PROVE  UNCHANGED Lease!leaseVars
<1>1. \A t \in Tasks : HolderOf(t)' = HolderOf(t)
  BY DEF HolderCorrect
<1>2. [t \in Tasks |-> HolderOf(t)]' = [t \in Tasks |-> HolderOf(t)]
  BY <1>1
<1>3. Spent' = Spent
  <2>1. \A x \in Tasks \X Calls : pc'[x[1]][x[2]] \in Ended <=> pc[x[1]][x[2]] \in Ended
    OBVIOUS
  <2>2. QED BY <2>1 DEF Spent
<1>4. QED BY <1>2, <1>3 DEF Lease!leaseVars

\* One turn that moves within its task, or outside of it.
LEMMA LeaseMove ==
  ASSUME TypeOK, HolderCorrect, HolderCorrect',
         NEW t \in Tasks, NEW c \in Calls, NEW to \in Phases,
         pc' = [pc EXCEPT ![t][c] = to],
         to \in Active <=> pc[t][c] \in Active,
         to \in Ended <=> pc[t][c] \in Ended
  PROVE  UNCHANGED Lease!leaseVars
<1>1. \A u \in Tasks, d \in Calls :
        pc'[u][d] = IF u = t /\ d = c THEN to ELSE pc[u][d]
  BY DEF TypeOK
<1>2. QED BY <1>1, LeaseStutters

\* A claim takes the lease.
LEMMA LeaseTake ==
  ASSUME TypeOK, HolderCorrect, HolderCorrect',
         NEW t \in Tasks, NEW c \in Calls, NEW to \in {"cleared", "launched"},
         \A d \in Calls : pc[t][d] \notin Active,
         pc[t][c] \in {"idle", "found"},
         pc' = [pc EXCEPT ![t][c] = to]
  PROVE  Lease!Next
<1> USE FirstCall
<1>1. \A u \in Tasks, d \in Calls :
        pc'[u][d] = IF u = t /\ d = c THEN to ELSE pc[u][d]
  BY DEF TypeOK
<1>2. HolderOf(t) = NoCall /\ HolderOf(t)' = c
  BY <1>1 DEF HolderCorrect, Active
<1>3. \A u \in Tasks : u # t => HolderOf(u)' = HolderOf(u)
  BY <1>1 DEF HolderCorrect
<1>4. [u \in Tasks |-> HolderOf(u)]' = [[u \in Tasks |-> HolderOf(u)] EXCEPT ![t] = c]
  BY <1>2, <1>3
<1>5. Spent' = Spent /\ <<t, c>> \notin Spent
  BY <1>1 DEF Spent, Ended
<1>6. Lease!Take(t, c)
  BY <1>2, <1>4, <1>5 DEF Lease!Take
<1>7. QED BY <1>6 DEF Lease!Next

\* fail and the final block give it back.
LEMMA LeaseReturn ==
  ASSUME TypeOK, HolderCorrect, HolderCorrect',
         NEW t \in Tasks, NEW c \in Calls, NEW to \in {"settled", "aborted"},
         pc[t][c] \in Active,
         pc' = [pc EXCEPT ![t][c] = to]
  PROVE  Lease!Next
<1> USE FirstCall
<1>1. \A u \in Tasks, d \in Calls :
        pc'[u][d] = IF u = t /\ d = c THEN to ELSE pc[u][d]
  BY DEF TypeOK
<1>2. HolderOf(t) = c /\ HolderOf(t)' = NoCall
  BY <1>1 DEF HolderCorrect, Active
<1>3. \A u \in Tasks : u # t => HolderOf(u)' = HolderOf(u)
  BY <1>1 DEF HolderCorrect
<1>4. [u \in Tasks |-> HolderOf(u)]' = [[u \in Tasks |-> HolderOf(u)] EXCEPT ![t] = NoCall]
  BY <1>2, <1>3
<1>5. Spent' = Spent \cup {<<t, c>>}
  BY <1>1 DEF Spent, Ended
<1>6. Lease!Return(t, c)
  BY <1>2, <1>4, <1>5 DEF Lease!Return
<1>7. QED BY <1>6 DEF Lease!Next

\* Every step of the manager is a step of the lease or leaves it alone.
LEMMA LeaseStep ==
  ASSUME TypeOK, Exclusion, Exclusion', [Next]_vars
  PROVE  [Lease!Next]_(Lease!leaseVars)
<1>0. HolderCorrect /\ HolderCorrect'
  BY HolderFacts, HolderFactsNext
<1> USE <1>0, FirstCall DEF Step
<1>1. ASSUME NEW t \in Tasks, StartStep(t) PROVE [Lease!Next]_(Lease!leaseVars)
  <2>1. CASE StartCleared(t)
    <3>1. \A d \in Calls : pc[t][d] \notin Active
      BY <2>1 DEF StartCleared, Exclusion, CreatedBeforeFound, Active
    <3>2. QED BY <2>1, <3>1, LeaseTake DEF StartCleared
  <2>2. CASE StartRefused(t)
    BY <2>2, LeaseMove DEF StartRefused, Phases, Active, Ended
  <2>3. CASE Admit(t)
    BY <2>3, LeaseMove DEF Admit, Phases, Active, Ended
  <2>4. CASE PersistStart(t)
    BY <2>4, LeaseMove DEF PersistStart, Phases, Active, Ended
  <2>5. QED BY <1>1, <2>1, <2>2, <2>3, <2>4 DEF StartStep
<1>2. ASSUME NEW t \in Tasks, NEW c \in Calls, FollowupStep(t, c)
      PROVE  [Lease!Next]_(Lease!leaseVars)
  <2>1. CASE FollowupLookup(t, c)
    <3>1. pc[t][c] = "idle" /\ pc' = [pc EXCEPT ![t][c] = "found"]
      BY <2>1 DEF FollowupLookup
    <3>2. QED BY <3>1, LeaseMove DEF Phases, Active, Ended
  <2>2. CASE FollowupRefused(t, c)
    BY <2>2, LeaseMove DEF FollowupRefused, Phases, Active, Ended
  <2>3. CASE FollowupClaim(t, c)
    <3>1. \A d \in Calls : pc[t][d] \notin Active
      BY <2>3 DEF FollowupClaim, Exclusion, RunningIffTurn
    <3>2. QED BY <2>3, <3>1, LeaseTake DEF FollowupClaim
  <2>4. QED BY <1>2, <2>1, <2>2, <2>3 DEF FollowupStep
<1>3. ASSUME NEW t \in Tasks, NEW c \in Calls, TurnStep(t, c)
      PROVE  [Lease!Next]_(Lease!leaseVars)
  <2>1. CASE ResetTurn(t, c)
    BY <2>1, LeaseMove DEF ResetTurn, Phases, Active, Ended
  <2>2. CASE FailTurn(t, c)
    <3>1. pc[t][c] \in Active /\ pc' = [pc EXCEPT ![t][c] = "aborted"]
      BY <2>2 DEF FailTurn, Active
    <3>2. QED BY <3>1, LeaseReturn
  <2>3. CASE BuildCommand(t, c)
    BY <2>3, LeaseMove DEF BuildCommand, Phases, Active, Ended
  <2>4. CASE Spawn(t, c)
    BY <2>4, LeaseMove DEF Spawn, Phases, Active, Ended
  <2>5. CASE Settle(t, c)
    <3>1. pc[t][c] \in Active /\ pc' = [pc EXCEPT ![t][c] = "settled"]
      BY <2>5 DEF Settle, Active
    <3>2. QED BY <3>1, LeaseReturn
  <2>6. CASE TakeSnapshot(t, c)
    BY <2>6, LeaseMove DEF TakeSnapshot, Phases, Active, Ended
  <2>7. CASE SaveAndUnwind(t, c)
    BY <2>7, LeaseMove DEF SaveAndUnwind, Phases, Active, Ended
  <2>8. QED BY <1>3, <2>1, <2>2, <2>3, <2>4, <2>5, <2>6, <2>7 DEF TurnStep
<1>4. ASSUME NEW t \in Tasks, NEW c \in Calls, NEW how \in {"ok", "bad"},
             WorkerExit(t, c, how)
      PROVE  [Lease!Next]_(Lease!leaseVars)
  BY <1>4, LeaseMove DEF WorkerExit, Phases, Active, Ended
<1>5. ASSUME UNCHANGED pc PROVE [Lease!Next]_(Lease!leaseVars)
  BY <1>5, LeaseStutters
<1>6. ASSUME NEW t \in Tasks, NEW c \in Calls, CompanionStep(t, c) PROVE UNCHANGED pc
  BY <1>6 DEF CompanionStep, TimerFires, TimeoutMarks, PumpSession, PumpFinal, PumpEnds,
              WatchFinds, WatchCancels, WatchStops, turnVars
<1>7. ASSUME NEW t \in Tasks, Cancel(t) \/ PeerRequestsCancel(t) PROVE UNCHANGED pc
  BY <1>7 DEF Cancel, PeerRequestsCancel, turnVars
<1>8. ASSUME Shutdown \/ ShutdownClean \/ ShutdownLate \/ UNCHANGED vars PROVE UNCHANGED pc
  BY <1>8 DEF Shutdown, ShutdownClean, ShutdownLate, vars, turnVars
<1>9. ASSUME NEW t \in Tasks, NEW r \in Requests, AskStep(t, r) PROVE UNCHANGED pc
  BY <1>9, AskFrame DEF turnVars
<1>10. QED
  BY <1>1, <1>2, <1>3, <1>4, <1>5, <1>6, <1>7, <1>8, <1>9 DEF Next

\* The task manager implements the lease: whatever its calls do, each task goes
\* to one call at a time, at most once to each, and comes back from its holder.
THEOREM Refinement == Spec => ImplementsLease
<1>1. Init => Lease!Init
  <2> SUFFICES ASSUME Init PROVE Lease!Init
    OBVIOUS
  <2>1. \A t \in Tasks : HolderOf(t) = NoCall
    BY DEF Init, HolderOf
  <2>2. Spent = {}
    BY DEF Init, Spent, Ended
  <2>3. QED BY <2>1, <2>2 DEF Lease!Init
<1>2. IInv /\ IInv' /\ [Next]_vars => [Lease!Next]_(Lease!leaseVars)
  BY LeaseStep DEF IInv
<1>3. QED BY <1>1, <1>2, Inductive, PTL DEF Spec, ImplementsLease, Lease!Spec

-----------------------------------------------------------------------------
(* A clean shutdown                                                        *)

\* While every task fits into the registry, one that was inserted stays.
Retained ==
  \A t \in Tasks : pc[t][1] \notin {"idle", "cleared", "refused"} => stamp[t] > 0

ShutdownInv == Retained /\ CleanShutdownLeavesNoWorker

\* evictLocked drops nothing from a registry within its limit.
LEMMA NothingDropped ==
  ASSUME NEW reg \in SUBSET Tasks, Cardinality(Tasks) <= MaxTasks
  PROVE  Dropped(reg) = {}
<1>1. IsFiniteSet(reg) /\ Cardinality(reg) <= Cardinality(Tasks)
  BY ConstantsAssumption, FS_Subset
<1>2. Cardinality(reg) \in Nat /\ Cardinality(Tasks) \in Nat
  BY <1>1, ConstantsAssumption, FS_CardinalityType
<1>3. SUFFICES ASSUME NEW u \in reg,
                      Cardinality({v \in reg : ~running[v] /\ stamp[v] < stamp[u]})
                        < Cardinality(reg) - MaxTasks
               PROVE  FALSE
  BY DEF Dropped
<1> DEFINE older == {v \in reg : ~running[v] /\ stamp[v] < stamp[u]}
<1>4. older \subseteq reg
  OBVIOUS
<1>5. Cardinality(older) \in Nat
  BY <1>1, <1>4, FS_Subset, FS_CardinalityType
<1> HIDE DEF older
<1>6. Cardinality(older) < Cardinality(reg) - MaxTasks
  BY <1>3 DEF older
<1>7. QED BY <1>1, <1>2, <1>5, <1>6, ConstantsAssumption

\* No step makes a task lose its place, or lets a worker outlive a clean stop.
LEMMA ShutdownStep ==
  ASSUME Cardinality(Tasks) <= MaxTasks,
         TypeOK, Exclusion, ShutdownInv, [Next]_vars
  PROVE  ShutdownInv'
<1> USE FirstCall DEF Step
<1> DEFINE Out == {"idle", "cleared", "refused"}
<1>1. ASSUME UNCHANGED stamp, \A t \in Tasks : pc[t][1] \in Out => pc'[t][1] \in Out
      PROVE  Retained'
  BY <1>1 DEF Retained, ShutdownInv
<1>2. ASSUME Up, UNCHANGED server PROVE CleanShutdownLeavesNoWorker'
  BY <1>2 DEF Up, CleanShutdownLeavesNoWorker
<1>3. ASSUME NEW t \in Tasks, NEW c \in Calls, NEW to \in Phases,
             pc' = [pc EXCEPT ![t][c] = to], pc[t][c] \notin Out \/ to \in Out \/ c # 1,
             UNCHANGED stamp, Up, UNCHANGED server
      PROVE  ShutdownInv'
  <2>1. \A u \in Tasks : pc[u][1] \in Out => pc'[u][1] \in Out
    BY <1>3 DEF TypeOK
  <2>2. QED BY <2>1, <1>1, <1>2, <1>3 DEF ShutdownInv
<1>4. ASSUME NEW t \in Tasks, StartStep(t) PROVE ShutdownInv'
  <2>1. CASE StartCleared(t)
    BY <2>1, <1>3 DEF StartCleared, Phases, registry
  <2>2. CASE StartRefused(t)
    BY <2>2, <1>3 DEF StartRefused, Phases, registry
  <2>3. CASE Admit(t)
    <3>1. Registered \cup {t} \in SUBSET Tasks
      BY DEF Registered
    <3>2. Dropped(Registered \cup {t}) = {}
      BY <3>1, NothingDropped
    <3>3. /\ Up /\ UNCHANGED server
          /\ pc' = [pc EXCEPT ![t][1] = "admitted"]
          /\ stamp' = [u \in Tasks |-> IF u = t THEN admissions + 1 ELSE stamp[u]]
      BY <2>3, <3>2 DEF Admit
    <3>4. Retained'
      BY <3>3 DEF Retained, ShutdownInv, TypeOK
    <3>5. QED BY <1>2, <3>3, <3>4 DEF ShutdownInv
  <2>4. CASE PersistStart(t)
    BY <2>4, <1>3 DEF PersistStart, Phases, registry
  <2>5. QED BY <1>4, <2>1, <2>2, <2>3, <2>4 DEF StartStep
<1>5. ASSUME NEW t \in Tasks, NEW c \in Calls, FollowupStep(t, c) PROVE ShutdownInv'
  <2>1. CASE FollowupLookup(t, c)
    <3>1. /\ Up /\ UNCHANGED server /\ UNCHANGED stamp /\ c # 1
          /\ pc' = [pc EXCEPT ![t][c] = "found"]
      BY <2>1 DEF FollowupLookup, registry
    <3>2. QED BY <3>1, <1>3 DEF Phases
  <2>2. CASE FollowupRefused(t, c)
    BY <2>2, <1>3 DEF FollowupRefused, Phases, registry
  <2>3. CASE FollowupClaim(t, c)
    BY <2>3, <1>3 DEF FollowupClaim, Phases, registry
  <2>4. QED BY <1>5, <2>1, <2>2, <2>3 DEF FollowupStep
<1>6. ASSUME NEW t \in Tasks, NEW c \in Calls, TurnStep(t, c) PROVE ShutdownInv'
  <2>1. CASE ResetTurn(t, c)
    BY <2>1, <1>3 DEF ResetTurn, Phases, registry
  <2>2. CASE FailTurn(t, c)
    <3>1. /\ Up /\ UNCHANGED server /\ UNCHANGED stamp /\ pc[t][c] \notin Out
          /\ pc' = [pc EXCEPT ![t][c] = "aborted"]
      BY <2>2 DEF FailTurn, registry
    <3>2. QED BY <3>1, <1>3 DEF Phases
  <2>3. CASE BuildCommand(t, c)
    BY <2>3, <1>3 DEF BuildCommand, Phases, registry
  <2>4. CASE Spawn(t, c)
    BY <2>4, <1>3 DEF Spawn, Phases, registry
  <2>5. CASE Settle(t, c)
    BY <2>5, <1>3 DEF Settle, Phases, registry
  <2>6. CASE TakeSnapshot(t, c)
    BY <2>6, <1>3 DEF TakeSnapshot, Phases, registry
  <2>7. CASE SaveAndUnwind(t, c)
    BY <2>7, <1>3 DEF SaveAndUnwind, Phases, registry
  <2>8. QED BY <1>6, <2>1, <2>2, <2>3, <2>4, <2>5, <2>6, <2>7 DEF TurnStep
<1>7. ASSUME NEW t \in Tasks, NEW c \in Calls, NEW how \in {"ok", "bad"},
             WorkerExit(t, c, how)
      PROVE  ShutdownInv'
  BY <1>7, <1>3 DEF WorkerExit, Phases, registry
<1>8. ASSUME UNCHANGED <<pc, stamp, server>> PROVE ShutdownInv'
  BY <1>8 DEF ShutdownInv, Retained, CleanShutdownLeavesNoWorker
<1>9. ASSUME NEW t \in Tasks, NEW c \in Calls, CompanionStep(t, c)
      PROVE  UNCHANGED <<pc, stamp, server>>
  BY <1>9 DEF CompanionStep, TimerFires, TimeoutMarks, PumpSession, PumpFinal, PumpEnds,
              WatchFinds, WatchCancels, WatchStops, turnVars, registry
<1>10. ASSUME NEW t \in Tasks, Cancel(t) \/ PeerRequestsCancel(t)
       PROVE  UNCHANGED <<pc, stamp, server>>
  BY <1>10 DEF Cancel, PeerRequestsCancel, turnVars, registry
<1>11. CASE Shutdown \/ ShutdownLate
  BY <1>11 DEF Shutdown, ShutdownLate, ShutdownInv, Retained, CleanShutdownLeavesNoWorker,
               turnVars, registry
<1>12. CASE ShutdownClean
  <2>1. UNCHANGED <<pc, stamp>> /\ Running = {}
    BY <1>12 DEF ShutdownClean, turnVars, registry
  <2>2. Retained'
    BY <2>1 DEF ShutdownInv, Retained
  <2>3. ASSUME NEW t \in Tasks, NEW c \in Calls, pc[t][c] = "alive" PROVE FALSE
    <3>1. running[t]
      BY <2>3 DEF Exclusion, RunningIffTurn, Active
    <3>2. pc[t][1] \notin Out
      BY <2>3 DEF Exclusion, CreatedBeforeFound
    <3>3. t \in Running
      BY <3>1, <3>2 DEF ShutdownInv, Retained, Running, Registered
    <3>4. QED BY <3>3, <2>1
  <2>4. CleanShutdownLeavesNoWorker'
    BY <2>1, <2>3 DEF CleanShutdownLeavesNoWorker
  <2>5. QED BY <2>2, <2>4 DEF ShutdownInv
<1>13. CASE UNCHANGED vars
  BY <1>13, <1>8 DEF vars, turnVars, registry
<1>14. ASSUME NEW t \in Tasks, NEW r \in Requests, AskStep(t, r) PROVE ShutdownInv'
  BY <1>14, <1>8, AskFrame DEF turnVars, registry
<1>15. QED
  BY <1>4, <1>5, <1>6, <1>7, <1>8, <1>9, <1>10, <1>11, <1>12, <1>13, <1>14 DEF Next

\* As long as nothing has to be evicted, a Shutdown that reports success leaves
\* no worker behind.  With eviction it can: a follow-up
\* that claims a task after it was dropped has a worker that nobody sees.
THEOREM CleanStop ==
  ASSUME Cardinality(Tasks) <= MaxTasks
  PROVE  Spec => []CleanShutdownLeavesNoWorker
<1>1. Init => ShutdownInv
  BY FirstCall DEF Init, ShutdownInv, Retained, CleanShutdownLeavesNoWorker
<1>2. IInv /\ ShutdownInv /\ [Next]_vars => ShutdownInv'
  BY ShutdownStep DEF IInv
<1>3. ShutdownInv => CleanShutdownLeavesNoWorker
  BY DEF ShutdownInv
<1>4. QED BY <1>1, <1>2, <1>3, Inductive, PTL DEF Spec

-----------------------------------------------------------------------------
(* Admission and eviction                                                  *)

\* The idle tasks of a registry that were admitted before u.
Older(reg, u) == {v \in reg : ~running[v] /\ stamp[v] < stamp[u]}

\* No two tasks have the same place in m.order, and none a place to come.
Ordered ==
  /\ \A t \in Tasks : stamp[t] <= admissions
  /\ \A t, u \in Tasks : stamp[t] > 0 /\ stamp[t] = stamp[u] => t = u

\* What evictLocked takes from a registry whose idle tasks were all admitted
\* before: the oldest idle ones, and exactly as many as are too many, or all.
LEMMA Eviction ==
  ASSUME TypeOK, Ordered, NEW reg \in SUBSET Tasks,
         \A u \in reg : running[u] \/ stamp[u] > 0
  PROVE  /\ Dropped(reg) \subseteq reg
         /\ \A u \in Dropped(reg) : ~running[u]
         /\ \A u \in Dropped(reg), v \in reg \ Dropped(reg) :
              ~running[v] => stamp[v] > stamp[u]
         /\ Dropped(reg) # {} => Cardinality(reg \ Dropped(reg)) >= MaxTasks
         /\ \/ Cardinality(reg \ Dropped(reg)) <= MaxTasks
            \/ \A v \in reg \ Dropped(reg) : running[v]
<1> DEFINE out == Dropped(reg)
           excess == Cardinality(reg) - MaxTasks
<1>1. /\ out \subseteq reg
      /\ \A u \in out : ~running[u]
      /\ \A u \in reg : u \in out <=> ~running[u] /\ Cardinality(Older(reg, u)) < excess
  BY DEF Dropped, Older
<1>2. /\ \A u \in reg : stamp[u] \in Nat /\ stamp[u] <= admissions
      /\ admissions \in Nat /\ MaxTasks \in Nat
  BY ConstantsAssumption DEF TypeOK, Ordered
<1>3. IsFiniteSet(reg) /\ IsFiniteSet(out) /\ Cardinality(reg) \in Nat /\ Cardinality(out) \in Nat
  <2>1. IsFiniteSet(reg) /\ IsFiniteSet(out)
    BY <1>1, ConstantsAssumption, FS_Subset
  <2> QED BY <2>1, FS_CardinalityType
<1>4. \A u \in reg : /\ IsFiniteSet(Older(reg, u)) /\ Cardinality(Older(reg, u)) \in Nat
                     /\ Older(reg, u) \subseteq reg
  <2> SUFFICES ASSUME NEW u \in reg
               PROVE  /\ IsFiniteSet(Older(reg, u)) /\ Cardinality(Older(reg, u)) \in Nat
                      /\ Older(reg, u) \subseteq reg
    OBVIOUS
  <2>1. Older(reg, u) \in SUBSET reg
    BY DEF Older
  <2>2. IsFiniteSet(Older(reg, u))
    BY <1>3, <2>1, FS_Subset
  <2> QED BY <2>1, <2>2, FS_CardinalityType
<1>5. Cardinality(reg \ out) = Cardinality(reg) - Cardinality(out)
  <2>1. reg \cap out = out
    BY <1>1
  <2> QED BY <1>3, <2>1, FS_Difference
<1> HIDE DEF out
<1>6. ASSUME NEW u \in out, NEW v \in reg \ out, ~running[v]
      PROVE  stamp[v] > stamp[u]
  <2> SUFFICES ASSUME ~(stamp[v] > stamp[u]) PROVE FALSE
    OBVIOUS
  <2>1. u \in reg /\ stamp[v] <= stamp[u]
    BY <1>1, <1>2
  <2>2. Older(reg, v) \in SUBSET Older(reg, u)
    BY <1>2, <2>1 DEF Older
  <2>3. Cardinality(Older(reg, v)) <= Cardinality(Older(reg, u))
    BY <1>4, <2>1, <2>2, FS_Subset
  <2>4. Cardinality(Older(reg, u)) < excess /\ ~(Cardinality(Older(reg, v)) < excess)
    BY <1>1, <1>6
  <2> QED BY <1>2, <1>3, <1>4, <2>1, <2>3, <2>4
<1>7. ASSUME out # {} PROVE Cardinality(reg \ out) >= MaxTasks
  <2> DEFINE S == {stamp[w] : w \in out}
  <2>1. S \in SUBSET (0..admissions) /\ S # {}
    BY <1>1, <1>2, <1>7
  <2>2. PICK s \in S : \A d \in S : d <= s
    BY <1>2, <2>1, GreatestExists
  <2>3. PICK u \in out : s = stamp[u]
    OBVIOUS
  <2>4. \A v \in out : stamp[v] <= stamp[u]
    BY <2>2, <2>3
  <2>5. out \in SUBSET (Older(reg, u) \cup {u})
    <3> SUFFICES ASSUME NEW v \in out, v # u PROVE v \in Older(reg, u)
      OBVIOUS
    <3>1. stamp[v] <= stamp[u] /\ v \in reg /\ u \in reg /\ ~running[v] /\ ~running[u]
      BY <1>1, <2>4
    <3>2. stamp[v] # stamp[u] /\ stamp[v] \in Nat /\ stamp[u] \in Nat
      BY <1>2, <3>1 DEF Ordered
    <3> QED BY <3>1, <3>2 DEF Older
  <2>6. u \in reg /\ Cardinality(Older(reg, u)) < excess
    BY <1>1
  <2>7. /\ IsFiniteSet(Older(reg, u) \cup {u})
        /\ Cardinality(Older(reg, u) \cup {u}) <= Cardinality(Older(reg, u)) + 1
    <3>1. IsFiniteSet(Older(reg, u)) /\ Cardinality(Older(reg, u)) \in Nat
      BY <1>4, <2>6
    <3>2. u \notin Older(reg, u)
      BY <1>2, <2>6 DEF Older
    <3>3. Cardinality(Older(reg, u) \cup {u}) = Cardinality(Older(reg, u)) + 1
      BY <3>1, <3>2, FS_AddElement
    <3>4. IsFiniteSet(Older(reg, u) \cup {u})
      BY <3>1, FS_AddElement
    <3> QED BY <3>1, <3>3, <3>4
  <2>8. Cardinality(out) <= Cardinality(Older(reg, u) \cup {u})
    BY <2>5, <2>7, FS_Subset
  <2>9. Cardinality(Older(reg, u) \cup {u}) \in Nat
    BY <2>7, FS_CardinalityType
  <2> QED BY <1>2, <1>3, <1>4, <1>5, <2>6, <2>7, <2>8, <2>9
<1>8. ASSUME NEW x \in reg \ out, ~running[x] PROVE Cardinality(reg \ out) <= MaxTasks
  <2> DEFINE Kept == {v \in reg \ out : ~running[v]}
             S == {stamp[w] : w \in Kept}
  <2>1. S \in SUBSET Nat /\ S # {}
    BY <1>2, <1>8
  <2>2. PICK s \in S : \A d \in S : s <= d
    BY <2>1, LeastExists
  <2>3. PICK v \in Kept : s = stamp[v]
    OBVIOUS
  <2>4. \A w \in Kept : stamp[v] <= stamp[w]
    BY <2>2, <2>3
  <2>5. Older(reg, v) \in SUBSET out
    <3> SUFFICES ASSUME NEW w \in reg, ~running[w], stamp[w] < stamp[v], w \notin out
                 PROVE  FALSE
      BY DEF Older
    <3>1. stamp[v] <= stamp[w]
      BY <2>4
    <3> QED BY <1>2, <3>1
  <2>6. Cardinality(Older(reg, v)) <= Cardinality(out)
    BY <1>3, <2>5, FS_Subset
  <2>7. ~(Cardinality(Older(reg, v)) < excess)
    BY <1>1
  <2> QED BY <1>2, <1>3, <1>4, <1>5, <2>6, <2>7
<1> QED BY <1>1, <1>6, <1>7, <1>8 DEF out

\* An admission registers the new task and takes out what it drops.
LEMMA AdmitFacts ==
  ASSUME TypeOK, Exclusion, Ordered, NEW t \in Tasks, Admit(t)
  PROVE  LET reg == Registered \cup {t}
         IN  /\ Dropped(reg) \subseteq reg /\ t \notin Dropped(reg)
             /\ \A u \in reg : running[u] \/ stamp[u] > 0
             /\ \A u \in Tasks : stamp'[u] > 0 <=> u \in reg \ Dropped(reg)
             /\ \A u \in Tasks : stamp'[u] > 0 /\ u # t => stamp'[u] = stamp[u]
             /\ stamp'[t] = admissions + 1 /\ admissions' = admissions + 1
             /\ \A u \in Tasks : stamp[u] = 0 /\ u # t => stamp'[u] = 0
<1> USE FirstCall DEF Step
<1>1. running[t] = TRUE
  BY DEF Admit, Exclusion, RunningIffTurn, Active, TypeOK
<1>2. t \notin Dropped(Registered \cup {t}) /\ Dropped(Registered \cup {t}) \subseteq Registered \cup {t}
  BY <1>1 DEF Dropped
<1>3. stamp \in [Tasks -> Nat] /\ admissions \in Nat
  BY DEF TypeOK
<1> DEFINE out == Dropped(Registered \cup {t})
<1>4. /\ stamp' = [u \in Tasks |-> IF u = t THEN admissions + 1
                                   ELSE IF u \in out THEN 0 ELSE stamp[u]]
      /\ admissions' = admissions + 1
  BY DEF Admit
<1> HIDE DEF out
<1>5. \A u \in Tasks : stamp'[u] > 0 <=> u \in (Registered \cup {t}) \ out
  BY <1>2, <1>3, <1>4 DEF out, Registered
<1>6. /\ \A u \in Tasks : stamp'[u] > 0 /\ u # t => stamp'[u] = stamp[u]
      /\ \A u \in Tasks : stamp[u] = 0 /\ u # t => stamp'[u] = 0
      /\ stamp'[t] = admissions + 1
  BY <1>3, <1>4
<1>7. \A u \in Registered \cup {t} : running[u] \/ stamp[u] > 0
  BY <1>1 DEF Registered
<1> QED BY <1>2, <1>4, <1>5, <1>6, <1>7 DEF out

\* Only an admission changes the registry.
LEMMA RegistryFrame ==
  ASSUME [Next]_vars PROVE UNCHANGED registry \/ \E t \in Tasks : Admit(t)
<1> USE DEF registry
<1>1. ASSUME NEW t \in Tasks, StartStep(t) PROVE UNCHANGED registry \/ Admit(t)
  BY <1>1 DEF StartStep, StartCleared, StartRefused, PersistStart
<1>2. ASSUME NEW t \in Tasks, NEW c \in Calls, FollowupStep(t, c) PROVE UNCHANGED registry
  BY <1>2 DEF FollowupStep, FollowupLookup, FollowupRefused, FollowupClaim
<1>3. ASSUME NEW t \in Tasks, NEW c \in Calls, TurnStep(t, c) PROVE UNCHANGED registry
  BY <1>3 DEF TurnStep, ResetTurn, FailTurn, BuildCommand, Spawn, Settle, TakeSnapshot,
              SaveAndUnwind
<1>4. ASSUME NEW t \in Tasks, NEW c \in Calls, CompanionStep(t, c) PROVE UNCHANGED registry
  BY <1>4 DEF CompanionStep, TimerFires, TimeoutMarks, PumpSession, PumpFinal, PumpEnds,
              WatchFinds, WatchCancels, WatchStops
<1>5. ASSUME NEW t \in Tasks, NEW c \in Calls, NEW how \in {"ok", "bad"},
             WorkerExit(t, c, how)
      PROVE  UNCHANGED registry
  BY <1>5 DEF WorkerExit
<1>6. ASSUME NEW t \in Tasks, Cancel(t) \/ PeerRequestsCancel(t) PROVE UNCHANGED registry
  BY <1>6 DEF Cancel, PeerRequestsCancel
<1>7. ASSUME Shutdown \/ ShutdownClean \/ ShutdownLate \/ UNCHANGED vars
      PROVE  UNCHANGED registry
  BY <1>7 DEF Shutdown, ShutdownClean, ShutdownLate, vars
<1>8. ASSUME NEW t \in Tasks, NEW r \in Requests, AskStep(t, r) PROVE UNCHANGED registry
  BY <1>8, AskFrame
<1> QED BY <1>1, <1>2, <1>3, <1>4, <1>5, <1>6, <1>7, <1>8 DEF Next

\* The order of the registry stays an order.
LEMMA OrderedStep == TypeOK /\ Exclusion /\ Ordered /\ [Next]_vars => Ordered'
<1> SUFFICES ASSUME TypeOK, Exclusion, Ordered, [Next]_vars PROVE Ordered'
  OBVIOUS
<1>1. CASE UNCHANGED registry
  BY <1>1 DEF registry, Ordered
<1>2. ASSUME NEW t \in Tasks, Admit(t) PROVE Ordered'
  <2>1. /\ stamp'[t] = admissions + 1 /\ admissions' = admissions + 1
        /\ \A u \in Tasks : stamp'[u] > 0 /\ u # t => stamp'[u] = stamp[u]
    BY <1>2, AdmitFacts
  <2>2. stamp \in [Tasks -> Nat] /\ admissions \in Nat /\ stamp' \in [Tasks -> Nat]
    BY TypeStep DEF TypeOK
  <2>3. \A u \in Tasks : stamp'[u] \in Nat /\ stamp[u] \in Nat /\ stamp[u] <= admissions
    BY <2>2 DEF Ordered
  <2>4. \A u \in Tasks : stamp'[u] <= admissions'
    BY <2>1, <2>2, <2>3
  <2>5. \A u, v \in Tasks : stamp'[u] > 0 /\ stamp'[u] = stamp'[v] => u = v
    BY <2>1, <2>2, <2>3 DEF Ordered
  <2> QED BY <2>4, <2>5 DEF Ordered
<1> QED BY <1>1, <1>2, RegistryFrame

\* The registry keeps its order in every behaviour, beside the exclusion.
LEMMA OrderedAlways == Spec => [](IInv /\ Ordered)
<1>1. Init => Ordered
  BY DEF Init, Ordered
<1>2. IInv /\ Ordered /\ [Next]_vars => Ordered'
  BY OrderedStep DEF IInv
<1> QED BY <1>1, <1>2, Inductive, PTL DEF Spec

\* Whatever interleaves with an admission, it drops the oldest idle tasks, keeps
\* no older idle one in their place, and drops none that fits.
THEOREM Retention == Spec => EvictsOldestIdle
<1> DEFINE Fair(u) ==
      stamp[u] > 0 /\ stamp'[u] = 0 =>
        /\ ~running[u]
        /\ \A v \in Tasks : stamp'[v] > 0 /\ ~running[v] => stamp[v] > stamp[u]
        /\ Cardinality({v \in Tasks : stamp'[v] > 0}) >= MaxTasks
<1>1. ASSUME IInv, Ordered, [Next]_vars PROVE \A u \in Tasks : Fair(u)
  <2>1. CASE UNCHANGED registry
    BY <2>1 DEF registry
  <2>2. ASSUME NEW t \in Tasks, Admit(t), NEW u \in Tasks, stamp[u] > 0, stamp'[u] = 0
        PROVE  Fair(u)
    <3> DEFINE reg == Registered \cup {t}
    <3>1. reg \in SUBSET Tasks
      BY DEF Registered
    <3>2. /\ t \notin Dropped(reg)
          /\ \A v \in reg : running[v] \/ stamp[v] > 0
          /\ \A v \in Tasks : stamp'[v] > 0 <=> v \in reg \ Dropped(reg)
      BY <1>1, <2>2, AdmitFacts DEF IInv
    <3>3. u \in Dropped(reg)
      BY <2>2, <3>2 DEF Registered
    <3>4. {v \in Tasks : stamp'[v] > 0} = reg \ Dropped(reg)
      BY <3>1, <3>2
    <3> HIDE DEF reg
    <3>5. /\ ~running[u]
          /\ \A v \in reg \ Dropped(reg) : ~running[v] => stamp[v] > stamp[u]
          /\ Cardinality(reg \ Dropped(reg)) >= MaxTasks
      BY <1>1, <3>1, <3>2, <3>3, Eviction DEF IInv
    <3> QED BY <3>2, <3>4, <3>5
  <2> QED BY <1>1, <2>1, <2>2, RegistryFrame
<1>2. IInv /\ Ordered /\ [Next]_vars => [\A u \in Tasks : Fair(u)]_vars
  BY <1>1
<1> QED BY <1>2, OrderedAlways, PTL DEF Spec, EvictsOldestIdle

\* After an admission there are MaxTasks tasks at most, or none is idle.
THEOREM Bounded == Spec => RetentionBound
<1> DEFINE Fits == admissions' # admissions =>
      \/ Cardinality({t \in Tasks : stamp'[t] > 0}) <= MaxTasks
      \/ \A t \in Tasks : stamp'[t] > 0 => running[t]
<1>1. ASSUME IInv, Ordered, [Next]_vars PROVE Fits
  <2>1. CASE UNCHANGED registry
    BY <2>1 DEF registry
  <2>2. ASSUME NEW t \in Tasks, Admit(t) PROVE Fits
    <3> DEFINE reg == Registered \cup {t}
    <3>1. reg \in SUBSET Tasks
      BY DEF Registered
    <3>2. /\ \A v \in reg : running[v] \/ stamp[v] > 0
          /\ \A v \in Tasks : stamp'[v] > 0 <=> v \in reg \ Dropped(reg)
      BY <1>1, <2>2, AdmitFacts DEF IInv
    <3>3. {v \in Tasks : stamp'[v] > 0} = reg \ Dropped(reg)
      BY <3>1, <3>2
    <3> HIDE DEF reg
    <3>4. \/ Cardinality(reg \ Dropped(reg)) <= MaxTasks
          \/ \A v \in reg \ Dropped(reg) : running[v]
      BY <1>1, <3>1, <3>2, Eviction DEF IInv
    <3> QED BY <3>2, <3>3, <3>4
  <2> QED BY <1>1, <2>1, <2>2, RegistryFrame
<1>2. IInv /\ Ordered /\ [Next]_vars => [Fits]_vars
  BY <1>1
<1> QED BY <1>2, OrderedAlways, PTL DEF Spec, RetentionBound

-----------------------------------------------------------------------------
(* What is on disk                                                         *)

\* The phases of a follow-up that has claimed nothing.
Free == {"idle", "found", "refused"}

\* A status someone keeps, or has written, is not an outcome the task has not
\* come to, and while the first run is the only one it is none but its own.
Right(t, s) ==
  s \in Outcomes => pc[t][1] \in Ended /\ (Unclaimed(t) => s = status[t])

\* The record and the snapshots of the persists that are under way.
Told(t) ==
  {disk[t]} \cup {snap[t][c] : c \in Calls} \cup {ask[t][r].snap : r \in Requests}

AllRight == \A t \in Tasks : \A s \in Told(t) : Right(t, s)

\* What the status says of the turns; a request has something in its snapshot.
StatusFits ==
  \A t \in Tasks :
    /\ status[t] \in Outcomes => pc[t][1] \in Ended
    /\ status[t] = "none" => \A c \in Calls : pc[t][c] \in Free
    /\ \A r \in Requests : ask[t][r].at # "idle" => ask[t][r].snap # "none" /\ status[t] # "none"

\* While the first run is the only one, the snapshot its persist has taken is
\* still the truth when it reaches the disk.
Saved ==
  \A t \in Tasks : Unclaimed(t) =>
    /\ pc[t][1] = "snapped" => snap[t][1] = status[t]
    /\ pc[t][1] = "over" /\ stamp[t] > 0 => disk[t] = status[t] \/ RunningOutlived(t)

RecordInv == StatusFits /\ AllRight /\ Saved

\* Once a follow-up holds or held a task, its first run is over.
LEMMA FirstRunEnded ==
  ASSUME TypeOK, Exclusion, NEW t \in Tasks, NEW c \in Calls, c # 1, pc[t][c] \in Active
  PROVE  pc[t][1] \in Ended
<1>1. pc[t][1] \notin Active
  BY FirstCall DEF Exclusion, OneTurnPerTask
<1>2. pc[t][1] \notin {"idle", "cleared", "refused", "found"}
  BY DEF Exclusion, CreatedBeforeFound, Active
<1>3. pc[t][1] \in Phases
  BY FirstCall DEF TypeOK
<1> QED BY <1>1, <1>2, <1>3 DEF Phases, Active, Ended

\* A step of call c of task t makes nothing false that was right: an ended first
\* run stays ended, and its outcome stands until a follow-up claims the task.
LEMMA RightMove ==
  ASSUME TypeOK, NEW t \in Tasks, NEW c \in Calls, NEW to \in Phases,
         pc' = [pc EXCEPT ![t][c] = to],
         \A u \in Tasks : u # t => status'[u] = status[u],
         c = 1 /\ pc[t][1] \in Ended => to \in Ended,
         \/ status'[t] = status[t] /\ (c = 1 \/ pc[t][c] \in Free)
         \/ c # 1 /\ to \notin Free
         \/ pc[t][1] \notin Ended,
         NEW u \in Tasks, NEW s, Right(u, s)
  PROVE  s \in Outcomes => pc'[u][1] \in Ended /\ (Unclaimed(u)' => s = status'[u])
<1> USE FirstCall
<1>1. \A v \in Tasks, d \in Calls :
        pc'[v][d] = IF v = t /\ d = c THEN to ELSE pc[v][d]
  BY DEF TypeOK
<1>2. CASE u # t
  BY <1>1, <1>2 DEF Right, Unclaimed
<1>3. CASE u = t
  <2> SUFFICES ASSUME s \in Outcomes PROVE pc'[t][1] \in Ended /\ (Unclaimed(t)' => s = status'[t])
    BY <1>3
  <2>1. pc[t][1] \in Ended /\ (Unclaimed(t) => s = status[t])
    BY <1>3 DEF Right
  <2>2. pc'[t][1] \in Ended
    BY <1>1, <2>1
  <2>3. ASSUME Unclaimed(t)' PROVE s = status'[t]
    <3>1. c # 1 => to \in Free
      BY <1>1, <2>3 DEF Unclaimed, Free
    <3>2. status'[t] = status[t] /\ (c = 1 \/ pc[t][c] \in Free)
      BY <2>1, <3>1
    <3>3. Unclaimed(t)
      BY <1>1, <2>3, <3>2 DEF Unclaimed, Free
    <3> QED BY <2>1, <3>2, <3>3
  <2> QED BY <2>2, <2>3
<1> QED BY <1>2, <1>3

\* Such a step keeps the records right, when what it writes comes from a status
\* or a snapshot of before.
LEMMA RecordsMove ==
  ASSUME TypeOK, StatusFits, AllRight, NEW t \in Tasks, NEW c \in Calls, NEW to \in Phases,
         pc' = [pc EXCEPT ![t][c] = to],
         \A u \in Tasks : u # t => status'[u] = status[u],
         c = 1 /\ pc[t][1] \in Ended => to \in Ended,
         \/ status'[t] = status[t] /\ (c = 1 \/ pc[t][c] \in Free)
         \/ c # 1 /\ to \notin Free
         \/ pc[t][1] \notin Ended,
         \A u \in Tasks : \/ disk'[u] \in {disk[u], status[u], "absent"}
                         \/ \E d \in Calls : disk'[u] = snap[u][d],
         \A u \in Tasks, d \in Calls : snap'[u][d] \in {snap[u][d], status[u], "none"},
         UNCHANGED ask
  PROVE  AllRight'
<1> SUFFICES ASSUME NEW u \in Tasks, NEW s \in Told(u)' PROVE Right(u, s)'
  BY DEF AllRight
<1>1. s \in Told(u) \cup {status[u], "none", "absent"}
  BY DEF Told
<1>2. Right(u, s)
  BY <1>1 DEF AllRight, Right, StatusFits, Outcomes
<1>3. s \in Outcomes => pc'[u][1] \in Ended /\ (Unclaimed(u)' => s = status'[u])
  BY <1>2, RightMove
<1> QED BY <1>3 DEF Right

\* A step of call c of task t, which may write what belongs to that task only.
LEMMA SavedMove ==
  ASSUME TypeOK, Saved, NEW t \in Tasks, NEW c \in Calls, NEW to \in Phases,
         pc' = [pc EXCEPT ![t][c] = to],
         \A u \in Tasks : u # t => UNCHANGED <<status[u], disk[u], snap[u]>>,
         UNCHANGED <<stamp, ask>>,
         \/ c # 1 /\ to \notin {"idle", "found", "refused"}
         \/ c # 1 /\ UNCHANGED <<status[t], disk[t], snap[t][1]>>
                  /\ pc[t][c] \in {"idle", "found", "refused"}
         \/ c = 1 /\ to \notin {"snapped", "over"}
         \/ c = 1 /\ to = "snapped" /\ snap'[t][1] = status[t] /\ UNCHANGED status[t]
         \/ c = 1 /\ to = "over" /\ pc[t][1] = "snapped" /\ disk'[t] = snap[t][1]
                  /\ UNCHANGED status[t]
  PROVE  Saved'
<1> USE FirstCall
<1>1. \A u \in Tasks, d \in Calls :
        pc'[u][d] = IF u = t /\ d = c THEN to ELSE pc[u][d]
  BY DEF TypeOK
<1> SUFFICES ASSUME NEW u \in Tasks, Unclaimed(u)'
             PROVE  /\ pc'[u][1] = "snapped" => snap'[u][1] = status'[u]
                    /\ pc'[u][1] = "over" /\ stamp'[u] > 0 =>
                         disk'[u] = status'[u] \/ RunningOutlived(u)'
  BY DEF Saved
<1>2. CASE u # t
  <2>1. Unclaimed(u)
    BY <1>1, <1>2 DEF Unclaimed
  <2>2. RunningOutlived(u) => RunningOutlived(u)'
    BY <1>2 DEF RunningOutlived
  <2> QED BY <1>1, <1>2, <2>1, <2>2 DEF Saved
<1>3. CASE u = t /\ c # 1
  <2>1. to \in {"idle", "found", "refused"}
    BY <1>1, <1>3 DEF Unclaimed
  <2>2. Unclaimed(t) /\ UNCHANGED <<status[t], disk[t], snap[t][1]>>
    BY <1>1, <1>3, <2>1 DEF Unclaimed
  <2>3. RunningOutlived(t) => RunningOutlived(t)'
    BY <2>2 DEF RunningOutlived
  <2> QED BY <1>1, <1>3, <2>2, <2>3 DEF Saved
<1>4. CASE u = t /\ c = 1
  <2>1. Unclaimed(t)
    BY <1>1, <1>4 DEF Unclaimed
  <2> QED BY <1>1, <1>4, <2>1 DEF Saved
<1> QED BY <1>2, <1>3, <1>4

\* The status goes on to fit.
LEMMA StatusMove ==
  ASSUME TypeOK, StatusFits, NEW t \in Tasks, NEW c \in Calls, NEW to \in Phases,
         pc' = [pc EXCEPT ![t][c] = to],
         \A u \in Tasks : u # t => status'[u] = status[u],
         c = 1 /\ pc[t][1] \in Ended => to \in Ended,
         \/ status'[t] = status[t] /\ (to \in Free \/ pc[t][c] \notin Free)
         \/ status'[t] = "running"
         \/ status'[t] # "none" /\ (IF c = 1 THEN to \in Ended ELSE pc[t][1] \in Ended),
         UNCHANGED ask
  PROVE  StatusFits'
<1> USE FirstCall
<1>1. \A v \in Tasks, d \in Calls :
        pc'[v][d] = IF v = t /\ d = c THEN to ELSE pc[v][d]
  BY DEF TypeOK
<1> SUFFICES ASSUME NEW u \in Tasks
             PROVE  /\ status'[u] \in Outcomes => pc'[u][1] \in Ended
                    /\ status'[u] = "none" => \A d \in Calls : pc'[u][d] \in Free
                    /\ status[u] # "none" => status'[u] # "none"
  BY DEF StatusFits
<1>2. CASE u # t
  BY <1>1, <1>2 DEF StatusFits
<1>3. CASE u = t /\ status'[t] = status[t] /\ (to \in Free \/ pc[t][c] \notin Free)
  BY <1>1, <1>3 DEF StatusFits
<1>4. CASE u = t /\ status'[t] = "running"
  BY <1>4 DEF Outcomes
<1>5. CASE /\ u = t /\ status'[t] # "none"
           /\ IF c = 1 THEN to \in Ended ELSE pc[t][1] \in Ended
  BY <1>1, <1>5
<1> QED BY <1>2, <1>3, <1>4, <1>5

\* Both, for a step of a call that writes no record: it goes on without touching
\* the status, claims or resets the task, or ends its turn.
LEMMA RecordFrame ==
  ASSUME TypeOK, Exclusion, RecordInv, NEW t \in Tasks, NEW c \in Calls, NEW to \in Phases,
         pc' = [pc EXCEPT ![t][c] = to],
         \A u \in Tasks : u # t => status'[u] = status[u],
         UNCHANGED <<disk, snap, ask, stamp>>,
         \/ /\ status'[t] = status[t]
            /\ pc[t][c] \in Free <=> to \in Free
            /\ c # 1 \/ pc[t][c] \notin Ended
            /\ c # 1 \/ to \notin Ended
         \/ status'[t] = "running" /\ pc[t][c] \notin Ended /\ to \notin Free \cup Ended
         \/ status'[t] # "none" /\ pc[t][c] \in Active /\ to \in {"settled", "aborted"}
  PROVE  RecordInv'
<1> USE FirstCall
<1>1. c # 1 /\ pc[t][c] \in Active => pc[t][1] \in Ended
  BY FirstRunEnded
<1>2. pc[t][c] \in Active => pc[t][c] \notin Ended
  BY DEF Active, Ended
<1>3. to \in {"settled", "aborted"} => to \in Ended /\ to \notin Free
  BY DEF Ended, Free
<1>4. /\ c = 1 /\ pc[t][1] \in Ended => to \in Ended
      /\ \/ status'[t] = status[t] /\ (c = 1 \/ pc[t][c] \in Free)
         \/ c # 1 /\ to \notin Free
         \/ pc[t][1] \notin Ended
  BY <1>2, <1>3
<1>5. StatusFits /\ AllRight /\ Saved
  BY DEF RecordInv
<1>6. AllRight'
  BY <1>4, <1>5, RecordsMove
<1>7. StatusFits'
  BY <1>1, <1>3, <1>4, <1>5, StatusMove
<1>8. Saved'
  <2>1. c = 1 => to \notin {"snapped", "over"}
    BY DEF Ended
  <2>2. c # 1 => \/ to \notin Free
                 \/ status'[t] = status[t] /\ pc[t][c] \in Free
    BY <1>3
  <2> QED BY <1>5, <2>1, <2>2, SavedMove DEF Free
<1> QED BY <1>6, <1>7, <1>8 DEF RecordInv

\* The two steps of the persist that ends a turn.
LEMMA PersistKeeps ==
  ASSUME TypeOK, Exclusion, RecordInv, NEW t \in Tasks, NEW c \in Calls,
         TakeSnapshot(t, c) \/ SaveAndUnwind(t, c)
  PROVE  RecordInv'
<1> USE FirstCall DEF Step, store
<1>0. StatusFits /\ AllRight /\ Saved
  BY DEF RecordInv
<1>1. CASE TakeSnapshot(t, c)
  <2>1. /\ pc[t][c] = "settled" /\ pc' = [pc EXCEPT ![t][c] = "snapped"]
        /\ snap'[t][c] = status[t]
        /\ \A u \in Tasks, d \in Calls : snap'[u][d] \in {snap[u][d], status[u]}
        /\ \A u \in Tasks : u # t => snap'[u] = snap[u]
        /\ UNCHANGED <<status, disk, stamp, ask>>
    BY <1>1 DEF TakeSnapshot, taskVars, registry, TypeOK
  <2>2. "snapped" \in Phases /\ "snapped" \in Ended /\ "snapped" \notin Free /\ "settled" \notin Free
    BY DEF Phases, Ended, Free
  <2>3. AllRight'
    BY <1>0, <2>1, <2>2, RecordsMove
  <2>4. StatusFits'
    BY <1>0, <2>1, <2>2, StatusMove
  <2>5. Saved'
    BY <1>0, <2>1, <2>2, SavedMove DEF Free
  <2> QED BY <2>3, <2>4, <2>5 DEF RecordInv
<1>2. CASE SaveAndUnwind(t, c)
  <2>1. /\ pc[t][c] = "snapped" /\ pc' = [pc EXCEPT ![t][c] = "over"]
        /\ disk'[t] = snap[t][c]
        /\ \A u \in Tasks, d \in Calls : snap'[u][d] \in {snap[u][d], "none"}
        /\ \A u \in Tasks : u # t => snap'[u] = snap[u] /\ disk'[u] = disk[u]
        /\ UNCHANGED <<status, stamp, ask>>
    BY <1>2 DEF SaveAndUnwind, taskVars, registry, TypeOK
  <2>2. "over" \in Phases /\ "over" \in Ended /\ "over" \notin Free /\ "snapped" \notin Free
    BY DEF Phases, Ended, Free
  <2>3. AllRight'
    BY <1>0, <2>1, <2>2, RecordsMove
  <2>4. StatusFits'
    BY <1>0, <2>1, <2>2, StatusMove
  <2>5. Saved'
    BY <1>0, <2>1, <2>2, SavedMove DEF Free
  <2> QED BY <2>3, <2>4, <2>5 DEF RecordInv
<1> QED BY <1>1, <1>2

\* A persist of a permission request: its snapshot tells what the status told,
\* and when its rename hides the outcome, its second persist is still to come or
\* its last snapshot was an old one.
LEMMA AskKeeps ==
  ASSUME TypeOK, RecordInv, NEW t \in Tasks, NEW r \in Requests, AskStep(t, r)
  PROVE  RecordInv'
<1> USE FirstCall
<1>0. StatusFits /\ AllRight /\ Saved
  BY DEF RecordInv
<1>1. UNCHANGED <<pc, status, snap, stamp>>
  BY AskFrame DEF turnVars, taskVars, registry
<1> DEFINE S == ask[t][r].snap
<1>2. /\ \A u \in Tasks, q \in Requests : <<u, q>> # <<t, r>> => ask'[u][q] = ask[u][q]
      /\ \A u \in Tasks : u # t => disk'[u] = disk[u]
      /\ \/ /\ ask[t][r].at \in {"idle", "waiting"} /\ ask'[t][r].snap = status[t]
            /\ disk'[t] = disk[t]
            /\ ask'[t][r].at \in {"asking", "leaving"}
            /\ ask[t][r].at = "waiting" => ask'[t][r].at = "leaving"
         \/ /\ ask[t][r].at \in {"asking", "leaving"} /\ ask'[t][r].snap = S
            /\ disk'[t] = S
            /\ ask'[t][r].at \in {"waiting", "over"}
  <2>1. CASE AskSnapshot(t, r)
    BY <2>1 DEF AskSnapshot, TypeOK, store
  <2>2. CASE AskSaves(t, r)
    BY <2>2 DEF AskSaves, TypeOK
  <2>3. CASE LeaveSnapshot(t, r)
    BY <2>3 DEF LeaveSnapshot, TypeOK, store
  <2>4. CASE LeaveSaves(t, r)
    BY <2>4 DEF LeaveSaves, TypeOK
  <2> QED BY <2>1, <2>2, <2>3, <2>4 DEF AskStep
<1> HIDE DEF S
<1>3. status[t] # "none"
  <2>1. CASE AskSnapshot(t, r)
    BY <1>0, <2>1 DEF AskSnapshot, StatusFits, Free
  <2>2. CASE ask[t][r].at # "idle"
    BY <1>0, <2>2 DEF StatusFits
  <2> QED BY <2>1, <2>2 DEF AskStep, AskSaves, LeaveSnapshot, LeaveSaves
<1>4. StatusFits'
  BY <1>0, <1>1, <1>2, <1>3 DEF StatusFits, S
<1>5. AllRight'
  <2> SUFFICES ASSUME NEW u \in Tasks, NEW s \in Told(u)' PROVE Right(u, s)'
    BY DEF AllRight
  <2>1. s \in Told(u) \cup {status[u]}
    BY <1>1, <1>2 DEF Told, S
  <2>2. Right(u, s)
    BY <1>0, <2>1 DEF AllRight, Right, StatusFits
  <2> QED BY <1>1, <2>2 DEF Right, Unclaimed
<1>6. Saved'
  <2> SUFFICES ASSUME NEW u \in Tasks, Unclaimed(u), pc[u][1] = "over", stamp[u] > 0
               PROVE  disk'[u] = status[u] \/ RunningOutlived(u)'
    BY <1>0, <1>1 DEF Saved, Unclaimed
  <2>1. disk[u] = status[u] \/ RunningOutlived(u)
    BY <1>0 DEF Saved
  <2>2. CASE u # t
    BY <1>2, <2>1, <2>2 DEF RunningOutlived
  <2>3. CASE u = t /\ disk'[t] = S /\ ask'[t][r].at \in {"waiting", "over"}
                   /\ ask'[t][r].snap = S /\ ask[t][r].at \in {"asking", "leaving"}
    <3>1. Right(t, S) /\ S # "none" /\ S \in Statuses
      BY <1>0, <2>3 DEF AllRight, Told, StatusFits, S, TypeOK
    <3>2. S = status[t] \/ S = "running"
      BY <2>3, <3>1 DEF Right, Statuses
    <3> QED BY <2>3, <3>2 DEF RunningOutlived
  <2>4. CASE u = t /\ disk'[t] = disk[t] /\ ask[t][r].at \in {"idle", "waiting"}
                   /\ (ask[t][r].at = "waiting" => ask'[t][r].at = "leaving")
    <3>1. ASSUME RunningOutlived(t) PROVE RunningOutlived(t)'
      <4>1. PICK q \in Requests : \/ ask[t][q].at \in {"waiting", "leaving"}
                                  \/ ask[t][q].at = "over" /\ ask[t][q].snap = "running"
        BY <3>1 DEF RunningOutlived
      <4>2. \/ ask'[t][q].at \in {"waiting", "leaving"}
            \/ ask'[t][q].at = "over" /\ ask'[t][q].snap = "running"
        BY <1>2, <2>4, <4>1
      <4> QED BY <2>4, <3>1, <4>2 DEF RunningOutlived
    <3> QED BY <1>1, <2>1, <2>4, <3>1
  <2> QED BY <1>2, <2>2, <2>3, <2>4
<1> QED BY <1>4, <1>5, <1>6 DEF RecordInv

\* Every step of the manager keeps what its records tell.
LEMMA RecordStep == TypeOK /\ Exclusion /\ RecordInv /\ [Next]_vars => RecordInv'
<1> SUFFICES ASSUME TypeOK, Exclusion, RecordInv, [Next]_vars PROVE RecordInv'
  OBVIOUS
<1> USE FirstCall DEF Step, store
<1>0. ASSUME UNCHANGED <<pc, status, disk, snap, ask, stamp>> PROVE RecordInv'
  <2>1. StatusFits /\ AllRight /\ Saved
    BY DEF RecordInv
  <2>2. StatusFits'
    BY <1>0, <2>1 DEF StatusFits
  <2>3. \A t \in Tasks : Told(t)' = Told(t)
    BY <1>0 DEF Told
  <2>4. \A t \in Tasks : Unclaimed(t)' = Unclaimed(t)
    BY <1>0 DEF Unclaimed
  <2>5. AllRight'
    BY <1>0, <2>1, <2>3, <2>4 DEF AllRight, Right
  <2>6. \A t \in Tasks : RunningOutlived(t)' = RunningOutlived(t)
    BY <1>0 DEF RunningOutlived
  <2>7. Saved'
    BY <1>0, <2>1, <2>4, <2>6 DEF Saved
  <2> QED BY <2>2, <2>5, <2>7 DEF RecordInv
<1>1. ASSUME NEW t \in Tasks, StartStep(t) PROVE RecordInv'
  <2>1. CASE StartCleared(t)
    BY <2>1, RecordFrame DEF StartCleared, TypeOK, Phases, Free, Ended, registry
  <2>2. CASE StartRefused(t)
    BY <2>2, RecordFrame DEF StartRefused, Phases, Free, Ended, taskVars, registry
  <2>3. CASE Admit(t)
    <3>1. /\ pc[t][1] = "cleared" /\ pc' = [pc EXCEPT ![t][1] = "admitted"]
          /\ UNCHANGED <<status, snap, ask>>
      BY <2>3 DEF Admit, taskVars
    <3>2. /\ \A u \in Tasks : disk'[u] \in {disk[u], "absent"}
          /\ \A u \in Tasks : u # t /\ stamp'[u] > 0 => stamp[u] > 0 /\ disk'[u] = disk[u]
      BY <2>3 DEF Admit, TypeOK
    <3>3. /\ "admitted" \in Phases /\ "cleared" \notin Free \cup Ended
          /\ "admitted" \notin {"snapped", "over"}
      BY DEF Phases, Free, Ended
    <3>4. StatusFits /\ AllRight /\ Saved
      BY DEF RecordInv
    <3>5. AllRight'
      BY <3>1, <3>2, <3>3, <3>4, RecordsMove
    <3>6. StatusFits'
      BY <3>1, <3>3, <3>4, StatusMove
    <3>7. \A u \in Tasks, d \in Calls :
            pc'[u][d] = IF u = t /\ d = 1 THEN "admitted" ELSE pc[u][d]
      BY <3>1 DEF TypeOK
    <3>8. Saved'
      BY <3>1, <3>2, <3>4, <3>7 DEF Saved, Unclaimed, RunningOutlived
    <3> QED BY <3>5, <3>6, <3>8 DEF RecordInv
  <2>4. CASE PersistStart(t)
    <3>1. /\ pc[t][1] = "admitted" /\ pc' = [pc EXCEPT ![t][1] = "launched"]
          /\ UNCHANGED <<status, snap, ask, stamp>>
          /\ \A u \in Tasks : disk'[u] \in {disk[u], status[u]}
          /\ \A u \in Tasks : u # t => disk'[u] = disk[u]
      BY <2>4 DEF PersistStart, taskVars, registry, TypeOK
    <3>2. "launched" \in Phases /\ "admitted" \notin Free \cup Ended
      BY DEF Phases, Free, Ended
    <3>3. StatusFits /\ AllRight /\ Saved
      BY DEF RecordInv
    <3>4. AllRight'
      BY <3>1, <3>2, <3>3, RecordsMove
    <3>5. StatusFits'
      BY <3>1, <3>2, <3>3, StatusMove
    <3>6. Saved'
      BY <3>1, <3>2, <3>3, SavedMove
    <3> QED BY <3>4, <3>5, <3>6 DEF RecordInv
  <2> QED BY <1>1, <2>1, <2>2, <2>3, <2>4 DEF StartStep
<1>2. ASSUME NEW t \in Tasks, NEW c \in Calls, FollowupStep(t, c) PROVE RecordInv'
  <2>1. CASE FollowupLookup(t, c)
    <3>1. /\ c # 1 /\ pc[t][c] = "idle"
          /\ pc' = [pc EXCEPT ![t][c] = "found"]
          /\ UNCHANGED <<status, disk, snap, ask, stamp>>
      BY <2>1 DEF FollowupLookup, taskVars, registry
    <3> QED BY <3>1, RecordFrame DEF Phases, Free, Ended
  <2>2. CASE FollowupRefused(t, c)
    <3>1. /\ c # 1 /\ pc[t][c] = "found"
          /\ pc' = [pc EXCEPT ![t][c] = "refused"]
          /\ UNCHANGED <<status, disk, snap, ask, stamp>>
      BY <2>2 DEF FollowupRefused, taskVars, registry, Exclusion, CreatedBeforeFound
    <3> QED BY <3>1, RecordFrame DEF Phases, Free, Ended
  <2>3. CASE FollowupClaim(t, c)
    <3>1. /\ c # 1 /\ pc[t][c] = "found"
          /\ pc' = [pc EXCEPT ![t][c] = "launched"]
          /\ \A u \in Tasks : u # t => status'[u] = status[u]
          /\ status'[t] = "running"
          /\ UNCHANGED <<disk, snap, ask, stamp>>
      BY <2>3 DEF FollowupClaim, registry, Exclusion, CreatedBeforeFound, TypeOK
    <3> QED BY <3>1, RecordFrame DEF Phases, Free, Ended
  <2> QED BY <1>2, <2>1, <2>2, <2>3 DEF FollowupStep
<1>3. ASSUME NEW t \in Tasks, NEW c \in Calls, TurnStep(t, c) PROVE RecordInv'
  <2>1. CASE ResetTurn(t, c)
    BY <2>1, RecordFrame DEF ResetTurn, Phases, Free, Ended, registry, TypeOK
  <2>2. CASE FailTurn(t, c)
    <3>1. /\ pc' = [pc EXCEPT ![t][c] = "aborted"] /\ pc[t][c] \in Active
          /\ \A u \in Tasks : u # t => status'[u] = status[u]
          /\ status'[t] # "none"
          /\ UNCHANGED <<disk, snap, ask, stamp>>
      BY <2>2 DEF FailTurn, registry, TypeOK, Active
    <3> QED BY <3>1, RecordFrame DEF Phases
  <2>3. CASE BuildCommand(t, c)
    BY <2>3, RecordFrame DEF BuildCommand, Phases, Free, Ended, registry, taskVars
  <2>4. CASE Spawn(t, c)
    BY <2>4, RecordFrame DEF Spawn, Phases, Free, Ended, registry, taskVars
  <2>5. CASE Settle(t, c)
    <3>1. Verdict(t, c) # "none"
      BY DEF Verdict
    <3>2. /\ pc' = [pc EXCEPT ![t][c] = "settled"] /\ pc[t][c] \in Active
          /\ \A u \in Tasks : u # t => status'[u] = status[u]
          /\ status'[t] # "none"
          /\ UNCHANGED <<disk, snap, ask, stamp>>
      BY <2>5, <3>1 DEF Settle, registry, TypeOK, Active
    <3> QED BY <3>2, RecordFrame DEF Phases
  <2>6. CASE TakeSnapshot(t, c) \/ SaveAndUnwind(t, c)
    BY <2>6, PersistKeeps
  <2> QED BY <1>3, <2>1, <2>2, <2>3, <2>4, <2>5, <2>6 DEF TurnStep
<1>4. ASSUME NEW t \in Tasks, NEW c \in Calls, NEW how \in {"ok", "bad"},
             WorkerExit(t, c, how)
      PROVE  RecordInv'
  BY <1>4, RecordFrame DEF WorkerExit, Phases, Free, Ended, registry, taskVars
<1>5. ASSUME NEW t \in Tasks, NEW c \in Calls, CompanionStep(t, c) PROVE RecordInv'
  BY <1>5, <1>0 DEF CompanionStep, TimerFires, TimeoutMarks, PumpSession, PumpFinal, PumpEnds,
              WatchFinds, WatchCancels, WatchStops, turnVars, taskVars, registry
<1>6. ASSUME NEW t \in Tasks, Cancel(t) \/ PeerRequestsCancel(t) PROVE RecordInv'
  BY <1>6, <1>0 DEF Cancel, PeerRequestsCancel, turnVars, taskVars, registry
<1>7. CASE Shutdown \/ ShutdownClean \/ ShutdownLate \/ UNCHANGED vars
  BY <1>7, <1>0 DEF Shutdown, ShutdownClean, ShutdownLate, vars, turnVars, taskVars, registry
<1>8. ASSUME NEW t \in Tasks, NEW r \in Requests, AskStep(t, r) PROVE RecordInv'
  BY <1>8, AskKeeps
<1> QED BY <1>1, <1>2, <1>3, <1>4, <1>5, <1>6, <1>7, <1>8 DEF Next

\* The records keep telling the truth in every behaviour.
LEMMA RecordAlways == Spec => []RecordInv
<1>1. Init => RecordInv
  BY FirstCall DEF Init, RecordInv, StatusFits, AllRight, Told, Right, Saved, Outcomes, Free
<1>2. IInv /\ RecordInv /\ [Next]_vars => RecordInv'
  BY RecordStep DEF IInv
<1> QED BY <1>1, <1>2, Inductive, PTL DEF Spec

\* What a task's only run came to is on disk as it is in memory once its
\* goroutine is gone, however many permission requests persist the task meanwhile:
\* an older "running" is there only as RunningOutlived says.
THEOREM RunIsRecorded == Spec => []FinishedRunIsRecorded
<1>1. RecordInv => FinishedRunIsRecorded
  BY DEF RecordInv, Saved, FinishedRunIsRecorded, Registered
<1> QED BY <1>1, RecordAlways, PTL

\* No persist, of a turn or of any number of permission requests, ever records
\* an outcome before there is one, or another one than the only run had.
THEOREM OutcomeIsTrue == Spec => []RecordedOutcomeIsTrue
<1>1. RecordInv => RecordedOutcomeIsTrue
  BY DEF RecordInv, AllRight, Told, Right, RecordedOutcomeIsTrue
<1> QED BY <1>1, RecordAlways, PTL
=============================================================================
