-------------------------- MODULE WorktreesProofs --------------------------
(***************************************************************************)
(* Theorems about isolated tasks, for any number of tasks, of removals and *)
(* of restarts.  The invariant follows a tree from the call that cuts it   *)
(* (Fresh) to the call that has removed it (Gone): between the two the     *)
(* task knows it, and after a restart nobody does (Lost).  A call whose   *)
(* git deletes has the tree for itself, unless a follow-up crosses (Quiet). *)
(***************************************************************************)
EXTENDS Worktrees, TLAPS

\* A removal that has removed its tree.
Past == {"removed", "unbranched", "forgotten", "done"}

\* Until the task exists nothing has happened in its tree.
Fresh ==
  \A t \in Tasks : stage[t] \in {"none", "cut"} =>
    /\ turn[t] = "idle" /\ ~stray[t] /\ ~dirty[t] /\ ~torn[t] /\ commits[t] = 0
    /\ stage[t] = "cut" => branch[t]
    /\ \A r \in Removers : removal[r].task = t => removal[r].at \in {"idle", "refused"}

\* Only a task of this server has turns.
TurnsAreOurs == \A t \in Tasks : turn[t] # "idle" => stage[t] = "known"

\* A task knows its tree, and where it began if git could tell.
Mine ==
  \A t \in Tasks : stage[t] = "known" /\ ~restored[t] =>
    /\ base[t] \in {0, Unknown}
    /\ stands[t] => isolated[t] /\ branch[t]

\* The tree of a removal that has removed it is gone.
Gone == \A r \in Removers : removal[r].at \in Past => ~stands[removal[r].task]

\* Where a worker of an earlier server runs nobody can ask for a removal.
Lost ==
  \A t \in Tasks : stray[t] =>
    /\ ~isolated[t]
    /\ \A r \in Removers :
         removal[r].task = t => removal[r].at \in {"idle", "refused", "adrift", "over"}

\* Beside a call that may still take the tree nobody works in it but a follow-up
\* that has crossed the call, so that git stays right about what it has seen.
Quiet ==
  \A r \in Removers : removal[r].at \in Taking /\ ~removal[r].crossed =>
    /\ turn[removal[r].task] = "idle"
    /\ ~stray[removal[r].task]
    /\ removal[r].at \in {"deleting", "adrift"} /\ ~removal[r].force => ~dirty[removal[r].task]

Inv == TypeOK /\ Fresh /\ TurnsAreOurs /\ Mine /\ Gone /\ Lost /\ Quiet

-----------------------------------------------------------------------------

Calls == [Removers -> [at : Steps, task : Tasks, force : BOOLEAN, crossed : BOOLEAN]]

\* The initial states satisfy the invariant.
LEMMA InitInv == Init => Inv
<1> SUFFICES ASSUME Init PROVE Inv
  OBVIOUS
<1>1. removal \in Calls /\ \A r \in Removers : removal[r].at = "idle" /\ ~removal[r].crossed
  BY DEF Init, NewCall, Calls, Steps
<1>2. TypeOK
  BY <1>1, WorktreesAssumption DEF Init, TypeOK, Calls, Turns, Unknown
<1>3. Fresh /\ TurnsAreOurs /\ Mine /\ Gone /\ Lost /\ Quiet
  BY <1>1 DEF Init, Fresh, TurnsAreOurs, Mine, Gone, Lost, Quiet, Past, Taking
<1> QED BY <1>2, <1>3 DEF Inv

\* A call that goes on changes where it is and nothing else.
LEMMA AdvancesMoves ==
  ASSUME removal \in Calls, NEW r \in Removers, NEW from \in Steps, NEW to \in Steps,
         Advances(r, from, to)
  PROVE  /\ removal' \in Calls
         /\ removal[r].at = from /\ removal'[r].at = to
         /\ \A s \in Removers : /\ s # r => removal'[s] = removal[s]
                                /\ removal'[s].task = removal[s].task
                                /\ removal'[s].force = removal[s].force
                                /\ removal'[s].crossed = removal[s].crossed
BY DEF Advances, Calls

\* The start of a task keeps the invariant.
LEMMA StartInv ==
  ASSUME Inv, NEW t \in Tasks, Start(t)
  PROVE  Inv'
<1> USE DEF Inv, Turns, Steps, Taking, Past, Unknown
<1>1. CASE NewWorktree(t)
  <2>1. TypeOK'
    BY <1>1 DEF NewWorktree, TypeOK
  <2>2. Fresh' /\ TurnsAreOurs'
    BY <1>1 DEF NewWorktree, TypeOK, Fresh, TurnsAreOurs
  <2>3. Mine' /\ Lost'
    BY <1>1 DEF NewWorktree, TypeOK, Mine, Lost
  <2>4. Gone'
    BY <1>1 DEF NewWorktree, TypeOK, Fresh, Gone
  <2>5. Quiet'
    BY <1>1 DEF NewWorktree, TypeOK, Quiet
  <2> QED BY <2>1, <2>2, <2>3, <2>4, <2>5
<1>2. CASE NewTask(t)
  <2>1. TypeOK'
    BY <1>2, WorktreesAssumption DEF NewTask, git, TypeOK
  <2>2. Fresh' /\ TurnsAreOurs' /\ Gone'
    BY <1>2 DEF NewTask, git, TypeOK, Fresh, TurnsAreOurs, Gone
  <2>3. Mine'
    BY <1>2 DEF NewTask, git, TypeOK, Fresh, Mine
  <2>4. Lost'
    BY <1>2 DEF NewTask, TypeOK, Fresh, Lost
  <2>5. Quiet'
    BY <1>2 DEF NewTask, git, TypeOK, Fresh, Quiet, Taking
  <2> QED BY <2>1, <2>2, <2>3, <2>4, <2>5
<1>3. CASE StartRefused(t)
  BY <1>3 DEF StartRefused, git, TypeOK, Fresh, TurnsAreOurs, Mine, Gone, Lost, Quiet
<1>4. CASE PersistStart(t)
  BY <1>4 DEF PersistStart, git, TypeOK, Fresh, TurnsAreOurs, Mine, Gone, Lost, Quiet
<1> QED BY <1>1, <1>2, <1>3, <1>4 DEF Start

\* The turns of a task keep the invariant.
LEMMA TurnInv ==
  ASSUME Inv, NEW t \in Tasks, Turn(t)
  PROVE  Inv'
<1> USE DEF Inv, Turns, Steps, Taking, Past, Unknown, git
<1>1. CASE FollowupClaims(t)
  <2>1. \A r \in Removers :
          /\ removal'[r].at = removal[r].at
          /\ removal'[r].task = removal[r].task
          /\ removal'[r].force = removal[r].force
          /\ \/ removal'[r] = removal[r] /\ ~(removal[r].task = t /\ removal[r].at \in Taking)
             \/ removal'[r].crossed
    BY <1>1 DEF FollowupClaims, TypeOK
  <2>2. removal' \in Calls
    <3> SUFFICES ASSUME NEW r \in Removers
                 PROVE  removal'[r] \in [at : Steps, task : Tasks, force : BOOLEAN, crossed : BOOLEAN]
      BY <1>1 DEF FollowupClaims, Calls
    <3>1. removal[r] \in [at : Steps, task : Tasks, force : BOOLEAN, crossed : BOOLEAN]
      BY DEF TypeOK
    <3>2. removal'[r] = removal[r] \/ removal'[r] = [removal[r] EXCEPT !.crossed = TRUE]
      BY <1>1 DEF FollowupClaims
    <3> HIDE DEF Steps
    <3> QED BY <3>1, <3>2
  <2>3. TypeOK'
    BY <1>1, <2>2 DEF FollowupClaims, TypeOK, Calls
  <2>4. Fresh' /\ TurnsAreOurs'
    BY <1>1, <2>1 DEF FollowupClaims, TypeOK, Fresh, TurnsAreOurs
  <2>5. Mine' /\ Gone' /\ Lost'
    BY <1>1, <2>1 DEF FollowupClaims, TypeOK, Mine, Gone, Lost
  <2>6. Quiet'
    BY <1>1, <2>1 DEF FollowupClaims, TypeOK, Quiet
  <2> QED BY <2>3, <2>4, <2>5, <2>6
<1>2. CASE Launch(t)
  BY <1>2 DEF Launch, TypeOK, Fresh, TurnsAreOurs, Mine, Gone, Lost, Quiet
<1>3. CASE LaunchFails(t)
  BY <1>3 DEF LaunchFails, TypeOK, Fresh, TurnsAreOurs, Mine, Gone, Lost, Quiet
<1>4. CASE Settle(t)
  BY <1>4 DEF Settle, TypeOK, Fresh, TurnsAreOurs, Mine, Gone, Lost, Quiet
<1>5. CASE Save(t)
  BY <1>5 DEF Save, Status, TypeOK, Fresh, TurnsAreOurs, Mine, Gone, Lost, Quiet
<1>6. CASE Evict(t)
  BY <1>6 DEF Evict, TypeOK, Fresh, TurnsAreOurs, Mine, Gone, Lost, Quiet
<1> QED BY <1>1, <1>2, <1>3, <1>4, <1>5, <1>6 DEF Turn

\* Work in a tree keeps the invariant.
LEMMA WorkInv ==
  ASSUME Inv, NEW t \in Tasks, Work(t)
  PROVE  Inv'
<1> USE WorktreesAssumption DEF Inv, Turns, Steps, Taking, Past, Unknown, task, git
<1>1. CASE Edits(t)
  BY <1>1 DEF Edits, TypeOK, Fresh, TurnsAreOurs, Mine, Gone, Lost, Quiet
<1>2. CASE Commits(t)
  <2>1. PICK left \in {torn[t], FALSE} : torn' = [torn EXCEPT ![t] = left]
    BY <1>2 DEF Commits
  <2>4. torn' \in [Tasks -> BOOLEAN]
    BY <2>1 DEF TypeOK
  <2>5. TypeOK'
    BY <1>2, <2>4 DEF Commits, TypeOK
  <2>2. Fresh' /\ TurnsAreOurs' /\ Mine'
    BY <1>2 DEF Commits, TypeOK, Fresh, TurnsAreOurs, Mine
  <2>3. Gone' /\ Lost' /\ Quiet'
    BY <1>2 DEF Commits, TypeOK, Gone, Lost, Quiet
  <2> QED BY <2>2, <2>3, <2>5
<1>3. CASE StrayEnds(t)
  BY <1>3 DEF StrayEnds, TypeOK, Fresh, TurnsAreOurs, Mine, Gone, Lost, Quiet
<1> QED BY <1>1, <1>2, <1>3 DEF Work

\* The steps of a removal keep the invariant.
LEMMA RemoveInv ==
  ASSUME Inv, NEW r \in Removers, RemoveWorktree(r)
  PROVE  Inv'
<1> USE DEF Inv, Turns, Steps, Taking, Past, Unknown, task, git, Advances
<1>1. CASE Looks(r)
  BY <1>1 DEF Looks, TypeOK, Fresh, TurnsAreOurs, Mine, Gone, Lost, Quiet
<1>2. CASE Checks(r)
  BY <1>2 DEF Checks, TypeOK, Fresh, TurnsAreOurs, Mine, Gone, Lost, Quiet
<1>3. CASE GitLooks(r)
  BY <1>3 DEF GitLooks, GitLets, TypeOK, Fresh, TurnsAreOurs, Mine, Gone, Lost, Quiet
<1>4. CASE DeletesSome(r)
  <2> DEFINE t == removal[r].task
  <2>1. PICK left \in {dirty[t], FALSE} : dirty' = [dirty EXCEPT ![t] = left]
    BY <1>4 DEF DeletesSome
  <2>4. t \in Tasks
    BY DEF TypeOK
  <2>5. dirty' \in [Tasks -> BOOLEAN]
    BY <2>1, <2>4 DEF TypeOK
  <2>6. TypeOK'
    BY <1>4, <2>5 DEF DeletesSome, TypeOK
  <2>2. Fresh' /\ TurnsAreOurs' /\ Mine'
    BY <1>4 DEF DeletesSome, TypeOK, Fresh, TurnsAreOurs, Mine
  <2>3. Gone' /\ Lost' /\ Quiet'
    BY <1>4 DEF DeletesSome, TypeOK, Gone, Lost, Quiet
  <2> QED BY <2>2, <2>3, <2>6
<1>8. CASE DeletesRest(r)
  <2> DEFINE t == removal[r].task
  <2>1. PICK from \in {"deleting", "adrift"}, to \in {"removed", "refused", "over"} :
          /\ Advances(r, from, to)
          /\ from = "adrift" <=> to = "over"
    BY <1>8 DEF DeletesRest
  <2>2. /\ t \in Tasks /\ removal \in Calls
        /\ stands' = [stands EXCEPT ![t] = FALSE]
        /\ dirty' = [dirty EXCEPT ![t] = FALSE]
        /\ torn' = [torn EXCEPT ![t] = FALSE]
        /\ UNCHANGED <<task, stray, branch, commits, restarts>>
    BY <1>8 DEF DeletesRest, TypeOK, Calls
  <2> HIDE DEF t
  <2>3. /\ removal' \in Calls
        /\ removal[r].at = from /\ removal'[r].at = to
        /\ \A s \in Removers : /\ s # r => removal'[s] = removal[s]
                               /\ removal'[s].task = removal[s].task
                               /\ removal'[s].force = removal[s].force
                               /\ removal'[s].crossed = removal[s].crossed
    BY <2>1, <2>2, AdvancesMoves
  <2> HIDE DEF Advances
  <2>4. TypeOK'
    BY <2>2, <2>3 DEF TypeOK, Calls
  <2>5. Fresh' /\ TurnsAreOurs' /\ Mine'
    BY <2>1, <2>2, <2>3 DEF TypeOK, Fresh, TurnsAreOurs, Mine
  <2>6. Gone'
    BY <2>1, <2>2, <2>3 DEF TypeOK, Gone, t
  <2>7. Lost'
    BY <2>1, <2>2, <2>3 DEF TypeOK, Lost
  <2>8. \A u \in Tasks : dirty'[u] => dirty[u]
    BY <2>2 DEF TypeOK
  <2>9. Quiet'
    BY <2>1, <2>2, <2>3, <2>8 DEF Quiet
  <2> QED BY <2>4, <2>5, <2>6, <2>7, <2>9
<1>9. CASE RemoveFails(r)
  <2>1. PICK from \in {"checked", "deleting", "adrift"}, to \in {"refused", "over"} :
          /\ Advances(r, from, to)
          /\ from = "adrift" <=> to = "over"
    BY <1>9 DEF RemoveFails
  <2>2. removal \in Calls /\ UNCHANGED <<task, stray, git, restarts>>
    BY <1>9 DEF RemoveFails, TypeOK, Calls
  <2>3. /\ removal' \in Calls
        /\ removal[r].at = from /\ removal'[r].at = to
        /\ \A s \in Removers : /\ s # r => removal'[s] = removal[s]
                               /\ removal'[s].task = removal[s].task
                               /\ removal'[s].force = removal[s].force
                               /\ removal'[s].crossed = removal[s].crossed
    BY <2>1, <2>2, AdvancesMoves
  <2> HIDE DEF Advances
  <2>4. TypeOK'
    BY <2>2, <2>3 DEF TypeOK, Calls
  <2>5. Fresh' /\ TurnsAreOurs' /\ Mine'
    BY <2>1, <2>2, <2>3 DEF TypeOK, Fresh, TurnsAreOurs, Mine
  <2>6. Gone' /\ Lost' /\ Quiet'
    BY <2>1, <2>2, <2>3 DEF TypeOK, Gone, Lost, Quiet
  <2> QED BY <2>4, <2>5, <2>6
<1>5. CASE DeletesBranch(r)
  BY <1>5 DEF DeletesBranch, TypeOK, Fresh, TurnsAreOurs, Mine, Gone, Lost, Quiet
<1>6. CASE Forgets(r)
  BY <1>6 DEF Forgets, TypeOK, Fresh, TurnsAreOurs, Mine, Gone, Lost, Quiet
<1>7. CASE Persists(r)
  BY <1>7 DEF Persists, Status, TypeOK, Fresh, TurnsAreOurs, Mine, Gone, Lost, Quiet
<1> QED BY <1>1, <1>2, <1>3, <1>4, <1>5, <1>6, <1>7, <1>8, <1>9 DEF RemoveWorktree

\* A restart keeps the invariant.
LEMMA RestartInv ==
  ASSUME Inv, Restart
  PROVE  Inv'
<1> PICK new \in [Removers -> NewCall], left \in SUBSET {r \in Removers : GitGoesOn(r)} :
       removal' = [r \in Removers |-> IF r \in left THEN [removal[r] EXCEPT !.at = "adrift"]
                                                    ELSE new[r]]
  BY DEF Restart
<1>1. removal \in Calls
  BY DEF Inv, TypeOK, Calls
<1>2. \A r \in Removers :
        \/ removal'[r].at = "idle" /\ ~removal'[r].crossed
        \/ /\ removal'[r].at = "adrift" /\ GitGoesOn(r)
           /\ removal'[r].task = removal[r].task
           /\ removal'[r].force = removal[r].force
           /\ removal'[r].crossed = removal[r].crossed
  BY <1>1 DEF NewCall, Calls
<1>3. removal' \in Calls
  <2> SUFFICES ASSUME NEW r \in Removers
               PROVE  removal'[r] \in [at : Steps, task : Tasks, force : BOOLEAN, crossed : BOOLEAN]
    BY DEF Calls
  <2>1. CASE r \in left
    <3>1. removal'[r] = [removal[r] EXCEPT !.at = "adrift"]
      BY <2>1
    <3> QED BY <1>1, <3>1 DEF Calls, Steps
  <2>2. CASE r \notin left
    <3>1. removal'[r] = new[r] /\ new[r] \in NewCall
      BY <2>2
    <3> QED BY <3>1 DEF NewCall, Steps
  <2> QED BY <2>1, <2>2
<1>4. \A r \in Removers : removal'[r].at = "adrift" =>
        /\ removal[r].at \in Taking
        /\ removal'[r].task = removal[r].task
        /\ removal[r].at = "checked" /\ ~removal[r].force => ~dirty[removal[r].task]
  BY <1>2 DEF GitGoesOn, GitLets, Taking
<1>5. TypeOK'
  BY <1>3, WorktreesAssumption DEF Inv, TypeOK, Calls, Turns, Restart, RestoredWorkspace, git
<1>6. Fresh'
  <2> SUFFICES ASSUME NEW t \in Tasks, stage'[t] \in {"none", "cut"}
               PROVE  /\ turn'[t] = "idle" /\ ~stray'[t] /\ ~dirty'[t] /\ ~torn'[t]
                      /\ commits'[t] = 0
                      /\ stage'[t] = "cut" => branch'[t]
                      /\ \A r \in Removers :
                           removal'[r].task = t => removal'[r].at \in {"idle", "refused"}
    BY DEF Fresh
  <2>1. stage[t] = "none" /\ stage'[t] = "none"
    BY DEF Restart, Inv, TypeOK
  <2>2. /\ turn[t] = "idle" /\ ~stray[t] /\ ~dirty[t] /\ ~torn[t] /\ commits[t] = 0
        /\ \A r \in Removers : removal[r].task = t => removal[r].at \in {"idle", "refused"}
    BY <2>1 DEF Inv, Fresh
  <2>3. turn'[t] = "idle" /\ ~stray'[t] /\ ~dirty'[t] /\ ~torn'[t] /\ commits'[t] = 0
    BY <2>2 DEF Restart, git
  <2>4. \A r \in Removers : removal'[r].task = t => removal'[r].at \in {"idle", "refused"}
    BY <1>2, <1>4, <2>2 DEF Taking
  <2> QED BY <2>1, <2>3, <2>4
<1>7. TurnsAreOurs' /\ Mine'
  BY DEF Inv, TypeOK, TurnsAreOurs, Mine, Restart
<1>8. Gone' /\ Lost'
  BY <1>2 DEF Gone, Lost, Past, Restart, RestoredWorkspace
<1>9. Quiet'
  <2> SUFFICES ASSUME NEW r \in Removers, removal'[r].at \in Taking, ~removal'[r].crossed
               PROVE  /\ turn'[removal'[r].task] = "idle"
                      /\ ~stray'[removal'[r].task]
                      /\ ~removal'[r].force => ~dirty'[removal'[r].task]
    BY DEF Quiet
  <2> DEFINE t == removal[r].task
  <2>1. /\ removal'[r].at = "adrift" /\ removal'[r].task = t
        /\ removal'[r].force = removal[r].force /\ ~removal[r].crossed
    BY <1>2 DEF Taking
  <2>2. removal[r].at \in Taking /\ t \in Tasks
    BY <1>1, <1>4, <2>1 DEF Calls
  <2>3. turn[t] = "idle" /\ ~stray[t]
    BY <2>1, <2>2 DEF Inv, Quiet
  <2>4. ~removal[r].force => ~dirty[t]
    BY <1>2, <1>4, <2>1, <2>2 DEF Inv, Quiet, GitGoesOn, Taking
  <2> HIDE DEF t
  <2>5. turn'[t] = "idle" /\ ~stray'[t] /\ dirty' = dirty
    BY <2>2, <2>3 DEF Restart, git
  <2> QED BY <2>1, <2>4, <2>5
<1> QED BY <1>5, <1>6, <1>7, <1>8, <1>9 DEF Inv

\* Every step keeps the invariant.
LEMMA StepInv == Inv /\ [Next]_vars => Inv'
<1> SUFFICES ASSUME Inv, [Next]_vars PROVE Inv'
  OBVIOUS
<1>1. CASE UNCHANGED vars
  BY <1>1 DEF vars, task, git, Inv, TypeOK, Fresh, TurnsAreOurs, Mine, Gone, Lost, Quiet, Turns,
              Steps, Taking, Past
<1> QED BY <1>1, StartInv, TurnInv, WorkInv, RemoveInv, RestartInv DEF Next

LEMMA SpecInv == Spec => []Inv
<1> QED BY InitInv, StepInv, PTL DEF Spec

-----------------------------------------------------------------------------

\* The variables of Worktrees keep their types.
THEOREM TreesTypeCorrect == Spec => []TypeOK
<1>1. Inv => TypeOK
  BY DEF Inv
<1> QED BY <1>1, SpecInv, PTL

\* Whatever fails or races, a tree of this server's tasks that still stands can
\* be asked for again, and nobody deletes its branch under it.
THEOREM StaysRemovable == Spec => []TreeStaysRemovable
<1>1. Inv => TreeStaysRemovable
  BY DEF Inv, Mine, TreeStaysRemovable
<1> QED BY <1>1, SpecInv, PTL

\* The diff of a task counts the commits of all of its turns, or none when its base
\* was never recorded or git fails; it calls a directory unchanged only then or when
\* it is (newTask, prepareFollowup, gitx.Summarize).
THEOREM DiffIsComplete == Spec => []DiffShowsTheWork
<1>1. ASSUME Inv, NEW t \in Tasks, stage[t] = "known", ~restored[t],
             NEW failed \in SUBSET Commands, NEW lister \in Listers
      PROVE  LET rep == Summarize(t, base[t], failed, lister)
             IN  /\ rep.commits # commits[t] =>
                      rep.commits = 0 /\ (base[t] = Unknown \/ "log" \in failed)
                 /\ ~rep.files /\ rep.commits = 0 =>
                      \/ failed # {}
                      \/ ~dirty[t] /\ ~torn[t] /\ (commits[t] = 0 \/ base[t] = Unknown)
  <2>1. commits[t] \in Nat /\ base[t] \in {0, Unknown}
    BY <1>1, WorktreesAssumption DEF Inv, TypeOK, Mine
  <2> QED BY <2>1 DEF Summarize, Unknown
<1>2. Inv => DiffShowsTheWork
  BY <1>1 DEF DiffShowsTheWork
<1> QED BY <1>2, SpecInv, PTL

\* What takes a tree away is git, for a call that got there.
LEMMA OnlyRemovals ==
  ASSUME Inv, [Next]_vars, NEW t \in Tasks, stands[t], ~stands'[t]
  PROVE  \E r \in Removers : DeletesRest(r) /\ removal[r].task = t
<1>1. ~UNCHANGED stands
  OBVIOUS
<1>2. ~(\E u \in Tasks : Start(u) \/ Turn(u) \/ Work(u))
  BY <1>1 DEF Inv, TypeOK, Start, NewWorktree, NewTask, StartRefused, PersistStart, Turn,
     FollowupClaims, Launch, LaunchFails, Settle, Save, Evict, Work, Edits, Commits,
     StrayEnds, git
<1>3. ~Restart /\ ~UNCHANGED vars
  BY <1>1 DEF Restart, vars, git
<1>4. PICK r \in Removers : RemoveWorktree(r)
  BY <1>2, <1>3 DEF Next
<1>5. DeletesRest(r)
  BY <1>1, <1>4 DEF RemoveWorktree, Looks, Checks, GitLooks, DeletesSome, RemoveFails,
     DeletesBranch, Forgets, Persists, git
<1>6. removal[r].task = t
  BY <1>5 DEF DeletesRest, Inv, TypeOK
<1> QED BY <1>5, <1>6

\* And what makes uncommitted work disappear without a commit is git too.
LEMMA OnlyDeletions ==
  ASSUME Inv, [Next]_vars, NEW t \in Tasks, dirty[t], ~dirty'[t], commits'[t] = commits[t]
  PROVE  \E r \in Removers : (DeletesSome(r) \/ DeletesRest(r)) /\ removal[r].task = t
<1>1. ~UNCHANGED dirty
  OBVIOUS
<1>2. ASSUME NEW u \in Tasks, Commits(u)
      PROVE  FALSE
  <2>1. commits[u] \in Nat /\ commits \in [Tasks -> 0..MaxCommits] /\ dirty \in [Tasks -> BOOLEAN]
    BY WorktreesAssumption DEF Inv, TypeOK
  <2>2. u = t
    BY <1>2, <2>1 DEF Commits
  <2>3. commits'[t] = commits[t] + 1
    BY <1>2, <2>1, <2>2 DEF Commits
  <2> QED BY <2>1, <2>2, <2>3
<1>3. ~(\E u \in Tasks : Start(u) \/ Turn(u) \/ Work(u))
  BY <1>1, <1>2 DEF Inv, TypeOK, Start, NewWorktree, NewTask, StartRefused, PersistStart, Turn,
     FollowupClaims, Launch, LaunchFails, Settle, Save, Evict, Work, Edits, StrayEnds, git
<1>4. ~Restart /\ ~UNCHANGED vars
  BY <1>1 DEF Restart, vars, git
<1>5. PICK r \in Removers : RemoveWorktree(r)
  BY <1>3, <1>4 DEF Next
<1>6. DeletesSome(r) \/ DeletesRest(r)
  BY <1>1, <1>5 DEF RemoveWorktree, Looks, Checks, GitLooks, RemoveFails, DeletesBranch,
     Forgets, Persists, git
<1>7. removal[r].task = t
  BY <1>6 DEF DeletesSome, DeletesRest, Inv, TypeOK
<1> QED BY <1>6, <1>7

\* Uncommitted work is lost only to a call with force or to one that a follow-up
\* crossed, however the call's own check failed, git was stopped, or the server
\* went away (RemoveWorktree, prepareFollowup).
THEOREM WorkIsKept == Spec => UnforcedKeepsWork
<1>1. ASSUME Inv, [Next]_vars, NEW t \in Tasks, dirty[t], ~dirty'[t], commits'[t] = commits[t]
      PROVE  \E r \in Removers : /\ removal[r].task = t
                                 /\ removal[r].at \in {"deleting", "adrift"}
                                 /\ removal[r].force \/ removal[r].crossed
  <2>1. PICK r \in Removers : (DeletesSome(r) \/ DeletesRest(r)) /\ removal[r].task = t
    BY <1>1, OnlyDeletions
  <2>2. removal[r].at \in {"deleting", "adrift"}
    BY <2>1 DEF DeletesSome, DeletesRest, Advances
  <2>3. removal[r].force \/ removal[r].crossed
    BY <1>1, <2>1, <2>2 DEF Inv, Quiet, Taking
  <2> QED BY <2>1, <2>2, <2>3
<1>2. Inv /\ [Next]_vars =>
        [\A t \in Tasks : dirty[t] /\ ~dirty'[t] /\ commits'[t] = commits[t] =>
           \E r \in Removers : /\ removal[r].task = t
                               /\ removal[r].at \in {"deleting", "adrift"}
                               /\ removal[r].force \/ removal[r].crossed]_vars
  BY <1>1
<1> QED BY <1>2, SpecInv, PTL DEF Spec, UnforcedKeepsWork

\* Whoever restarts the server, nobody takes the tree of a surviving worker but a
\* git of the earlier server whose call the worker's turn had crossed.
THEOREM StrayIsSafe == Spec => StrayKeepsItsTree
<1>1. ASSUME Inv, [Next]_vars, NEW t \in Tasks, stray[t], stands[t], ~stands'[t]
      PROVE  \E r \in Removers : /\ removal[r].task = t
                                 /\ removal[r].at = "adrift"
                                 /\ removal[r].crossed
  <2>1. PICK r \in Removers : DeletesRest(r) /\ removal[r].task = t
    BY <1>1, OnlyRemovals
  <2>2. removal[r].at = "adrift"
    BY <1>1, <2>1 DEF DeletesRest, Advances, Inv, Lost
  <2>3. removal[r].crossed
    BY <1>1, <2>1, <2>2 DEF Inv, Quiet, Taking
  <2> QED BY <2>1, <2>2, <2>3
<1>2. Inv /\ [Next]_vars =>
        [\A t \in Tasks : stray[t] /\ stands[t] /\ ~stands'[t] =>
           \E r \in Removers : /\ removal[r].task = t
                               /\ removal[r].at = "adrift"
                               /\ removal[r].crossed]_vars
  BY <1>1
<1> QED BY <1>2, SpecInv, PTL DEF Spec, StrayKeepsItsTree
=============================================================================
