----------------------------- MODULE Worktrees -----------------------------
(***************************************************************************)
(* Tasks that run isolated, each in a git worktree of its own: how a tree  *)
(* comes and goes while workers and people work in it, calls of            *)
(* agent_remove_worktree race each other and follow-ups, git fails, tasks  *)
(* are evicted and the server is restarted.                                *)
(*                                                                         *)
(* Git is external.  A tree is whether it stands, the commits made in it   *)
(* since it was cut, whether it holds uncommitted work and whether a       *)
(* removal has deleted part of it.  Any git command may fail or be stopped *)
(* by its timeout.  "git worktree remove" first looks for uncommitted work *)
(* and then deletes file by file, while others go on in the tree.          *)
(***************************************************************************)
EXTENDS Integers, FiniteSets

CONSTANTS
  Tasks,        \* calls of agent_start_task with isolate
  Removers,     \* calls of agent_remove_worktree
  MaxTurns,     \* bound on the turns of a task
  MaxCommits,   \* bound on the commits made in a tree
  MaxRestarts   \* bound on the restarts of the server

ASSUME WorktreesAssumption == {MaxTurns, MaxCommits, MaxRestarts} \subseteq Nat

VARIABLES
  stage,     \* "none", "cut": the tree is made, "known": m.tasks has it, "gone"
  turn,      \* t.running is that it is not "idle"
  orphan,    \* t.status is StatusOrphaned
  isolated,  \* t.workspace.Isolated()
  base,      \* t.baseCommit, as the number of commits before it
  unsaved,   \* the persist that ends a turn is still to come
  turns,     \* turns of the task so far
  record,    \* the status in the stored record
  stray,     \* a worker of an earlier server still runs
  stands,    \* the worktree exists
  branch,    \* its branch exists
  commits,   \* made on the branch since the tree was cut
  dirty,     \* the tree holds uncommitted changes or untracked files
  torn,      \* files of the tree were deleted by a removal that is not through
  removal,   \* the calls of RemoveWorktree; "crossed", for the properties only: a
             \* follow-up has claimed the task since the call looked at it
  restored,  \* the task was made by an earlier server; for the properties only
  restarts

task   == <<stage, turn, orphan, isolated, base, unsaved, turns, record, restored>>
git    == <<stands, branch, commits, dirty, torn>>
vars   == <<task, stray, git, removal, restarts>>

Unknown == -1
Turns == {"idle", "starting", "claimed", "working"}

\* Where a call is: git deletes the tree, and may do so "adrift", for a server that
\* is gone, until it is "over".
Steps == {"idle", "looked", "checked", "deleting", "removed", "unbranched", "forgotten", "done",
          "refused", "adrift", "over"}

\* The calls that may still take the tree.
Taking == {"looked", "checked", "deleting", "adrift"}

NewCall == [at : {"idle"}, task : Tasks, force : BOOLEAN, crossed : {FALSE}]

Init ==
  /\ stage = [t \in Tasks |-> "none"] /\ turn = [t \in Tasks |-> "idle"]
  /\ orphan = [t \in Tasks |-> FALSE] /\ isolated = [t \in Tasks |-> FALSE]
  /\ base = [t \in Tasks |-> Unknown] /\ unsaved = [t \in Tasks |-> FALSE]
  /\ turns = [t \in Tasks |-> 0] /\ record = [t \in Tasks |-> "none"]
  /\ stray = [t \in Tasks |-> FALSE]
  /\ stands = [t \in Tasks |-> FALSE] /\ branch = [t \in Tasks |-> FALSE]
  /\ commits = [t \in Tasks |-> 0] /\ dirty = [t \in Tasks |-> FALSE]
  /\ torn = [t \in Tasks |-> FALSE]
  /\ removal \in [Removers -> NewCall]
  /\ restored = [t \in Tasks |-> FALSE]
  /\ restarts = 0

-----------------------------------------------------------------------------
(* The start of an isolated task.                                          *)

\* resolveWorkspace: the tree exists before the task does.
NewWorktree(t) ==
  /\ stage[t] = "none"
  /\ stage' = [stage EXCEPT ![t] = "cut"]
  /\ stands' = [stands EXCEPT ![t] = TRUE]
  /\ branch' = [branch EXCEPT ![t] = TRUE]
  /\ UNCHANGED <<turn, orphan, isolated, base, unsaved, turns, record, restored, stray,
                 commits, dirty, torn, removal, restarts>>

\* newTask and admit; the base is read now, before a worker commits, unless git
\* fails or takes too long.
NewTask(t) ==
  /\ stage[t] = "cut"
  /\ stage' = [stage EXCEPT ![t] = "known"]
  /\ turn' = [turn EXCEPT ![t] = "starting"]
  /\ isolated' = [isolated EXCEPT ![t] = TRUE]
  /\ \E b \in {commits[t], Unknown} : base' = [base EXCEPT ![t] = b]
  /\ turns' = [turns EXCEPT ![t] = 1]
  /\ UNCHANGED <<orphan, unsaved, record, restored, stray, git, removal, restarts>>

\* admit refuses: the handler returns the error, and the tree stays.
StartRefused(t) ==
  /\ stage[t] = "cut"
  /\ stage' = [stage EXCEPT ![t] = "gone"]
  /\ UNCHANGED <<turn, orphan, isolated, base, unsaved, turns, record, restored, stray,
                 git, removal, restarts>>

PersistStart(t) ==
  /\ turn[t] = "starting"
  /\ turn' = [turn EXCEPT ![t] = "claimed"]
  /\ record' = [record EXCEPT ![t] = "running"]
  /\ UNCHANGED <<stage, orphan, isolated, base, unsaved, turns, restored, stray, git,
                 removal, restarts>>

Start(t) == NewWorktree(t) \/ NewTask(t) \/ StartRefused(t) \/ PersistStart(t)

-----------------------------------------------------------------------------
(* The turns of a task.                                                    *)

\* Mutant: what a task changed is compared with where its last turn started.
FollowupClaimsAfresh(t) ==
  /\ stage[t] = "known" /\ turn[t] = "idle" /\ ~orphan[t]
  /\ turns[t] < MaxTurns
  /\ turn' = [turn EXCEPT ![t] = "claimed"]
  /\ turns' = [turns EXCEPT ![t] = @ + 1]
  /\ base' = [base EXCEPT ![t] = commits[t]]
  /\ UNCHANGED <<stage, orphan, isolated, unsaved, record, restored, stray, git, removal,
                 restarts>>

\* prepareFollowup: it asks neither for the tree nor for a removal in progress.
FollowupClaims(t) ==
  /\ stage[t] = "known" /\ turn[t] = "idle" /\ ~orphan[t]
  /\ turns[t] < MaxTurns
  /\ turn' = [turn EXCEPT ![t] = "claimed"]
  /\ turns' = [turns EXCEPT ![t] = @ + 1]
  /\ removal' = [r \in Removers |->
                   IF removal[r].task = t /\ removal[r].at \in Taking
                   THEN [removal[r] EXCEPT !.crossed = TRUE] ELSE removal[r]]
  /\ UNCHANGED <<stage, orphan, isolated, base, unsaved, record, restored, stray, git, restarts>>

\* The worker starts in the tree.
Launch(t) ==
  /\ turn[t] = "claimed" /\ stands[t]
  /\ turn' = [turn EXCEPT ![t] = "working"]
  /\ UNCHANGED <<stage, orphan, isolated, base, unsaved, turns, record, restored, stray,
                 git, removal, restarts>>

\* fail: without the tree always; nothing is persisted.
LaunchFails(t) ==
  /\ turn[t] = "claimed"
  /\ turn' = [turn EXCEPT ![t] = "idle"]
  /\ UNCHANGED <<stage, orphan, isolated, base, unsaved, turns, record, restored, stray,
                 git, removal, restarts>>

\* The final block of runTurn.
Settle(t) ==
  /\ turn[t] = "working"
  /\ turn' = [turn EXCEPT ![t] = "idle"]
  /\ unsaved' = [unsaved EXCEPT ![t] = TRUE]
  /\ UNCHANGED <<stage, orphan, isolated, base, turns, record, restored, stray, git,
                 removal, restarts>>

\* What persist writes: the status of the moment.
Status(t) == IF turn[t] = "idle" THEN "ended" ELSE "running"

Save(t) ==
  /\ unsaved[t]
  /\ unsaved' = [unsaved EXCEPT ![t] = FALSE]
  /\ record' = [record EXCEPT ![t] = Status(t)]
  /\ UNCHANGED <<stage, turn, orphan, isolated, base, turns, restored, stray, git, removal,
                 restarts>>

\* Another task is admitted and this one is dropped with its files.
Evict(t) ==
  /\ stage[t] = "known" /\ turn[t] = "idle"
  /\ stage' = [stage EXCEPT ![t] = "gone"]
  /\ record' = [record EXCEPT ![t] = "none"]
  /\ UNCHANGED <<turn, orphan, isolated, base, unsaved, turns, restored, stray, git, removal,
                 restarts>>

Turn(t) == FollowupClaims(t) \/ Launch(t) \/ LaunchFails(t) \/ Settle(t) \/ Save(t) \/ Evict(t)

-----------------------------------------------------------------------------
(* Work in a tree, by its worker or a person.                              *)

Edits(t) ==
  /\ stands[t] /\ (turn[t] = "working" \/ stray[t])
  /\ dirty' = [dirty EXCEPT ![t] = TRUE]
  /\ UNCHANGED <<task, stray, stands, branch, commits, torn, removal, restarts>>

\* What was deleted may be committed with the rest.
Commits(t) ==
  /\ stands[t] /\ dirty[t] /\ commits[t] < MaxCommits
  /\ dirty' = [dirty EXCEPT ![t] = FALSE]
  /\ \E left \in {torn[t], FALSE} : torn' = [torn EXCEPT ![t] = left]
  /\ commits' = [commits EXCEPT ![t] = @ + 1]
  /\ UNCHANGED <<task, stray, stands, branch, removal, restarts>>

StrayEnds(t) ==
  /\ stray[t]
  /\ stray' = [stray EXCEPT ![t] = FALSE]
  /\ UNCHANGED <<task, git, removal, restarts>>

Work(t) == Edits(t) \/ Commits(t) \/ StrayEnds(t)

-----------------------------------------------------------------------------
(* agent_remove_worktree.                                                  *)

\* A call that got as far as "from" goes on to "to".
Advances(r, from, to) ==
  /\ removal[r].at = from
  /\ removal' = [removal EXCEPT ![r].at = to]

\* Get, and the workspace and t.running under t.mu; without force, git is
\* asked next.
Looks(r) ==
  LET t == removal[r].task
  IN  /\ Advances(r, "idle",
                  IF stage[t] # "known" \/ ~isolated[t] \/ turn[t] # "idle" THEN "refused"
                  ELSE IF removal[r].force THEN "checked"
                  ELSE "looked")
      /\ UNCHANGED <<task, stray, git, restarts>>

\* gitx.Summarize against base b, when the git commands in "failed" fail, which it
\* overlooks.  The uncommitted work is listed by git diff or, if it is in new
\* files, by git ls-files; against HEAD when the base is not known.
Summarize(t, b, failed, lister) ==
  [commits |-> IF b # Unknown /\ "log" \notin failed THEN commits[t] - b ELSE 0,
   files   |-> \/ dirty[t] /\ lister \notin failed
               \/ (torn[t] \/ b \notin {Unknown, commits[t]}) /\ "diff" \notin failed,
   dirty   |-> (dirty[t] \/ torn[t]) /\ "status" \notin failed]

Commands == {"log", "diff", "ls-files", "status"}
Listers == {"diff", "ls-files"}

\* The call's own check; when git cannot say, it goes on.
Checks(r) ==
  \E failed \in SUBSET Commands, lister \in Listers :
    LET rep == Summarize(removal[r].task, Unknown, failed, lister)
    IN  /\ Advances(r, "looked", IF rep.dirty \/ rep.files THEN "refused" ELSE "checked")
        /\ UNCHANGED <<task, stray, git, restarts>>

-----------------------------------------------------------------------------
(* git worktree remove.                                                    *)

\* Mutant: every removal is forced on git, since the changes were looked for.
GitLetsAny(r) == stands[removal[r].task]

\* Without force git refuses a tree with changes.
GitLets(r) ==
  LET t == removal[r].task
  IN  stands[t] /\ (removal[r].force \/ ~(dirty[t] \/ torn[t]))

GitLooks(r) ==
  /\ GitLets(r)
  /\ Advances(r, "checked", "deleting")
  /\ UNCHANGED <<task, stray, git, restarts>>

\* After its look git asks no more.
DeletesSome(r) ==
  LET t == removal[r].task
  IN  /\ removal[r].at \in {"deleting", "adrift"}
      /\ stands[t]
      /\ torn' = [torn EXCEPT ![t] = TRUE]
      /\ \E left \in {dirty[t], FALSE} : dirty' = [dirty EXCEPT ![t] = left]
      /\ UNCHANGED <<task, stray, stands, branch, commits, removal, restarts>>

\* The rest of the tree, or what another call has left of it; git may still fail
\* or be stopped after that.
DeletesRest(r) ==
  LET t == removal[r].task
  IN  /\ \/ Advances(r, "deleting", "removed")
         \/ Advances(r, "deleting", "refused")
         \/ Advances(r, "adrift", "over")
      /\ stands' = [stands EXCEPT ![t] = FALSE]
      /\ dirty' = [dirty EXCEPT ![t] = FALSE]
      /\ torn' = [torn EXCEPT ![t] = FALSE]
      /\ UNCHANGED <<task, stray, branch, commits, restarts>>

\* Mutant: the error is not looked at.
RemoveFailsOn(r) ==
  /\ Advances(r, "checked", "removed") \/ Advances(r, "deleting", "removed")
  /\ UNCHANGED <<task, stray, git, restarts>>

\* git refuses, does not find the tree, fails, or is stopped by its timeout with
\* part of the tree deleted.
RemoveFails(r) ==
  /\ \/ Advances(r, "checked", "refused")
     \/ Advances(r, "deleting", "refused")
     \/ Advances(r, "adrift", "over")
  /\ UNCHANGED <<task, stray, git, restarts>>

-----------------------------------------------------------------------------
(* The rest of agent_remove_worktree.                                      *)

\* git branch -D, whose error nobody looks at.
DeletesBranch(r) ==
  \E deleted \in BOOLEAN :
    /\ Advances(r, "removed", "unbranched")
    /\ branch' = [branch EXCEPT ![removal[r].task] = @ /\ ~deleted]
    /\ UNCHANGED <<task, stray, stands, commits, dirty, torn, restarts>>

\* t.workspace under t.mu.
Forgets(r) ==
  /\ Advances(r, "unbranched", "forgotten")
  /\ isolated' = [isolated EXCEPT ![removal[r].task] = FALSE]
  /\ UNCHANGED <<stage, turn, orphan, base, unsaved, turns, record, restored, stray, git, restarts>>

\* The persist at the end; it brings back the record of an evicted task.
Persists(r) ==
  LET t == removal[r].task
  IN  /\ Advances(r, "forgotten", "done")
      /\ record' = [record EXCEPT ![t] = Status(t)]
      /\ UNCHANGED <<stage, turn, orphan, isolated, base, unsaved, turns, restored, stray,
                     git, restarts>>

RemoveWorktree(r) ==
  \/ Looks(r) \/ Checks(r)
  \/ GitLooks(r) \/ DeletesSome(r) \/ DeletesRest(r) \/ RemoveFails(r)
  \/ DeletesBranch(r) \/ Forgets(r) \/ Persists(r)

-----------------------------------------------------------------------------
(* The end of the server and the start of the next one.                    *)

\* Mutant: the workspace is restored from the record, with what else it says.
WorkspaceFromRecord(t) == stands[t]

\* taskFromSnapshot leaves the workspace at its zero value.
RestoredWorkspace(t) == FALSE

\* The call has a git that deletes, or is about to.
GitGoesOn(r) ==
  \/ removal[r].at \in {"deleting", "adrift"}
  \/ removal[r].at = "checked" /\ GitLets(r)

\* The server ends anywhere; its workers and a git that deletes may survive.  The
\* next one restores the records, without the workspace and the base commit.
Restart ==
  /\ restarts < MaxRestarts
  /\ restarts' = restarts + 1
  /\ \E survivors \in SUBSET {t \in Tasks : turn[t] = "working"} :
       stray' = [t \in Tasks |-> stray[t] \/ t \in survivors]
  /\ stage' = [t \in Tasks |-> IF record[t] # "none" THEN "known"
                               ELSE IF stage[t] = "none" THEN "none" ELSE "gone"]
  /\ turn' = [t \in Tasks |-> "idle"]
  /\ orphan' = [t \in Tasks |-> record[t] = "running"]
  /\ isolated' = [t \in Tasks |-> record[t] # "none" /\ RestoredWorkspace(t)]
  /\ base' = [t \in Tasks |-> Unknown]
  /\ unsaved' = [t \in Tasks |-> FALSE]
  /\ restored' = [t \in Tasks |-> record[t] # "none"]
  /\ \E new \in [Removers -> NewCall],
        left \in SUBSET {r \in Removers : GitGoesOn(r)} :
       removal' = [r \in Removers |-> IF r \in left THEN [removal[r] EXCEPT !.at = "adrift"]
                                                    ELSE new[r]]
  /\ UNCHANGED <<turns, record, git>>

-----------------------------------------------------------------------------

Next ==
  \/ \E t \in Tasks : Start(t) \/ Turn(t) \/ Work(t)
  \/ \E r \in Removers : RemoveWorktree(r)
  \/ Restart

Spec == Init /\ [][Next]_vars

-----------------------------------------------------------------------------
(* Properties.                                                             *)

\* The types of the variables.
TypeOK ==
  /\ stage \in [Tasks -> {"none", "cut", "known", "gone"}]
  /\ turn \in [Tasks -> Turns]
  /\ orphan \in [Tasks -> BOOLEAN] /\ isolated \in [Tasks -> BOOLEAN]
  /\ base \in [Tasks -> Nat \cup {Unknown}] /\ unsaved \in [Tasks -> BOOLEAN]
  /\ turns \in [Tasks -> Nat] /\ record \in [Tasks -> {"none", "running", "ended"}]
  /\ stray \in [Tasks -> BOOLEAN]
  /\ stands \in [Tasks -> BOOLEAN] /\ branch \in [Tasks -> BOOLEAN]
  /\ commits \in [Tasks -> 0..MaxCommits] /\ dirty \in [Tasks -> BOOLEAN]
  /\ torn \in [Tasks -> BOOLEAN]
  /\ removal \in [Removers -> [at : Steps, task : Tasks, force : BOOLEAN, crossed : BOOLEAN]]
  /\ restored \in [Tasks -> BOOLEAN] /\ restarts \in 0..MaxRestarts

\* Uncommitted work is lost only to a call with force, or to one that was under way
\* when a follow-up claimed the task: not because the check of the call failed, not
\* to a restart, and not to another call that had torn the tree before.
UnforcedKeepsWork ==
  [][\A t \in Tasks : dirty[t] /\ ~dirty'[t] /\ commits'[t] = commits[t] =>
       \E r \in Removers : /\ removal[r].task = t
                           /\ removal[r].at \in {"deleting", "adrift"}
                           /\ removal[r].force \/ removal[r].crossed]_vars

\* A worker that outlived its server keeps its tree, though the server that restored
\* the task sees no running turn and force does not ask git: it can lose it only to
\* a git of that earlier server, whose call the worker's own turn had crossed.
StrayKeepsItsTree ==
  [][\A t \in Tasks : stray[t] /\ stands[t] /\ ~stands'[t] =>
       \E r \in Removers : /\ removal[r].task = t
                           /\ removal[r].at = "adrift"
                           /\ removal[r].crossed]_vars

\* As long as a tree of a task of this server stands, it has its branch and
\* the task knows that it is isolated, so that a removal that failed half way
\* can be asked for again.
TreeStaysRemovable ==
  \A t \in Tasks : stage[t] = "known" /\ ~restored[t] /\ stands[t] =>
    isolated[t] /\ branch[t]

\* agent_task_diff of a task of this server counts all commits of all its turns or,
\* when the base was never recorded or git log failed, none; and it says that the
\* worker left the directory as it was only if that is so, or if a git command
\* failed, or if nothing but commits was made since a base that is not known.
DiffShowsTheWork ==
  \A t \in Tasks : stage[t] = "known" /\ ~restored[t] /\ stands[t] =>
    \A failed \in SUBSET Commands, lister \in Listers :
      LET rep == Summarize(t, base[t], failed, lister)
      IN  /\ rep.commits # commits[t] =>
               rep.commits = 0 /\ (base[t] = Unknown \/ "log" \in failed)
          /\ ~rep.files /\ rep.commits = 0 =>
               \/ failed # {}
               \/ ~dirty[t] /\ ~torn[t] /\ (commits[t] = 0 \/ base[t] = Unknown)
=============================================================================
