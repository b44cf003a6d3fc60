---- MODULE MCInstances ----
(* Instances for TLC, and Instances with startups that do not overlap. *)
EXTENDS Instances, TLC

\* Processes are interchangeable, and so are task ids.
IdSymmetry == Permutations(Procs) \cup Permutations(Tasks)

StartingUp == {p \in Procs : stage[p] \in {"pruned", "looked", "locked"}}

\* A process starts only when every other one is serving or gone.
StartsApart == Cardinality(StartingUp) <= 1

OneByOne == Init /\ [][Next /\ StartsApart']_vars

\* At most one permission request is out, at most one watcher outlives its turn
\* and at most one task has follow-ups, whichever processes and tasks they are.
FewAtOnce ==
  /\ Cardinality({x \in Procs \X Tasks : asking[x[1]][x[2]]}) <= 1
  /\ Cardinality({x \in Procs \X Tasks : late[x[1]][x[2]]}) <= 1
  /\ Cardinality({t \in Tasks : followups[t] > 0}) <= 1

Bounded == Init /\ [][Next /\ FewAtOnce']_vars
====
