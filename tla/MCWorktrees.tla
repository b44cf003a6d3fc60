---- MODULE MCWorktrees ----
(* Small instances of Worktrees for TLC.                                   *)
EXTENDS Worktrees, TLC

CallSymmetry == Permutations(Removers)
====
