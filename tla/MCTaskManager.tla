--------------------------- MODULE MCTaskManager ---------------------------
(* Small instances of TaskManager for TLC.                                 *)
EXTENDS TaskManager, TLC

\* Task ids are interchangeable until they are admitted.
TaskSymmetry == Permutations(Tasks)
=============================================================================
