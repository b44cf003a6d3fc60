---- MODULE MCViewerPage ----
(* A small instance of ViewerPage for TLC: one task whose transcript takes  *)
(* more than one read, and one to change to.                               *)
EXTENDS ViewerPage, TLC

CONSTANTS t1, t2

MCMaxFile == t1 :> 2 @@ t2 :> 1
====
