---------------------------- MODULE MCWorkerLoop ----------------------------
(* A pane in a workspace. *)
EXTENDS WorkerLoop

CONSTANTS p1, w1

OnePane == {p1}
OneWorkspace == {w1}
=============================================================================
