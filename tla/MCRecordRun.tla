---------------------------- MODULE MCRecordRun ----------------------------
(* Instances of RecordRun for TLC. *)
EXTENDS RecordRun, TLC

\* Binary runs are alike.
Symmetry == Permutations(Runs \ Raw)

\* The raw recorder is given less.
MCMaxBytes == [r \in Runs |-> IF r \in Raw THEN 4 ELSE 6]
=============================================================================
