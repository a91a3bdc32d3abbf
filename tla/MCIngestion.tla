---------------------------- MODULE MCIngestion ----------------------------
(* Model-checking instances of Ingestion. *)
EXTENDS Ingestion, TLC

\* Tasks, sessions and contents are interchangeable; sound because the runs
\* that use it check safety only.
Symmetry == Permutations(Tasks) \cup Permutations(Contents) \cup Permutations(Letters)
=============================================================================
