----------------------------- MODULE MCJobQueue -----------------------------
(* Small instances of JobQueue for TLC. *)
EXTENDS JobQueue, TLC

\* Processes and jobs are interchangeable in every safety property.
Symmetry == Permutations(Jobs) \cup Permutations(Workers) \cup Permutations(Dispatchers)
=============================================================================
