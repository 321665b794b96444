------------------------- MODULE MCDocumentSessions -------------------------
(* Small instances of DocumentSessions for TLC. *)
EXTENDS DocumentSessions, TLC

\* Requests of a kind and processes are interchangeable in every safety property.
Symmetry == Permutations(Uploads) \cup Permutations(Queries) \cup Permutations(Procs)
=============================================================================
