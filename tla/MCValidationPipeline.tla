------------------------ MODULE MCValidationPipeline ------------------------
(* Small instances of ValidationPipeline for TLC. *)
EXTENDS ValidationPipeline, TLC

\* Units and slots are interchangeable in every safety property.
Symmetry == Permutations(Units) \cup Permutations(Slots)
=============================================================================
