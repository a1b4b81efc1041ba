----------------------------- MODULE MCChromoX ------------------------------
(***************************************************************************)
(* Instances of ChromoX: chromos and documents are interchangeable.        *)
(***************************************************************************)
EXTENDS ChromoX, TLC

Interchangeable == Permutations(Obj) \cup Permutations(Doc)

=============================================================================
