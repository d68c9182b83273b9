--------------------------- MODULE MCChurnPipeline ---------------------------
(* Runs are interchangeable: nothing in ChurnPipeline tells one from another. *)
EXTENDS ChurnPipeline, TLC

MCSymmetry == Permutations(Runs)
=============================================================================
