----------------------------- MODULE MCBatchJob -----------------------------
(* BatchJob for TLC: commands are interchangeable, and so are views.       *)
EXTENDS BatchJob, TLC

Symmetric == Permutations(Commands) \cup Permutations(Views)
=============================================================================
