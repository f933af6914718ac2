--------------------------- MODULE MCTaskPipeline ---------------------------
(* Instances of TaskPipeline for TLC. *)
EXTENDS TaskPipeline, TLC

Symmetry == Permutations(Slot) \cup Permutations(Request)

=============================================================================
