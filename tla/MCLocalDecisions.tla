--------------------------- MODULE MCLocalDecisions ---------------------------
(* Instances of LocalDecisions for TLC. *)
EXTENDS LocalDecisions

Symmetry == Permutations(Worker) \cup Permutations(Decision) \cup Permutations(Paragraph)

=============================================================================
