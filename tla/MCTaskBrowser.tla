---------------------------- MODULE MCTaskBrowser ----------------------------
(* Instances of TaskBrowser for TLC. *)
EXTENDS TaskBrowser, TLC

Symmetry == Permutations(Tab) \cup Permutations(Call)

=============================================================================
