----------------------------- MODULE MCWorkbench -----------------------------
(* Instances of Workbench for TLC. *)
EXTENDS Workbench, TLC

Symmetry == Permutations(Request) \cup Permutations(Paragraph)

=============================================================================
