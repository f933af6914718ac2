--------------------------- MODULE MCUploadLimiter ---------------------------
(* Instances of UploadLimiter for TLC. *)
EXTENDS UploadLimiter, TLC

Symmetry == Permutations(Key)

=============================================================================
