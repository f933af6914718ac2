--------------------------- MODULE MCLocalPipeline ---------------------------
(* Instances of LocalPipeline for TLC. *)
EXTENDS LocalPipeline

=============================================================================
