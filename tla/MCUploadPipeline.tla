--------------------------- MODULE MCUploadPipeline ---------------------------
(* Instances of UploadPipeline for TLC. *)
EXTENDS UploadPipeline, TLC

(* Calls and instances are compared for equality only. *)
Symmetry == Permutations(Calls) \union Permutations(Sweepers)

===============================================================================
