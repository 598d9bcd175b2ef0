------------------------- MODULE MCGenerationChannel -------------------------
(* Model-checking instances of GenerationChannel. *)
EXTENDS GenerationChannel
=============================================================================
