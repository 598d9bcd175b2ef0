--------------------------- MODULE MCComputeEngine ---------------------------
(* Model-checking instances of ComputeEngine. *)
EXTENDS ComputeEngine
=============================================================================
