------------------------------ MODULE MCEngine ------------------------------
(* Model checking Engine: it has no constants. *)
EXTENDS Engine
=============================================================================
