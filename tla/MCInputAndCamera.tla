-------------------------- MODULE MCInputAndCamera --------------------------
(* Instance of InputAndCamera for TLC; the cfg file chooses the bounds. *)
EXTENDS InputAndCamera
=============================================================================
