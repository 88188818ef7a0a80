--------------------------- MODULE MCSimpleSwitch ---------------------------
(* Instance of SimpleSwitch for TLC; the cfg files choose the bounds. *)
EXTENDS SimpleSwitch
=============================================================================
