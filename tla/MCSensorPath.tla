--------------------------- MODULE MCSensorPath ---------------------------
(* Instance of SensorPath for TLC; the cfg files choose the bounds. *)
EXTENDS SensorPath
=============================================================================
