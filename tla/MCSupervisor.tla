---------------------------- MODULE MCSupervisor ----------------------------
(* Instance of Supervisor for TLC; the cfg files choose the bounds. *)
EXTENDS Supervisor
=============================================================================
