----------------------------- MODULE MCSimpleIo -----------------------------
(* Instance of SimpleIo for TLC; the cfg file chooses the bounds.  The two   *)
(* writers are interchangeable, but symmetry is unsound for liveness.        *)
EXTENDS SimpleIo
=============================================================================
