----------------------------- MODULE MCWatchdog -----------------------------
(* Instance of Watchdog for TLC: of the parts that are collected one in the  *)
(* middle and those of the engine may be unreadable.                         *)
EXTENDS Watchdog

MCUnreadable == {Part.memory, Part.motor_1, Part.motor_2}
=============================================================================
