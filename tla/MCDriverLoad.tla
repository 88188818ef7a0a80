---------------------------- MODULE MCDriverLoad ----------------------------
(* Instance of DriverLoad for TLC: the drivers that share their pins by twos *)
(* and bmp280, which shares none, by itself.                                 *)
EXTENDS DriverLoad

MCMachines == {{"engine", "simple_io"}, {"simple_io", "simple_switch"},
               {"engine", "simple_switch"}, {"bmp280"}}
=============================================================================
