--------------------------- MODULE MCSysfsNumbers ---------------------------
(* Instance of SysfsNumbers for TLC.  The bytes span what the converter can  *)
(* deliver, closely around zero degrees and at room temperature; one byte at *)
(* a time fails, with -EIO or -EREMOTEIO.  The speeds are the bounds of      *)
(* calibrate_ms and numbers of one character too many.                       *)
EXTENDS SysfsNumbers

MCBytes ==
    ({0, 106, 107, 127, 255} \X {0, 129, 169, 250} \X {0})
    \cup ({-5, -121} \X {0, 237} \X {0})
    \cup ({127} \X {-5, -121} \X {0})
    \cup ({127} \X {237} \X {-5, -121})
MCPressures == {0, 101305}
MCNotANumber == [whole |-> 0, part |-> 100]
MCZero == [whole |-> 0, part |-> 0]
MCStores == {<<>>, <<MCNotANumber>>,
             <<[whole |-> -12, part |-> 5], MCZero, MCNotANumber>>}
MCNumbers == {-1000, 0, 1, 10000, 10001}
MCTails == {<<1, 0>>, <<10, 7>>}

\* The sensor of this instance meets the conditions of the theorems.
ASSUME SensorIsOrdinary ==
    LinearTermDominates /\ NearDataSheet /\ ErrorsOfLinux
=============================================================================
