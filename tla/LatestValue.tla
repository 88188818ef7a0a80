---------------------------- MODULE LatestValue ----------------------------
(***************************************************************************)
(* What the sensor path promises to an MQTT subscriber, without any of the *)
(* machinery: a source takes numbered measurements, and a display shows a  *)
(* temperature and a pressure.  Neither of the two is ever ahead of the    *)
(* source or goes back to an older measurement.  Nothing relates the two   *)
(* to each other: the code never promises that they come from the same     *)
(* measurement.                                                            *)
(***************************************************************************)
EXTENDS Integers

VARIABLES
    taken,  \* number of the newest measurement, 0 before the first
    shown   \* numbers of the measurements the display shows, 0 for none

vars == <<taken, shown>>

Init ==
    /\ taken = 0
    /\ shown = [temp |-> 0, press |-> 0]

Measure ==
    /\ taken' = taken + 1
    /\ UNCHANGED shown

Show ==
    /\ \E t \in shown.temp .. taken, p \in shown.press .. taken :
           shown' = [temp |-> t, press |-> p]
    /\ UNCHANGED taken

Next == Measure \/ Show

Spec == Init /\ [][Next]_vars
=============================================================================
