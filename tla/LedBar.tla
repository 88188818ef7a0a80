------------------------------- MODULE LedBar -------------------------------
(***************************************************************************)
(* What drivers/simple_switch/README.md promises about the LEDs: a bar of  *)
(* Length LEDs that is lit from the left.  A gesture lights the next LED,  *)
(* turns off the rightmost lit one, or sets the bar to a fixed length.     *)
(***************************************************************************)
EXTENDS Integers

CONSTANTS
    Length,  \* number of LEDs, numbered 0 .. Length-1 from the left
    Presets  \* the fixed lengths

VARIABLE lit  \* the LEDs that are on

Bar(n) == 0 .. n - 1

Init == lit = Bar(0)

Grow == \E n \in 0 .. Length - 1 : lit = Bar(n) /\ lit' = Bar(n + 1)

Shrink == \E n \in 1 .. Length : lit = Bar(n) /\ lit' = Bar(n - 1)

Preset == \E n \in Presets : lit' = Bar(n)

Next == Grow \/ Shrink \/ Preset

Spec == Init /\ [][Next]_lit
=============================================================================
