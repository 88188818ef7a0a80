---------------------------- MODULE CameraPromise ----------------------------
(***************************************************************************)
(* What the command mq camera promises: one picture for each request, in   *)
(* the order of the requests.                                              *)
(***************************************************************************)
EXTENDS Naturals, Sequences

CONSTANT Requests   \* the requests that may be made

VARIABLES
    asked,   \* the requests made so far
    taken    \* the requests a picture was taken for

Init == asked = <<>> /\ taken = <<>>

Ask(r) == asked' = Append(asked, r) /\ UNCHANGED taken

Take ==
    /\ Len(taken) < Len(asked)
    /\ taken' = Append(taken, asked[Len(taken) + 1])
    /\ UNCHANGED asked

Next == Take \/ \E r \in Requests : Ask(r)

Spec == Init /\ [][Next]_<<asked, taken>>
=============================================================================
