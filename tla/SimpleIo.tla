------------------------------ MODULE SimpleIo ------------------------------
(***************************************************************************)
(* The simple_io driver: a kernel thread runs six LED patterns in turn.    *)
(* Patterns 1 to 3 sleep on a wait queue between two changes, 4 changes by *)
(* itself, 5 follows the button and 6 reacts when it is released.  Writers *)
(* of the device file and rmmod steer the thread through wait_queue_flag,  *)
(* which everybody, the thread included, overwrites without a lock.        *)
(*                                                                         *)
(* The four LEDs of a group are always written together; "left" and        *)
(* "right" stand for the groups.                                           *)
(***************************************************************************)
EXTENDS Integers

CONSTANTS
    Writers,    \* processes that write to the device file
    Rmmod,      \* the process that unloads the module
    MaxWrites   \* bound: calls of write

ASSUME IoAssumption ==
    /\ Rmmod \notin Writers
    /\ MaxWrites \in Nat

Wakers == Writers \cup {Rmmod}
Groups == {"left", "right"}
Levels == {"OFF", "ON"}
Flags == {"WAIT", "KEY", "NEXT", "EXIT"}

\* The flags that end a pattern; a faulty variant forgets one.
StopOnNext == {"NEXT"}
StopFlags == {"NEXT", "EXIT"}

Dark == [g \in Groups |-> "OFF"]
Only(g) == [h \in Groups |-> IF h = g THEN "ON" ELSE "OFF"]

VARIABLES
    button,   \* level of GPIO_INPUT_1
    pattern,  \* which pattern function runs
    pc,       \* where in it the thread is
    led,      \* its local: led or left
    old,      \* pattern_6's local old_input
    leds,     \* level of each group
    flag,     \* wait_queue_flag
    buffer,   \* the flag kernel_write_buffer[0] stands for
    waker,    \* where each writer and rmmod are
    module,   \* the module is loaded, in its exit function, or gone
    \* History variables.
    writes,   \* calls of write
    stops,    \* times somebody set the flag to NEXT or EXIT
    turns     \* times the thread went on to another pattern

threadVars == <<pattern, pc, led, old, leds>>
wakerVars == <<buffer, waker, module, writes>>
vars == <<button, threadVars, flag, wakerVars, stops, turns>>

Init ==
    /\ button \in Levels
    /\ pattern = 1
    /\ pc = "enter"
    /\ led = "OFF"
    /\ old = "OFF"
    /\ leds = Dark
    /\ flag = "WAIT"
    /\ buffer = "WAIT"
    /\ waker = [p \in Wakers |-> "idle"]
    /\ module = "loaded"
    /\ writes = 0
    /\ stops = 0
    /\ turns = 0

-----------------------------------------------------------------------------
(* wait_thread_fn and the patterns *)

ThreadRuns == pc \notin {"asleep", "ended", "faulted"} /\ module # "gone"

Other(level) == IF level = "ON" THEN "OFF" ELSE "ON"

\* Patterns 4 to 6 start by consuming the flag; a faulty variant does not.
FlagNotConsumed == flag
FlagOnEntry == IF pattern \in {4, 5, 6} THEN "WAIT" ELSE flag

\* The locals are read back from the outputs; pattern_6 never initialises
\* its left.
Enter ==
    /\ ThreadRuns
    /\ pc = "enter"
    /\ flag' = FlagOnEntry
    /\ CASE pattern \in {1, 3, 4} -> led' = leds["left"]
         [] pattern = 2 -> led' = leds["right"]
         [] pattern = 5 -> UNCHANGED led
         [] pattern = 6 -> led' \in Levels
    /\ pc' = IF pattern = 6 THEN "poll" ELSE "light"
    /\ UNCHANGED <<button, pattern, old, leds, wakerVars, stops, turns>>

\* pattern_6: the level before the sleep ...
Poll ==
    /\ ThreadRuns
    /\ pc = "poll"
    /\ old' = button
    /\ pc' = "edge"
    /\ UNCHANGED <<button, pattern, led, leds, flag, wakerVars, stops, turns>>

\* ... and after it: only a falling edge goes on.
Edge ==
    /\ ThreadRuns
    /\ pc = "edge"
    /\ pc' = IF old = "ON" /\ button = "OFF" THEN "light" ELSE "poll"
    /\ UNCHANGED <<button, pattern, led, old, leds, flag, wakerVars, stops,
                   turns>>

\* The left group is written first, then the right one gets the other level;
\* a faulty variant gives it the same one.
LeftGroup(level) == [leds EXCEPT !["left"] = level]
RightGroupSame(level) == [leds EXCEPT !["right"] = level]
RightGroup(level) == [leds EXCEPT !["right"] = Other(level)]

\* A change: patterns 1 and 2 toggle their group, the others light one group
\* and darken the other, the left one first.
Light ==
    /\ ThreadRuns
    /\ pc = "light"
    /\ led' = IF pattern = 5 THEN button ELSE Other(led)
    /\ CASE pattern = 1 -> /\ leds' = LeftGroup(led')
                           /\ pc' = "arm"
         [] pattern = 2 -> /\ leds' = [leds EXCEPT !["right"] = led']
                           /\ pc' = "arm"
         [] OTHER -> /\ leds' = LeftGroup(led')
                     /\ pc' = "lightRight"
    /\ UNCHANGED <<button, pattern, old, flag, wakerVars, stops, turns>>

LightRight ==
    /\ ThreadRuns
    /\ pc = "lightRight"
    /\ leds' = RightGroup(led)
    /\ pc' = IF pattern = 3 THEN "arm" ELSE "judge"
    /\ UNCHANGED <<button, pattern, led, old, flag, wakerVars, stops, turns>>

\* wait_queue_flag = WAIT_QUEUE_WAIT, whatever somebody has just written.
Arm ==
    /\ ThreadRuns
    /\ pc = "arm"
    /\ flag' = "WAIT"
    /\ pc' = "wait"
    /\ UNCHANGED <<button, pattern, led, old, leds, wakerVars, stops, turns>>

\* wait_event_interruptible enqueues the thread before it looks at the flag;
\* a faulty wait sleeps without looking.
SleepsUnseeing == TRUE
Sleeps == flag = "WAIT"

Wait ==
    /\ ThreadRuns
    /\ pc = "wait"
    /\ pc' = IF Sleeps THEN "asleep" ELSE "judge"
    /\ UNCHANGED <<button, pattern, led, old, leds, flag, wakerVars, stops,
                   turns>>

\* What the function darkens before it returns; a faulty pattern nothing.
DarkenedNot == leds
Darkened ==
    CASE pattern = 1 -> [leds EXCEPT !["left"] = "OFF"]
      [] pattern = 2 -> [leds EXCEPT !["right"] = "OFF"]
      [] OTHER -> Dark

\* The test of the flag: after the wait in patterns 1 to 3, after a sleep in
\* 4 and 5, right after the change in 6.
Judge ==
    /\ ThreadRuns
    /\ pc = "judge"
    /\ IF flag \in StopFlags
       THEN leds' = Darkened /\ pc' = "return"
       ELSE /\ UNCHANGED leds
            /\ pc' = IF pattern = 6 THEN "poll" ELSE "light"
    /\ UNCHANGED <<button, pattern, led, old, flag, wakerVars, stops, turns>>

\* The loop over the patterns; a faulty variant runs over its end.
FollowingUnbounded == pattern + 1
Following == IF pattern = 6 THEN 1 ELSE pattern + 1

\* return wait_queue_flag reads the flag again, and only EXIT ends the loop.
Return ==
    /\ ThreadRuns
    /\ pc = "return"
    /\ IF flag = "EXIT"
       THEN /\ pc' = "ended"
            /\ leds' = Dark
            /\ UNCHANGED <<pattern, turns>>
       ELSE /\ pc' = "enter"
            /\ pattern' = Following
            /\ turns' = turns + 1
            /\ UNCHANGED leds
    /\ UNCHANGED <<button, led, old, flag, wakerVars, stops>>

\* rmmod does not wait for the thread: it may wake up in code that is gone.
Faults ==
    /\ module = "gone"
    /\ pc \notin {"asleep", "ended", "faulted"}
    /\ pc' = "faulted"
    /\ UNCHANGED <<button, pattern, led, old, leds, flag, wakerVars, stops,
                   turns>>

Thread ==
    \/ Enter \/ Poll \/ Edge \/ Light \/ LightRight \/ Arm \/ Wait \/ Judge
    \/ Return

-----------------------------------------------------------------------------
(* Writers, rmmod and the user's finger *)

PressOrRelease ==
    /\ button' \in Levels \ {button}
    /\ UNCHANGED <<threadVars, flag, wakerVars, stops, turns>>

\* simple_io_driver_write: copy_from_user into the one buffer ...
WriteCopy(w) ==
    /\ module = "loaded"
    /\ waker[w] = "idle"
    /\ writes < MaxWrites
    /\ writes' = writes + 1
    /\ buffer' \in Flags
    /\ waker' = [waker EXCEPT ![w] = "copied"]
    /\ UNCHANGED <<button, threadVars, flag, module, stops, turns>>

\* The bytes that are followed by wake_up_interruptible; a faulty variant
\* forgets one.
WakesOnNext == {"NEXT"}
WakingFlags == {"KEY", "NEXT"}

\* ... then the switch on its first byte, whoever wrote it last ...
WriteFlag(w) ==
    /\ waker[w] = "copied"
    /\ flag' = buffer
    /\ stops' = IF buffer \in {"NEXT", "EXIT"} THEN stops + 1 ELSE stops
    /\ waker' = [waker EXCEPT ![w] = IF buffer \in WakingFlags THEN "wake"
                                                               ELSE "idle"]
    /\ UNCHANGED <<button, threadVars, buffer, module, writes, turns>>

\* ... and the wake-up, for the flags that have one.
WakeUp(p) ==
    /\ waker[p] = "wake"
    /\ waker' = [waker EXCEPT ![p] = "idle"]
    /\ pc' = IF pc = "asleep" THEN "wait" ELSE pc
    /\ UNCHANGED <<button, pattern, led, old, leds, flag, buffer, module,
                   writes, stops, turns>>

\* simple_io_module_exit; rmmod refuses while the device is in use.
ModuleExit ==
    /\ module = "loaded"
    /\ \A p \in Wakers : waker[p] = "idle"
    /\ module' = "exiting"
    /\ flag' = "EXIT"
    /\ stops' = stops + 1
    /\ waker' = [waker EXCEPT ![Rmmod] = "wake"]
    /\ UNCHANGED <<button, threadVars, buffer, writes, turns>>

Unload ==
    /\ module = "exiting"
    /\ waker[Rmmod] = "idle"
    /\ module' = "gone"
    /\ UNCHANGED <<button, threadVars, flag, buffer, waker, writes, stops,
                   turns>>

Waker(p) == WriteFlag(p) \/ WakeUp(p)

Next ==
    \/ Thread
    \/ Faults
    \/ PressOrRelease
    \/ \E w \in Writers : WriteCopy(w)
    \/ \E p \in Wakers : Waker(p)
    \/ ModuleExit
    \/ Unload

Spec == Init /\ [][Next]_vars

\* The scheduler runs the thread and whoever is inside a call; nobody has to
\* write, to unload the module or to touch the button.
FairSpec ==
    /\ Spec
    /\ WF_vars(Thread)
    /\ \A p \in Wakers : WF_vars(Waker(p))

-----------------------------------------------------------------------------
(* Properties *)

TypeOK ==
    /\ button \in Levels
    /\ pattern \in 1 .. 6
    /\ pc \in {"enter", "poll", "edge", "light", "lightRight", "arm", "wait",
               "asleep", "judge", "return", "ended", "faulted"}
    /\ led \in Levels
    /\ old \in Levels
    /\ leds \in [Groups -> Levels]
    /\ flag \in Flags
    /\ buffer \in Flags
    /\ waker \in [Wakers -> {"idle", "copied", "wake"}]
    /\ module \in {"loaded", "exiting", "gone"}
    /\ writes \in 0 .. MaxWrites
    /\ stops \in Nat
    /\ turns \in Nat

\* No wake-up is lost between a writer and the wait queue: when the thread
\* sleeps although the flag says KEY or NEXT, a writer is about to wake it.
\* An EXIT written to the device is the exception the code makes: it is not
\* followed by a wake-up, and a sleeping thread does not notice it.
NoLostWakeup ==
    (pc = "asleep" /\ flag \in {"KEY", "NEXT"})
        => \E p \in Wakers : waker[p] = "wake"

\* A stop is used up by the pattern it ends: the thread never turns to
\* another pattern more often than somebody asked it to, although the flag is
\* read twice and set back at a different place in every pattern.
NoFreeTurn == turns <= stops

\* Every pattern finds all LEDs dark when it starts, whichever pattern ended
\* and whatever was written meanwhile, and so pattern 1 only ever lights the
\* left group and pattern 2 the right one.
PatternsDoNotMix ==
    /\ pc \in {"enter", "ended"} => leds = Dark
    /\ pattern = 1 => leds["right"] = "OFF"
    /\ pattern = 2 => leds["left"] = "OFF"

\* Patterns 3 to 6 switch: while the thread rests in one of them, exactly one
\* group is lit.
ExactlyOneGroup ==
    (pattern \in 3 .. 6 /\ pc \in {"arm", "wait", "asleep", "judge"})
        => \E g \in Groups : leds = Only(g)

\* The invariant of the LEDs: no pattern inherits a light from the one before
\* it, and those that switch leave exactly one group lit while they rest.
IoInv == TypeOK /\ PatternsDoNotMix /\ ExactlyOneGroup

\* Somebody who asks for the next pattern, or for a change, gets an answer: a
\* thread asleep on the queue looks at the flag, or the flag was overwritten.
SleeperAnswers ==
    (pc = "asleep" /\ flag \in {"KEY", "NEXT"})
        ~> (pc = "judge" \/ flag \notin {"KEY", "NEXT"} \/ module # "loaded")

\* Patterns 4 and 5 notice every stop by themselves, also an EXIT nobody
\* woke them for; pattern 6 only when the button is released.
StopIsServed ==
    (pattern \in {4, 5} /\ pc # "enter" /\ flag \in {"NEXT", "EXIT"})
        ~> (pattern \notin {4, 5} \/ pc \in {"enter", "ended"}
            \/ flag \notin {"NEXT", "EXIT"} \/ module # "loaded")
=============================================================================
