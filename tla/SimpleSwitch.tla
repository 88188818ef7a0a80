---------------------------- MODULE SimpleSwitch ----------------------------
(***************************************************************************)
(* The simple_switch driver: a kernel thread polls one push button every   *)
(* millisecond, tells short and long presses and their combinations apart  *)
(* with a state machine, and shows the result on eight LEDs.  Writers of   *)
(* the device file stop the thread through wait_queue_flag, which, like    *)
(* the buffer the bytes are copied to, is shared without a lock.           *)
(*                                                                         *)
(* Time is counted in ticks.  Before every step the thread may be held up  *)
(* for at most MaxStall ticks.                                             *)
(***************************************************************************)
EXTENDS Integers, FiniteSets

CONSTANTS
    ShortMs,   \* the 500 ms of SHORT and LONG, in ticks
    LongMs,    \* the 1000 ms of LIT, SHORTSHORT and LONGSHORT, in ticks
    MaxStall,  \* bound: ticks between two steps of the thread
    IntBits,   \* width of the int cur_led
    Writers    \* processes that write to the device file

ASSUME SwitchAssumption ==
    /\ ShortMs \in Nat \ {0}
    /\ LongMs \in Nat \ {0}
    /\ ShortMs <= LongMs
    /\ MaxStall \in Nat \ {0}
    /\ IntBits \in Nat
    /\ IntBits > 8

LedCount == 8                 \* gpio_outputs_len
Leds == 0 .. LedCount - 1
Bits == 0 .. IntBits - 1
LowBits(n) == 0 .. n - 1

States == {"INIT", "LIT", "SHORT", "LONG", "SHORTSHORT", "SHORTLONG",
           "LONGSHORT", "LONGLONG"}
Levels == {"OFF", "ON"}
Inputs == Levels \cup {"TIMEOUT"}
Flags == {"WAIT", "KEY", "NEXT", "EXIT"}

\* elapsed only counts up to a value no comparison can reach.
MaxElapsed == LongMs + 3 * MaxStall

VARIABLES
    button,   \* level of GPIO_INPUT_1
    pc,       \* where wait_thread_fn is
    input,    \* its local: the sampled level
    state,    \* its local: the state of the machine
    elapsed,  \* ticks since pre_jiffies, at most MaxElapsed
    stall,    \* ticks since the thread's last step
    longest,  \* the longest stall so far (a history variable)
    curLed,   \* the bits of cur_led that are 1
    leds,     \* the LEDs that are on
    flag,     \* wait_queue_flag
    buffer,   \* the flag kernel_write_buffer[0] stands for
    writer,   \* where each writer is
    module    \* the module is loaded, in its exit function, or gone

threadVars == <<pc, input, state, curLed, leds>>
timeVars == <<elapsed, stall, longest>>
writeVars == <<buffer, writer>>
vars == <<button, threadVars, timeVars, flag, writeVars, module>>

Init ==
    /\ button \in Levels
    /\ pc = "sample"
    /\ input = "OFF"
    /\ state = "INIT"
    /\ elapsed = MaxElapsed
    /\ stall = 0
    /\ longest = 0
    /\ curLed = {}
    /\ leds = {}
    /\ flag = "WAIT"
    /\ buffer = "WAIT"
    /\ writer = [w \in Writers |-> "idle"]
    /\ module = "loaded"

-----------------------------------------------------------------------------
(* The state machine *)

\* A transition: the next state and what is done on the way.
To(next, action) == [next |-> next, action |-> action]

transitions ==
    [INIT |-> [OFF |-> To("INIT", "NOP"),
               ON |-> To("LIT", "INIT"),
               TIMEOUT |-> To("INIT", "NOP")],
     LIT |-> [OFF |-> To("SHORT", "INIT"),
              ON |-> To("LIT", "NOP"),
              TIMEOUT |-> To("LONG", "INIT")],
     SHORT |-> [OFF |-> To("SHORT", "NOP"),
                ON |-> To("SHORTSHORT", "INIT"),
                TIMEOUT |-> To("INIT", "STRAIGHT")],
     LONG |-> [OFF |-> To("LONG", "NOP"),
               ON |-> To("LONGSHORT", "INIT"),
               TIMEOUT |-> To("INIT", "LEFT_4")],
     SHORTSHORT |-> [OFF |-> To("INIT", "REVERSE"),
                     ON |-> To("SHORTSHORT", "NOP"),
                     TIMEOUT |-> To("SHORTLONG", "NOP")],
     SHORTLONG |-> [OFF |-> To("INIT", "LEFT_6"),
                    ON |-> To("SHORTLONG", "NOP"),
                    TIMEOUT |-> To("SHORTLONG", "NOP")],
     LONGSHORT |-> [OFF |-> To("INIT", "ALL"),
                    ON |-> To("LONGSHORT", "NOP"),
                    TIMEOUT |-> To("LONGLONG", "NOP")],
     LONGLONG |-> [OFF |-> To("INIT", "OFF_ALL"),
                   ON |-> To("LONGLONG", "NOP"),
                   TIMEOUT |-> To("LONGLONG", "NOP")]]

\* (cur_led << 1) + 1: the bits move up, the topmost falls out of the int.
\* A faulty variant shifts a zero in.
ShiftedInZero(s) == {b + 1 : b \in s} \cap Bits
ShiftedIn(s) == ({b + 1 : b \in s} \cap Bits) \cup {0}

\* cur_led >> 1: the sign bit stays.
ShiftedOut(s) == {b - 1 : b \in s \ {0}} \cup (s \cap {IntBits - 1})

\* What the action writes to cur_led.
CurLedAfter(action) ==
    CASE action = "STRAIGHT" -> ShiftedIn(curLed)
      [] action = "LEFT_4" -> LowBits(4)
      [] action = "REVERSE" -> ShiftedOut(curLed)
      [] action = "LEFT_6" -> LowBits(6)
      [] action = "ALL" -> LowBits(8)
      [] action = "OFF_ALL" -> LowBits(0)
      [] OTHER -> curLed

\* set_bit_led; faulty variants run over the end of gpio_outputs, or forget
\* the last LED.
ShownAllBits(s) == s
ShownButLast(s) == s \cap (Leds \ {LedCount - 1})
Shown(s) == s \cap Leds

IsShortPush(ms) == elapsed < ms

\* The level or a timeout.  The first comparison has no "!" in the source:
\* SHORT and LONG time out before the limit, not after it.  Two variants: the
\* comparison the README describes, and one that never times LIT out.
JudgedAfterLimit ==
    IF \/ state \in {"SHORT", "LONG"} /\ ~IsShortPush(ShortMs)
       \/ /\ state \in {"LIT", "SHORTSHORT", "LONGSHORT"}
          /\ ~IsShortPush(LongMs)
    THEN "TIMEOUT"
    ELSE input
JudgedNotInLit ==
    IF \/ state \in {"SHORT", "LONG"} /\ IsShortPush(ShortMs)
       \/ state \in {"SHORTSHORT", "LONGSHORT"} /\ ~IsShortPush(LongMs)
    THEN "TIMEOUT"
    ELSE input
Judged ==
    IF \/ state \in {"SHORT", "LONG"} /\ IsShortPush(ShortMs)
       \/ /\ state \in {"LIT", "SHORTSHORT", "LONGSHORT"}
          /\ ~IsShortPush(LongMs)
    THEN "TIMEOUT"
    ELSE input

-----------------------------------------------------------------------------
(* wait_thread_fn *)

ThreadRuns == pc \notin {"ended", "faulted"} /\ module # "gone"

Sample ==
    /\ ThreadRuns
    /\ pc = "sample"
    /\ input' = button
    /\ pc' = "act"
    /\ stall' = 0
    /\ UNCHANGED <<button, state, curLed, leds, elapsed, longest, flag,
                   writeVars, module>>

\* is_short_push, the action of the transition with its set_bit_led, and the
\* next state.
Act ==
    /\ ThreadRuns
    /\ pc = "act"
    /\ LET t == transitions[state][Judged]
       IN  /\ state' = t.next
           /\ curLed' = CurLedAfter(t.action)
           /\ leds' = Shown(curLed')
           /\ elapsed' = IF t.action = "INIT" THEN 0 ELSE elapsed
    /\ pc' = "check"
    /\ stall' = 0
    /\ UNCHANGED <<button, input, longest, flag, writeVars, module>>

\* The values of the flag that end the thread; a faulty variant knows one.
StopOnExit == {"EXIT"}
StopFlags == {"EXIT", "NEXT"}

\* After usleep_range: the thread ends with its LEDs off when the flag says
\* so.
Check ==
    /\ ThreadRuns
    /\ pc = "check"
    /\ stall > 0
    /\ IF flag \in StopFlags
       THEN pc' = "ended" /\ leds' = {}
       ELSE pc' = "sample" /\ UNCHANGED leds
    /\ stall' = 0
    /\ UNCHANGED <<button, input, state, curLed, elapsed, longest, flag,
                   writeVars, module>>

\* The module exit function does not wait for the thread: it may wake up in
\* code that is gone.
Faults ==
    /\ module = "gone"
    /\ pc \notin {"ended", "faulted"}
    /\ pc' = "faulted"
    /\ UNCHANGED <<button, input, state, curLed, leds, timeVars, flag,
                   writeVars, module>>

-----------------------------------------------------------------------------
(* Everything else: time, the user's finger, writers, rmmod *)

Tick ==
    /\ ThreadRuns
    /\ stall < MaxStall
    /\ stall' = stall + 1
    /\ longest' = IF stall < longest THEN longest ELSE stall + 1
    /\ elapsed' = IF elapsed < MaxElapsed THEN elapsed + 1 ELSE elapsed
    /\ UNCHANGED <<button, threadVars, flag, writeVars, module>>

PressOrRelease ==
    /\ button' \in Levels \ {button}
    /\ UNCHANGED <<threadVars, timeVars, flag, writeVars, module>>

\* simple_switch_driver_write: copy_from_user into the one buffer ...
WriteCopy(w) ==
    /\ module = "loaded"
    /\ writer[w] = "idle"
    /\ buffer' \in Flags
    /\ writer' = [writer EXCEPT ![w] = "copied"]
    /\ UNCHANGED <<button, threadVars, timeVars, flag, module>>

\* ... then the switch on its first byte, whoever wrote it last.
WriteFlag(w) ==
    /\ writer[w] = "copied"
    /\ flag' = buffer
    /\ writer' = [writer EXCEPT ![w] = "idle"]
    /\ UNCHANGED <<button, threadVars, timeVars, buffer, module>>

\* simple_switch_module_exit; rmmod refuses while the device is in use.
ModuleExit ==
    /\ module = "loaded"
    /\ \A w \in Writers : writer[w] = "idle"
    /\ module' = "exiting"
    /\ flag' = "EXIT"
    /\ UNCHANGED <<button, threadVars, timeVars, writeVars>>

Unload ==
    /\ module = "exiting"
    /\ module' = "gone"
    /\ UNCHANGED <<button, threadVars, timeVars, flag, writeVars>>

Thread == Sample \/ Act \/ Check

Next ==
    \/ Thread
    \/ Faults
    \/ Tick
    \/ PressOrRelease
    \/ \E w \in Writers : WriteCopy(w) \/ WriteFlag(w)
    \/ ModuleExit
    \/ Unload

Spec == Init /\ [][Next]_vars

\* Time passes and the scheduler runs the thread, in whatever code is at its
\* address; nobody has to touch the button, the device file or the module.
FairSpec == Spec /\ WF_vars(Thread \/ Faults) /\ WF_vars(Tick)

-----------------------------------------------------------------------------
(* Properties *)

TypeOK ==
    /\ button \in Levels
    /\ pc \in {"sample", "act", "check", "ended", "faulted"}
    /\ input \in Levels
    /\ state \in States
    /\ elapsed \in 0 .. MaxElapsed
    /\ stall \in 0 .. MaxStall
    /\ longest \in stall .. MaxStall
    /\ curLed \in SUBSET Bits
    /\ leds \in SUBSET Leds
    /\ flag \in Flags
    /\ buffer \in Flags
    /\ writer \in [Writers -> {"idle", "copied"}]
    /\ module \in {"loaded", "exiting", "gone"}

\* The thread has been held up for a third of the limit of SHORT and LONG,
\* which its three steps may then exceed.
LongStalls == {n \in 0 .. MaxStall : 3 * n >= ShortMs}
HeldUp == longest \in LongStalls

\* What the missing "!" amounts to: a thread that is not held up leaves SHORT
\* and LONG at its next look, so no combination of presses is ever recognised,
\* whatever the user does with the button.
OnlySingleGestures ==
    HeldUp \/ state \in {"INIT", "LIT", "SHORT", "LONG"}

\* A press is classified in time: however long the user holds the button, LIT
\* ends at the thread's first look after the limit.
LitIsBounded == state = "LIT" => elapsed < LongMs + 3 * longest

\* The LEDs always show the low eight bits of cur_led, which keeps 32, until
\* the thread has ended: then they are off, and nothing lights them again.
LedsShowCurLed ==
    leds = IF pc = "ended" THEN {} ELSE {b \in curLed : b < LedCount}

\* cur_led is a bar without gaps at all times, also after its ones have run
\* into the sign bit and come back down by arithmetic shifts.
Thermometer == \E n \in 0 .. IntBits : curLed = LowBits(n)

\* The invariant that ties the machine to time and to its LEDs: LIT is left in
\* time, cur_led is a bar, and the LEDs show it until the thread ends.
SwitchInv == TypeOK /\ LitIsBounded /\ LedsShowCurLed /\ Thermometer

\* The LEDs behave like the bar the README describes: every step lights the
\* next LED, turns the last one off, sets a fixed length, or leaves them.
Led == INSTANCE LedBar
           WITH Length <- LedCount, Presets <- {0, 4, 6, 8}, lit <- leds
ImplementsLedBar == Led!Spec

\* The README on SHORT: an additional press within the limit leads to
\* SHORT SHORT.
DoublePressRecognised ==
    [][ (/\ pc = "act" /\ pc' = "check"
         /\ state = "SHORT" /\ input = "ON" /\ elapsed < ShortMs)
            => state' = "SHORTSHORT" ]_vars

\* The README on SHORT SHORT: it turns off the rightmost LED that is lit.
ShortShortTurnsOff ==
    [][ (/\ pc = "act" /\ pc' = "check"
         /\ state = "SHORTSHORT" /\ state' = "INIT" /\ leds # {})
            => leds' \subseteq leds /\ leds' # leds ]_vars

\* Every press is classified and the machine gets back to INIT, even when the
\* user never touches the button again.  A thread that was held up may miss
\* the time before the limit; SHORT and LONG then wait for another press.
PressIsClassified ==
    state = "LIT"
        ~> (state = "INIT" \/ pc \in {"ended", "faulted"} \/ HeldUp)

\* A stop the device file or rmmod asked for is served, unless another write
\* overrules it in time.
StopIsServed ==
    flag \in {"EXIT", "NEXT"}
        ~> (pc \in {"ended", "faulted"} \/ flag \notin {"EXIT", "NEXT"})
=============================================================================
