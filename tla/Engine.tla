------------------------------- MODULE Engine -------------------------------
(***************************************************************************)
(* The engine driver: two motors, each a high-resolution timer that blinks *)
(* two pairs of LEDs, and a push button whose interrupt is meant to stop   *)
(* both.  Timer callbacks and the interrupt handler run on different       *)
(* processors, and the module's init and exit functions run in a task of   *)
(* their own, so all four interleave.                                      *)
(*                                                                         *)
(* The speed of a motor only sets the distance between two firings; time   *)
(* is not modelled, so a timer that is armed may fire at any moment.       *)
(***************************************************************************)
EXTENDS Integers

Motors == {1, 2}
Pairs == {"left", "right"}
Levels == {"OFF", "ON"}

VARIABLES
    button,    \* level of GPIO_INPUT_1
    pending,   \* a rising edge waits for its handler
    irq,       \* where gpio_irq_handler is, or "free" without request_irq
    timer,     \* each hrtimer: zeroed memory, idle, or armed
    callback,  \* where each restart callback is
    toggle,    \* motor_n.toggle is set
    leds,      \* the pairs of each motor's LEDs that are on
    task,      \* where the init or exit function is
    oops,      \* the kernel followed the null pointer of a zeroed timer
    \* History variables.
    early,     \* the handler started before init had returned
    halted     \* a handler stopped the motors of a complete module

motorVars == <<timer, callback, toggle, leds>>
historyVars == <<early, halted>>
vars == <<button, pending, irq, motorVars, task, oops, historyVars>>

Init ==
    /\ button \in Levels
    /\ pending = FALSE
    /\ irq = "free"
    /\ timer = [m \in Motors |-> "zero"]
    /\ callback = [m \in Motors |-> "none"]
    /\ toggle = [m \in Motors |-> FALSE]
    /\ leds = [m \in Motors |-> {}]
    /\ task = "request"
    /\ oops = FALSE
    /\ early = FALSE
    /\ halted = FALSE

-----------------------------------------------------------------------------
(* motor_1_restart_callback and motor_2_restart_callback *)

\* The clock takes the timer out of its queue and calls the callback, which
\* flips the toggle.
Fire(m) ==
    /\ ~oops
    /\ timer[m] = "armed"
    /\ callback[m] = "none"
    /\ timer' = [timer EXCEPT ![m] = "idle"]
    /\ callback' = [callback EXCEPT ![m] = "left"]
    /\ toggle' = [toggle EXCEPT ![m] = ~@]
    /\ UNCHANGED <<button, pending, irq, leds, task, oops, historyVars>>

\* The left pair follows the toggle, the right pair is its opposite; a faulty
\* callback lights both.
RightSame(on, lit) == IF on THEN lit \cup {"right"} ELSE lit \ {"right"}
RightOpposite(on, lit) == IF on THEN lit \ {"right"} ELSE lit \cup {"right"}

LeftPair(m) ==
    /\ ~oops
    /\ callback[m] = "left"
    /\ leds' = [leds EXCEPT ![m] = IF toggle[m] THEN @ \cup {"left"}
                                                ELSE @ \ {"left"}]
    /\ callback' = [callback EXCEPT ![m] = "right"]
    /\ UNCHANGED <<button, pending, irq, timer, toggle, task, oops,
                   historyVars>>

RightPair(m) ==
    /\ ~oops
    /\ callback[m] = "right"
    /\ leds' = [leds EXCEPT ![m] = RightOpposite(toggle[m], @)]
    /\ callback' = [callback EXCEPT ![m] = "restart"]
    /\ UNCHANGED <<button, pending, irq, timer, toggle, task, oops,
                   historyVars>>

\* HRTIMER_RESTART puts the timer back into the queue.
Restart(m) ==
    /\ ~oops
    /\ callback[m] = "restart"
    /\ timer' = [timer EXCEPT ![m] = "armed"]
    /\ callback' = [callback EXCEPT ![m] = "none"]
    /\ UNCHANGED <<button, pending, irq, toggle, leds, task, oops,
                   historyVars>>

Callback(m) == Fire(m) \/ LeftPair(m) \/ RightPair(m) \/ Restart(m)

-----------------------------------------------------------------------------
(* hrtimer_cancel *)

\* It waits while the callback runs; a faulty use only tries.
CancelTries(m) == TRUE
CanCancel(m) == callback[m] = "none"

\* A timer hrtimer_init has not seen has no clock base to lock.
Cancel(m) ==
    /\ CanCancel(m)
    /\ IF timer[m] = "zero"
       THEN oops' = TRUE /\ UNCHANGED timer
       ELSE timer' = [timer EXCEPT ![m] = "idle"] /\ UNCHANGED oops

-----------------------------------------------------------------------------
(* gpio_irq_handler *)

\* Edges count from request_irq on; a faulty variant latches older ones.
LatchesAlways == TRUE
Latches == irq # "free"

PressOrRelease ==
    /\ button' \in Levels \ {button}
    /\ pending' = (pending \/ (button' = "ON" /\ Latches))
    /\ UNCHANGED <<irq, motorVars, task, oops, historyVars>>

\* The handler logs "stopped motor!" before it has looked at anything.
IrqEnter ==
    /\ ~oops
    /\ irq = "idle"
    /\ pending
    /\ pending' = FALSE
    /\ irq' = "read"
    /\ early' = (task \in {"init1", "start1", "init2", "start2"})
    /\ UNCHANGED <<button, motorVars, task, oops, halted>>

\* The level may have bounced back since the edge.
IrqRead ==
    /\ ~oops
    /\ irq = "read"
    /\ irq' = IF button = "ON" THEN "cancel1" ELSE "idle"
    /\ UNCHANGED <<button, pending, motorVars, task, oops, historyVars>>

\* Faulty handlers forget the second motor, or cancel the first for ever.
AfterFirstCancelAgain == "cancel1"
AfterFirstCancelDark == "dark"
AfterFirstCancel == "cancel2"

IrqCancel1 ==
    /\ ~oops
    /\ irq = "cancel1"
    /\ Cancel(1)
    /\ irq' = AfterFirstCancel
    /\ UNCHANGED <<button, pending, callback, toggle, leds, task,
                   historyVars>>

IrqCancel2 ==
    /\ ~oops
    /\ irq = "cancel2"
    /\ Cancel(2)
    /\ irq' = "dark"
    /\ UNCHANGED <<button, pending, callback, toggle, leds, task,
                   historyVars>>

\* All eight LEDs off, and IRQ_HANDLED.
IrqDark ==
    /\ ~oops
    /\ irq = "dark"
    /\ leds' = [m \in Motors |-> {}]
    /\ irq' = "idle"
    /\ halted' = (halted \/ ~early)
    /\ UNCHANGED <<button, pending, timer, callback, toggle, task, oops,
                   early>>

Irq == IrqEnter \/ IrqRead \/ IrqCancel1 \/ IrqCancel2 \/ IrqDark

-----------------------------------------------------------------------------
(* engine_module_init and engine_module_exit *)

\* gpio directions are set; from here on the button interrupts.
RequestIrq ==
    /\ ~oops
    /\ task = "request"
    /\ irq' = "idle"
    /\ task' = "init1"
    /\ UNCHANGED <<button, pending, motorVars, oops, historyVars>>

\* hrtimer_init; a faulty variant forgets it and only starts the timer.
InitForgotten(m) == timer
Initialised(m) == [timer EXCEPT ![m] = "idle"]

TimerInit(m, from, to) ==
    /\ ~oops
    /\ task = from
    /\ timer' = Initialised(m)
    /\ task' = to
    /\ UNCHANGED <<button, pending, irq, callback, toggle, leds, oops,
                   historyVars>>

TimerStart(m, from, to) ==
    /\ ~oops
    /\ task = from
    /\ timer' = [timer EXCEPT ![m] = "armed"]
    /\ task' = to
    /\ UNCHANGED <<button, pending, irq, callback, toggle, leds, oops,
                   historyVars>>

ModuleInit ==
    \/ RequestIrq
    \/ TimerInit(1, "init1", "start1")
    \/ TimerStart(1, "start1", "init2")
    \/ TimerInit(2, "init2", "start2")
    \/ TimerStart(2, "start2", "loaded")

\* rmmod; the device file does not matter here, it only sets speeds.
ExitStart ==
    /\ ~oops
    /\ task = "loaded"
    /\ task' = "cancel1"
    /\ UNCHANGED <<button, pending, irq, motorVars, oops, historyVars>>

ExitCancel(m, from, to) ==
    /\ ~oops
    /\ task = from
    /\ Cancel(m)
    /\ task' = to
    /\ UNCHANGED <<button, pending, irq, callback, toggle, leds, historyVars>>

\* free_irq waits for a handler that is running; a faulty one waits for its
\* own effect.
HandlerFreed == irq = "free"
HandlerDone == irq = "idle"

FreeIrq ==
    /\ ~oops
    /\ task = "freeIrq"
    /\ HandlerDone
    /\ irq' = "free"
    /\ pending' = FALSE
    /\ task' = "unregister"
    /\ UNCHANGED <<button, motorVars, oops, historyVars>>

\* unregister_gpio puts every output low before it frees it.
UnregisterGpios ==
    /\ ~oops
    /\ task = "unregister"
    /\ leds' = [m \in Motors |-> {}]
    /\ task' = "gone"
    /\ UNCHANGED <<button, pending, irq, timer, callback, toggle, oops,
                   historyVars>>

ModuleExit ==
    \/ ExitStart
    \/ ExitCancel(1, "cancel1", "cancel2")
    \/ ExitCancel(2, "cancel2", "freeIrq")
    \/ FreeIrq
    \/ UnregisterGpios

Next ==
    \/ \E m \in Motors : Callback(m)
    \/ PressOrRelease
    \/ Irq
    \/ ModuleInit
    \/ ModuleExit

Spec == Init /\ [][Next]_vars

\* Timers fire, interrupts are delivered and handlers run to their end, and
\* so do init and exit once they are called.  A canceller that waits for the
\* callback polls until it finds the pause between two runs (strong
\* fairness).
FairSpec ==
    /\ Spec
    /\ \A m \in Motors : WF_vars(Callback(m))
    /\ WF_vars(IrqEnter \/ IrqRead \/ IrqDark)
    /\ SF_vars(IrqCancel1)
    /\ SF_vars(IrqCancel2)
    /\ WF_vars(ModuleInit)
    /\ SF_vars(ExitCancel(1, "cancel1", "cancel2"))
    /\ SF_vars(ExitCancel(2, "cancel2", "freeIrq"))
    /\ SF_vars(FreeIrq)
    /\ WF_vars(UnregisterGpios)

-----------------------------------------------------------------------------
(* Properties *)

TypeOK ==
    /\ button \in Levels
    /\ pending \in BOOLEAN
    /\ pending => irq # "free"
    /\ irq \in {"free", "idle", "read", "cancel1", "cancel2", "dark"}
    /\ timer \in [Motors -> {"zero", "idle", "armed"}]
    /\ callback \in [Motors -> {"none", "left", "right", "restart"}]
    /\ toggle \in [Motors -> BOOLEAN]
    /\ leds \in [Motors -> SUBSET Pairs]
    /\ task \in {"request", "init1", "start1", "init2", "start2", "loaded",
                 "cancel1", "cancel2", "freeIrq", "unregister", "gone"}
    /\ oops \in BOOLEAN
    /\ early \in BOOLEAN
    /\ halted \in BOOLEAN

Stopped(m) == timer[m] # "armed" /\ callback[m] = "none" /\ leds[m] = {}

\* Once the handler has stopped the motors of a module that had finished
\* loading, they stay stopped and dark: no callback that was running at the
\* time arms its timer again or writes to the LEDs afterwards.
HaltIsFinal == halted => \A m \in Motors : Stopped(m)

\* The interrupt hits a timer that does not exist yet only while the module
\* is loading: between request_irq and the second hrtimer_init.
OopsOnlyWhileLoading == oops => task \in {"init1", "start1", "init2"}

\* The two pairs of a motor are never lit together, except between the two
\* writes of its callback, also when a handler darkens them in between.
NotBothPairs == \A m \in Motors : callback[m] # "right" => leds[m] # Pairs

\* After rmmod nothing is left running: no timer, no callback, no handler
\* and no light.
ExitIsClean ==
    task = "gone" => /\ irq = "free"
                     /\ \A m \in Motors : Stopped(m)

\* The invariant of a module's life: faults while it loads only, no pair of
\* callbacks that lights both pairs, nothing left after it is gone.
EngineInv == TypeOK /\ OopsOnlyWhileLoading /\ NotBothPairs /\ ExitIsClean

\* The handler gets to its end although it has to wait, with interrupts off,
\* for callbacks that run on other processors.
HeldPressStops ==
    irq = "cancel1" ~> (oops \/ irq \in {"idle", "free"})

\* rmmod gets through, however often the motors fire and the button
\* interrupts.
ExitEnds == task = "cancel1" ~> (oops \/ task = "gone")
=============================================================================
