---------------------------- MODULE EngineProofs ----------------------------
(***************************************************************************)
(* Proofs about the engine driver: stopped motors stay stopped, the kernel *)
(* faults while the module loads only, and rmmod leaves nothing behind.    *)
(***************************************************************************)
EXTENDS Engine, TLAPS

Loading == {"request", "init1", "start1", "init2", "start2"}

Quiet(m) == timer[m] # "armed" /\ callback[m] = "none"

\* Which timers exist, and may run, while the module loads.
LoadInv ==
    /\ timer[1] = "zero" <=> task \in {"request", "init1"}
    /\ timer[2] = "zero" <=> task \in {"request", "init1", "start1", "init2"}
    /\ task \in {"request", "init1", "start1"} => Quiet(1)
    /\ task \in Loading => Quiet(2)
    /\ OopsOnlyWhileLoading
    /\ irq = "free" <=> task \in {"request", "unregister", "gone"}

\* A callback about to light the right pair has darkened the left one.
PairInv ==
    /\ NotBothPairs
    /\ \A m \in Motors :
           callback[m] = "right" /\ ~toggle[m] => "left" \notin leds[m]

\* A handler of a complete module leaves a quiet motor behind at each step.
HaltInv ==
    /\ irq \in {"read", "cancel1", "cancel2", "dark"} /\ ~early
           => task \notin Loading
    /\ irq \in {"cancel2", "dark"} /\ ~early => Quiet(1)
    /\ irq = "dark" /\ ~early => Quiet(2)
    /\ halted => task \notin Loading
    /\ HaltIsFinal

\* And so does the exit function.
ExitInv ==
    /\ task \in {"cancel2", "freeIrq", "unregister", "gone"} => Quiet(1)
    /\ task \in {"freeIrq", "unregister", "gone"} => Quiet(2)
    /\ task = "gone" => \A m \in Motors : leds[m] = {}

IInv == TypeOK /\ LoadInv /\ PairInv /\ HaltInv /\ ExitInv

-----------------------------------------------------------------------------
LEMMA Initial == Init => IInv
<1> SUFFICES ASSUME Init
             PROVE  IInv
  OBVIOUS
<1> USE DEF Init, Motors, Quiet, Loading
<1>1. TypeOK
  <2>1. /\ pending \in BOOLEAN /\ oops \in BOOLEAN /\ early \in BOOLEAN
        /\ halted \in BOOLEAN /\ toggle \in [Motors -> BOOLEAN]
    OBVIOUS
  <2>2. ~pending
    OBVIOUS
  <2> QED
    BY <2>1, <2>2 DEF TypeOK
<1>2. LoadInv
  BY DEF LoadInv, OopsOnlyWhileLoading
<1>3. PairInv
  BY DEF PairInv, NotBothPairs, Pairs
<1>4. HaltInv
  BY DEF HaltInv, HaltIsFinal
<1>5. ExitInv
  BY DEF ExitInv
<1> QED
  BY <1>1, <1>2, <1>3, <1>4, <1>5 DEF IInv

\* The callbacks.
LEMMA CallbackKept ==
    ASSUME IInv, NEW m \in Motors, Callback(m)
    PROVE  IInv'
<1> USE DEF IInv, TypeOK, Motors, Quiet, Loading, historyVars
<1>1. CASE Fire(m)
  <2>1. TypeOK'
    BY <1>1 DEF Fire
  <2>2. LoadInv' /\ ExitInv'
    BY <1>1 DEF Fire, LoadInv, ExitInv, OopsOnlyWhileLoading
  <2>3. PairInv'
    BY <1>1 DEF Fire, PairInv, NotBothPairs
  <2>4. HaltInv'
    BY <1>1 DEF Fire, HaltInv, HaltIsFinal, Stopped
  <2> QED
    BY <2>1, <2>2, <2>3, <2>4
<1>2. CASE LeftPair(m)
  <2>1. leds' \in [Motors -> SUBSET Pairs]
    BY <1>2 DEF LeftPair, Pairs
  <2>2. TypeOK'
    BY <1>2, <2>1 DEF LeftPair
  <2>3. LoadInv' /\ ExitInv'
    BY <1>2 DEF LeftPair, LoadInv, ExitInv, OopsOnlyWhileLoading
  <2>4. PairInv'
    BY <1>2 DEF LeftPair, PairInv, NotBothPairs, Pairs
  <2>5. HaltInv'
    BY <1>2 DEF LeftPair, HaltInv, HaltIsFinal, Stopped
  <2> QED
    BY <2>2, <2>3, <2>4, <2>5
<1>3. CASE RightPair(m)
  <2>1. leds' \in [Motors -> SUBSET Pairs]
    BY <1>3 DEF RightPair, RightOpposite, Pairs
  <2>2. TypeOK'
    BY <1>3, <2>1 DEF RightPair
  <2>3. LoadInv' /\ ExitInv'
    BY <1>3 DEF RightPair, LoadInv, ExitInv, OopsOnlyWhileLoading
  <2>4. PairInv'
    <3>1. leds'[m] # Pairs
      BY <1>3 DEF RightPair, RightOpposite, PairInv, Pairs
    <3> QED
      BY <1>3, <3>1 DEF RightPair, PairInv, NotBothPairs
  <2>5. HaltInv'
    BY <1>3 DEF RightPair, HaltInv, HaltIsFinal, Stopped
  <2> QED
    BY <2>2, <2>3, <2>4, <2>5
<1>4. CASE Restart(m)
  <2>1. TypeOK'
    BY <1>4 DEF Restart
  <2>2. LoadInv' /\ ExitInv'
    BY <1>4 DEF Restart, LoadInv, ExitInv, OopsOnlyWhileLoading
  <2>3. PairInv'
    BY <1>4 DEF Restart, PairInv, NotBothPairs
  <2>4. HaltInv'
    BY <1>4 DEF Restart, HaltInv, HaltIsFinal, Stopped
  <2> QED
    BY <2>1, <2>2, <2>3, <2>4
<1> QED
  BY <1>1, <1>2, <1>3, <1>4 DEF Callback
\* The button and its interrupt.
LEMMA IrqKept ==
    ASSUME IInv, PressOrRelease \/ Irq
    PROVE  IInv'
<1> USE DEF IInv, TypeOK, Motors, Quiet, Loading, historyVars, motorVars,
            LoadInv, PairInv, HaltInv, ExitInv, OopsOnlyWhileLoading,
            NotBothPairs, HaltIsFinal, Stopped
<1>1. CASE PressOrRelease
  <2>1. /\ pending' \in BOOLEAN
        /\ pending' => irq' # "free"
        /\ button' \in Levels
    BY <1>1 DEF PressOrRelease, Latches, Levels
  <2> QED
    BY <1>1, <2>1 DEF PressOrRelease
<1>2. CASE IrqEnter
  <2>1. pending' \in BOOLEAN /\ ~pending' /\ early' \in BOOLEAN
    <3>1. pending' \in BOOLEAN /\ ~pending'
      BY <1>2 DEF IrqEnter
    <3>2. early' = (task \in {"init1", "start1", "init2", "start2"})
      BY <1>2, Zenon DEF IrqEnter
    <3>3. early' \in BOOLEAN
      <4> HIDE DEF IInv
      <4>1. \A set : (task \in set) \in BOOLEAN
        OBVIOUS
      <4> QED
        BY <3>2, <4>1, Zenon
    <3> QED
      BY <3>1, <3>3
  <2>2. ~early' => task \notin Loading
    BY <1>2 DEF IrqEnter
  <2>3. /\ irq' = "read"
        /\ UNCHANGED <<button, motorVars, task, oops, halted>>
    BY <1>2 DEF IrqEnter
  <2>4. irq # "free"
    BY <1>2 DEF IrqEnter
  <2>5. TypeOK'
    BY <2>1, <2>3
  <2>6. LoadInv' /\ PairInv' /\ ExitInv'
    BY <2>3, <2>4
  <2>7. HaltInv'
    BY <2>2, <2>3
  <2> QED
    BY <2>5, <2>6, <2>7
<1>3. CASE IrqRead
  BY <1>3 DEF IrqRead
<1>4. CASE IrqCancel1
  <2>1. CASE timer[1] = "zero"
    <3>1. oops' \in BOOLEAN
      BY <1>4, <2>1 DEF IrqCancel1, Cancel
    <3> QED
      BY <1>4, <2>1, <3>1
      DEF IrqCancel1, Cancel, CanCancel, AfterFirstCancel
  <2>2. CASE timer[1] # "zero"
    BY <1>4, <2>2 DEF IrqCancel1, Cancel, CanCancel, AfterFirstCancel
  <2> QED
    BY <2>1, <2>2
<1>5. CASE IrqCancel2
  <2>1. CASE timer[2] = "zero"
    <3>1. oops' \in BOOLEAN
      BY <1>5, <2>1 DEF IrqCancel2, Cancel
    <3> QED
      BY <1>5, <2>1, <3>1 DEF IrqCancel2, Cancel, CanCancel
  <2>2. CASE timer[2] # "zero"
    BY <1>5, <2>2 DEF IrqCancel2, Cancel, CanCancel
  <2> QED
    BY <2>1, <2>2
<1>6. CASE IrqDark
  <2>1. halted' \in BOOLEAN /\ \A m \in Motors : leds'[m] = {}
    BY <1>6 DEF IrqDark
  <2>2. leds' \in [Motors -> SUBSET Pairs] /\ Pairs # {}
    BY <1>6 DEF IrqDark, Pairs
  <2>3. halted' => \A m \in Motors : Quiet(m)
    BY <1>6 DEF IrqDark
  <2>4. TypeOK'
    BY <1>6, <2>1, <2>2 DEF IrqDark
  <2>5. LoadInv' /\ PairInv' /\ ExitInv'
    BY <1>6, <2>1, <2>2 DEF IrqDark
  <2>6. HaltInv'
    BY <1>6, <2>1, <2>3 DEF IrqDark
  <2> QED
    BY <2>4, <2>5, <2>6
<1> QED
  BY <1>1, <1>2, <1>3, <1>4, <1>5, <1>6 DEF Irq

\* The init function.
LEMMA InitKept ==
    ASSUME IInv, ModuleInit
    PROVE  IInv'
<1> USE DEF IInv, TypeOK, Motors, Quiet, Loading, historyVars, motorVars,
            LoadInv, PairInv, HaltInv, ExitInv, OopsOnlyWhileLoading,
            NotBothPairs, HaltIsFinal, Stopped
<1>1. CASE RequestIrq
  BY <1>1 DEF RequestIrq
<1>2. CASE TimerInit(1, "init1", "start1")
  BY <1>2 DEF TimerInit, Initialised
<1>3. CASE TimerStart(1, "start1", "init2")
  BY <1>3 DEF TimerStart
<1>4. CASE TimerInit(2, "init2", "start2")
  BY <1>4 DEF TimerInit, Initialised
<1>5. CASE TimerStart(2, "start2", "loaded")
  BY <1>5 DEF TimerStart
<1> QED
  BY <1>1, <1>2, <1>3, <1>4, <1>5 DEF ModuleInit

\* The exit function.
LEMMA ExitKept ==
    ASSUME IInv, ModuleExit
    PROVE  IInv'
<1> USE DEF IInv, TypeOK, Motors, Quiet, Loading, historyVars, motorVars,
            LoadInv, PairInv, HaltInv, ExitInv, OopsOnlyWhileLoading,
            NotBothPairs, HaltIsFinal, Stopped
<1>1. CASE ExitStart
  BY <1>1 DEF ExitStart
<1>2. CASE ExitCancel(1, "cancel1", "cancel2")
  BY <1>2 DEF ExitCancel, Cancel, CanCancel
<1>3. CASE ExitCancel(2, "cancel2", "freeIrq")
  BY <1>3 DEF ExitCancel, Cancel, CanCancel
<1>4. CASE FreeIrq
  <2>1. pending' \in BOOLEAN /\ ~pending'
    BY <1>4 DEF FreeIrq
  <2> QED
    BY <1>4, <2>1 DEF FreeIrq, HandlerDone
<1>5. CASE UnregisterGpios
  <2>1. \A m \in Motors : leds'[m] = {}
    BY <1>5 DEF UnregisterGpios
  <2>2. leds' \in [Motors -> SUBSET Pairs] /\ Pairs # {}
    BY <1>5 DEF UnregisterGpios, Pairs
  <2> QED
    BY <1>5, <2>1, <2>2 DEF UnregisterGpios
<1> QED
  BY <1>1, <1>2, <1>3, <1>4, <1>5 DEF ModuleExit

\* The parts together are inductive.
LEMMA Invariant == Spec => []IInv
<1>1. IInv /\ [Next]_vars => IInv'
  <2> SUFFICES ASSUME IInv, [Next]_vars
               PROVE  IInv'
    OBVIOUS
  <2>1. CASE UNCHANGED vars
    BY <2>1 DEF vars, motorVars, historyVars, IInv, TypeOK, LoadInv, PairInv,
                HaltInv, ExitInv, OopsOnlyWhileLoading, NotBothPairs,
                HaltIsFinal, Stopped, Quiet
  <2> QED
    BY <2>1, CallbackKept, IrqKept, InitKept, ExitKept DEF Next
<1> QED
  BY <1>1, Initial, PTL DEF Spec

\* Once the handler has stopped the motors of a complete module, they stay
\* stopped and dark.
THEOREM HaltsAreFinal == Spec => []HaltIsFinal
<1>1. IInv => HaltIsFinal
  BY DEF IInv, HaltInv
<1> QED
  BY <1>1, Invariant, PTL

\* The kernel faults while the module loads only, a motor never has both
\* pairs lit between two callbacks, and nothing is left after rmmod.
THEOREM LifeIsClean == Spec => []EngineInv
<1>1. IInv => EngineInv
  BY DEF IInv, LoadInv, PairInv, ExitInv, EngineInv, ExitIsClean, Stopped,
         Motors, Quiet
<1> QED
  BY <1>1, Invariant, PTL
=============================================================================
