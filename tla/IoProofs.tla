------------------------------ MODULE IoProofs ------------------------------
(***************************************************************************)
(* Proofs about the simple_io driver, for every number of writers and of   *)
(* writes: the LEDs of the six patterns, the wake-ups of the wait queue,   *)
(* and the stops each turn to another pattern uses up.                     *)
(***************************************************************************)
EXTENDS SimpleIo, TLAPS

\* The LEDs are dark from the end of a pattern to the start of the next, and
\* a pattern that switches has written its left group before its right one.
LedInv ==
    /\ PatternsDoNotMix
    /\ ExactlyOneGroup
    /\ pc = "return" => leds = Dark
    /\ pc = "lightRight" => pattern \in 3 .. 6 /\ leds["left"] = led

\* The flag still holds the stop the last turn was made for: patterns 1 to 3
\* set it back only before they wait.
Spent ==
    \/ pc \in {"enter", "faulted"}
    \/ pattern \in 1 .. 3 /\ pc \in {"light", "lightRight", "arm"}

\* Every other stop the thread sees, or has seen, is one no turn was made for.
TurnInv ==
    /\ NoFreeTurn
    /\ flag \in {"NEXT", "EXIT"} /\ ~Spent => turns < stops
    /\ pc = "return" => turns < stops

IInv == TypeOK /\ LedInv /\ NoLostWakeup /\ TurnInv

\* The steps that leave the LEDs and the patterns alone.
Calls ==
    \/ PressOrRelease
    \/ \E w \in Writers : WriteCopy(w)
    \/ \E p \in Wakers : WriteFlag(p)
    \/ ModuleExit
    \/ Unload
    \/ UNCHANGED vars

-----------------------------------------------------------------------------
\* The driver starts in pattern 1 with its LEDs dark and nobody waiting.
LEMMA Initial == Init => IInv
<1> SUFFICES ASSUME Init
             PROVE  IInv
  OBVIOUS
<1> USE DEF Init
<1>1. TypeOK
  BY IoAssumption DEF TypeOK, Levels, Groups, Flags, Dark
<1>2. LedInv
  BY DEF LedInv, PatternsDoNotMix, ExactlyOneGroup, Dark, Groups
<1>3. NoLostWakeup /\ TurnInv
  BY DEF NoLostWakeup, TurnInv, NoFreeTurn
<1> QED
  BY <1>1, <1>2, <1>3 DEF IInv

\* Calls do not move the thread and do not touch its LEDs.
LEMMA CallsMean == ASSUME Calls PROVE UNCHANGED threadVars
BY DEF Calls, PressOrRelease, WriteCopy, WriteFlag, ModuleExit, Unload, vars

\* The steps of Next, with those of a waker split in two.
LEMMA Steps ==
    ASSUME [Next]_vars
    PROVE  \/ Enter \/ Poll \/ Edge \/ Light \/ LightRight \/ Arm \/ Wait
           \/ Judge \/ Return \/ Faults \/ Calls
           \/ \E p \in Wakers : WakeUp(p)
BY DEF Next, Thread, Calls, Waker

\* Every step keeps every variable in its type.
LEMMA TypeStep == ASSUME TypeOK, [Next]_vars PROVE TypeOK'
<1> USE DEF TypeOK
<1>1. CASE Enter
  <2>1. flag' \in Flags
    BY <1>1 DEF Enter, FlagOnEntry, Flags
  <2>2. led' \in Levels
    <3>1. leds["left"] \in Levels /\ leds["right"] \in Levels
      BY DEF Groups
    <3>2. \/ pattern \in {1, 3, 4} \/ pattern = 2
          \/ pattern = 5 \/ pattern = 6
      OBVIOUS
    <3> HIDE DEF TypeOK
    <3>3. led' \in Levels \/ led' = led
      BY <1>1, <3>1, <3>2 DEF Enter
    <3> QED
      BY <3>3 DEF TypeOK
  <2> QED
    BY <1>1, <2>1, <2>2 DEF Enter, wakerVars
<1>2. CASE Poll
  BY <1>2 DEF Poll, wakerVars
<1>3. CASE Edge
  BY <1>3 DEF Edge, wakerVars
<1>4. CASE Light
  <2>1. led' \in Levels
    BY <1>4 DEF Light, Other, Levels
  <2>2. leds' \in [Groups -> Levels]
    BY <1>4, <2>1 DEF Light, LeftGroup
  <2>3. pc' \in {"arm", "lightRight"}
    BY <1>4 DEF Light
  <2> QED
    BY <1>4, <2>1, <2>2, <2>3 DEF Light, wakerVars
<1>5. CASE LightRight
  <2>1. leds' \in [Groups -> Levels]
    BY <1>5 DEF LightRight, RightGroup, Other, Levels
  <2> QED
    BY <1>5, <2>1 DEF LightRight, wakerVars
<1>6. CASE Arm
  BY <1>6 DEF Arm, Flags, wakerVars
<1>7. CASE Wait
  BY <1>7 DEF Wait, wakerVars
<1>8. CASE Judge
  <2>1. leds' \in [Groups -> Levels]
    BY <1>8 DEF Judge, Darkened, Dark, Levels
  <2>2. pc' \in {"return", "poll", "light"}
    BY <1>8 DEF Judge
  <2> QED
    BY <1>8, <2>1, <2>2 DEF Judge, wakerVars
<1>9. CASE Return
  <2>1. leds' \in [Groups -> Levels]
    BY <1>9 DEF Return, Dark, Levels
  <2>2. pc' \in {"ended", "enter"} /\ pattern' \in 1 .. 6 /\ turns' \in Nat
    BY <1>9 DEF Return, Following
  <2> QED
    BY <1>9, <2>1, <2>2 DEF Return, wakerVars
<1>10. CASE Faults
  BY <1>10 DEF Faults, wakerVars
<1>11. ASSUME NEW p \in Wakers, WakeUp(p)
       PROVE  TypeOK'
  BY <1>11 DEF WakeUp
<1>12. CASE Calls
  <2>1. CASE PressOrRelease
    BY <2>1 DEF PressOrRelease, threadVars, wakerVars
  <2>2. ASSUME NEW w \in Writers, WriteCopy(w)
        PROVE  TypeOK'
    <3>1. writes' \in 0 .. MaxWrites
      BY <2>2, IoAssumption DEF WriteCopy
    <3>2. waker' \in [Wakers -> {"idle", "copied", "wake"}]
      BY <2>2 DEF WriteCopy
    <3>3. buffer' \in Flags
      BY <2>2 DEF WriteCopy
    <3> QED
      BY <2>2, <3>1, <3>2, <3>3 DEF WriteCopy, threadVars
  <2>3. ASSUME NEW p \in Wakers, WriteFlag(p)
        PROVE  TypeOK'
    <3>1. stops' \in Nat
      BY <2>3 DEF WriteFlag
    <3>2. waker' \in [Wakers -> {"idle", "copied", "wake"}]
      BY <2>3 DEF WriteFlag
    <3> QED
      BY <2>3, <3>1, <3>2 DEF WriteFlag, threadVars
  <2>4. CASE ModuleExit
    <3>1. stops' \in Nat
      BY <2>4 DEF ModuleExit
    <3>2. waker' \in [Wakers -> {"idle", "copied", "wake"}]
      BY <2>4 DEF ModuleExit
    <3>3. flag' \in Flags /\ module' \in {"loaded", "exiting", "gone"}
      BY <2>4 DEF ModuleExit, Flags
    <3> QED
      BY <2>4, <3>1, <3>2, <3>3 DEF ModuleExit, threadVars
  <2>5. CASE Unload
    BY <2>5 DEF Unload, threadVars
  <2>6. CASE UNCHANGED vars
    BY <2>6 DEF vars, threadVars, wakerVars
  <2> QED
    BY <1>12, <2>1, <2>2, <2>3, <2>4, <2>5, <2>6 DEF Calls
<1> HIDE DEF TypeOK
<1> QED
  BY Steps, <1>1, <1>2, <1>3, <1>4, <1>5, <1>6, <1>7, <1>8, <1>9, <1>10,
     <1>11, <1>12

-----------------------------------------------------------------------------
\* The LEDs: only Light, LightRight, Judge and Return write them.
LEMMA LedStep == ASSUME IInv, [Next]_vars PROVE LedInv'
<1>0. TypeOK /\ LedInv
  BY DEF IInv
<1> USE DEF LedInv, PatternsDoNotMix, ExactlyOneGroup
<1>1. CASE Enter \/ Poll \/ Edge
  <2>1. /\ UNCHANGED <<pattern, leds>>
        /\ pc' \in {"poll", "light", "edge"}
    BY <1>1 DEF Enter, Poll, Edge
  <2> QED
    BY <1>0, <2>1
<1>2. CASE Light
  <2>1. CASE pattern = 1
    <3>1. /\ leds' = [leds EXCEPT !["left"] = led'] /\ pc' = "arm"
          /\ pattern' = 1
      BY <1>2, <2>1 DEF Light, LeftGroup
    <3>2. leds'["right"] = "OFF"
      BY <1>0, <2>1, <3>1 DEF TypeOK, Groups
    <3> QED
      BY <3>1, <3>2
  <2>2. CASE pattern = 2
    <3>1. /\ leds' = [leds EXCEPT !["right"] = led'] /\ pc' = "arm"
          /\ pattern' = 2
      BY <1>2, <2>2 DEF Light
    <3>2. leds'["left"] = "OFF"
      BY <1>0, <2>2, <3>1 DEF TypeOK, Groups
    <3> QED
      BY <3>1, <3>2
  <2>3. CASE pattern \in 3 .. 6
    <3>1. /\ leds' = [leds EXCEPT !["left"] = led'] /\ pc' = "lightRight"
          /\ pattern' = pattern
      BY <1>2, <2>3 DEF Light, LeftGroup
    <3>2. leds'["left"] = led'
      BY <1>0, <3>1 DEF TypeOK, Groups
    <3> QED
      BY <2>3, <3>1, <3>2
  <2> QED
    BY <1>0, <2>1, <2>2, <2>3 DEF TypeOK
<1>3. CASE LightRight
  <2>1. /\ pattern \in 3 .. 6 /\ leds["left"] = led /\ led \in Levels
        /\ pattern' = pattern /\ pc' \in {"arm", "judge"}
        /\ leds' = [leds EXCEPT !["right"] = Other(led)]
    BY <1>0, <1>3 DEF LightRight, RightGroup, TypeOK
  <2>2. \E g \in Groups : leds' = Only(g)
    <3>1. CASE led = "ON"
      <4>1. leds' = Only("left")
        BY <1>0, <2>1, <3>1 DEF Only, Other, Groups, TypeOK
      <4> QED
        BY <4>1 DEF Groups
    <3>2. CASE led = "OFF"
      <4>1. leds' = Only("right")
        BY <1>0, <2>1, <3>2 DEF Only, Other, Groups, TypeOK
      <4> QED
        BY <4>1 DEF Groups
    <3> QED
      BY <2>1, <3>1, <3>2 DEF Levels
  <2> QED
    BY <2>1, <2>2
<1>4. CASE Arm \/ Wait
  <2>1. /\ UNCHANGED <<pattern, leds>>
        /\ pc \in {"arm", "wait"}
        /\ pc' \in {"wait", "asleep", "judge"}
    BY <1>4 DEF Arm, Wait
  <2> QED
    BY <1>0, <2>1
<1>5. CASE Judge
  <2>1. pattern' = pattern /\ pc = "judge"
    BY <1>5 DEF Judge
  <2>2. CASE flag \in StopFlags
    <3>1. leds' = Darkened /\ pc' = "return"
      BY <1>5, <2>2 DEF Judge
    <3>2. Darkened = Dark
      BY <1>0 DEF Darkened, Dark, TypeOK, Groups
    <3>3. Dark["left"] = "OFF" /\ Dark["right"] = "OFF"
      BY DEF Dark, Groups
    <3> QED
      BY <3>1, <3>2, <3>3
  <2>3. CASE flag \notin StopFlags
    <3>1. leds' = leds /\ pc' \in {"poll", "light"}
      BY <1>5, <2>3 DEF Judge
    <3> QED
      BY <1>0, <2>1, <3>1
  <2> QED
    BY <2>2, <2>3
<1>6. CASE Return
  <2>1. leds' = Dark /\ pc' \in {"ended", "enter"}
    BY <1>0, <1>6 DEF Return
  <2>2. Dark["left"] = "OFF" /\ Dark["right"] = "OFF"
    BY DEF Dark, Groups
  <2> QED
    BY <2>1, <2>2
<1>7. CASE Faults
  <2>1. UNCHANGED <<pattern, leds>> /\ pc' = "faulted"
    BY <1>7 DEF Faults
  <2> QED
    BY <1>0, <2>1
<1>8. ASSUME NEW p \in Wakers, WakeUp(p)
      PROVE  LedInv'
  <2>1. /\ UNCHANGED <<pattern, led, leds>>
        /\ pc' = pc \/ (pc = "asleep" /\ pc' = "wait")
    BY <1>8 DEF WakeUp
  <2> QED
    BY <1>0, <2>1
<1>9. CASE Calls
  BY <1>0, <1>9, CallsMean DEF threadVars
<1> HIDE DEF LedInv
<1> QED
  BY Steps, <1>1, <1>2, <1>3, <1>4, <1>5, <1>6, <1>7, <1>8, <1>9

-----------------------------------------------------------------------------
\* The wait queue: the thread falls asleep only on WAIT, and whoever writes
\* KEY or NEXT afterwards still has the wake-up to do.
LEMMA WakeStep == ASSUME IInv, [Next]_vars PROVE NoLostWakeup'
<1>0. TypeOK /\ NoLostWakeup
  BY DEF IInv
<1> USE DEF NoLostWakeup
<1>1. CASE Enter \/ Poll \/ Edge \/ Light \/ LightRight \/ Arm \/ Judge
           \/ Return \/ Faults
  <2>1. pc' # "asleep"
    BY <1>1
    DEF Enter, Poll, Edge, Light, LightRight, Arm, Judge, Return, Faults
  <2> QED
    BY <2>1
<1>2. CASE Wait
  BY <1>2 DEF Wait, Sleeps
<1>3. ASSUME NEW p \in Wakers, WakeUp(p)
      PROVE  NoLostWakeup'
  <2>1. pc' # "asleep"
    BY <1>3 DEF WakeUp
  <2> QED
    BY <2>1
<1>4. CASE Calls
  <2>0. pc' = pc
    BY <1>4, CallsMean DEF threadVars
  <2>1. CASE PressOrRelease \/ Unload \/ UNCHANGED vars
    BY <1>0, <2>1, <2>0 DEF PressOrRelease, Unload, wakerVars, vars
  <2>2. ASSUME NEW w \in Writers, WriteCopy(w)
        PROVE  NoLostWakeup'
    <3>1. /\ flag' = flag /\ waker[w] = "idle"
          /\ waker' = [waker EXCEPT ![w] = "copied"]
      BY <2>2 DEF WriteCopy
    <3>2. \A p \in Wakers : waker[p] = "wake" => waker'[p] = "wake"
      BY <1>0, <3>1 DEF TypeOK
    <3> QED
      BY <1>0, <2>0, <3>1, <3>2
  <2>3. ASSUME NEW p \in Wakers, WriteFlag(p)
        PROVE  NoLostWakeup'
    <3>1. flag' \in {"KEY", "NEXT"} => waker'[p] = "wake"
      BY <1>0, <2>3 DEF WriteFlag, WakingFlags, TypeOK
    <3> QED
      BY <3>1
  <2>4. CASE ModuleExit
    BY <2>4 DEF ModuleExit
  <2> QED
    BY <1>4, <2>1, <2>2, <2>3, <2>4 DEF Calls
<1> HIDE DEF NoLostWakeup
<1> QED
  BY Steps, <1>1, <1>2, <1>3, <1>4

\* The stops: a pattern sets the flag back before it looks at it again.
LEMMA TurnStep == ASSUME IInv, [Next]_vars PROVE TurnInv'
<1>0. TypeOK /\ TurnInv /\ LedInv /\ turns \in Nat /\ stops \in Nat
  BY DEF IInv, TypeOK
<1> USE DEF TurnInv, NoFreeTurn, Spent
<1>1. CASE Enter
  <2>1. /\ UNCHANGED <<turns, stops, pattern>>
        /\ pc = "enter" /\ pc' \in {"poll", "light"}
        /\ pattern = 6 <=> pc' = "poll"
        /\ pattern \in {4, 5, 6} => flag' = "WAIT"
    BY <1>1 DEF Enter, FlagOnEntry
  <2>2. pattern \in 1 .. 6
    BY <1>0 DEF TypeOK
  <2> QED
    BY <1>0, <2>1, <2>2
<1>2. CASE Poll \/ Edge
  <2>1. /\ UNCHANGED <<turns, stops, pattern, flag>>
        /\ pc \in {"poll", "edge"} /\ pc' # "return"
    BY <1>2 DEF Poll, Edge
  <2> QED
    BY <1>0, <2>1
<1>3. CASE Light \/ LightRight
  <2>1. /\ UNCHANGED <<turns, stops, pattern, flag>>
        /\ pc \in {"light", "lightRight"}
        /\ pc' \in {"arm", "lightRight", "judge"}
        /\ pc' = "judge" => pattern \notin 1 .. 3
    BY <1>0, <1>3 DEF Light, LightRight, LedInv
  <2> QED
    BY <1>0, <2>1
<1>4. CASE Arm
  BY <1>0, <1>4 DEF Arm
<1>5. CASE Wait
  <2>1. /\ UNCHANGED <<turns, stops, pattern, flag>>
        /\ pc = "wait" /\ pc' \in {"asleep", "judge"}
    BY <1>5 DEF Wait
  <2> QED
    BY <1>0, <2>1
<1>6. CASE Judge
  <2>1. /\ UNCHANGED <<turns, stops, pattern, flag>>
        /\ pc = "judge" /\ pc' \in {"return", "poll", "light"}
        /\ pc' = "return" <=> flag \in {"NEXT", "EXIT"}
    BY <1>6 DEF Judge, StopFlags
  <2> QED
    BY <1>0, <2>1
<1>7. CASE Return
  <2>1. pc = "return" /\ UNCHANGED <<stops, flag>> /\ turns < stops
    BY <1>0, <1>7 DEF Return
  <2>2. CASE flag = "EXIT"
    BY <1>0, <1>7, <2>1, <2>2 DEF Return
  <2>3. CASE flag # "EXIT"
    BY <1>0, <1>7, <2>1, <2>3 DEF Return
  <2> QED
    BY <2>2, <2>3
<1>8. CASE Faults
  BY <1>0, <1>8 DEF Faults
<1>9. ASSUME NEW p \in Wakers, WakeUp(p)
      PROVE  TurnInv'
  <2>1. /\ UNCHANGED <<turns, stops, pattern, flag>>
        /\ pc' = pc \/ (pc = "asleep" /\ pc' = "wait")
    BY <1>9 DEF WakeUp
  <2> QED
    BY <1>0, <2>1
<1>10. CASE Calls
  <2>0. UNCHANGED <<pc, pattern>>
    BY <1>10, CallsMean DEF threadVars
  <2>1. turns' = turns
    BY <1>10
    DEF Calls, PressOrRelease, WriteCopy, WriteFlag, ModuleExit, Unload, vars
  <2>2. \/ stops' = stops + 1
        \/ stops' = stops /\ (flag' = flag \/ flag' \notin {"NEXT", "EXIT"})
    BY <1>10
    DEF Calls, PressOrRelease, WriteCopy, WriteFlag, ModuleExit, Unload, vars
  <2> QED
    BY <1>0, <2>0, <2>1, <2>2
<1> HIDE DEF TurnInv
<1> QED
  BY Steps, <1>1, <1>2, <1>3, <1>4, <1>5, <1>6, <1>7, <1>8, <1>9, <1>10

-----------------------------------------------------------------------------
\* The four parts together are inductive.
LEMMA Invariant == Spec => []IInv
<1>1. IInv /\ [Next]_vars => IInv'
  BY TypeStep, LedStep, WakeStep, TurnStep DEF IInv
<1> QED
  BY Initial, <1>1, PTL DEF Spec

\* No pattern inherits a light from the one before it, and those that switch
\* leave exactly one group lit while they rest.
THEOREM PatternsAreApart == Spec => []IoInv
<1>1. IInv => IoInv
  BY DEF IInv, LedInv, IoInv
<1> QED
  BY <1>1, Invariant, PTL

\* However many writers race, a thread asleep on KEY or NEXT has its wake-up
\* still to come.
THEOREM WakeupsArrive == Spec => []NoLostWakeup
<1>1. IInv => NoLostWakeup
  BY DEF IInv
<1> QED
  BY <1>1, Invariant, PTL

\* The thread never turns to another pattern more often than it was asked to.
THEOREM TurnsAreAskedFor == Spec => []NoFreeTurn
<1>1. IInv => NoFreeTurn
  BY DEF IInv, TurnInv
<1> QED
  BY <1>1, Invariant, PTL
=============================================================================
