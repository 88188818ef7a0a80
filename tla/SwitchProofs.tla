---------------------------- MODULE SwitchProofs ----------------------------
(***************************************************************************)
(* Proofs about the simple_switch driver, for all limits, all stalls and   *)
(* every width of cur_led: what a thread that is not held up recognises,   *)
(* when it leaves LIT, and that its LEDs behave like the bar of LedBar.    *)
(***************************************************************************)
EXTENDS SimpleSwitch, TLAPS

Single == {"INIT", "LIT", "SHORT", "LONG"}

\* How much time may have passed since a look of the thread at least d after
\* pre_jiffies: one stall for each step it has made since then.
Within(d) ==
    /\ pc = "check" => elapsed <= d + stall
    /\ pc = "sample" => elapsed <= d + longest + stall
    /\ pc = "act" => elapsed <= d + longest + longest + stall
    /\ elapsed <= d + longest + longest + longest

\* A thread that is not held up is in SHORT or LONG for one look only, and in
\* LIT until its first look after the limit.
TimeInv ==
    /\ ~HeldUp => /\ state \in Single
                  /\ state \in {"SHORT", "LONG"} => Within(0)
    /\ state = "LIT" => Within(LongMs - 1)

BarInv == LedsShowCurLed /\ Thermometer

IInv == TypeOK /\ TimeInv /\ BarInv

-----------------------------------------------------------------------------
LEMMA Initial == Init => IInv
<1> SUFFICES ASSUME Init
             PROVE  IInv
  OBVIOUS
<1> USE SwitchAssumption DEF Init
<1>1. TypeOK
  BY DEF TypeOK, MaxElapsed, Levels, States, Flags, Bits, Leds, LedCount
<1>2. TimeInv
  BY DEF TimeInv, Single
<1>3. BarInv
  <2>1. 0 \in 0 .. IntBits /\ curLed = LowBits(0)
    BY DEF LowBits
  <2> QED
    BY <2>1 DEF BarInv, LedsShowCurLed, Thermometer
<1> QED
  BY <1>1, <1>2, <1>3 DEF IInv

\* The clocks are numbers, and what HeldUp says of them; once for the state
\* before a step and once for the state after it.
LEMMA Numbers ==
    ASSUME TypeOK
    PROVE  /\ elapsed \in Nat /\ stall \in Nat /\ longest \in Nat
           /\ stall <= longest
           /\ HeldUp <=> 3 * longest >= ShortMs
<1>1. /\ elapsed \in Nat /\ stall \in Nat /\ longest \in Nat
      /\ stall <= longest /\ longest \in 0 .. MaxStall
  BY SwitchAssumption DEF TypeOK, MaxElapsed
<1>2. HeldUp <=> 3 * longest >= ShortMs
  BY <1>1 DEF HeldUp, LongStalls
<1> QED
  BY <1>1, <1>2

\* The same, of the state after a step.
LEMMA NumbersAfter ==
    ASSUME TypeOK'
    PROVE  /\ elapsed' \in Nat /\ stall' \in Nat /\ longest' \in Nat
           /\ stall' <= longest'
           /\ HeldUp' <=> 3 * longest' >= ShortMs
<1>1. /\ elapsed' \in Nat /\ stall' \in Nat /\ longest' \in Nat
      /\ stall' <= longest' /\ longest' \in 0 .. MaxStall
  BY SwitchAssumption DEF TypeOK, MaxElapsed
<1>2. HeldUp' <=> 3 * longest' >= ShortMs
  BY <1>1 DEF HeldUp, LongStalls
<1> QED
  BY <1>1, <1>2

\* A larger number is the smaller one and something more.
LEMMA More == \A a, b \in Nat : a <= b => \E k \in Nat : b = a + k
<1> TAKE a, b \in Nat
<1> HAVE a <= b
<1> WITNESS b - a \in Nat
<1> QED
  OBVIOUS

-----------------------------------------------------------------------------
(* The table of transitions *)

\* What is judged is a level or a timeout.
LEMMA JudgedIsInput == ASSUME TypeOK PROVE Judged \in Inputs
BY DEF TypeOK, Judged, Inputs, Levels

\* The entries the proof reads, one row per state.
LEMMA Table ==
    /\ \A i \in Inputs : \A s \in States :
           /\ transitions[s][i].next \in States
           /\ transitions[s][i].next = "LIT" =>
                  \/ transitions[s][i].action = "INIT"
                  \/ s = "LIT" /\ i = "ON"
           /\ transitions[s][i].next \in {"SHORT", "LONG"} =>
                  \/ transitions[s][i].action = "INIT"
                  \/ s \in {"SHORT", "LONG"} /\ i # "TIMEOUT"
           /\ (s \in {"INIT", "LIT"} \/ (i = "TIMEOUT" /\ s \in Single)) =>
                  transitions[s][i].next \in Single
<1> SUFFICES ASSUME NEW i \in Inputs, NEW s \in States
             PROVE  /\ transitions[s][i].next \in States
                    /\ transitions[s][i].next = "LIT" =>
                           \/ transitions[s][i].action = "INIT"
                           \/ s = "LIT" /\ i = "ON"
                    /\ transitions[s][i].next \in {"SHORT", "LONG"} =>
                           \/ transitions[s][i].action = "INIT"
                           \/ s \in {"SHORT", "LONG"} /\ i # "TIMEOUT"
                    /\ (s \in {"INIT", "LIT"}
                            \/ (i = "TIMEOUT" /\ s \in Single)) =>
                           transitions[s][i].next \in Single
  OBVIOUS
<1>1. i = "OFF" \/ i = "ON" \/ i = "TIMEOUT"
  BY DEF Inputs, Levels
<1> USE <1>1 DEF transitions, To, Single, States
<1>2. CASE s = "INIT"
  BY <1>2
<1>3. CASE s = "LIT"
  BY <1>3
<1>4. CASE s = "SHORT"
  BY <1>4
<1>5. CASE s = "LONG"
  BY <1>5
<1>6. CASE s = "SHORTSHORT"
  BY <1>6
<1>7. CASE s = "SHORTLONG"
  BY <1>7
<1>8. CASE s = "LONGSHORT"
  BY <1>8
<1>9. CASE s = "LONGLONG"
  BY <1>9
<1> QED
  BY <1>2, <1>3, <1>4, <1>5, <1>6, <1>7, <1>8, <1>9

-----------------------------------------------------------------------------
(* The bar *)

\* The bars one gesture makes of a bar of n bits.
After(n) == {n - 1, n, n + 1, 0, 4, 6, 8} \cap (0 .. IntBits)

\* Shifting a bar gives a bar that differs by one bit at most.
LEMMA ShiftsKeepBars ==
    ASSUME NEW n \in 0 .. IntBits
    PROVE  /\ \E m \in After(n) : ShiftedIn(LowBits(n)) = LowBits(m)
           /\ \E m \in After(n) : ShiftedOut(LowBits(n)) = LowBits(m)
<1> USE SwitchAssumption DEF ShiftedIn, ShiftedOut, LowBits, Bits
<1>0. n \in After(n)
  BY DEF After
<1>1. CASE n = IntBits
  <2>1. ShiftedIn(LowBits(n)) = LowBits(n)
    <3>1. ShiftedIn(LowBits(n)) \subseteq LowBits(n)
      BY <1>1
    <3>2. ASSUME NEW b \in LowBits(n), b # 0
          PROVE  b \in ShiftedIn(LowBits(n))
      <4>1. b - 1 \in LowBits(n) /\ b = (b - 1) + 1
        BY <3>2
      <4> QED
        BY <4>1, <1>1
    <3>3. 0 \in ShiftedIn(LowBits(n))
      OBVIOUS
    <3> QED
      BY <3>1, <3>2, <3>3
  <2>2. ShiftedOut(LowBits(n)) = LowBits(n)
    <3>1. ShiftedOut(LowBits(n)) \subseteq LowBits(n)
      BY <1>1
    <3>2. ASSUME NEW b \in LowBits(n)
          PROVE  b \in ShiftedOut(LowBits(n))
      <4>1. CASE b = IntBits - 1
        BY <4>1, <1>1
      <4>2. CASE b # IntBits - 1
        <5>1. b + 1 \in LowBits(n) \ {0} /\ b = (b + 1) - 1
          BY <4>2, <1>1
        <5> QED
          BY <5>1
      <4> QED
        BY <4>1, <4>2
    <3> QED
      BY <3>1, <3>2
  <2> HIDE DEF ShiftedIn, ShiftedOut, LowBits
  <2> QED
    BY <1>0, <2>1, <2>2
<1>2. CASE n < IntBits
  <2>1. ShiftedIn(LowBits(n)) = LowBits(n + 1)
    <3>1. ShiftedIn(LowBits(n)) \subseteq LowBits(n + 1)
      BY <1>2
    <3>2. ASSUME NEW b \in LowBits(n + 1), b # 0
          PROVE  b \in ShiftedIn(LowBits(n))
      <4>1. b - 1 \in LowBits(n) /\ b = (b - 1) + 1 /\ b \in Bits
        BY <3>2, <1>2
      <4> QED
        BY <4>1
    <3>3. 0 \in ShiftedIn(LowBits(n))
      OBVIOUS
    <3> QED
      BY <3>1, <3>2, <3>3
  <2>2. CASE n = 0
    <3>1. ShiftedOut(LowBits(n)) = LowBits(n)
      BY <2>2
    <3>2. n + 1 \in After(n)
      BY <1>2 DEF After
    <3> HIDE DEF ShiftedIn, ShiftedOut, LowBits
    <3> QED
      BY <1>0, <2>1, <3>1, <3>2
  <2>3. CASE n # 0
    <3>1. ShiftedOut(LowBits(n)) \subseteq LowBits(n - 1)
      BY <1>2, <2>3
    <3>2. ASSUME NEW b \in LowBits(n - 1)
          PROVE  b \in ShiftedOut(LowBits(n))
      <4>1. b + 1 \in LowBits(n) \ {0} /\ b = (b + 1) - 1
        BY <3>2, <2>3
      <4> QED
        BY <4>1
    <3>3. ShiftedOut(LowBits(n)) = LowBits(n - 1)
      BY <3>1, <3>2
    <3>4. n + 1 \in After(n) /\ n - 1 \in After(n)
      BY <1>2, <2>3 DEF After
    <3> HIDE DEF ShiftedIn, ShiftedOut, LowBits
    <3> QED
      BY <2>1, <3>3, <3>4
  <2> QED
    BY <2>2, <2>3
<1> QED
  BY <1>1, <1>2

-----------------------------------------------------------------------------
(* Steps *)

\* What a look of the thread does, without the table.
LEMMA ActMeans ==
    ASSUME IInv, Act
    PROVE  /\ pc = "act" /\ pc' = "check" /\ stall' = 0 /\ longest' = longest
           /\ state' \in States
           /\ elapsed' = 0 \/ elapsed' = elapsed
           /\ state' = "LIT" =>
                  elapsed' = 0 \/ (state = "LIT" /\ Judged = "ON")
           /\ state' \in {"SHORT", "LONG"} =>
                  \/ elapsed' = 0
                  \/ state \in {"SHORT", "LONG"} /\ Judged # "TIMEOUT"
           /\ (state \in {"INIT", "LIT"}
                   \/ (Judged = "TIMEOUT" /\ state \in Single)) =>
                  state' \in Single
           /\ leds' = Shown(curLed')
           /\ \E n \in 0 .. IntBits : \E m \in After(n) :
                  curLed = LowBits(n) /\ curLed' = LowBits(m)
<1> DEFINE t == transitions[state][Judged]
<1>1. Judged \in Inputs /\ state \in States
  BY JudgedIsInput DEF IInv, TypeOK
<1>2. /\ pc = "act" /\ pc' = "check" /\ stall' = 0 /\ longest' = longest
      /\ state' = t.next /\ curLed' = CurLedAfter(t.action)
      /\ leds' = Shown(curLed')
      /\ elapsed' = IF t.action = "INIT" THEN 0 ELSE elapsed
  BY DEF Act
<1>3. \E n \in 0 .. IntBits : \E m \in After(n) :
          curLed = LowBits(n) /\ CurLedAfter(t.action) = LowBits(m)
  <2> DEFINE a == t.action
  <2>1. PICK n \in 0 .. IntBits : curLed = LowBits(n)
    BY DEF IInv, BarInv, Thermometer
  <2>2. {n, 0, 4, 6, 8} \subseteq After(n)
    BY SwitchAssumption DEF After
  <2> HIDE DEF a, t
  <2>3. CurLedAfter(a) \in {ShiftedIn(curLed), ShiftedOut(curLed), curLed,
                            LowBits(0), LowBits(4), LowBits(6), LowBits(8)}
    BY DEF CurLedAfter
  <2>4. \E m \in After(n) : CurLedAfter(a) = LowBits(m)
    BY <2>1, <2>2, <2>3, ShiftsKeepBars
  <2> QED
    BY <2>1, <2>4 DEF a
<1>4. /\ t.next \in States
      /\ t.next = "LIT" =>
             t.action = "INIT" \/ (state = "LIT" /\ Judged = "ON")
      /\ t.next \in {"SHORT", "LONG"} =>
             \/ t.action = "INIT"
             \/ state \in {"SHORT", "LONG"} /\ Judged # "TIMEOUT"
      /\ (state \in {"INIT", "LIT"}
              \/ (Judged = "TIMEOUT" /\ state \in Single)) =>
             t.next \in Single
  BY <1>1, Table
<1> HIDE DEF t
<1> QED
  BY <1>2, <1>3, <1>4

\* The thread's steps lead around its loop, and only Act resets the clock.
LEMMA TimeStep ==
    ASSUME TypeOK, TypeOK', NEW d \in Nat, Within(d),
           \/ Sample \/ Check \/ Faults \/ Tick
           \/ UNCHANGED <<pc, timeVars>>
    PROVE  Within(d)'
<1> USE DEF TypeOK, Within
<1>1. CASE Sample
  BY <1>1 DEF Sample
<1>2. CASE Check
  BY <1>2 DEF Check
<1>3. CASE Faults
  BY <1>3 DEF Faults, timeVars
<1>4. CASE Tick
  <2>1. elapsed' <= elapsed + 1 /\ stall' = stall + 1 /\ pc' = pc
    BY <1>4 DEF Tick, threadVars
  <2>2. longest' \in Nat /\ longest' >= longest /\ longest' >= stall + 1
    BY <1>4 DEF Tick
  <2>3. pc \in {"sample", "act", "check"}
    BY <1>4 DEF Tick, ThreadRuns
  <2>4. /\ elapsed \in Nat /\ stall \in Nat /\ longest \in Nat
        /\ elapsed' \in Nat /\ stall <= longest
    BY Numbers, NumbersAfter
  <2> HIDE DEF TypeOK
  <2>5. PICK k \in Nat : longest' = longest + k
    BY <2>2, <2>4, More
  <2>6. PICK j \in Nat : longest' = stall + 1 + j
    BY <2>2, <2>4, More
  <2>7. /\ pc = "check" => elapsed' <= d + stall'
        /\ pc = "sample" => elapsed' <= d + longest' + stall'
        /\ pc = "act" => elapsed' <= d + longest' + longest' + stall'
    BY <2>1, <2>4, <2>5
  <2>8. elapsed' <= d + longest' + longest' + longest'
    BY <2>1, <2>3, <2>4, <2>5, <2>6
  <2> QED
    BY <2>1, <2>7, <2>8
<1>5. CASE UNCHANGED <<pc, timeVars>>
  BY <1>5 DEF timeVars
<1> QED
  BY <1>1, <1>2, <1>3, <1>4, <1>5

\* Every step keeps every variable in its type.
LEMMA TypeStep == ASSUME IInv, [Next]_vars PROVE TypeOK'
<1> USE DEF TypeOK
<1>0. TypeOK /\ SwitchAssumption
  BY SwitchAssumption DEF IInv
<1>1. CASE Sample
  BY <1>0, <1>1 DEF Sample, writeVars
<1>2. CASE Act
  <2>1. state' \in States /\ pc' = "check" /\ stall' = 0 /\ longest' = longest
    BY <1>2, ActMeans
  <2>2. curLed' \in SUBSET Bits
    <3>1. PICK m \in 0 .. IntBits : curLed' = LowBits(m)
      BY <1>2, ActMeans DEF After
    <3> QED
      BY <1>0, <3>1 DEF LowBits, Bits
  <2>3. leds' \in SUBSET Leds
    BY <1>2, ActMeans DEF Shown
  <2>4. elapsed' \in 0 .. MaxElapsed
    BY <1>0, <1>2, ActMeans DEF MaxElapsed
  <2>5. UNCHANGED <<button, input, flag, buffer, writer, module>>
    BY <1>2 DEF Act, writeVars
  <2> QED
    BY <1>0, <2>1, <2>2, <2>3, <2>4, <2>5
<1>3. CASE Check
  <2>1. /\ pc' \in {"ended", "sample"} /\ stall' = 0
        /\ leds' = {} \/ leds' = leds
        /\ UNCHANGED <<button, input, state, curLed, elapsed, longest, flag,
                       buffer, writer, module>>
    BY <1>3 DEF Check, writeVars
  <2> QED
    BY <1>0, <2>1
<1>4. CASE Faults
  BY <1>0, <1>4 DEF Faults, writeVars, timeVars
<1>5. CASE Tick
  <2>1. /\ stall' \in 0 .. MaxStall
        /\ longest' \in stall' .. MaxStall
        /\ elapsed' \in 0 .. MaxElapsed
    BY <1>0, <1>5 DEF Tick, MaxElapsed
  <2>2. UNCHANGED <<button, threadVars, flag, writeVars, module>>
    BY <1>5 DEF Tick
  <2> QED
    BY <1>0, <2>1, <2>2 DEF threadVars, writeVars
<1>6. CASE PressOrRelease
  BY <1>0, <1>6 DEF PressOrRelease, threadVars, timeVars, writeVars
<1>7. ASSUME NEW w \in Writers, WriteCopy(w)
      PROVE  TypeOK'
  BY <1>0, <1>7 DEF WriteCopy, threadVars, timeVars
<1>8. ASSUME NEW w \in Writers, WriteFlag(w)
      PROVE  TypeOK'
  BY <1>0, <1>8 DEF WriteFlag, threadVars, timeVars
<1>9. CASE ModuleExit
  BY <1>0, <1>9 DEF ModuleExit, threadVars, timeVars, writeVars, Flags
<1>10. CASE Unload
  BY <1>0, <1>10 DEF Unload, threadVars, timeVars, writeVars
<1>11. CASE UNCHANGED vars
  BY <1>0, <1>11 DEF vars, threadVars, timeVars, writeVars
<1> QED
  BY <1>1, <1>2, <1>3, <1>4, <1>5, <1>6, <1>7, <1>8, <1>9, <1>10, <1>11
  DEF Next, Thread

\* The actions that neither move the thread nor touch what it shows.
Others ==
    \/ PressOrRelease
    \/ \E w \in Writers : WriteCopy(w) \/ WriteFlag(w)
    \/ ModuleExit
    \/ Unload
    \/ UNCHANGED vars

\* They leave the thread and the clocks as they are.
LEMMA OthersMean == ASSUME Others PROVE UNCHANGED <<threadVars, timeVars>>
BY DEF Others, PressOrRelease, WriteCopy, WriteFlag, ModuleExit, Unload, vars

\* Every step keeps the thread in time.
LEMMA TimeInvStep == ASSUME IInv, TypeOK', [Next]_vars PROVE TimeInv'
<1>0. TypeOK /\ TypeOK' /\ TimeInv /\ SwitchAssumption
  BY SwitchAssumption DEF IInv
<1>1. /\ longest \in Nat
      /\ HeldUp <=> 3 * longest >= ShortMs
  BY <1>0, Numbers
<1>2. /\ longest' \in Nat
      /\ HeldUp' <=> 3 * longest' >= ShortMs
  BY <1>0, NumbersAfter
<1>3. CASE Act
  <2>1. /\ pc = "act" /\ pc' = "check" /\ stall' = 0 /\ longest' = longest
        /\ elapsed' = 0 \/ elapsed' = elapsed
    BY <1>3, ActMeans
  <2>2. ASSUME NEW d \in Nat, elapsed' <= d
        PROVE  Within(d)'
    BY <1>0, <2>1, <2>2 DEF Within, TypeOK
  <2>3. state' = "LIT" => Within(LongMs - 1)'
    <3>1. SUFFICES ASSUME state' = "LIT"
                   PROVE  elapsed' <= LongMs - 1
      BY <1>0, <2>2
    <3>2. CASE elapsed' = 0
      BY <1>0, <3>2
    <3>3. CASE elapsed' = elapsed /\ elapsed' # 0
      <4>1. state = "LIT" /\ Judged = "ON"
        BY <1>3, <3>1, <3>3, ActMeans
      <4>2. elapsed < LongMs
        BY <4>1 DEF Judged, IsShortPush
      <4> QED
        BY <1>0, <3>3, <4>2 DEF TypeOK
    <3> QED
      BY <2>1, <3>2, <3>3
  <2>4. ASSUME ~HeldUp'
        PROVE  /\ state' \in Single
               /\ state' \in {"SHORT", "LONG"} => Within(0)'
    <3>1. ~HeldUp /\ 3 * longest < ShortMs
      BY <1>0, <1>1, <1>2, <2>1, <2>4 DEF TypeOK
    <3>2. state \in Single
      BY <1>0, <3>1 DEF TimeInv
    <3>3. state \in {"SHORT", "LONG"} => Judged = "TIMEOUT"
      <4>1. state \in {"SHORT", "LONG"} => elapsed < ShortMs
        BY <1>0, <3>1 DEF TimeInv, Within, TypeOK
      <4> QED
        BY <4>1 DEF Judged, IsShortPush
    <3>4. state' \in Single
      BY <1>3, <3>2, <3>3, ActMeans DEF Single
    <3>5. state' \in {"SHORT", "LONG"} => elapsed' = 0
      BY <1>3, <3>3, ActMeans
    <3> QED
      BY <2>2, <3>4, <3>5
  <2> QED
    BY <2>3, <2>4 DEF TimeInv
<1>4. CASE ~Act
  <2>1. \/ Sample \/ Check \/ Faults \/ Tick
        \/ UNCHANGED <<pc, timeVars>>
    BY <1>4, OthersMean DEF Next, Thread, Others, threadVars
  <2>2. state' = state /\ longest' >= longest
    <3>1. CASE Others
      BY <1>0, <3>1, OthersMean DEF threadVars, timeVars, TypeOK
    <3>2. CASE Sample \/ Check \/ Faults \/ Tick
      BY <1>0, <3>2
      DEF Sample, Check, Faults, Tick, threadVars, timeVars, TypeOK
    <3> QED
      BY <1>4, <3>1, <3>2 DEF Next, Thread, Others
  <2>3. ASSUME NEW d \in Nat, Within(d)
        PROVE  Within(d)'
    BY <1>0, <2>1, <2>3, TimeStep
  <2>4. 0 \in Nat /\ LongMs - 1 \in Nat
    BY <1>0
  <2>5. ~HeldUp' => ~HeldUp
    <3>1. ShortMs \in Nat
      BY SwitchAssumption
    <3>2. PICK k \in Nat : longest' = longest + k
      BY <1>1, <1>2, <2>2, More
    <3>3. 3 * longest >= ShortMs => 3 * longest' >= ShortMs
      BY <1>1, <3>1, <3>2
    <3> QED
      BY <1>1, <1>2, <3>3
  <2>6. state = "LIT" => Within(LongMs - 1)
    BY <1>0 DEF TimeInv
  <2>7. ~HeldUp => /\ state \in Single
                   /\ state \in {"SHORT", "LONG"} => Within(0)
    BY <1>0 DEF TimeInv
  <2>8. Within(0) => Within(0)'
    BY <2>3, <2>4
  <2>9. Within(LongMs - 1) => Within(LongMs - 1)'
    BY <2>3, <2>4
  <2> HIDE DEF Within, HeldUp
  <2>10. (state = "LIT" => Within(LongMs - 1))'
    <3>1. state' = "LIT" => Within(LongMs - 1)'
      BY <2>2, <2>6, <2>9
    <3> QED
      BY <3>1
  <2> QED
    BY <2>2, <2>5, <2>7, <2>8, <2>10 DEF TimeInv
<1> QED
  BY <1>3, <1>4

\* Every step keeps the bar, and the LEDs that show it.
LEMMA BarInvStep == ASSUME IInv, TypeOK', [Next]_vars PROVE BarInv'
<1> USE DEF BarInv, LedsShowCurLed, Thermometer
<1>0. BarInv /\ TypeOK /\ TypeOK'
  BY DEF IInv
<1>1. CASE Act
  <2>1. /\ pc' = "check" /\ leds' = Shown(curLed')
        /\ curLed' \in {LowBits(m) : m \in 0 .. IntBits}
    BY <1>1, ActMeans DEF After
  <2>2. curLed' \subseteq Nat
    BY <2>1 DEF LowBits
  <2>3. \A b \in Nat : b \in 0 .. LedCount - 1 <=> b < LedCount
    BY DEF LedCount
  <2>4. leds' = curLed' \cap (0 .. LedCount - 1)
    BY <2>1 DEF Shown, Leds
  <2>5. leds' = {b \in curLed' : b < LedCount}
    BY <2>2, <2>3, <2>4
  <2> QED
    BY <2>1, <2>5
<1>2. CASE Sample
  BY <1>0, <1>2 DEF Sample
<1>3. CASE Check
  BY <1>0, <1>3 DEF Check
<1>4. CASE Faults
  BY <1>0, <1>4 DEF Faults
<1>5. CASE Tick
  BY <1>0, <1>5 DEF Tick, threadVars
<1>6. CASE Others
  BY <1>0, <1>6, OthersMean DEF threadVars
<1> QED
  BY <1>1, <1>2, <1>3, <1>4, <1>5, <1>6 DEF Next, Thread, Others

-----------------------------------------------------------------------------
(* The theorems *)

\* The three parts together are inductive.
LEMMA Inductive == IInv /\ [Next]_vars => IInv'
BY TypeStep, TimeInvStep, BarInvStep DEF IInv

\* So they always hold.
LEMMA Invariant == Spec => []IInv
BY Initial, Inductive, PTL DEF Spec

\* LIT is left at the first look after the limit, cur_led is a bar without
\* gaps, also after it has run into the sign bit, and the LEDs show it until
\* the thread has turned them off for good: for all limits and all stalls.
THEOREM BarIsShown == Spec => []SwitchInv
<1>1. IInv => SwitchInv
  <2> SUFFICES ASSUME IInv
               PROVE  SwitchInv
    OBVIOUS
  <2>1. state = "LIT" => elapsed <= (LongMs - 1) + 3 * longest
    BY SwitchAssumption DEF IInv, TimeInv, Within, TypeOK
  <2>2. LitIsBounded
    BY <2>1, SwitchAssumption DEF LitIsBounded, IInv, TypeOK
  <2> QED
    BY <2>2 DEF SwitchInv, IInv, BarInv
<1> QED
  BY <1>1, Invariant, PTL

\* A thread that is never held up for a third of the limit recognises no
\* combination of presses, whatever the user does and whatever the limits
\* are: SHORT and LONG end before the second press.
THEOREM NoCombinations == Spec => []OnlySingleGestures
<1>1. IInv => OnlySingleGestures
  BY DEF IInv, TimeInv, Single, OnlySingleGestures
<1> QED
  BY <1>1, Invariant, PTL

-----------------------------------------------------------------------------
(* The LEDs implement LedBar *)

\* What is shown of a bar of n bits.
InView(n) == IF n < LedCount THEN n ELSE LedCount

\* The LEDs show a bar, cut off after the last LED.
LEMMA ShownBar ==
    ASSUME NEW n \in 0 .. IntBits
    PROVE  Shown(LowBits(n)) = Led!Bar(InView(n))
BY SwitchAssumption DEF Shown, LowBits, Leds, LedCount, InView, Led!Bar

\* A gesture changes the bar in view the way LedBar allows.
LEMMA BarStep ==
    ASSUME NEW n \in 0 .. IntBits, NEW m \in After(n),
           leds = Led!Bar(InView(n)), leds' = Led!Bar(InView(m))
    PROVE  [Led!Next]_leds
<1> DEFINE p == InView(n)
           q == InView(m)
<1>1. /\ p \in 0 .. LedCount /\ q \in 0 .. LedCount
      /\ q \in {p - 1, p, p + 1} \/ q \in {0, 4, 6, 8}
  BY SwitchAssumption DEF After, InView, LedCount
<1>2. leds = Led!Bar(p) /\ leds' = Led!Bar(q)
  OBVIOUS
<1> HIDE DEF p, q
<1>3. CASE q \in {0, 4, 6, 8}
  BY <1>2, <1>3 DEF Led!Next, Led!Preset
<1>4. CASE q = p
  BY <1>2, <1>4
<1>5. CASE q = p + 1
  <2>1. p \in 0 .. LedCount - 1
    BY <1>1, <1>5 DEF LedCount
  <2> QED
    BY <1>2, <1>5, <2>1 DEF Led!Next, Led!Grow
<1>6. CASE q = p - 1
  <2>1. p \in 1 .. LedCount
    BY <1>1, <1>6 DEF LedCount
  <2> QED
    BY <1>2, <1>6, <2>1 DEF Led!Next, Led!Shrink
<1> QED
  BY <1>1, <1>3, <1>4, <1>5, <1>6

\* The driver implements the bar its README describes, whatever the width of
\* cur_led, the limits and the stalls are: also the bits above the LEDs, which
\* no LED shows, never make the LEDs jump.
THEOREM LedsAreABar == Spec => ImplementsLedBar
<1>1. Init => Led!Init
  BY DEF Init, Led!Init, Led!Bar
<1>2. IInv /\ [Next]_vars => [Led!Next]_leds
  <2> SUFFICES ASSUME IInv, [Next]_vars
               PROVE  [Led!Next]_leds
    OBVIOUS
  <2>1. CASE Act
    <3>0. PICK n \in 0 .. IntBits :
              \E m \in After(n) : curLed = LowBits(n) /\ curLed' = LowBits(m)
      BY <2>1, ActMeans
    <3>1. PICK m \in After(n) : curLed = LowBits(n) /\ curLed' = LowBits(m)
      BY <3>0
    <3>2. leds' = Shown(curLed') /\ pc = "act"
      BY <2>1, ActMeans
    <3>3. leds = Shown(curLed)
      <4>1. leds = {b \in curLed : b < LedCount}
        BY <3>2 DEF IInv, BarInv, LedsShowCurLed
      <4>2. \A b \in Nat : b \in 0 .. LedCount - 1 <=> b < LedCount
        BY DEF LedCount
      <4>3. curLed \subseteq Nat
        BY <3>1 DEF LowBits
      <4> QED
        BY <4>1, <4>2, <4>3 DEF Shown, Leds
    <3>4. leds = Led!Bar(InView(n)) /\ leds' = Led!Bar(InView(m))
      BY <3>1, <3>2, <3>3, ShownBar DEF After
    <3> QED
      BY <3>4, BarStep
  <2>2. CASE Check
    <3>1. leds' = {} \/ leds' = leds
      BY <2>2 DEF Check
    <3>2. Led!Bar(0) = {}
      BY DEF Led!Bar
    <3> QED
      BY <3>1, <3>2 DEF Led!Next, Led!Preset
  <2>3. CASE Sample \/ Faults \/ Tick
    BY <2>3 DEF Sample, Faults, Tick, threadVars
  <2>4. CASE Others
    BY <2>4, OthersMean DEF threadVars
  <2> QED
    BY <2>1, <2>2, <2>3, <2>4 DEF Next, Thread, Others
<1> QED
  BY <1>1, <1>2, Invariant, PTL DEF Spec, ImplementsLedBar, Led!Spec
=============================================================================
