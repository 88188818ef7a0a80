--------------------------- MODULE WatchdogProofs ---------------------------
(***************************************************************************)
(* Proofs about the SIGALRM handler, for every number of signals, however  *)
(* many handlers run at a time, and whichever parts can be read: the first *)
(* signal finds its handler, and what goes wrong later (a deadlock, a      *)
(* report of two collections) needs a collection longer than the period.   *)
(***************************************************************************)
EXTENDS Watchdog, TLAPS

\* The timer starts after the handler is installed; the main thread, which
\* takes the signal first, never holds a lock; another thread gets it only
\* while main is in the handler.
SetupInv ==
    /\ ~killed
    /\ armed => installed
    /\ work["main"] = "none"
    /\ \A t \in Threads \ {"main"} : at[t] # 0 => overlapped

\* As long as handlers do not overlap, everything before the position of the
\* handler on main has been collected by its run, or could not be.
OwnSoFar ==
    ~overlapped =>
        /\ \A p \in Parts :
               p < at["main"] => \/ info[p] = run["main"]
                                 \/ p \in failed["main"]
        /\ \A p \in Parts :
               report.parts[p] = report.run \/ p \in report.failed

\* A collection that is under way and has nothing pending behind it is the one
\* for the newest expiration.
NewestInv ==
    /\ NewestIsCovered
    /\ at["main"] \in 1 .. Stringify
           => run["main"] = fired \/ pending \/ overlapped

IInv == TypeOK /\ SetupInv /\ OwnSoFar /\ NewestInv

-----------------------------------------------------------------------------
\* The parts are numbered from 1 to 6.
LEMMA PartNumbers ==
    /\ Parts = 1 .. 6
    /\ Part.sys = 1 /\ Part.memory = 3 /\ Part.motor_1 = 5 /\ Part.motor_2 = 6
BY DEF Parts, Part

\* The initial states satisfy the invariant.
LEMMA Initial == Init => IInv
<1> SUFFICES ASSUME Init
             PROVE  IInv
  OBVIOUS
<1>1. TypeOK
  <2> USE DEF Init
  <2>1. 0 \in Runs /\ 0 \in Positions
    BY WatchdogAssumption DEF Runs, Positions, Send
  <2>2. report \in [run : Runs, parts : [Parts -> Runs],
                   failed : SUBSET Parts]
    BY <2>1
  <2>3. /\ fired \in Runs
        /\ at \in [Threads -> Positions]
        /\ run \in [Threads -> Runs]
        /\ info \in [Parts -> Runs]
    BY <2>1
  <2>4. /\ work \in [Threads -> {"none", "heap", "mosq"}]
        /\ failed \in [Threads -> SUBSET Parts]
    OBVIOUS
  <2> QED
    BY <2>2, <2>3, <2>4 DEF TypeOK
<1>2. SetupInv
  BY DEF Init, SetupInv, Threads
<1>3. OwnSoFar
  BY PartNumbers DEF Init, OwnSoFar, Threads
<1>4. NewestInv
  BY DEF Init, NewestInv, NewestIsCovered, Threads
<1> QED
  BY <1>1, <1>2, <1>3, <1>4 DEF IInv

-----------------------------------------------------------------------------
\* Handlers stay within their positions, and write their own number.
LEMMA TypesKept == TypeOK /\ [Next]_vars => TypeOK'
<1> SUFFICES ASSUME TypeOK, [Next]_vars
             PROVE  TypeOK'
  OBVIOUS
<1> USE WatchdogAssumption
        DEF TypeOK, setupVars, signalVars, handlerVars, dataVars
<1>1. CASE WatchdogThread
  BY <1>1 DEF WatchdogThread, InstallHandler, SetPeriodicTimer
<1>2. CASE TimerFires
  <2>1. fired' \in Runs
    BY <1>2 DEF TimerFires, Runs
  <2> QED
    BY <1>2, <2>1 DEF TimerFires
<1>3. ASSUME NEW t \in Threads, NEW lock \in {"heap", "mosq"},
             Acquire(t, lock)
      PROVE  TypeOK'
  BY <1>3 DEF Acquire
<1>4. ASSUME NEW t \in Threads, Release(t)
      PROVE  TypeOK'
  BY <1>4 DEF Release
<1>5. ASSUME NEW t \in Threads, HandlerStarts(t)
      PROVE  TypeOK'
  <2>1. Part.sys \in Positions
    BY PartNumbers DEF Positions, Send
  <2> QED
    BY <1>5, <2>1 DEF HandlerStarts
<1>6. ASSUME NEW t \in Threads, NEW p \in Parts, Collect(t, p)
      PROVE  TypeOK'
  <2>1. p + 1 \in Positions
    BY PartNumbers DEF Positions, Send
  <2> QED
    BY <1>6, <2>1 DEF Collect
<1>7. ASSUME NEW t \in Threads, NEW p \in Parts, CollectFails(t, p)
      PROVE  TypeOK'
  <2>1. AfterMissed(p) \in Positions
    BY PartNumbers DEF AfterMissed, Stringify, Positions, Send
  <2>2. Missed(p) \subseteq Parts
    BY PartNumbers DEF Missed
  <2>3. failed' \in [Threads -> SUBSET Parts]
    BY <1>7, <2>2 DEF CollectFails
  <2> QED
    BY <1>7, <2>1, <2>3 DEF CollectFails
<1>8. ASSUME NEW t \in Threads, StringifySystemInfo(t)
      PROVE  TypeOK'
  <2>1. Publish \in Positions
    BY DEF Publish, Positions, Send
  <2>2. report' \in [run : Runs, parts : [Parts -> Runs],
                    failed : SUBSET Parts]
    BY <1>8 DEF StringifySystemInfo, Stringified
  <2> QED
    BY <1>8, <2>1, <2>2 DEF StringifySystemInfo
<1>9. ASSUME NEW t \in Threads, PublishAllocates(t)
      PROVE  TypeOK'
  BY <1>9 DEF PublishAllocates, Positions, Send
<1>10. ASSUME NEW t \in Threads, PublishSends(t)
       PROVE  TypeOK'
  <2>1. 0 \in Positions /\ 0 \in Runs
    BY DEF Positions, Send, Runs
  <2> QED
    BY <1>10, <2>1 DEF PublishSends
<1>11. CASE UNCHANGED vars
  BY <1>11 DEF vars
<1> QED
  BY <1>1, <1>2, <1>3, <1>4, <1>5, <1>6, <1>7, <1>8, <1>9, <1>10, <1>11
  DEF Next, HandlerSteps

\* A signal that finds main in the handler makes two of them.
LEMMA SetupKept == TypeOK /\ SetupInv /\ [Next]_vars => SetupInv'
<1> SUFFICES ASSUME TypeOK, SetupInv, [Next]_vars
             PROVE  SetupInv'
  OBVIOUS
<1> USE DEF TypeOK, SetupInv, setupVars, signalVars, handlerVars, dataVars
<1>1. CASE WatchdogThread
  BY <1>1 DEF WatchdogThread, InstallHandler, SetPeriodicTimer, MayArm
<1>2. CASE TimerFires
  BY <1>2 DEF TimerFires
<1>3. ASSUME NEW t \in Threads, NEW lock \in {"heap", "mosq"},
             Acquire(t, lock)
      PROVE  SetupInv'
  BY <1>3 DEF Acquire, Locks
<1>4. ASSUME NEW t \in Threads, Release(t)
      PROVE  SetupInv'
  BY <1>4 DEF Release
<1>5. ASSUME NEW t \in Threads, HandlerStarts(t)
      PROVE  SetupInv'
  <2>1. t # "main" => overlapped'
    BY <1>5 DEF HandlerStarts, TakesSignal, Active, Threads
  <2> QED
    BY <1>5, <2>1 DEF HandlerStarts
<1>6. ASSUME NEW t \in Threads, HandlerSteps(t)
      PROVE  SetupInv'
  <2>1. at[t] # 0
    BY <1>6, PartNumbers
    DEF HandlerSteps, Collect, CollectFails, Collects, StringifySystemInfo,
        PublishAllocates, PublishSends, Stringify, Publish, Send
  <2>2. \A u \in Threads \ {t} : at'[u] = at[u]
    BY <1>6
    DEF HandlerSteps, Collect, CollectFails, StringifySystemInfo,
        PublishAllocates, PublishSends
  <2>3. UNCHANGED <<killed, armed, installed, work, overlapped>>
    BY <1>6
    DEF HandlerSteps, Collect, CollectFails, StringifySystemInfo,
        PublishAllocates, PublishSends
  <2> QED
    BY <2>1, <2>2, <2>3
<1>7. CASE UNCHANGED vars
  BY <1>7 DEF vars
<1> QED
  BY <1>1, <1>2, <1>3, <1>4, <1>5, <1>6, <1>7 DEF Next

\* Without an overlap main has the only handler, which goes on from part to
\* part, or past both motors at once.
LEMMA OwnKept ==
    TypeOK /\ SetupInv /\ OwnSoFar /\ [Next]_vars => OwnSoFar'
<1> SUFFICES ASSUME TypeOK, SetupInv, OwnSoFar, [Next]_vars, ~overlapped'
             PROVE  OwnSoFar'
  BY DEF OwnSoFar
<1> USE DEF TypeOK, OwnSoFar, setupVars, signalVars, handlerVars, dataVars
<1>m. "main" \in Threads
  BY DEF Threads
<1>1. CASE WatchdogThread
  BY <1>1 DEF WatchdogThread, InstallHandler, SetPeriodicTimer
<1>2. CASE TimerFires
  BY <1>2 DEF TimerFires
<1>3. ASSUME NEW t \in Threads, NEW lock \in {"heap", "mosq"},
             Acquire(t, lock)
      PROVE  OwnSoFar'
  BY <1>3 DEF Acquire
<1>4. ASSUME NEW t \in Threads, Release(t)
      PROVE  OwnSoFar'
  BY <1>4 DEF Release
<1>5. ASSUME NEW t \in Threads, HandlerStarts(t)
      PROVE  OwnSoFar'
  <2>1. t = "main"
    BY <1>5 DEF HandlerStarts, TakesSignal, Active, Threads
  <2>2. at'["main"] = 1
    BY <1>5, <2>1, <1>m, PartNumbers DEF HandlerStarts
  <2>3. \A p \in Parts : ~(p < 1)
    BY PartNumbers
  <2> QED
    BY <1>5, <2>2, <2>3 DEF HandlerStarts
<1>6. ASSUME NEW t \in Threads, HandlerSteps(t)
      PROVE  OwnSoFar'
  <2>1. ~overlapped /\ t = "main"
    BY <1>6, PartNumbers
    DEF SetupInv, HandlerSteps, Collect, CollectFails, Collects,
        StringifySystemInfo, PublishAllocates, PublishSends, Stringify,
        Publish, Send
  <2>2. ASSUME NEW p \in Parts, Collect(t, p)
        PROVE  OwnSoFar'
    <3>1. \A q \in Parts : q < p + 1 => q < p \/ q = p
      BY PartNumbers
    <3> QED
      BY <2>1, <2>2, <3>1, <1>m DEF Collect, Collects
  <2>3. ASSUME NEW p \in Parts, CollectFails(t, p)
        PROVE  OwnSoFar'
    <3>1. \A q \in Parts : q < AfterMissed(p) => q < p \/ q \in Missed(p)
      BY PartNumbers DEF AfterMissed, Missed, Stringify
    <3>2. failed'["main"] = failed["main"] \cup Missed(p)
      BY <2>1, <2>3, <1>m DEF CollectFails
    <3> QED
      BY <2>1, <2>3, <3>1, <3>2, <1>m DEF CollectFails, Collects
  <2>4. CASE StringifySystemInfo(t)
    <3>1. \A p \in Parts : p < Stringify
      BY PartNumbers DEF Stringify
    <3> QED
      BY <2>1, <2>4, <3>1, <1>m DEF StringifySystemInfo, Stringified, Publish
  <2>5. CASE PublishAllocates(t)
    <3>1. \A p \in Parts : p < Publish
      BY PartNumbers DEF Publish
    <3> QED
      BY <2>1, <2>5, <3>1, <1>m DEF PublishAllocates
  <2>6. CASE PublishSends(t)
    <3>1. \A p \in Parts : ~(p < 0)
      BY PartNumbers
    <3> QED
      BY <2>1, <2>6, <3>1, <1>m DEF PublishSends
  <2> QED
    BY <1>6, <2>2, <2>3, <2>4, <2>5, <2>6 DEF HandlerSteps
<1>7. CASE UNCHANGED vars
  BY <1>7 DEF vars
<1> QED
  BY <1>1, <1>2, <1>3, <1>4, <1>5, <1>6, <1>7 DEF Next

\* The newest expiration goes from pending to the handler on main, and from
\* there into the report.
LEMMA NewestKept ==
    TypeOK /\ SetupInv /\ NewestInv /\ [Next]_vars => NewestInv'
<1> SUFFICES ASSUME TypeOK, SetupInv, NewestInv, [Next]_vars,
                    ~overlapped'
             PROVE  NewestInv'
  BY DEF NewestInv, NewestIsCovered
<1> USE DEF NewestInv, NewestIsCovered, setupVars, signalVars, handlerVars, dataVars
<1>m. "main" \in Threads
  BY DEF Threads
<1>0. ASSUME UNCHANGED <<signalVars, handlerVars, dataVars, overlapped>>
      PROVE  NewestInv'
  BY <1>0
<1>1. CASE WatchdogThread
  BY <1>0, <1>1 DEF WatchdogThread, InstallHandler, SetPeriodicTimer
<1>2. CASE TimerFires
  BY <1>2 DEF SetupInv, TimerFires
<1>3. ASSUME NEW t \in Threads, NEW lock \in {"heap", "mosq"},
             Acquire(t, lock) \/ Release(t)
      PROVE  NewestInv'
  BY <1>0, <1>3 DEF Acquire, Release
<1>4. ASSUME NEW t \in Threads, HandlerStarts(t)
      PROVE  NewestInv'
  <2>1. t = "main"
    BY <1>4 DEF HandlerStarts, TakesSignal, Active, Threads
  <2>2. at'["main"] = 1 /\ run'["main"] = fired /\ fired' = fired
    BY <1>4, <2>1, <1>m, PartNumbers DEF TypeOK, HandlerStarts
  <2>3. 1 \in 1 .. Stringify
    BY DEF Stringify
  <2> QED
    BY <2>2, <2>3
<1>5. ASSUME NEW t \in Threads, HandlerSteps(t)
      PROVE  NewestInv'
  <2>1. ~overlapped /\ t = "main"
    BY <1>5, PartNumbers
    DEF SetupInv, HandlerSteps, Collect, CollectFails, Collects,
        StringifySystemInfo, PublishAllocates, PublishSends, Stringify,
        Publish, Send
  <2>2. ASSUME NEW p \in Parts, Collect(t, p) \/ CollectFails(t, p)
        PROVE  NewestInv'
    <3>1. /\ at'["main"] \in {p + 1, AfterMissed(p)}
          /\ UNCHANGED <<fired, pending, run, report>>
      BY <2>1, <2>2, <1>m DEF TypeOK, Collect, CollectFails
    <3>2. /\ p \in 1 .. Stringify
          /\ {p + 1, AfterMissed(p)} \subseteq 1 .. Stringify
      BY PartNumbers DEF AfterMissed, Stringify
    <3>3. at["main"] = p
      BY <2>1, <2>2 DEF Collect, CollectFails, Collects
    <3> QED
      BY <2>1, <3>1, <3>2, <3>3
  <2>3. CASE StringifySystemInfo(t)
    <3>1. report'.run = run["main"] /\ UNCHANGED <<fired, pending>>
      BY <2>1, <2>3 DEF StringifySystemInfo
    <3>2. pending \/ run["main"] = fired
      BY <2>1, <2>3 DEF StringifySystemInfo, Stringify
    <3> QED
      BY <2>1, <2>3, <3>1, <3>2, <1>m
      DEF TypeOK, StringifySystemInfo, Publish, Stringify
  <2>4. CASE PublishAllocates(t) \/ PublishSends(t)
    <3>1. at["main"] \notin 1 .. Stringify
      BY <2>1, <2>4
      DEF PublishAllocates, PublishSends, Stringify, Publish, Send
    <3> QED
      BY <2>1, <2>4, <3>1, <1>m
      DEF TypeOK, PublishAllocates, PublishSends, Stringify, Send
  <2> QED
    BY <1>5, <2>2, <2>3, <2>4 DEF HandlerSteps
<1>6. CASE UNCHANGED vars
  BY <1>0, <1>6 DEF vars
<1> QED
  BY <1>1, <1>2, <1>3, <1>4, <1>5, <1>6 DEF Next

-----------------------------------------------------------------------------
LEMMA Inductive == IInv /\ [Next]_vars => IInv'
BY TypesKept, SetupKept, OwnKept, NewestKept DEF IInv

\* The parts together are inductive.
LEMMA Invariant == Spec => []IInv
BY Initial, Inductive, PTL DEF Spec

\* The first SIGALRM finds its handler, the newest one is pending, collected
\* for or reported, and a thread deadlocks with itself only if a collection
\* took longer than a period, and never the main one.
THEOREM HandlerIsSafe == Spec => []WatchdogInv
<1>1. IInv => WatchdogInv
  <2> SUFFICES ASSUME IInv, NEW t \in Threads, Stuck(t)
               PROVE  overlapped /\ t # "main"
    BY DEF IInv, SetupInv, NewestInv, WatchdogInv, NeverKilled,
           StuckOnlyByOverlap
  <2>1. at[t] # 0
    BY PartNumbers DEF Stuck, Allocating, Publish, Send
  <2>2. t # "main"
    BY DEF Stuck, IInv, SetupInv
  <2> QED
    BY <2>1, <2>2 DEF IInv, SetupInv
<1> QED
  BY <1>1, Invariant, PTL

\* What is published as one report was collected in one run, unless a
\* collection took longer than a period.
THEOREM ReportsAreWhole == Spec => []ReportIsOwn
<1>1. IInv => ReportIsOwn
  BY DEF IInv, OwnSoFar, ReportIsOwn
<1> QED
  BY <1>1, Invariant, PTL
=============================================================================
