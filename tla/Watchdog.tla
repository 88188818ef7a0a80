------------------------------ MODULE Watchdog ------------------------------
(***************************************************************************)
(* The system information of the system process.  watchdog_thread only     *)
(* installs a SIGALRM handler and starts a periodic timer; the handler,    *)
(* which collects the information and publishes it, runs on top of         *)
(* whatever a thread of the process is doing: on the main thread, which    *)
(* sleeps, or, while that is still in the handler, on monitor_thread or    *)
(* camera_thread, which hold locks the handler needs.                      *)
(*                                                                         *)
(* The runs of the handler are numbered; a part of the collected structure *)
(* is represented by the run that wrote it, 0 being none.                  *)
(***************************************************************************)
EXTENDS Naturals, FiniteSets

CONSTANTS
    MaxRuns,     \* bound: expirations of the timer
    MaxOverlap,  \* bound: periods of the timer a collection may take
    Unreadable   \* bound: parts of the information that may be unreadable

ASSUME WatchdogAssumption ==
    /\ MaxRuns \in Nat
    /\ MaxOverlap \in Nat \ {0}
    /\ Unreadable \subseteq 1 .. 6

Runs == 0 .. MaxRuns
Threads == {"main", "monitor", "camera"}

\* The parts in the order get_system_info collects them.
Part == [sys |-> 1, process |-> 2, memory |-> 3, disk |-> 4, motor_1 |-> 5,
         motor_2 |-> 6]
Parts == {Part[p] : p \in DOMAIN Part}
Stringify == 7
Publish == 8
Send == 9
Positions == 0 .. Send

\* fopen and getline allocate.
Allocating == {Part.sys, Part.memory}

VARIABLES
    installed,  \* the handler is installed
    armed,      \* the timer runs
    killed,     \* SIGALRM has ended the process
    fired,      \* expirations of the timer
    pending,    \* SIGALRM is pending
    work,       \* the lock each thread holds for its own work, or none
    at,         \* where the handler running on each thread is, 0 for nowhere
    run,        \* and the number of that run
    failed,     \* the parts it could not collect
    info,       \* system_info
    report,     \* the last text made of it
    overlapped  \* two handlers have run at a time (a history variable)

setupVars == <<installed, armed, killed>>
signalVars == <<fired, pending>>
handlerVars == <<at, run, failed>>
dataVars == <<info, report>>
vars == <<setupVars, signalVars, work, handlerVars, dataVars, overlapped>>

Init ==
    /\ installed = FALSE
    /\ armed = FALSE
    /\ killed = FALSE
    /\ fired = 0
    /\ pending = FALSE
    /\ work = [t \in Threads |-> "none"]
    /\ at = [t \in Threads |-> 0]
    /\ run = [t \in Threads |-> 0]
    /\ failed = [t \in Threads |-> {}]
    /\ info = [p \in Parts |-> 0]
    /\ report = [run |-> 0, parts |-> [p \in Parts |-> 0], failed |-> {}]
    /\ overlapped = FALSE

Active == {t \in Threads : at[t] # 0}

-----------------------------------------------------------------------------
(* watchdog_thread and the timer *)

InstallHandler ==
    /\ ~killed /\ ~installed
    /\ installed' = TRUE
    /\ UNCHANGED <<armed, killed, signalVars, work, handlerVars, dataVars,
                   overlapped>>

\* The handler comes first; a faulty thread starts the timer at once.
MayArmAtOnce == TRUE
MayArm == installed

SetPeriodicTimer ==
    /\ ~killed /\ ~armed
    /\ MayArm
    /\ armed' = TRUE
    /\ UNCHANGED <<installed, killed, signalVars, work, handlerVars, dataVars,
                   overlapped>>

\* A signal that is pending already is not counted twice.
TimerFires ==
    /\ ~killed /\ armed
    /\ fired < MaxRuns
    /\ Cardinality(Active) < MaxOverlap
    /\ fired' = fired + 1
    /\ IF installed THEN pending' = TRUE /\ UNCHANGED killed
                    ELSE killed' = TRUE /\ UNCHANGED pending
    /\ UNCHANGED <<installed, armed, work, handlerVars, dataVars, overlapped>>

-----------------------------------------------------------------------------
(* The work the signal interrupts *)

\* monitor_thread allocates and publishes, camera_thread allocates; main only
\* sleeps, a faulty one publishes too.
LocksEverywhere(t) == {"heap", "mosq"}
Locks(t) == CASE t = "monitor" -> {"heap", "mosq"}
              [] t = "camera" -> {"heap"}
              [] OTHER -> {}

Free(lock) == \A t \in Threads : work[t] # lock

\* A thread works on when no handler is on top of it.
Works(t) == ~killed /\ at[t] = 0

Acquire(t, lock) ==
    /\ Works(t) /\ work[t] = "none"
    /\ lock \in Locks(t)
    /\ Free(lock)
    /\ work' = [work EXCEPT ![t] = lock]
    /\ UNCHANGED <<setupVars, signalVars, handlerVars, dataVars, overlapped>>

Release(t) ==
    /\ Works(t) /\ work[t] # "none"
    /\ work' = [work EXCEPT ![t] = "none"]
    /\ UNCHANGED <<setupVars, signalVars, handlerVars, dataVars, overlapped>>

-----------------------------------------------------------------------------
(* sigalrm_handler *)

\* The signal goes to the main thread, unless that is in the handler, where
\* it is blocked.
TakesSignal(t) == at[t] = 0 /\ (t = "main" \/ at["main"] # 0)

HandlerStarts(t) ==
    /\ ~killed /\ pending
    /\ TakesSignal(t)
    /\ pending' = FALSE
    /\ at' = [at EXCEPT ![t] = Part.sys]
    /\ run' = [run EXCEPT ![t] = fired]
    /\ failed' = [failed EXCEPT ![t] = {}]
    /\ overlapped' = (overlapped \/ Active # {})
    /\ UNCHANGED <<setupVars, fired, work, dataVars>>

\* The handler on t collects part p: it waits for the allocator if need be.
Collects(t, p) ==
    /\ ~killed /\ at[t] = p
    /\ p \in Allocating => Free("heap")

Collect(t, p) ==
    /\ Collects(t, p)
    /\ info' = [info EXCEPT ![p] = run[t]]
    /\ at' = [at EXCEPT ![t] = p + 1]
    /\ UNCHANGED <<setupVars, signalVars, work, run, failed, report,
                   overlapped>>

\* A file cannot be opened or read: the result is ignored, and the structure
\* keeps what it had.  get_engine_info gives up with the first motor; a faulty
\* get_system_info gives up the part after any that fails, and a faulty handler
\* the whole report.
MissedNext(p) == {p, p + 1}
Missed(p) == IF p = Part.motor_1 THEN {Part.motor_1, Part.motor_2} ELSE {p}
AfterMissedEnds(p) == 0
AfterMissed(p) == IF p = Part.motor_1 THEN Stringify ELSE p + 1

CollectFails(t, p) ==
    /\ p \in Unreadable
    /\ Collects(t, p)
    /\ failed' = [failed EXCEPT ![t] = @ \cup Missed(p)]
    /\ at' = [at EXCEPT ![t] = AfterMissed(p)]
    /\ UNCHANGED <<setupVars, signalVars, work, run, dataVars, overlapped>>

\* stringify_system_info; a faulty one makes the text of an older structure.
StringifiedBefore == report.parts
Stringified == info

StringifySystemInfo(t) ==
    /\ ~killed /\ at[t] = Stringify
    /\ report' = [run |-> run[t], parts |-> Stringified, failed |-> failed[t]]
    /\ at' = [at EXCEPT ![t] = Publish]
    /\ UNCHANGED <<setupVars, signalVars, work, run, failed, info, overlapped>>

\* mosquitto_publish allocates a packet, and sends it under the lock of the
\* session, with or without success.  The handler ends.
PublishAllocates(t) ==
    /\ ~killed /\ at[t] = Publish
    /\ Free("heap")
    /\ at' = [at EXCEPT ![t] = Send]
    /\ UNCHANGED <<setupVars, signalVars, work, run, failed, dataVars,
                   overlapped>>

PublishSends(t) ==
    /\ ~killed /\ at[t] = Send
    /\ Free("mosq")
    /\ at' = [at EXCEPT ![t] = 0]
    /\ run' = [run EXCEPT ![t] = 0]
    /\ failed' = [failed EXCEPT ![t] = {}]
    /\ UNCHANGED <<setupVars, signalVars, work, dataVars, overlapped>>

HandlerSteps(t) ==
    \/ \E p \in Parts : Collect(t, p) \/ CollectFails(t, p)
    \/ StringifySystemInfo(t)
    \/ PublishAllocates(t) \/ PublishSends(t)

-----------------------------------------------------------------------------
WatchdogThread == InstallHandler \/ SetPeriodicTimer

Next ==
    \/ WatchdogThread
    \/ TimerFires
    \/ \E t \in Threads :
           \/ \E lock \in {"heap", "mosq"} : Acquire(t, lock)
           \/ Release(t)
           \/ HandlerStarts(t)
           \/ HandlerSteps(t)

Spec == Init /\ [][Next]_vars

\* Threads and handlers run; a lock that is free again and again is got.
FairSpec ==
    /\ Spec
    /\ WF_vars(WatchdogThread)
    /\ \A t \in Threads :
           /\ WF_vars(Release(t))
           /\ WF_vars(HandlerStarts(t))
           /\ SF_vars(HandlerSteps(t))

-----------------------------------------------------------------------------
(* Properties *)

\* The variables keep their types.
TypeOK ==
    /\ installed \in BOOLEAN /\ armed \in BOOLEAN /\ killed \in BOOLEAN
    /\ fired \in Runs
    /\ pending \in BOOLEAN
    /\ work \in [Threads -> {"none", "heap", "mosq"}]
    /\ at \in [Threads -> Positions]
    /\ run \in [Threads -> Runs]
    /\ failed \in [Threads -> SUBSET Parts]
    /\ info \in [Parts -> Runs]
    /\ report \in [run : Runs, parts : [Parts -> Runs], failed : SUBSET Parts]
    /\ overlapped \in BOOLEAN

\* The first SIGALRM finds its handler.
NeverKilled == ~killed

\* What is published as one report was collected in one run, apart from parts
\* that could not be read, unless a collection took longer than a period.
ReportIsOwn ==
    \A p \in Parts :
        \/ report.parts[p] = report.run
        \/ p \in report.failed
        \/ overlapped

\* The handler waits for a lock that the thread below it holds.
Stuck(t) ==
    \/ at[t] \in Allocating \cup {Publish} /\ work[t] = "heap"
    \/ at[t] = Send /\ work[t] = "mosq"

\* A thread deadlocks with itself only if a collection took longer than a
\* period, and it is never the main thread, which holds no lock.
StuckOnlyByOverlap ==
    \A t \in Threads : Stuck(t) => overlapped /\ t # "main"

\* No expiration is forgotten although a pending signal is not counted twice:
\* the newest one is still pending, is being collected for, or is the one the
\* last report is about, unless a collection took longer than a period.
NewestIsCovered ==
    \/ fired = 0 \/ pending
    \/ report.run = fired
    \/ at["main"] \in 1 .. Stringify /\ run["main"] = fired
    \/ overlapped

\* The invariant of the handler: the first signal finds it, none is forgotten,
\* and it deadlocks only on top of a thread that works, when a collection took
\* too long.
WatchdogInv ==
    TypeOK /\ NeverKilled /\ StuckOnlyByOverlap /\ NewestIsCovered

\* With collections that end within the period, every timer signal is
\* answered by a report that is sent, unless the next expiration overtakes it:
\* no handler hangs, whatever locks the other threads take meanwhile.
EverySignalIsServed ==
    \A r \in 1 .. MaxRuns :
        (fired = r /\ pending)
            ~> \/ report.run = r /\ Active = {}
               \/ fired > r
               \/ overlapped
=============================================================================
