----------------------------- MODULE Supervisor -----------------------------
(***************************************************************************)
(* The supervisor of nsystem and what outlives it.  main creates the       *)
(* shared memory object and the message queues, forks the system process   *)
(* and the input process, and waits for both, while a SIGCHLD handler of   *)
(* its own reaps whatever child has ended.  Objects and queues belong to   *)
(* the kernel: when main is killed they stay, and so may its children; the *)
(* user then starts nsystem again.                                         *)
(*                                                                         *)
(* The starts are numbered.  The number of a start also names the shared   *)
(* memory object and the monitor queue its main creates; 0 is none.        *)
(***************************************************************************)
EXTENDS Naturals

CONSTANT MaxStarts   \* bound: times the user starts nsystem

ASSUME SupervisorAssumption == MaxStarts \in Nat

Starts == 1 .. MaxStarts
Objects == 0 .. MaxStarts
Processes == {"system", "input"}

Ended == {"done", "failed", "killed"}
Alive == {"starting", "opened", "up", "failing"}

VARIABLES
    started,   \* the newest start
    main,      \* where main of each start is
    handling,  \* main is inside sigchld_handler
    signalled, \* SIGCHLD is pending
    child,     \* where each process of each start is
    queueOf,   \* the queue it opened
    mapped,    \* the object it mapped
    shm,       \* the object the name "bmp280" stands for
    sized,     \* objects that ftruncate has given their size
    mq,        \* the queue the name "/monitor_queue" stands for
    reaper     \* who reaped each child (a history variable)

mainVars == <<started, main, handling, signalled>>
childVars == <<child, queueOf, mapped, reaper>>
objectVars == <<shm, sized, mq>>
vars == <<mainVars, childVars, objectVars>>

ForEach(value) == [s \in Starts |-> value]
ForBoth(value) == [s \in Starts |-> [p \in Processes |-> value]]

Init ==
    /\ started = 0
    /\ main = ForEach("none")
    /\ handling = ForEach(FALSE)
    /\ signalled = ForEach(FALSE)
    /\ child = ForBoth("none")
    /\ queueOf = ForBoth(0)
    /\ mapped = ForBoth(0)
    /\ shm = 0
    /\ sized = {}
    /\ mq = 0
    /\ reaper = ForBoth("nobody")

-----------------------------------------------------------------------------
(* main, up to the forks *)

Goes(s, to) == main' = [main EXCEPT ![s] = to]

\* The order of main's statements; faulty ones size the object too late, or
\* create the queue between the forks.
Order == [create |-> "truncate", truncate |-> "unlink",
          unlink |-> "createQueue", createQueue |-> "forkSystem",
          forkSystem |-> "forkInput", forkInput |-> "waitSystem"]
SizeForgotten == [Order EXCEPT !.create = "unlink"]
QueueBetweenForks ==
    [Order EXCEPT !.unlink = "forkSystem", !.forkSystem = "createQueue",
                  !.createQueue = "forkInput"]
Following == Order

\* main makes a step of its own: it lives and is not interrupted.
At(s, pc) == main[s] = pc /\ ~handling[s]

StartMain ==
    /\ started < MaxStarts
    /\ started > 0 => main[started] \in Ended
    /\ started' = started + 1
    /\ Goes(started + 1, "create")
    /\ UNCHANGED <<handling, signalled, childVars, objectVars>>

\* create_shm: an object that exists is opened, but 0 is returned for it, and
\* the ftruncate that follows hits stdin.
CreateShm(s) ==
    /\ At(s, "create")
    /\ IF shm = 0 THEN shm' = s /\ Goes(s, Following["create"])
                  ELSE UNCHANGED shm /\ Goes(s, Following["truncate"])
    /\ UNCHANGED <<started, handling, signalled, childVars, sized, mq>>

Truncate(s) ==
    /\ At(s, "truncate")
    /\ sized' = sized \cup {s}
    /\ Goes(s, Following["truncate"])
    /\ UNCHANGED <<started, handling, signalled, childVars, shm, mq>>

\* create_mq removes the name of an older queue, then makes a new one.
UnlinkQueue(s) ==
    /\ At(s, "unlink")
    /\ mq' = 0
    /\ Goes(s, Following["unlink"])
    /\ UNCHANGED <<started, handling, signalled, childVars, shm, sized>>

CreateQueue(s) ==
    /\ At(s, "createQueue")
    /\ mq' = s
    /\ Goes(s, Following["createQueue"])
    /\ UNCHANGED <<started, handling, signalled, childVars, shm, sized>>

\* create_system_process and create_input_process; a fork that fails ends
\* main, whatever has been forked before.
Fork(s, p, from) ==
    /\ At(s, from)
    /\ \/ /\ Goes(s, Following[from])
          /\ child' = [child EXCEPT ![s][p] = "starting"]
       \/ Goes(s, "failed") /\ UNCHANGED child
    /\ UNCHANGED <<started, handling, signalled, queueOf, mapped, reaper,
                   objectVars>>

ForkSystem(s) == Fork(s, "system", "forkSystem")
ForkInput(s) == Fork(s, "input", "forkInput")

-----------------------------------------------------------------------------
(* Waiting for the children *)

\* The process entry goes away; a faulty wait leaves it (WNOWAIT).
ReapAndLeave(s, p, who) ==
    /\ reaper' = [reaper EXCEPT ![s][p] = who]
    /\ UNCHANGED child
Reap(s, p, who) ==
    /\ child' = [child EXCEPT ![s][p] = "gone"]
    /\ reaper' = [reaper EXCEPT ![s][p] = who]

ReapsNone == UNCHANGED <<child, reaper>>

\* A wait for a child that was reaped already fails; a faulty one is tried
\* again and again.
NeverFails(s, p) == FALSE
NoSuchChild(s, p) == child[s][p] = "gone"

\* Then main gives up; a faulty one goes on to the next child.
AfterLostIgnored(to) == to
AfterLost(to) == "failed"

\* waitpid(pids[i], NULL, 0): it takes an ended child, fails for one that is
\* gone, and blocks otherwise.
WaitEnter(s, p, from, inside, to) ==
    /\ At(s, from)
    /\ \/ child[s][p] = "zombie" /\ Goes(s, to) /\ Reap(s, p, "wait")
       \/ NoSuchChild(s, p) /\ Goes(s, AfterLost(to)) /\ ReapsNone
       \/ child[s][p] \in Alive /\ Goes(s, inside) /\ ReapsNone
    /\ UNCHANGED <<started, handling, signalled, queueOf, mapped, objectVars>>

\* A blocked waitpid looks for the child again when it is woken, and after a
\* handler (SA_RESTART).
WaitReturns(s, p, inside, to) ==
    /\ At(s, inside)
    /\ \/ child[s][p] = "zombie" /\ Goes(s, to) /\ Reap(s, p, "wait")
       \/ NoSuchChild(s, p) /\ Goes(s, AfterLost(to)) /\ ReapsNone
    /\ UNCHANGED <<started, handling, signalled, queueOf, mapped, objectVars>>

\* The kernel mostly lets a blocked waitpid take the child before it delivers
\* the signal, but a child may end between its last look and its sleep.
HandlerStarts(s) ==
    /\ main[s] \notin Ended
    /\ signalled[s]
    /\ ~handling[s]
    /\ handling' = [handling EXCEPT ![s] = TRUE]
    /\ signalled' = [signalled EXCEPT ![s] = FALSE]
    /\ UNCHANGED <<started, main, childVars, objectVars>>

\* while (waitpid(-1, &status, WNOHANG) > 0)
HandlerReaps(s, p) ==
    /\ handling[s]
    /\ child[s][p] = "zombie"
    /\ Reap(s, p, "handler")
    /\ UNCHANGED <<mainVars, queueOf, mapped, objectVars>>

\* The loop ends when no child has ended; a faulty handler, when one has.
NoneLeftAny(s) == TRUE
NoneLeft(s) == \A p \in Processes : child[s][p] # "zombie"

HandlerEnds(s) ==
    /\ handling[s]
    /\ NoneLeft(s)
    /\ handling' = [handling EXCEPT ![s] = FALSE]
    /\ UNCHANGED <<started, main, signalled, childVars, objectVars>>

\* Ctrl-\, SIGKILL, an OOM kill: main may be gone after any step.
MainKilled(s) ==
    /\ main[s] \notin Ended \cup {"none"}
    /\ Goes(s, "killed")
    /\ handling' = [handling EXCEPT ![s] = FALSE]
    /\ signalled' = [signalled EXCEPT ![s] = FALSE]
    /\ UNCHANGED <<started, childVars, objectVars>>

\* Children of a main that is gone are reaped by the init process.
InitReaps(s, p) ==
    /\ main[s] \in Ended
    /\ child[s][p] = "zombie"
    /\ Reap(s, p, "init")
    /\ UNCHANGED <<mainVars, queueOf, mapped, objectVars>>

-----------------------------------------------------------------------------
(* The children *)

\* The kernel closes the queues and unmaps the object.
Ends(s, p) ==
    /\ child' = [child EXCEPT ![s][p] = "zombie"]
    /\ queueOf' = [queueOf EXCEPT ![s][p] = 0]
    /\ mapped' = [mapped EXCEPT ![s][p] = 0]
    /\ signalled' = [signalled EXCEPT ![s] = main[s] \notin Ended]

\* open_mq takes whatever queue has the name.
ChildOpens(s, p) ==
    /\ child[s][p] = "starting"
    /\ queueOf' = [queueOf EXCEPT ![s][p] = mq]
    /\ child' = [child EXCEPT ![s][p] = "opened"]
    /\ UNCHANGED <<mainVars, mapped, reaper, objectVars>>

\* open_shm and mmap.  Without an object monitor_thread exits at once, and
\* sensor_thread through its error path.
ChildMaps(s, p) ==
    /\ child[s][p] = "opened"
    /\ \/ /\ shm # 0
          /\ mapped' = [mapped EXCEPT ![s][p] = shm]
          /\ child' = [child EXCEPT ![s][p] = "up"]
          /\ UNCHANGED <<queueOf, signalled>>
       \/ /\ shm = 0 /\ p = "input"
          /\ child' = [child EXCEPT ![s][p] = "failing"]
          /\ UNCHANGED <<queueOf, mapped, signalled>>
       \/ shm = 0 /\ p = "system" /\ Ends(s, p)
    /\ UNCHANGED <<started, main, handling, reaper, objectVars>>

\* The first access to an object of size 0 is a SIGBUS.
ChildFaults(s, p) ==
    /\ child[s][p] = "up"
    /\ mapped[s][p] \notin sized
    /\ Ends(s, p)
    /\ UNCHANGED <<started, main, handling, reaper, objectVars>>

\* A read, a poll or an mq_receive fails ...
ChildFails(s, p) ==
    /\ child[s][p] = "up"
    /\ child' = [child EXCEPT ![s][p] = "failing"]
    /\ UNCHANGED <<mainVars, queueOf, mapped, reaper, objectVars>>

\* ... and the error path unlinks the name, whichever object has it now.
ChildUnlinks(s, p) ==
    /\ child[s][p] = "failing"
    /\ shm' = 0
    /\ Ends(s, p)
    /\ UNCHANGED <<started, main, handling, reaper, sized, mq>>

\* Everything that ends a process without its error path: a refused broker,
\* the command exit, an abort, a signal.
ChildExits(s, p) ==
    /\ child[s][p] \in Alive
    /\ Ends(s, p)
    /\ UNCHANGED <<started, main, handling, reaper, objectVars>>

-----------------------------------------------------------------------------
MainSteps(s) ==
    \/ CreateShm(s) \/ Truncate(s) \/ UnlinkQueue(s) \/ CreateQueue(s)
    \/ ForkSystem(s) \/ ForkInput(s)
    \/ WaitEnter(s, "system", "waitSystem", "inSystem", "waitInput")
    \/ WaitReturns(s, "system", "inSystem", "waitInput")
    \/ WaitEnter(s, "input", "waitInput", "inInput", "done")
    \/ WaitReturns(s, "input", "inInput", "done")

Handler(s) ==
    \/ HandlerStarts(s)
    \/ \E p \in Processes : HandlerReaps(s, p)
    \/ HandlerEnds(s)

Child(s, p) ==
    \/ ChildOpens(s, p) \/ ChildMaps(s, p) \/ ChildFaults(s, p)
    \/ ChildFails(s, p) \/ ChildUnlinks(s, p) \/ ChildExits(s, p)

Next ==
    \/ StartMain
    \/ \E s \in Starts :
           \/ MainSteps(s)
           \/ Handler(s)
           \/ MainKilled(s)
           \/ \E p \in Processes : Child(s, p) \/ InitReaps(s, p)

Spec == Init /\ [][Next]_vars

\* main and its handler run when they can, and init reaps.  Children need
\* not end, and nobody has to start or to kill anything.
FairSpec ==
    /\ Spec
    /\ \A s \in Starts :
           /\ WF_vars(MainSteps(s))
           /\ WF_vars(Handler(s))
           /\ \A p \in Processes : WF_vars(InitReaps(s, p))

-----------------------------------------------------------------------------
(* Properties *)

\* The variables keep their types, and every child that is gone, and no
\* other, has been reaped by somebody.
TypeOK ==
    /\ started \in Objects
    /\ main \in [Starts -> Ended \cup
                 {"none", "create", "truncate", "unlink", "createQueue",
                  "forkSystem", "forkInput", "waitSystem", "inSystem",
                  "waitInput", "inInput"}]
    /\ handling \in [Starts -> BOOLEAN]
    /\ signalled \in [Starts -> BOOLEAN]
    /\ child \in [Starts -> [Processes ->
                 Alive \cup {"none", "zombie", "gone"}]]
    /\ queueOf \in [Starts -> [Processes -> Objects]]
    /\ mapped \in [Starts -> [Processes -> Objects]]
    /\ shm \in Objects
    /\ sized \in SUBSET Starts
    /\ mq \in Objects
    /\ reaper \in [Starts -> [Processes ->
                 {"nobody", "wait", "handler", "init"}]]
    /\ \A s \in Starts, p \in Processes :
           child[s][p] = "gone" <=> reaper[s][p] # "nobody"

\* A process has mapped an object of size 0 (its first access is a SIGBUS)
\* only if the main that created it is still between shm_open and ftruncate,
\* or was killed: however starts, crashes, orphans and unlinks follow each
\* other, there is no other way to the SIGBUS.
UnsizedOnlyByCrash ==
    \A s \in Starts, p \in Processes :
        LET m == mapped[s][p]
        IN  (m # 0 /\ m \notin sized) => main[m] \in {"truncate", "killed"}

\* The two processes of a start talk to each other: they have the same
\* queue and the same object, unless nsystem was started again while they
\* were still opening them.
PairIsConnected ==
    \A s \in Starts :
        (s = started /\ \A p \in Processes : child[s][p] = "up")
            => /\ queueOf[s]["system"] = queueOf[s]["input"]
               /\ mapped[s]["system"] = mapped[s]["input"]

\* main ends well only after both children, each of which it has waited for
\* itself; it fails only if a fork failed or the handler was faster.
EndIsExplained ==
    \A s \in Starts :
        /\ main[s] = "done" =>
               \A p \in Processes : reaper[s][p] = "wait"
        /\ main[s] = "failed" =>
               \E p \in Processes :
                   child[s][p] = "none" \/ reaper[s][p] = "handler"

\* No end of a child is forgotten, although one pending signal may stand for
\* two of them: while main lives, a zombie means that the handler is pending
\* or still in its loop, also when main itself is blocked in the other wait.
NoZombieForgotten ==
    \A s \in Starts, p \in Processes :
        child[s][p] = "zombie" =>
            main[s] \in Ended \/ signalled[s] \/ handling[s]

\* The invariant of main: every child is reaped by one party, none that ended
\* is overlooked, and how main ends says who reaped.
SupervisorInv == TypeOK /\ EndIsExplained /\ NoZombieForgotten

\* An ended child does not stay a zombie, whether main is before its waits,
\* inside one, in the handler, or gone.
EveryChildReaped ==
    \A s \in Starts, p \in Processes :
        child[s][p] = "zombie" ~> child[s][p] = "gone"

\* When both children have ended main ends: it never blocks in a waitpid for
\* a child its own handler has taken away.
MainFollows ==
    \A s \in Starts :
        (\A p \in Processes : child[s][p] \in {"zombie", "gone"})
            ~> main[s] \in Ended

\* Both liveness promises of the waits: for the children, and for main.
WaitsEnd == EveryChildReaped /\ MainFollows
=============================================================================
