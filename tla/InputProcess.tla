---------------------------- MODULE InputProcess ----------------------------
(***************************************************************************)
(* The input process apart from its sensor thread: the command thread with *)
(* its prompt, the MQTT thread that passes engine commands on, and the     *)
(* main thread, which only sleeps but runs the SIGCHLD handler inherited   *)
(* from the supervisor.  They share the descriptor table, in which some    *)
(* commands leave an entry behind, and the children, which both the        *)
(* handler and the command sh wait for.                                    *)
(***************************************************************************)
EXTENDS Naturals

CONSTANT FdSlots   \* descriptors the process may open besides the fixed ones

ASSUME InputAssumption == FdSlots \in Nat \ {0}

\* Commands that open a file: m1 and m2, elf, sio.
Openers == {"motor", "elf", "io"}

VARIABLES
    process,    \* the process is up or ended
    command,    \* where command_thread is
    mosq,       \* where mosq_thread is
    session,    \* the MQTT session: none, up, lost, or closed
    sessions,   \* sessions so far, counted up to 2 (a history variable)
    subscribed, \* the broker has a subscription for the current session
    open,       \* descriptors in use
    served,     \* commands and messages served that kept theirs (history)
    shell,      \* the child of sh
    status,     \* what command_sh's loop makes of its status
    reaper      \* who reaped the last shell (a history variable)

fdVars == <<open, served>>
mosqVars == <<mosq, session, sessions, subscribed>>
shellVars == <<shell, status, reaper>>
vars == <<process, command, mosqVars, fdVars, shellVars>>

Init ==
    /\ process = "up"
    /\ command = "prompt"
    /\ mosq = "connect"
    /\ session = "none"
    /\ sessions = 0
    /\ subscribed = FALSE
    /\ open = 0
    /\ served = 0
    /\ shell = "none"
    /\ status = "other"
    /\ reaper = "nobody"

-----------------------------------------------------------------------------
(* Descriptors *)

\* An open that fails, for a full table or a missing device, has no effect:
\* the error paths close -1.
Open == open < FdSlots /\ open' = open + 1

\* The caller keeps the descriptor, or closes it; a faulty error path keeps
\* it as well, or closes it twice.
Keep == served' = served + 1 /\ UNCHANGED open
CloseForgotten == UNCHANGED <<open, served>>
CloseTwice == open' = open - 2 /\ UNCHANGED served
Close == open' = open - 1 /\ UNCHANGED served

-----------------------------------------------------------------------------
(* The command thread.  A line whose command is unknown, takes no action, or *)
(* lacks its argument leads back to the prompt and is not a step here.       *)

AtPrompt == process = "up" /\ command = "prompt"

ProcessEnds ==
    /\ process' = "ended"
    /\ UNCHANGED <<command, mosqVars, fdVars, shellVars>>

CommandExit == AtPrompt /\ ProcessEnds

\* A line of blanks has no command, and strcmp looks at it all the same; the
\* input ends; no memory is left for the arguments.
LineFails == AtPrompt /\ ProcessEnds

CommandBusy ==
    /\ AtPrompt
    /\ command' = "busy"
    /\ UNCHANGED <<process, mosqVars, fdVars, shellVars>>

\* dump and mq wait for room in a queue.
CommandSend ==
    /\ AtPrompt
    /\ command' = "send"
    /\ UNCHANGED <<process, mosqVars, fdVars, shellVars>>

CommandSent ==
    /\ process = "up" /\ command = "send"
    /\ command' = "prompt"
    /\ UNCHANGED <<process, mosqVars, fdVars, shellVars>>

CommandOpen(c) ==
    /\ AtPrompt
    /\ Open
    /\ command' = c
    /\ UNCHANGED <<process, mosqVars, served, shellVars>>

\* set_motor_speed and command_elf close only on failure (ioctl, empty file).
CommandKeeps ==
    /\ process = "up" /\ command \in {"motor", "elf"}
    /\ command' = "prompt"
    /\ Keep
    /\ UNCHANGED <<process, mosqVars, shellVars>>

\* command_simple_io closes in any case.
CommandCloses ==
    /\ process = "up" /\ command \in Openers
    /\ command' = "prompt"
    /\ Close
    /\ UNCHANGED <<process, mosqVars, shellVars>>

\* command_sh: the local status is not initialised.  A fork that fails has no
\* effect.
CommandSh ==
    /\ AtPrompt
    /\ command' = "shell"
    /\ shell' = "running"
    /\ status' \in {"ended", "other"}
    /\ reaper' = "nobody"
    /\ UNCHANGED <<process, mosqVars, fdVars>>

\* The loop goes on unless the status says exited or killed; a faulty one has
\* an || for the && and always goes on.
LoopingForever(s) == TRUE
Looping(s) == s = "other"

\* waitpid fails for a shell that is gone; a faulty caller tries again.
WaitRetries == FALSE
WaitFails == shell = "gone"

\* waitpid takes the ended shell ...
ShTakes ==
    /\ process = "up" /\ command = "shell" /\ shell = "ended"
    /\ shell' = "gone"
    /\ status' = "ended"
    /\ reaper' = "command"
    /\ command' = IF Looping("ended") THEN "spinning" ELSE "prompt"
    /\ UNCHANGED <<process, mosqVars, fdVars>>

\* ... or reports a stop (WUNTRACED), and the loop waits again ...
ShSeesStop ==
    /\ process = "up" /\ command = "shell" /\ shell = "stopped"
    /\ status' = "other"
    /\ UNCHANGED <<process, command, mosqVars, fdVars, shell, reaper>>

\* ... or fails, because the shell is gone: status keeps what it had, and so
\* does the loop if that is not an end.
ShFails ==
    /\ process = "up" /\ command = "shell" /\ WaitFails
    /\ command' = IF Looping(status) THEN "spinning" ELSE "prompt"
    /\ UNCHANGED <<process, mosqVars, fdVars, shellVars>>

\* sigchld_handler, run by the main thread.
HandlerReaps ==
    /\ process = "up" /\ shell = "ended"
    /\ shell' = "gone"
    /\ reaper' = "handler"
    /\ UNCHANGED <<process, command, mosqVars, fdVars, status>>

\* The shell itself: a user types in it, stops it, ends it.
ShellMoves ==
    /\ process = "up"
    /\ \/ shell = "running" /\ shell' \in {"stopped", "ended"}
       \/ shell = "stopped" /\ shell' \in {"running", "ended"}
    /\ UNCHANGED <<process, command, mosqVars, fdVars, status, reaper>>

-----------------------------------------------------------------------------
(* The MQTT thread *)

SessionStarts ==
    /\ Open
    /\ session' = "up"
    /\ sessions' = IF sessions = 0 THEN 1 ELSE 2
    /\ subscribed' = FALSE

MosqConnect ==
    /\ process = "up" /\ mosq = "connect"
    /\ \/ SessionStarts /\ mosq' = "subscribe" /\ UNCHANGED process
       \/ process' = "ended" /\ UNCHANGED <<mosqVars, open>>
    /\ UNCHANGED <<command, served, shellVars>>

MosqSubscribe ==
    /\ process = "up" /\ mosq = "subscribe"
    /\ subscribed' = (session = "up")
    /\ mosq' = "loop"
    /\ UNCHANGED <<process, command, session, sessions, fdVars, shellVars>>

\* mosq_message_callback.  A payload that does not parse leaves num and speed
\* unset; whatever they hold, either a motor is meant or nothing is opened.
MosqMessage ==
    /\ process = "up" /\ mosq = "loop" /\ session = "up"
    /\ subscribed
    /\ Open
    /\ mosq' = "motor"
    /\ UNCHANGED <<process, command, session, sessions, subscribed, served,
                   shellVars>>

\* A message without a payload has no text to look at, and the callback looks
\* at it all the same.
MosqEmptyMessage ==
    /\ process = "up" /\ mosq = "loop" /\ session = "up"
    /\ subscribed
    /\ ProcessEnds

MosqServed ==
    /\ process = "up" /\ mosq = "motor"
    /\ mosq' = "loop"
    /\ Keep \/ Close
    /\ UNCHANGED <<process, command, session, sessions, subscribed, shellVars>>

\* mosquitto_loop closes a socket the broker has dropped, and fails without
\* one.  Its errors are positive, so the branch that ends the thread is never
\* taken.
MosqLoopFails ==
    /\ process = "up" /\ mosq = "loop" /\ session \in {"lost", "closed"}
    /\ session' = "closed"
    /\ mosq' = "sleep"
    /\ IF session = "lost" THEN Close ELSE UNCHANGED fdVars
    /\ UNCHANGED <<process, command, sessions, subscribed, shellVars>>

\* Where the thread goes on after a reconnection, subscription included or
\* not, and whether it tries again after one that failed.
AfterReconnectSubscribing == "subscribe"
AfterReconnect == "loop"
AfterFailureGivingUp == "done"
AfterFailure == "loop"

MosqReconnect ==
    /\ process = "up" /\ mosq = "sleep"
    /\ SessionStarts
    /\ mosq' = AfterReconnect
    /\ UNCHANGED <<process, command, served, shellVars>>

MosqReconnectFails ==
    /\ process = "up" /\ mosq = "sleep"
    /\ mosq' = AfterFailure
    /\ UNCHANGED <<process, command, session, sessions, subscribed, fdVars,
                   shellVars>>

\* The broker drops the session, and with it (clean session) what it was
\* subscribed to.
BrokerDrops ==
    /\ process = "up" /\ session = "up"
    /\ session' = "lost"
    /\ subscribed' = FALSE
    /\ UNCHANGED <<process, command, mosq, sessions, fdVars, shellVars>>

-----------------------------------------------------------------------------
ShWaits == ShTakes \/ ShSeesStop \/ ShFails

Command ==
    \/ CommandExit \/ LineFails
    \/ CommandBusy \/ CommandSend \/ CommandSent \/ CommandSh
    \/ \E c \in Openers : CommandOpen(c)
    \/ CommandKeeps \/ CommandCloses \/ ShWaits

Mosq ==
    \/ MosqConnect \/ MosqSubscribe
    \/ MosqMessage \/ MosqEmptyMessage \/ MosqServed
    \/ MosqLoopFails \/ MosqReconnect \/ MosqReconnectFails

Next == Command \/ HandlerReaps \/ ShellMoves \/ Mosq \/ BrokerDrops

Spec == Init /\ [][Next]_vars

\* Threads run; nobody has to type anything, end a shell, or make room in a
\* queue.  A broker that can be reached again and again is reached.
Fairness ==
    /\ WF_vars(CommandKeeps \/ CommandCloses \/ ShWaits)
    /\ WF_vars(HandlerReaps)
    /\ WF_vars(MosqConnect \/ MosqSubscribe \/ MosqServed \/ MosqLoopFails)
    /\ WF_vars(MosqReconnect \/ MosqReconnectFails)
    /\ SF_vars(MosqReconnect)

-----------------------------------------------------------------------------
(* Properties *)

\* The variables keep their types, and the table its size.
TypeOK ==
    /\ process \in {"up", "ended"}
    /\ command \in Openers \cup {"prompt", "busy", "send", "shell", "spinning"}
    /\ mosq \in {"connect", "subscribe", "loop", "motor", "sleep"}
    /\ session \in {"none", "up", "lost", "closed"}
    /\ sessions \in 0 .. 2
    /\ subscribed \in BOOLEAN
    /\ open \in 0 .. FdSlots
    /\ served \in 0 .. FdSlots
    /\ shell \in {"none", "running", "stopped", "ended", "gone"}
    /\ status \in {"ended", "other"}
    /\ reaper \in {"nobody", "command", "handler"}

Holds(b) == IF b THEN 1 ELSE 0

\* Every descriptor in use is the socket's, one a thread is working with, or
\* the one of a motor or elf command that was served: no failure, lost
\* session or reconnection leaves any other behind, or closes a foreign one.
DescriptorsAccounted ==
    open = served + Holds(command \in Openers) + Holds(mosq = "motor")
                  + Holds(session \in {"up", "lost"})

\* Engine commands arrive in the first session only: the subscription is
\* never renewed, so a motor is on its way from MQTT in no later session
\* that the broker has not interrupted meanwhile.
DeafAfterReconnect ==
    sessions = 2 => ~subscribed /\ mosq # "motor"

\* The prompt is lost in command_sh only to the race: the handler took the
\* shell, and the status is what memory or a stop had left.
SpinOnlyAfterRace ==
    command = "spinning" => reaper = "handler" /\ status = "other"

\* A lost session is replaced, unless served commands have filled the table.
SessionComesBack ==
    session \in {"lost", "closed"}
        ~> (session = "up" \/ open = FdSlots \/ process = "ended")
=============================================================================
