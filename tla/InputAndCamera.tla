--------------------------- MODULE InputAndCamera ---------------------------
(***************************************************************************)
(* The input process together with the camera of the system process: the   *)
(* command mq camera is a command of InputProcess's prompt and the sender  *)
(* of CameraPath.  Either process may end while the other goes on.         *)
(***************************************************************************)
EXTENDS InputProcess, Sequences

CONSTANTS MsgCount, MaxMessages   \* of CameraPath

ASSUME CameraAssumption ==
    /\ MsgCount \in Nat \ {0}
    /\ MaxMessages \in Nat

VARIABLES typed, asked, sending, queue, camera, msg, taken   \* of CameraPath

cameraVars == <<typed, asked, sending, queue, camera, msg, taken>>
bothVars == <<vars, cameraVars>>

Camera == INSTANCE CameraPath WITH command <- sending

BothInit == Init /\ Camera!Init

\* command_mq is one command in both processes' terms.
MqCamera ==
    /\ CommandSend
    /\ \E type \in Camera!Types : Camera!CommandMq(type)
MqReturns == CommandSent /\ Camera!Send

\* Everything else the input process does, the other commands that send
\* included, while command_thread waits in mq_send or not.
InputSteps ==
    /\ Next
    /\ sending # 0 => command' = command
    /\ UNCHANGED cameraVars

CameraSteps == Camera!Camera /\ UNCHANGED vars
SystemEnds == Camera!SystemEnds /\ UNCHANGED vars

BothNext == MqCamera \/ MqReturns \/ InputSteps \/ CameraSteps \/ SystemEnds

BothSpec == BothInit /\ [][BothNext]_bothVars

\* The threads of the system process run as well, and mq_send returns when
\* there is room.  Nobody else sends to the camera queue.
FairSpec ==
    /\ BothSpec
    /\ Fairness
    /\ WF_bothVars(MqReturns)
    /\ WF_bothVars(CameraSteps)

-----------------------------------------------------------------------------
(* Properties *)

\* The variables keep their types, and a message is sent from the prompt.
BothTypeOK ==
    /\ TypeOK
    /\ Camera!TypeOK
    /\ sending # 0 => command = "send"

\* No request disappears between the processes, also when either has ended: it
\* waits in mq_send, lies in the queue, is in camera_thread's hands, or has its
\* picture.
NoRequestLost ==
    \A m \in 1 .. Len(typed) :
        Camera!IsPicture(m) =>
            \/ m \in {sending, msg}
            \/ \E i \in 1 .. Len(queue) : queue[i] = m
            \/ \E i \in 1 .. Len(taken) : taken[i] = m

\* The invariant of the threads that wait for others: MQTT is deaf after a
\* reconnection, the prompt is lost to the race for the shell only, and no
\* request is.
InputInv ==
    BothTypeOK /\ DeafAfterReconnect /\ SpinOnlyAfterRace /\ NoRequestLost

\* Whatever is typed, whenever either process ends and however full the queue
\* is, the user sees what CameraPromise says: no picture twice, none out of
\* order, none that was not asked for.
KeepsPromise == Camera!KeepsPromise

\* No request is lost on the way: each is answered by its picture, unless the
\* system process ends, or the input process does while it waits to send it.
EveryRequestIsAnswered ==
    \A m \in Camera!Messages :
        (m <= Len(typed) /\ Camera!IsPicture(m))
            ~> \/ camera = "dead"
               \/ process = "ended" /\ sending = m
               \/ \E i \in 1 .. Len(taken) : taken[i] = m

\* The prompt returns from every file command, from mq camera while there is
\* somebody to receive, and from sh once the shell has ended and the race for
\* it is not lost.
PromptReturns ==
    (\/ command \in Openers
     \/ command = "shell" /\ shell \in {"ended", "gone"}
     \/ sending # 0)
        ~> \/ command \in {"prompt", "spinning"}
           \/ process = "ended"
           \/ camera = "dead" /\ Len(queue) = MsgCount
=============================================================================
