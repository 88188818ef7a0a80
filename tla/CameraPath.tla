----------------------------- MODULE CameraPath -----------------------------
(***************************************************************************)
(* From the prompt to the camera: the command mq camera puts a message     *)
(* into the camera queue, and camera_thread of the system process, which   *)
(* has loaded the vendor's library, takes a picture for each message of    *)
(* the type TAKE_PICTURE.  The user may give any other type as well.       *)
(*                                                                         *)
(* Messages are numbered in the order they are typed.                      *)
(***************************************************************************)
EXTENDS Naturals, Sequences

CONSTANTS
    MsgCount,     \* messages the queue can hold (MSG_COUNT)
    MaxMessages   \* bound: times the command is typed

Messages == 1 .. MaxMessages
Types == {"TAKE_PICTURE", "unknown"}

VARIABLES
    typed,    \* the type of each message typed so far
    asked,    \* those that ask for a picture (a history variable)
    command,  \* the message in mq_send, or 0 at the prompt
    queue,    \* the camera queue
    camera,   \* where camera_thread is; dead with the system process
    msg,      \* the message it has received, or 0
    taken     \* the messages a picture was taken for

vars == <<typed, asked, command, queue, camera, msg, taken>>

Init ==
    /\ typed = <<>>
    /\ asked = <<>>
    /\ command = 0
    /\ queue = <<>>
    /\ camera = "load"
    /\ msg = 0
    /\ taken = <<>>

\* command_mq up to mq_send: TAKE_PICTURE, or the number the user gives.
CommandMq(type) ==
    /\ command = 0
    /\ Len(typed) < MaxMessages
    /\ typed' = Append(typed, type)
    /\ asked' = IF type = "TAKE_PICTURE" THEN Append(asked, Len(typed) + 1)
                ELSE asked
    /\ command' = Len(typed) + 1
    /\ UNCHANGED <<queue, camera, msg, taken>>

\* The place of a new message: equal priorities keep their order, a faulty
\* sender takes them for different ones.
EnqueuedFirst(q, m) == <<m>> \o q
Enqueued(q, m) == Append(q, m)

\* mq_send waits for room; a faulty queue has room for one more.
HasRoomForMore == Len(queue) <= MsgCount
HasRoom == Len(queue) < MsgCount

\* It returns to the prompt.
Send ==
    /\ command # 0
    /\ HasRoom
    /\ queue' = Enqueued(queue, command)
    /\ command' = 0
    /\ UNCHANGED <<typed, asked, camera, msg, taken>>

\* get_camera_module: without ./libcamera.so, or its symbol, the assertion
\* aborts the process.
Load ==
    /\ camera = "load"
    /\ camera' \in {"receive", "dead"}
    /\ UNCHANGED <<typed, asked, command, queue, msg, taken>>

Receive ==
    /\ camera = "receive" /\ queue # <<>>
    /\ msg' = Head(queue)
    /\ queue' = Tail(queue)
    /\ camera' = "act"
    /\ UNCHANGED <<typed, asked, command, taken>>

\* The types the switch answers with a picture; a faulty one has another
\* number for the type.
ActsOnNone(type) == FALSE
ActsOn(type) == type = "TAKE_PICTURE"

\* oem_camera_take_picture.  Nobody has called open, and control_thread is
\* null; takePicture is not virtual and has no members to look at.
TakePicture ==
    /\ camera = "act" /\ ActsOn(typed[msg])
    /\ taken' = Append(taken, msg)
    /\ camera' = "receive"
    /\ msg' = 0
    /\ UNCHANGED <<typed, asked, command, queue>>

\* The thread goes on after an unknown type; a faulty one ends.
AfterUnknownEnds == "ended"
AfterUnknown == "receive"

IgnoreMessage ==
    /\ camera = "act" /\ ~ActsOn(typed[msg])
    /\ camera' = AfterUnknown
    /\ msg' = 0
    /\ UNCHANGED <<typed, asked, command, queue, taken>>

\* The system process ends, with or without a picture half taken.
SystemEnds ==
    /\ camera # "dead"
    /\ camera' = "dead"
    /\ UNCHANGED <<typed, asked, command, queue, msg, taken>>

Camera == Load \/ Receive \/ TakePicture \/ IgnoreMessage

Next ==
    \/ \E type \in Types : CommandMq(type)
    \/ Send
    \/ Camera
    \/ SystemEnds

Spec == Init /\ [][Next]_vars

-----------------------------------------------------------------------------
(* Properties *)

\* The variables keep their types, and the queue its capacity.
TypeOK ==
    /\ Len(typed) <= MaxMessages
    /\ \A i \in 1 .. Len(typed) : typed[i] \in Types
    /\ \A i \in 1 .. Len(asked) : asked[i] \in Messages
    /\ command \in {0} \cup Messages
    /\ Len(queue) <= MsgCount
    /\ \A i \in 1 .. Len(queue) : queue[i] \in Messages
    /\ camera \in {"load", "receive", "act", "dead"}
    /\ msg \in {0} \cup Messages
    /\ \A i \in 1 .. Len(taken) : taken[i] \in Messages

IsPicture(m) == typed[m] = "TAKE_PICTURE"

\* The user sees the promise kept whatever is typed, whenever the system
\* process ends and however full the queue is: no picture twice, none out of
\* order, none that was not asked for.
Promise == INSTANCE CameraPromise WITH Requests <- Messages
KeepsPromise == Promise!Spec
=============================================================================
