---------------------------- MODULE InputProofs ----------------------------
(***************************************************************************)
(* Proofs about the input process and its way to the camera, for every     *)
(* size of the descriptor table and of the queue, and for every number of  *)
(* requests: who holds which descriptor, why the prompt may be lost, and   *)
(* when MQTT is deaf.                                                      *)
(***************************************************************************)
EXTENDS InputAndCamera, Integers, TLAPS

\* Before the first session there is none; the thread sleeps only without
\* one; and in later sessions it never gets to the subscription.
MosqInv ==
    /\ mosq = "connect" => session = "none" /\ sessions = 0
    /\ mosq # "connect" => session # "none" /\ sessions # 0
    /\ mosq = "sleep" => session = "closed"
    /\ sessions = 2 => ~subscribed /\ mosq \in {"loop", "sleep"}

\* While command_sh waits, only the handler can have taken its shell.
ShellInv ==
    /\ SpinOnlyAfterRace
    /\ command = "shell" /\ shell = "gone" => reaper = "handler"

IInv == TypeOK /\ DescriptorsAccounted /\ MosqInv /\ ShellInv

\* The sequences of the camera's side.
CameraInv ==
    /\ typed \in Seq(Camera!Types) /\ Len(typed) <= MaxMessages
    /\ sending \in {0} \cup Camera!Messages
    /\ queue \in Seq(Camera!Messages) /\ Len(queue) <= MsgCount
    /\ camera \in {"load", "receive", "act", "dead"}
    /\ msg \in {0} \cup Camera!Messages
    /\ asked \in Seq(Camera!Messages)
    /\ taken \in Seq(Camera!Messages)
    /\ camera = "act" => msg # 0
    /\ sending # 0 => command = "send"

\* The messages sent, received, and done with: those typed, but for the one
\* in mq_send, those in the queue, and the one camera_thread looks at.
Sent == IF sending = 0 THEN Len(typed) ELSE Len(typed) - 1
Received == Sent - Len(queue)
Done == IF msg = 0 THEN Received ELSE Received - 1

\* They go through the queue by their numbers.
OrderInv ==
    /\ sending # 0 => sending = Len(typed)
    /\ Received \in Nat
    /\ \A i \in 1 .. Len(queue) : queue[i] = Received + i
    /\ msg # 0 => msg = Received
    /\ camera \in {"load", "receive"} => msg = 0

\* The requests are the messages of their type, by their numbers.
AskedInv ==
    /\ \A i \in 1 .. Len(asked) :
           asked[i] \in 1 .. Len(typed) /\ Camera!ActsOn(typed[asked[i]])
    /\ \A m \in 1 .. Len(typed) :
           Camera!ActsOn(typed[m]) => \E i \in 1 .. Len(asked) : asked[i] = m
    /\ \A i, j \in 1 .. Len(asked) : i < j => asked[i] < asked[j]

\* There is a picture for each request the thread is done with, and no other.
TakenInv ==
    /\ Len(taken) <= Len(asked)
    /\ \A i \in 1 .. Len(asked) : i <= Len(taken) <=> asked[i] <= Done

PathInv == OrderInv /\ AskedInv /\ TakenInv

-----------------------------------------------------------------------------
LEMMA Initial == Init => IInv
<1> SUFFICES ASSUME Init
             PROVE  IInv
  OBVIOUS
<1> USE InputAssumption DEF Init, Openers
<1>1. TypeOK
  <2>1. subscribed \in BOOLEAN
    OBVIOUS
  <2>2. open \in 0 .. FdSlots /\ served \in 0 .. FdSlots /\ sessions \in 0 .. 2
    OBVIOUS
  <2> QED
    BY <2>1, <2>2 DEF TypeOK
<1>2. DescriptorsAccounted
  BY DEF DescriptorsAccounted, Holds
<1>3. MosqInv /\ ShellInv
  BY DEF MosqInv, ShellInv, SpinOnlyAfterRace
<1> QED
  BY <1>1, <1>2, <1>3 DEF IInv

\* A command disturbs the table and the shell, and not the MQTT thread.
LEMMA CommandKept == IInv /\ Command => IInv'
<1> SUFFICES ASSUME IInv, Command
             PROVE  IInv'
  OBVIOUS
<1> USE InputAssumption
    DEF IInv, TypeOK, DescriptorsAccounted, MosqInv, ShellInv,
        SpinOnlyAfterRace, Holds, Openers, fdVars, mosqVars, shellVars
<1>1. CASE CommandExit \/ LineFails
  BY <1>1 DEF CommandExit, LineFails, ProcessEnds
<1>2. CASE CommandBusy \/ CommandSend \/ CommandSent
  BY <1>2 DEF CommandBusy, CommandSend, CommandSent, AtPrompt
<1>3. CASE CommandSh
  BY <1>3 DEF CommandSh, AtPrompt
<1>4. ASSUME NEW c \in Openers, CommandOpen(c)
      PROVE  IInv'
  BY <1>4 DEF CommandOpen, AtPrompt, Open
<1>5. CASE CommandKeeps
  BY <1>5 DEF CommandKeeps, Keep
<1>6. CASE CommandCloses
  BY <1>6 DEF CommandCloses, Close
<1>7. CASE ShTakes
  BY <1>7 DEF ShTakes, Looping
<1>8. CASE ShSeesStop
  BY <1>8 DEF ShSeesStop
<1>9. CASE ShFails
  BY <1>9 DEF ShFails, WaitFails, Looping
<1> QED
  BY <1>1, <1>2, <1>3, <1>4, <1>5, <1>6, <1>7, <1>8, <1>9
  DEF Command, ShWaits

\* The MQTT thread disturbs the table and its session, and not the shell.
LEMMA MosqKept == IInv /\ Mosq => IInv'
<1> SUFFICES ASSUME IInv, Mosq
             PROVE  IInv'
  OBVIOUS
<1> USE InputAssumption
    DEF IInv, TypeOK, DescriptorsAccounted, MosqInv, ShellInv,
        SpinOnlyAfterRace, Holds, Openers, fdVars, mosqVars, shellVars
<1>1. CASE MosqConnect
  <2>1. CASE SessionStarts
    <3>1. subscribed' \in BOOLEAN /\ sessions' = 1
      BY <1>1, <2>1 DEF MosqConnect, SessionStarts
    <3>2. TypeOK'
      BY <1>1, <2>1, <3>1 DEF MosqConnect, SessionStarts, Open
    <3>3. DescriptorsAccounted'
      BY <1>1, <2>1 DEF MosqConnect, SessionStarts, Open
    <3>4. MosqInv'
      BY <1>1, <2>1, <3>1 DEF MosqConnect, SessionStarts
    <3>5. ShellInv'
      BY <1>1, <2>1 DEF MosqConnect
    <3> QED
      BY <3>2, <3>3, <3>4, <3>5
  <2>2. CASE ~SessionStarts
    BY <1>1, <2>2 DEF MosqConnect
  <2> QED
    BY <2>1, <2>2
<1>2. CASE MosqSubscribe
  BY <1>2 DEF MosqSubscribe
<1>3. CASE MosqMessage
  BY <1>3 DEF MosqMessage, Open
<1>4. CASE MosqEmptyMessage
  BY <1>4 DEF MosqEmptyMessage, ProcessEnds
<1>5. CASE MosqServed
  BY <1>5 DEF MosqServed, Keep, Close
<1>6. CASE MosqLoopFails
  BY <1>6 DEF MosqLoopFails, Close
<1>7. CASE MosqReconnect
  <2>1. subscribed' \in BOOLEAN /\ sessions' = 2
    BY <1>7 DEF MosqReconnect, SessionStarts
  <2>2. TypeOK'
    BY <1>7, <2>1 DEF MosqReconnect, SessionStarts, Open, AfterReconnect
  <2>3. DescriptorsAccounted'
    BY <1>7 DEF MosqReconnect, SessionStarts, Open, AfterReconnect
  <2>4. MosqInv'
    BY <1>7, <2>1 DEF MosqReconnect, SessionStarts, AfterReconnect
  <2>5. ShellInv'
    BY <1>7 DEF MosqReconnect
  <2> QED
    BY <2>2, <2>3, <2>4, <2>5
<1>8. CASE MosqReconnectFails
  BY <1>8 DEF MosqReconnectFails, AfterFailure
<1> QED
  BY <1>1, <1>2, <1>3, <1>4, <1>5, <1>6, <1>7, <1>8
  DEF Mosq

\* The parts together are inductive.
LEMMA Inductive == IInv /\ [Next]_vars => IInv'
<1> SUFFICES ASSUME IInv, [Next]_vars
             PROVE  IInv'
  OBVIOUS
<1> USE DEF IInv, TypeOK, DescriptorsAccounted, MosqInv, ShellInv,
            SpinOnlyAfterRace, Holds, fdVars, mosqVars, shellVars
<1>1. CASE HandlerReaps
  BY <1>1 DEF HandlerReaps
<1>2. CASE ShellMoves
  BY <1>2 DEF ShellMoves
<1>3. CASE BrokerDrops
  BY <1>3 DEF BrokerDrops
<1>4. CASE UNCHANGED vars
  BY <1>4 DEF vars
<1> QED
  BY CommandKept, MosqKept, <1>1, <1>2, <1>3, <1>4 DEF Next

-----------------------------------------------------------------------------
\* The composition is an input process: every step of both is one of its
\* steps, or leaves it alone.
LEMMA BothIsInput == BothNext => [Next]_vars
BY DEF BothNext, MqCamera, MqReturns, InputSteps, CameraSteps, SystemEnds,
       Next, Command

\* The processes start with their descriptors and threads in order.
LEMMA CameraInitial == BothInit => CameraInv
BY CameraAssumption
DEF BothInit, Camera!Init, CameraInv, Camera!Types, Camera!Messages

\* The camera's side keeps its types, and a message is sent from the prompt.
LEMMA CameraInductive ==
    CameraInv /\ [BothNext]_bothVars => CameraInv'
<1> SUFFICES ASSUME CameraInv, [BothNext]_bothVars
             PROVE  CameraInv'
  OBVIOUS
<1> USE CameraAssumption
    DEF CameraInv, Camera!Types, Camera!Messages, cameraVars
<1>1. CASE MqCamera
  <2>1. PICK type \in Camera!Types : Camera!CommandMq(type)
    BY <1>1 DEF MqCamera
  <2>2. /\ typed' \in Seq(Camera!Types) /\ Len(typed') = Len(typed) + 1
    BY <2>1 DEF Camera!CommandMq
  <2>3. asked' \in Seq(Camera!Messages)
    <3>1. Len(typed) + 1 \in Camera!Messages
      BY <2>1 DEF Camera!CommandMq
    <3>2. asked' = asked \/ asked' = Append(asked, Len(typed) + 1)
      BY <2>1 DEF Camera!CommandMq
    <3>3. Append(asked, Len(typed) + 1) \in Seq(Camera!Messages)
      BY <3>1
    <3> QED
      BY <3>2, <3>3
  <2> QED
    BY <1>1, <2>1, <2>2, <2>3 DEF MqCamera, CommandSend, Camera!CommandMq
<1>2. CASE MqReturns
  <2>1. queue' \in Seq(Camera!Messages) /\ Len(queue') = Len(queue) + 1
    BY <1>2 DEF MqReturns, Camera!Send, Camera!Enqueued
  <2> QED
    BY <1>2, <2>1 DEF MqReturns, Camera!Send, Camera!HasRoom
<1>3. CASE InputSteps
  BY <1>3 DEF InputSteps
<1>4. CASE CameraSteps
  <2> USE <1>4 DEF CameraSteps, vars
  <2>1. CASE Camera!Load
    BY <2>1 DEF Camera!Load
  <2>2. CASE Camera!Receive
    <3>1. /\ Head(queue) \in Camera!Messages
          /\ Tail(queue) \in Seq(Camera!Messages)
          /\ Len(Tail(queue)) <= Len(queue)
      BY <2>2 DEF Camera!Receive
    <3> QED
      BY <2>2, <3>1 DEF Camera!Receive
  <2>3. CASE Camera!TakePicture
    <3>1. taken' \in Seq(Camera!Messages)
      BY <2>3 DEF Camera!TakePicture
    <3> QED
      BY <2>3, <3>1 DEF Camera!TakePicture
  <2>4. CASE Camera!IgnoreMessage
    BY <2>4 DEF Camera!IgnoreMessage, Camera!AfterUnknown
  <2> QED
    BY <2>1, <2>2, <2>3, <2>4 DEF Camera!Camera
<1>5. CASE SystemEnds
  BY <1>5 DEF SystemEnds, Camera!SystemEnds, vars
<1>6. CASE UNCHANGED bothVars
  BY <1>6 DEF bothVars, vars
<1> QED
  BY <1>1, <1>2, <1>3, <1>4, <1>5, <1>6 DEF BothNext

\* The composition is a camera path as well.
LEMMA BothIsPath == [BothNext]_bothVars => [Camera!Next]_cameraVars
BY DEF BothNext, MqCamera, MqReturns, InputSteps, CameraSteps, SystemEnds,
       Camera!Next, bothVars

\* A message is typed: it is the last of all, and of the requests if it asks
\* for a picture.
LEMMA TypedKept ==
    ASSUME CameraInv, PathInv, NEW type \in Camera!Types,
           Camera!CommandMq(type)
    PROVE  PathInv'
<1> USE CameraAssumption
    DEF CameraInv, Camera!Types, Camera!Messages, Camera!CommandMq
<1> DEFINE n == Len(typed) + 1
<1>1. /\ sending = 0 /\ sending' = n /\ n # 0
      /\ typed' \in Seq(Camera!Types) /\ Len(typed') = n
      /\ \A m \in 1 .. Len(typed) : typed'[m] = typed[m]
      /\ typed'[n] = type
      /\ queue' = queue /\ camera' = camera /\ msg' = msg /\ taken' = taken
  OBVIOUS
<1>2. Received' = Received /\ Done' = Done
  BY <1>1 DEF Sent, Received, Done
<1>3. OrderInv'
  <2>1. OrderInv
    BY DEF PathInv
  <2> QED
    BY <1>1, <1>2, <2>1 DEF OrderInv
<1>4. Done \in Int /\ Done < n
  BY <1>1 DEF PathInv, OrderInv, Sent, Received, Done
<1>5. AskedInv /\ TakenInv
  BY DEF PathInv
<1>6. CASE Camera!ActsOn(type)
  <2>1. /\ Len(asked') = Len(asked) + 1
        /\ \A i \in 1 .. Len(asked) : asked'[i] = asked[i]
        /\ asked'[Len(asked) + 1] = n
    BY <1>6 DEF Camera!ActsOn
  <2>2. Len(asked) \in Nat /\ Len(typed) \in Nat /\ n \in 1 .. n
    OBVIOUS
  <2> HIDE DEF CameraInv, Camera!CommandMq
  <2>3. \A i \in 1 .. Len(asked') :
            \/ i \in 1 .. Len(asked) /\ asked'[i] = asked[i]
                  /\ asked'[i] \in 1 .. Len(typed)
            \/ i = Len(asked) + 1 /\ asked'[i] = n
    BY <1>5, <2>1, <2>2 DEF AskedInv
  <2>4. AskedInv'
    <3>1. \A i \in 1 .. Len(asked') :
              asked'[i] \in 1 .. n /\ Camera!ActsOn(typed'[asked'[i]])
      <4>1. TAKE i \in 1 .. Len(asked')
      <4>2. CASE i \in 1 .. Len(asked) /\ asked'[i] = asked[i]
        BY <1>1, <1>5, <2>2, <4>2 DEF AskedInv
      <4>3. CASE asked'[i] = n
        BY <1>1, <1>6, <2>2, <4>3
      <4> QED
        BY <2>3, <4>2, <4>3
    <3>2. ASSUME NEW m \in 1 .. n, Camera!ActsOn(typed'[m])
          PROVE  \E i \in 1 .. Len(asked') : asked'[i] = m
      <4>1. CASE m = n
        BY <2>1, <2>2, <4>1
      <4>2. CASE m \in 1 .. Len(typed)
        <5>1. PICK i \in 1 .. Len(asked) : asked[i] = m
          BY <1>1, <1>5, <3>2, <4>2 DEF AskedInv
        <5> QED
          BY <2>1, <2>2, <5>1
      <4> QED
        BY <2>2, <4>1, <4>2
    <3>3. ASSUME NEW i \in 1 .. Len(asked'), NEW j \in 1 .. Len(asked'),
                 i < j
          PROVE  asked'[i] < asked'[j]
      <4>1. i \in 1 .. Len(asked) /\ asked'[i] = asked[i]
              /\ asked[i] \in 1 .. Len(typed)
        BY <2>1, <2>2, <2>3, <3>3
      <4>2. CASE j \in 1 .. Len(asked)
        BY <1>5, <2>1, <3>3, <4>1, <4>2 DEF AskedInv
      <4>3. CASE j = Len(asked) + 1
        BY <2>1, <2>2, <4>1, <4>3
      <4> QED
        BY <2>3, <4>2, <4>3
    <3> QED
      BY <1>1, <3>1, <3>2, <3>3 DEF AskedInv
  <2>5. TakenInv'
    <3>1. Len(taken) \in Nat /\ Len(taken) <= Len(asked)
      BY <1>5 DEF CameraInv, TakenInv
    <3>2. ASSUME NEW i \in 1 .. Len(asked')
          PROVE  i <= Len(taken) <=> asked'[i] <= Done
      <4>1. CASE i \in 1 .. Len(asked) /\ asked'[i] = asked[i]
        BY <1>5, <4>1 DEF TakenInv
      <4>2. CASE i = Len(asked) + 1 /\ asked'[i] = n
        BY <1>4, <2>2, <3>1, <4>2
      <4> QED
        BY <2>3, <4>1, <4>2
    <3> QED
      BY <1>1, <1>2, <2>1, <2>2, <3>1, <3>2 DEF TakenInv
  <2> QED
    BY <1>3, <2>4, <2>5 DEF PathInv
<1>7. CASE ~Camera!ActsOn(type)
  <2>1. asked' = asked
    BY <1>7 DEF Camera!ActsOn
  <2>2. AskedInv'
    BY <1>1, <1>5, <1>7, <2>1 DEF AskedInv
  <2>3. TakenInv'
    BY <1>1, <1>2, <1>5, <2>1 DEF TakenInv
  <2> QED
    BY <1>3, <2>2, <2>3 DEF PathInv
<1> QED
  BY <1>6, <1>7

\* It is put behind those that wait.
LEMMA SentKept ==
    ASSUME CameraInv, PathInv, Camera!Send
    PROVE  PathInv'
<1> USE CameraAssumption DEF CameraInv, Camera!Messages, Camera!Send
<1>1. /\ sending # 0 /\ sending' = 0
      /\ Len(queue') = Len(queue) + 1
      /\ \A i \in 1 .. Len(queue) : queue'[i] = queue[i]
      /\ queue'[Len(queue) + 1] = sending
      /\ UNCHANGED <<typed, asked, camera, msg, taken>>
  BY DEF Camera!Enqueued
<1>2. Received' = Received /\ Done' = Done
  BY <1>1 DEF Sent, Received, Done
<1>3. OrderInv'
  <2>1. OrderInv /\ sending = Received + Len(queue) + 1
    BY <1>1 DEF PathInv, OrderInv, Received, Sent
  <2>2. \A i \in 1 .. Len(queue') :
            i \in 1 .. Len(queue) \/ i = Len(queue) + 1
    BY <1>1
  <2>3. \A i \in 1 .. Len(queue') : queue'[i] = Received + i
    <3>1. TAKE i \in 1 .. Len(queue')
    <3>2. CASE i \in 1 .. Len(queue)
      BY <1>1, <2>1, <3>2 DEF OrderInv
    <3>3. CASE i = Len(queue) + 1
      <4>1. queue'[i] = Received + Len(queue) + 1 /\ Received \in Nat
        BY <1>1, <2>1, <3>3 DEF OrderInv
      <4> HIDE DEF CameraInv, Camera!Send
      <4> QED
        BY <3>3, <4>1
    <3> QED
      BY <2>2, <3>2, <3>3
  <2> QED
    BY <1>1, <1>2, <2>1, <2>3 DEF OrderInv
<1> QED
  BY <1>1, <1>2, <1>3 DEF PathInv, AskedInv, TakenInv, Camera!ActsOn

\* The first of those that wait is received.
LEMMA ReceivedKept ==
    ASSUME CameraInv, PathInv, Camera!Receive
    PROVE  PathInv'
<1> USE CameraAssumption DEF CameraInv, Camera!Messages, Camera!Receive
<1>1. /\ msg = 0 /\ msg' = queue[1] /\ msg' # 0
      /\ Len(queue) \in Nat \ {0} /\ Len(queue') = Len(queue) - 1
      /\ \A i \in 1 .. Len(queue') : queue'[i] = queue[i + 1]
      /\ camera' = "act"
      /\ UNCHANGED <<typed, asked, sending, taken>>
  BY DEF PathInv, OrderInv
<1>2. Received' = Received + 1 /\ Done' = Done
  BY <1>1 DEF PathInv, OrderInv, Sent, Received, Done
<1>3. OrderInv'
  <2>1. OrderInv
    BY DEF PathInv
  <2> QED
    BY <1>1, <1>2, <2>1 DEF OrderInv
<1> QED
  BY <1>1, <1>2, <1>3 DEF PathInv, AskedInv, TakenInv, Camera!ActsOn

\* The request the thread looks at is the first without a picture.
LEMMA NextRequest ==
    ASSUME CameraInv, PathInv, camera = "act", Camera!ActsOn(typed[msg])
    PROVE  Len(taken) < Len(asked) /\ asked[Len(taken) + 1] = msg
<1> USE CameraAssumption DEF CameraInv, Camera!Messages
<1>1. msg \in 1 .. Len(typed) /\ Done = msg - 1
  BY DEF PathInv, OrderInv, Received, Sent, Done
<1>2. PICK i \in 1 .. Len(asked) : asked[i] = msg
  BY <1>1 DEF PathInv, AskedInv
<1>3. i > Len(taken)
  BY <1>1, <1>2 DEF PathInv, TakenInv
<1>4. \A k \in 1 .. Len(asked) : asked[k] \in Nat
  OBVIOUS
<1>5. ASSUME Len(taken) + 1 < i
      PROVE  FALSE
  <2>1. Len(taken) + 1 \in 1 .. Len(asked)
    BY <1>2, <1>5
  <2>2. asked[Len(taken) + 1] < msg
    BY <1>2, <1>5, <2>1 DEF PathInv, AskedInv
  <2>3. asked[Len(taken) + 1] <= Done
    BY <1>1, <1>4, <2>1, <2>2
  <2> QED
    BY <2>1, <2>3 DEF PathInv, TakenInv
<1> QED
  BY <1>2, <1>3, <1>5

\* With the picture the thread is done with it.
LEMMA PictureKept ==
    ASSUME CameraInv, PathInv, Camera!TakePicture
    PROVE  PathInv'
<1> USE CameraAssumption DEF CameraInv, Camera!Messages, Camera!TakePicture
<1>1. /\ Len(taken) < Len(asked) /\ asked[Len(taken) + 1] = msg
  BY NextRequest
<1>2. /\ Len(taken') = Len(taken) + 1
      /\ camera' = "receive" /\ msg' = 0
      /\ UNCHANGED <<typed, asked, sending, queue>>
  OBVIOUS
<1>3. msg # 0 /\ Received' = Received /\ Done = msg - 1 /\ Done' = msg
  BY <1>2 DEF PathInv, OrderInv, Sent, Received, Done
<1>4. OrderInv' /\ AskedInv'
  BY <1>2, <1>3 DEF PathInv, OrderInv, AskedInv, Camera!ActsOn
<1>5. TakenInv'
  <2>1. ASSUME NEW i \in 1 .. Len(asked)
        PROVE  i <= Len(taken) + 1 <=> asked[i] <= msg
    <3>. asked[i] \in Nat /\ msg \in Nat /\ Len(taken) \in Nat
      OBVIOUS
    <3>1. \/ i <= Len(taken)
          \/ i = Len(taken) + 1
          \/ Len(taken) + 1 < i
      OBVIOUS
    <3>2. CASE i <= Len(taken)
      BY <1>3, <3>2 DEF PathInv, TakenInv
    <3>3. CASE Len(taken) + 1 < i
      <4>1. Len(taken) + 1 \in 1 .. Len(asked)
        BY <1>1
      <4>2. msg < asked[i]
        BY <1>1, <3>3, <4>1 DEF PathInv, AskedInv
      <4> QED
        BY <3>3, <4>2
    <3> QED
      BY <1>1, <3>1, <3>2, <3>3
  <2> QED
    BY <1>1, <1>2, <1>3, <2>1 DEF TakenInv
<1> QED
  BY <1>4, <1>5 DEF PathInv

\* A message that asks for nothing is no request.
LEMMA IgnoredKept ==
    ASSUME CameraInv, PathInv, Camera!IgnoreMessage
    PROVE  PathInv'
<1> USE CameraAssumption
    DEF CameraInv, Camera!Messages, Camera!IgnoreMessage
<1>1. /\ camera' = "receive" /\ msg' = 0
      /\ UNCHANGED <<typed, asked, sending, queue, taken>>
  BY DEF Camera!AfterUnknown
<1>2. msg # 0 /\ Received' = Received /\ Done = msg - 1 /\ Done' = msg
  BY <1>1 DEF PathInv, OrderInv, Sent, Received, Done
<1>3. OrderInv' /\ AskedInv'
  BY <1>1, <1>2 DEF PathInv, OrderInv, AskedInv, Camera!ActsOn
<1>4. \A i \in 1 .. Len(asked) : asked[i] # msg
  BY DEF PathInv, AskedInv
<1>5. TakenInv'
  <2>1. \A i \in 1 .. Len(asked) : asked[i] <= msg <=> asked[i] <= msg - 1
    <3>1. \A i \in 1 .. Len(asked) : asked[i] \in Nat
      OBVIOUS
    <3>2. msg \in Nat
      OBVIOUS
    <3> QED
      BY <1>4, <3>1, <3>2
  <2> QED
    BY <1>1, <1>2, <2>1 DEF PathInv, TakenInv
<1> QED
  BY <1>3, <1>5 DEF PathInv

\* However full the queue is and whenever the system process ends, messages
\* go through it by their numbers, and pictures are taken by them.
LEMMA PathInductive ==
    CameraInv /\ PathInv /\ [Camera!Next]_cameraVars => PathInv'
<1> SUFFICES ASSUME CameraInv, PathInv, [Camera!Next]_cameraVars
             PROVE  PathInv'
  OBVIOUS
<1> DEFINE Same == UNCHANGED <<typed, asked, sending, queue, msg, taken>>
<1>1. ASSUME Same, camera' \in {camera, "dead"} \/ camera = "load"
      PROVE  PathInv'
  BY <1>1 DEF PathInv, OrderInv, AskedInv, TakenInv, Sent, Received, Done,
              Camera!ActsOn
<1>2. CASE Camera!Load
  BY <1>1, <1>2 DEF Camera!Load
<1>3. CASE Camera!SystemEnds
  BY <1>1, <1>3 DEF Camera!SystemEnds
<1>4. CASE UNCHANGED cameraVars
  BY <1>1, <1>4 DEF cameraVars
<1> QED
  BY <1>2, <1>3, <1>4, TypedKept, SentKept, ReceivedKept, PictureKept,
     IgnoredKept
  DEF Camera!Next, Camera!Camera

\* Both invariants hold of the composition.
LEMMA Invariant == BothSpec => [](IInv /\ CameraInv)
<1>1. BothInit => IInv /\ CameraInv
  BY Initial, CameraInitial DEF BothInit
<1>2. IInv /\ CameraInv /\ [BothNext]_bothVars => (IInv /\ CameraInv)'
  <2> SUFFICES ASSUME IInv, CameraInv, [BothNext]_bothVars
               PROVE  IInv' /\ CameraInv'
    OBVIOUS
  <2>1. [Next]_vars
    BY BothIsInput DEF bothVars
  <2> QED
    BY <2>1, Inductive, CameraInductive
<1> QED
  BY <1>1, <1>2, PTL DEF BothSpec

\* Every descriptor in use is the socket's, one a thread is working with, or
\* the one of a motor or elf command that was served.
THEOREM TableIsAccounted == BothSpec => []DescriptorsAccounted
<1>1. IInv => DescriptorsAccounted
  BY DEF IInv
<1> QED
  BY <1>1, Invariant, PTL

\* Messages go by their numbers in every behaviour of the composition.
LEMMA PathInvariant == BothSpec => []PathInv
<1>1. BothInit => PathInv
  BY DEF BothInit, Camera!Init, PathInv, OrderInv, AskedInv, TakenInv, Sent,
         Received, Done
<1>2. CameraInv /\ PathInv /\ [BothNext]_bothVars => PathInv'
  BY BothIsPath, PathInductive
<1> QED
  BY <1>1, <1>2, Invariant, PTL DEF BothSpec

\* A step of the path is a request, a picture for the next request, or
\* nothing the user sees.
LEMMA PathKeepsPromise ==
    CameraInv /\ PathInv /\ [Camera!Next]_cameraVars
        => [Camera!Promise!Next]_<<asked, taken>>
<1> SUFFICES ASSUME CameraInv, PathInv, [Camera!Next]_cameraVars
             PROVE  \/ Camera!Promise!Next
                    \/ UNCHANGED <<asked, taken>>
  OBVIOUS
<1>1. ASSUME NEW type \in Camera!Types, Camera!CommandMq(type),
             asked' # asked
      PROVE  Camera!Promise!Next
  <2>1. /\ asked' = Append(asked, Len(typed) + 1)
        /\ taken' = taken
        /\ Len(typed) + 1 \in Camera!Messages
    BY <1>1, CameraAssumption
    DEF Camera!CommandMq, CameraInv, Camera!Messages
  <2>2. Camera!Promise!Ask(Len(typed) + 1)
    BY <2>1 DEF Camera!Promise!Ask
  <2> QED
    BY <2>1, <2>2 DEF Camera!Promise!Next
<1>2. CASE Camera!TakePicture
  <2>1. Len(taken) < Len(asked) /\ asked[Len(taken) + 1] = msg
    BY <1>2, NextRequest DEF Camera!TakePicture
  <2> QED
    BY <1>2, <2>1
    DEF Camera!TakePicture, Camera!Promise!Take, Camera!Promise!Next
<1>3. CASE \/ Camera!Send \/ Camera!Load \/ Camera!Receive
           \/ Camera!IgnoreMessage \/ Camera!SystemEnds
           \/ UNCHANGED cameraVars
  BY <1>3 DEF Camera!Send, Camera!Load, Camera!Receive, Camera!IgnoreMessage,
              Camera!SystemEnds, cameraVars
<1>4. \A type \in Camera!Types : Camera!CommandMq(type) => taken' = taken
  BY DEF Camera!CommandMq
<1> QED
  BY <1>1, <1>2, <1>3, <1>4 DEF Camera!Next, Camera!Camera

\* The pictures so far are those of the first requests: the promise keeps it
\* so.
TakenIsAsked == \A i \in 1 .. Len(taken) : taken[i] = asked[i]

LEMMA TakenAreAsked == BothSpec => []TakenIsAsked
<1>1. BothInit => TakenIsAsked
  BY DEF BothInit, Camera!Init, TakenIsAsked
<1>2. ASSUME CameraInv, PathInv, TakenIsAsked, [BothNext]_bothVars
      PROVE  TakenIsAsked'
  <2>t. /\ asked \in Seq(Camera!Messages) /\ taken \in Seq(Camera!Messages)
        /\ Len(taken) \in Nat /\ Len(asked) \in Nat
        /\ Len(taken) <= Len(asked)
    BY <1>2 DEF CameraInv, PathInv, TakenInv
  <2>1. [Camera!Promise!Next]_<<asked, taken>>
    BY <1>2, BothIsPath, PathKeepsPromise
  <2>2. CASE Camera!Promise!Take
    <3>1. /\ Len(taken') = Len(taken) + 1 /\ asked' = asked
          /\ taken'[Len(taken) + 1] = asked[Len(taken) + 1]
          /\ \A i \in 1 .. Len(taken) : taken'[i] = taken[i]
      BY <2>t, <2>2 DEF Camera!Promise!Take
    <3> QED
      BY <1>2, <2>t, <3>1 DEF TakenIsAsked
  <2>3. ASSUME NEW r \in Camera!Messages, Camera!Promise!Ask(r)
        PROVE  TakenIsAsked'
    <3>1. /\ taken' = taken
          /\ \A i \in 1 .. Len(asked) : asked'[i] = asked[i]
      BY <2>t, <2>3 DEF Camera!Promise!Ask
    <3> QED
      BY <1>2, <2>t, <3>1 DEF TakenIsAsked
  <2> QED
    BY <1>2, <2>1, <2>2, <2>3 DEF Camera!Promise!Next, TakenIsAsked
<1> QED
  BY <1>1, <1>2, Invariant, PathInvariant, PTL DEF BothSpec

\* Between the messages done with and those typed there is no gap.
LEMMA RequestsAreSomewhere ==
    CameraInv /\ PathInv /\ TakenIsAsked => NoRequestLost
<1> SUFFICES ASSUME CameraInv, PathInv, TakenIsAsked,
                    NEW m \in 1 .. Len(typed), Camera!IsPicture(m)
             PROVE  \/ m \in {sending, msg}
                    \/ \E i \in 1 .. Len(queue) : queue[i] = m
                    \/ \E i \in 1 .. Len(taken) : taken[i] = m
  BY DEF NoRequestLost
<1>t. /\ Len(typed) \in Nat /\ Len(queue) \in Nat /\ Len(taken) \in Nat
      /\ Len(asked) \in Nat /\ m \in Nat /\ Received \in Nat
  BY DEF CameraInv, PathInv, OrderInv
<1>1. CASE m <= Done
  <2>1. PICK i \in 1 .. Len(asked) : asked[i] = m
    BY DEF PathInv, AskedInv, Camera!IsPicture, Camera!ActsOn
  <2>2. i \in 1 .. Len(taken)
    BY <1>t, <1>1, <2>1 DEF PathInv, TakenInv
  <2> QED
    BY <2>1, <2>2 DEF TakenIsAsked
<1>2. CASE Done < m /\ m <= Received
  BY <1>t, <1>2 DEF PathInv, OrderInv, Done
<1>3. CASE Received < m /\ m <= Sent
  <2>1. m - Received \in 1 .. Len(queue)
    BY <1>t, <1>3 DEF Received, Sent
  <2>2. queue[m - Received] = m
    BY <1>t, <2>1 DEF PathInv, OrderInv
  <2> QED
    BY <2>1, <2>2
<1>4. CASE Sent < m
  BY <1>t, <1>4 DEF PathInv, OrderInv, Sent
<1>5. Done \in Int /\ Sent \in Int
  BY <1>t DEF Done, Sent
<1> QED
  BY <1>t, <1>1, <1>2, <1>3, <1>4, <1>5

\* Types are kept on both sides of the camera queue, which holds at most its
\* capacity; MQTT is deaf after a reconnection, the prompt is lost to the race for
\* the shell only, and no request for a picture is lost.
THEOREM ThreadsAreExplained == BothSpec => []InputInv
<1>1. IInv /\ CameraInv /\ NoRequestLost => InputInv
  <2> SUFFICES ASSUME IInv, CameraInv, NoRequestLost
               PROVE  InputInv
    OBVIOUS
  <2>1. Camera!TypeOK
    BY DEF CameraInv, Camera!TypeOK
  <2>2. DeafAfterReconnect
    BY DEF IInv, MosqInv, DeafAfterReconnect
  <2> QED
    BY <2>1, <2>2 DEF IInv, ShellInv, CameraInv, InputInv, BothTypeOK
<1> QED
  BY <1>1, RequestsAreSomewhere, Invariant, PathInvariant, TakenAreAsked, PTL

\* The path implements what CameraPromise says: one picture for each request,
\* in the order of the requests, whatever is typed, whenever either process
\* ends and however full the queue is.
THEOREM PromiseIsKept == BothSpec => KeepsPromise
<1>1. BothInit => Camera!Promise!Init
  BY DEF BothInit, Camera!Init, Camera!Promise!Init
<1>2. CameraInv /\ PathInv /\ [BothNext]_bothVars
        => [Camera!Promise!Next]_<<asked, taken>>
  BY BothIsPath, PathKeepsPromise
<1> QED
  BY <1>1, <1>2, Invariant, PathInvariant, PTL
  DEF BothSpec, KeepsPromise, Camera!KeepsPromise, Camera!Promise!Spec
=============================================================================
