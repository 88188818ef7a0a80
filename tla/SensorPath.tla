---------------------------- MODULE SensorPath ----------------------------
(***************************************************************************)
(* The telemetry pipeline of nsystem: the bmp280 driver samples the        *)
(* sensor from a timer and a work item and leaves the reading as text in   *)
(* the sysfs attribute "notify"; the sensor thread of the input process    *)
(* reads it, stores it in shared memory and announces it on the monitor    *)
(* queue; the monitor thread of the system process answers by publishing   *)
(* what shared memory holds at that time.  The command thread shares the   *)
(* queue: its "dump" command asks the monitor thread for a state dump.     *)
(*                                                                         *)
(* Measurements are numbered, and a temperature or a pressure is           *)
(* represented by the oldest measurement that any of its digits comes      *)
(* from: the driver may overwrite the text while it is printed, so that a  *)
(* number can mix the digits of two measurements.  0 stands for bytes that *)
(* no measurement wrote: the empty attribute, the zero-filled shared       *)
(* memory, a local variable not assigned yet.  No lock ties the two        *)
(* numbers of a pair together: every copy of a pair takes two steps.       *)
(***************************************************************************)
EXTENDS Integers, Sequences, FiniteSets

CONSTANTS
    QueueCap,   \* MSG_COUNT: messages a queue holds before mq_send blocks
    MaxSample,  \* bound: measurements the driver takes
    MaxDump     \* bound: dump commands the user types

ASSUME SensorPathAssumption ==
    /\ QueueCap \in Nat \ {0}
    /\ MaxSample \in Nat
    /\ MaxDump \in Nat

Samples == 0 .. MaxSample
Readings == [temp : Samples, press : Samples]
NoReading == [temp |-> 0, press |-> 0]

MsgTypes == {"SENSOR_DATA", "DUMP_STATE"}

VARIABLES
    measured,   \* bmp_info and the formatted text of it: newest measurement
    item,       \* whether the work item is queued on bmp_workqueue
    work,       \* where wq_func is
    notify,     \* notify.value
    sensor,     \* where sensor_thread is
    text,       \* the part of notify.value sensor_thread has read so far
    reading,    \* temp and press, the locals of sensor_thread
    shm,        \* the shared sensor_info_t
    queue,      \* /monitor_queue
    command,    \* where command_thread is
    monitor,    \* where monitor_thread is
    payload,    \* the bytes mosquitto_publish has copied
    published,  \* the last reading the broker accepted
    input,      \* phase of the input process
    system,     \* phase of the system process
    session,     \* the system process's session with the broker is up
    \* History variables: no action depends on them.
    announced,  \* the reading the latest SENSOR_DATA was sent for
    due,        \* announced when monitor_thread last received
    asked,      \* DUMP_STATE messages sent
    dumped      \* DUMP_STATE messages answered by a complete dump

driverVars == <<measured, item, work, notify>>
sensorVars == <<sensor, text, reading, shm>>
monitorVars == <<monitor, payload, published>>
lifeVars == <<input, system, session>>
historyVars == <<announced, due, asked, dumped>>
vars == <<driverVars, sensorVars, queue, command, monitorVars, lifeVars,
          historyVars>>

Init ==
    /\ measured = 0
    /\ item = "none"
    /\ work = "idle"
    /\ notify = NoReading
    /\ sensor = "poll"
    /\ text = 0
    /\ reading = NoReading
    /\ shm = NoReading
    /\ queue = << >>
    /\ command = "prompt"
    /\ monitor = "receive"
    /\ payload = NoReading
    /\ published = NoReading
    /\ input = "up"
    /\ system = "connecting"
    /\ session = "down"
    /\ announced = NoReading
    /\ due = NoReading
    /\ asked = 0
    /\ dumped = 0

-----------------------------------------------------------------------------
(* The bmp280 driver *)

\* restart_bmp_timer: queue_work does nothing when the item is queued already.
TimerFires ==
    /\ item' = "queued"
    /\ UNCHANGED <<measured, work, notify, sensorVars, queue, command,
                   monitorVars, lifeVars, historyVars>>

\* wq_func, first half: sample the chip and format the text.
Measure ==
    /\ work = "idle"
    /\ item = "queued"
    /\ measured < MaxSample
    /\ item' = "none"
    /\ measured' = measured + 1
    /\ work' = "copyTemp"
    /\ UNCHANGED <<notify, sensorVars, queue, command, monitorVars, lifeVars,
                   historyVars>>

\* strncpy(notify.value, info, ...) writes from the front: the last digit of
\* the temperature ...
NotifyTemp ==
    /\ work = "copyTemp"
    /\ notify' = [notify EXCEPT !.temp = measured]
    /\ work' = "copyPress"
    /\ UNCHANGED <<measured, item, sensorVars, queue, command, monitorVars,
                   lifeVars, historyVars>>

\* The text with its rest copied; a faulty copy is cut after the temperature.
NotifyTruncated == notify
NotifyComplete == [notify EXCEPT !.press = measured]

\* ... and sysfs_notify ends the work: the attribute is always readable, so
\* it changes nothing for a reader that polls for POLLIN.
NotifyPress ==
    /\ work = "copyPress"
    /\ notify' = NotifyComplete
    /\ work' = "idle"
    /\ UNCHANGED <<measured, item, sensorVars, queue, command, monitorVars,
                   lifeVars, historyVars>>

Driver == TimerFires \/ Measure \/ NotifyTemp \/ NotifyPress

-----------------------------------------------------------------------------
(* The input process: sensor_thread and command_thread *)

SensorUnchanged == UNCHANGED <<driverVars, command, monitorVars, lifeVars>>

\* What there is to read: nothing while the attribute is empty.  In a faulty
\* variant without the lseek every read after the first is at the end.
ReadableNoSeek == notify.temp # 0 /\ text = 0
Readable == notify.temp # 0

\* poll returns and show_kobj prints the front of the text; after a read of
\* 0 bytes the loop starts over.
SensorReadTemp ==
    /\ input = "up"
    /\ sensor = "poll"
    /\ Readable
    /\ text' = notify.temp
    /\ sensor' = "readPress"
    /\ UNCHANGED <<reading, shm, queue, historyVars>>
    /\ SensorUnchanged

\* The rest of the read, lseek and sscanf: a text cut before the pressure
\* assigns the temperature only.
SensorReadPress ==
    /\ input = "up"
    /\ sensor = "readPress"
    /\ reading' = [temp |-> text,
                   press |-> IF notify.press # 0 THEN notify.press
                                                 ELSE reading.press]
    /\ sensor' = "storeTemp"
    /\ UNCHANGED <<text, shm, queue, historyVars>>
    /\ SensorUnchanged

\* The stores run field by field; faulty variants clear the structure first,
\* or send the message before the pressure is stored.
ShmWithTempCleared == [temp |-> reading.temp, press |-> 0]
ShmWithTemp == [shm EXCEPT !.temp = reading.temp]

AfterTempSend == "send"
AfterTemp == "storePress"

SensorStoreTemp ==
    /\ input = "up"
    /\ sensor = "storeTemp"
    /\ shm' = ShmWithTemp
    /\ sensor' = AfterTemp
    /\ UNCHANGED <<text, reading, queue, historyVars>>
    /\ SensorUnchanged

SensorStorePress ==
    /\ input = "up"
    /\ sensor = "storePress"
    /\ shm' = [shm EXCEPT !.press = reading.press]
    /\ sensor' = "send"
    /\ UNCHANGED <<text, reading, queue, historyVars>>
    /\ SensorUnchanged

\* mq_send blocks while the queue is full; a faulty one does not.
SendAlways == TRUE
HasRoom == Len(queue) < QueueCap

\* A faulty sender does not wait, and its message is lost (O_NONBLOCK).
EnqueueOrLose(type) == queue' = IF HasRoom THEN Append(queue, type) ELSE queue
Enqueue(type) == HasRoom /\ queue' = Append(queue, type)

SensorSend ==
    /\ input = "up"
    /\ sensor = "send"
    /\ Enqueue("SENSOR_DATA")
    /\ announced' = reading
    /\ sensor' = "sleep"
    /\ UNCHANGED <<text, reading, shm, due, asked, dumped>>
    /\ SensorUnchanged

SensorWakes ==
    /\ input = "up"
    /\ sensor = "sleep"
    /\ sensor' = "poll"
    /\ UNCHANGED <<text, reading, shm, queue, historyVars>>
    /\ SensorUnchanged

\* The user types "dump": command_thread enters mq_send.
CommandDump ==
    /\ input = "up"
    /\ command = "prompt"
    /\ asked < MaxDump
    /\ command' = "send"
    /\ UNCHANGED <<driverVars, sensorVars, queue, monitorVars, lifeVars,
                   historyVars>>

CommandSend ==
    /\ input = "up"
    /\ command = "send"
    /\ Enqueue("DUMP_STATE")
    /\ asked' = asked + 1
    /\ command' = "prompt"
    /\ UNCHANGED <<driverVars, sensorVars, monitorVars, lifeVars, announced,
                   due, dumped>>

\* exit() in any of its threads ends the process wherever the others are:
\* the command "exit", the end of stdin, a failed poll or read of the
\* attribute, a lost broker in mosq_thread.  Shared memory and queue stay.
InputExits ==
    /\ input = "up"
    /\ input' = "dead"
    /\ UNCHANGED <<driverVars, sensorVars, queue, command, monitorVars, system,
                   session, historyVars>>

Sensor ==
    \/ SensorReadTemp \/ SensorReadPress \/ SensorStoreTemp
    \/ SensorStorePress \/ SensorSend \/ SensorWakes

-----------------------------------------------------------------------------
(* The system process: init_system_process and monitor_thread *)

MonitorUnchanged ==
    UNCHANGED <<driverVars, sensorVars, command, input, system, session>>

\* init_system_process: threads start only once mosquitto_connect succeeded;
\* a refused connection ends the process.
SystemConnects ==
    /\ system = "connecting"
    /\ system' = "up"
    /\ session' = "up"
    /\ UNCHANGED <<driverVars, sensorVars, queue, command, monitorVars,
                   input, historyVars>>

SystemExits ==
    /\ system # "dead"
    /\ system' = "dead"
    /\ UNCHANGED <<driverVars, sensorVars, queue, command, monitorVars,
                   input, session, historyVars>>

\* The broker goes away.  Nothing in the system process reconnects.
BrokerLost ==
    /\ session = "up"
    /\ session' = "down"
    /\ UNCHANGED <<driverVars, sensorVars, queue, command, monitorVars,
                   input, system, historyVars>>

\* The switch on msg_type; a faulty one does not know DUMP_STATE.
DispatchNoDump(type) == IF type = "SENSOR_DATA" THEN "copyTemp" ELSE "receive"
Dispatch(type) == IF type = "SENSOR_DATA" THEN "copyTemp" ELSE "dump"

MonitorReceive ==
    /\ system = "up"
    /\ monitor = "receive"
    /\ queue # << >>
    /\ queue' = Tail(queue)
    /\ monitor' = Dispatch(Head(queue))
    /\ due' = announced
    /\ UNCHANGED <<payload, published, announced, asked, dumped>>
    /\ MonitorUnchanged

\* mosquitto_publish copies the payload straight out of shared memory.
MonitorCopyTemp ==
    /\ system = "up"
    /\ monitor = "copyTemp"
    /\ payload' = [payload EXCEPT !.temp = shm.temp]
    /\ monitor' = "copyPress"
    /\ UNCHANGED <<queue, published, historyVars>>
    /\ MonitorUnchanged

MonitorCopyPress ==
    /\ system = "up"
    /\ monitor = "copyPress"
    /\ payload' = [payload EXCEPT !.press = shm.press]
    /\ monitor' = "publish"
    /\ UNCHANGED <<queue, published, historyVars>>
    /\ MonitorUnchanged

\* A failed publish is logged and the reading is lost.
MonitorPublish ==
    /\ system = "up"
    /\ monitor = "publish"
    /\ published' = IF session = "up" THEN payload ELSE published
    /\ monitor' = "receive"
    /\ UNCHANGED <<queue, payload, historyVars>>
    /\ MonitorUnchanged

\* dump_state; a file dump_file cannot open is a SystemExits instead.
MonitorDump ==
    /\ system = "up"
    /\ monitor = "dump"
    /\ dumped' = dumped + 1
    /\ monitor' = "receive"
    /\ UNCHANGED <<queue, payload, published, announced, due, asked>>
    /\ MonitorUnchanged

Monitor ==
    \/ MonitorReceive \/ MonitorCopyTemp \/ MonitorCopyPress
    \/ MonitorPublish \/ MonitorDump

-----------------------------------------------------------------------------
Next ==
    \/ Driver
    \/ Sensor
    \/ CommandDump \/ CommandSend
    \/ InputExits
    \/ SystemConnects \/ SystemExits \/ BrokerLost
    \/ Monitor

\* A periodic timer and a kernel worker keep running; a thread that is not
\* blocked is scheduled.  A sender blocked on a full queue is served in turn
\* when a message leaves it (strong fairness).  Nobody has to type a command,
\* to exit or to lose the broker, and the broker need not accept.
Fairness ==
    /\ WF_vars(TimerFires)
    /\ WF_vars(Measure \/ NotifyTemp \/ NotifyPress)
    /\ WF_vars(SensorReadTemp \/ SensorReadPress \/ SensorStoreTemp
                   \/ SensorStorePress \/ SensorWakes)
    /\ SF_vars(SensorSend)
    /\ SF_vars(CommandSend)
    /\ WF_vars(Monitor)

Spec == Init /\ [][Next]_vars
FairSpec == Spec /\ Fairness

-----------------------------------------------------------------------------
(* Properties *)

TypeOK ==
    /\ measured \in Samples
    /\ item \in {"none", "queued"}
    /\ work \in {"idle", "copyTemp", "copyPress"}
    /\ notify \in Readings
    /\ sensor \in {"poll", "readPress", "storeTemp", "storePress", "send",
                   "sleep"}
    /\ text \in Samples
    /\ reading \in Readings
    /\ shm \in Readings
    /\ queue \in Seq(MsgTypes)
    /\ Len(queue) <= QueueCap
    /\ command \in {"prompt", "send"}
    /\ monitor \in {"receive", "copyTemp", "copyPress", "publish", "dump"}
    /\ payload \in Readings
    /\ published \in Readings
    /\ input \in {"up", "dead"}
    /\ system \in {"connecting", "up", "dead"}
    /\ session \in {"down", "up"}
    /\ announced \in Readings
    /\ due \in Readings
    /\ asked \in Nat
    /\ dumped \in Nat

AtLeast(r, s) == r.temp >= s.temp /\ r.press >= s.press

\* Neither process nor the session has been lost so far.
Unharmed ==
    /\ input = "up"
    /\ system = "connecting" \/ (system = "up" /\ session = "up")

\* No reading is stranded in shared memory: as long as nothing is lost, what
\* lies there is published, or on its way to the broker, or somebody will
\* come for it: a message is in the queue or about to be sent.
NothingStranded ==
    Unharmed =>
        \/ \E i \in 1 .. Len(queue) : queue[i] = "SENSOR_DATA"
        \/ sensor \in {"storePress", "send"}
        \/ monitor = "copyTemp"
        \/ monitor = "copyPress" /\ payload.temp >= shm.temp
        \/ monitor = "publish" /\ AtLeast(payload, shm)
        \/ AtLeast(published, shm)

\* Every DUMP_STATE that was sent is in the queue, in monitor_thread's hands
\* or answered: none is lost between two readings, and none answered twice.
DumpsIn(q) == Cardinality({i \in 1 .. Len(q) : q[i] = "DUMP_STATE"})
DumpsAreAccounted ==
    asked = dumped + DumpsIn(queue) + (IF monitor = "dump" THEN 1 ELSE 0)

\* The invariant of the queue as a doorbell: it keeps its types and its size,
\* rings for every reading, and loses no dump.
PipelineInv == TypeOK /\ NothingStranded /\ DumpsAreAccounted

\* A message carries no data, only the promise that shared memory is worth
\* reading: when monitor_thread hands a payload to the broker, both halves
\* are at least as new as the last reading sensor_thread had announced when
\* the message was received, however the threads interleave and however many
\* messages were waiting.
AnnouncedIsPublished == monitor = "publish" => AtLeast(payload, due)

\* A subscriber sees neither the temperature nor the pressure go back to an
\* older measurement: the pipeline, with its unsynchronised buffers, its
\* queue and its failures, implements the latest-value display.
Display == INSTANCE LatestValue WITH taken <- measured, shown <- published
ImplementsLatestValue == Display!Spec

\* The reading in shared memory may mix two measurements, because wq_func
\* rewrites the attribute while show_kobj prints it.  Whenever sensor_thread
\* is not in the middle of a store, the pressure is at most one measurement
\* older than the temperature: the slow path through the input process never
\* widens the tear.
StoredSkew ==
    sensor \in {"poll", "readPress", "storeTemp", "send", "sleep"}
        => shm.press >= shm.temp - 1

Healthy == input = "up" /\ system = "up" /\ session = "up"

\* As long as both processes and the session live, every measurement is
\* published or overtaken by a newer one that is: no reading is stranded in
\* the attribute, in shared memory or behind a full queue.
EveryMeasurementArrives ==
    \A k \in 1 .. MaxSample :
        (measured >= k /\ Healthy)
            ~> (AtLeast(published, [temp |-> k, press |-> k]) \/ ~Healthy)

\* While the system process lives, a user who typed "dump" gets the prompt
\* back and the dump is taken, even when readings keep the queue full.
EveryDumpIsTaken ==
    \A k \in 1 .. MaxDump :
        (asked >= k \/ (asked = k - 1 /\ command = "send"))
            ~> (dumped >= k \/ input # "up" \/ system # "up")
=============================================================================
