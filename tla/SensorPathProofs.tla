------------------------- MODULE SensorPathProofs -------------------------
(***************************************************************************)
(* Proofs about the telemetry pipeline, for every queue capacity and every *)
(* number of measurements and dumps.  The inductive invariant follows a    *)
(* measurement downstream: each buffer holds measurements no newer than    *)
(* those of the buffer before it.                                          *)
(***************************************************************************)
EXTENDS SensorPath, FiniteSetTheorems, FunctionTheorems, TLAPS

\* The attribute trails the chip by the part wq_func has not copied yet.
DriverInv ==
    /\ work = "idle" => /\ notify.temp = measured
                        /\ notify.press = measured
    /\ work = "copyTemp" => /\ notify.temp = measured - 1
                            /\ notify.press = measured - 1
    /\ work = "copyPress" => /\ notify.temp = measured
                             /\ notify.press = measured - 1

\* sensor_thread's locals and the shared memory trail the attribute.
SensorInv ==
    /\ AtLeast(notify, reading)
    /\ reading.press >= reading.temp - 1
    /\ sensor = "readPress" => /\ text # 0
                               /\ text <= notify.temp
                               /\ reading.temp <= text
    /\ AtLeast(reading, shm)
    /\ sensor \notin {"storeTemp", "storePress"} => shm = reading
    /\ sensor = "storeTemp" => shm.press >= shm.temp - 1
    /\ sensor = "storePress" => shm.temp = reading.temp

\* monitor_thread's payload trails shared memory; what was announced before
\* the message was received is already there.
MonitorInv ==
    /\ AtLeast(shm, announced)
    /\ AtLeast(announced, due)
    /\ AtLeast(shm, payload)
    /\ AtLeast(payload, published)
    /\ monitor \in {"copyPress", "publish"} => payload.temp >= due.temp
    /\ monitor = "publish" => payload.press >= due.press

IInv == DriverInv /\ SensorInv /\ MonitorInv

-----------------------------------------------------------------------------
\* A reading stays a pair of measurements when one half is replaced.
LEMMA HalfReplaced ==
    ASSUME NEW r \in Readings, NEW n \in Samples
    PROVE  /\ r.temp \in Samples /\ r.press \in Samples
           /\ [r EXCEPT !.temp = n] \in Readings
           /\ [r EXCEPT !.press = n] \in Readings
           /\ [r EXCEPT !.temp = n].temp = n
           /\ [r EXCEPT !.temp = n].press = r.press
           /\ [r EXCEPT !.press = n].press = n
           /\ [r EXCEPT !.press = n].temp = r.temp
BY DEF Readings

\* The pipeline never leaves its types; in particular /monitor_queue never
\* holds more than MSG_COUNT messages, whoever sends.
LEMMA TypeCorrect == Spec => []TypeOK
<1> USE SensorPathAssumption
<1>1. Init => TypeOK
  BY DEF Init, NoReading, SensorPathAssumption, TypeOK, Samples, Readings, MsgTypes
<1>2. TypeOK /\ [Next]_vars => TypeOK'
  <2> SUFFICES ASSUME TypeOK, [Next]_vars
               PROVE  TypeOK'
    OBVIOUS
  <2> USE DEF TypeOK, driverVars, sensorVars, monitorVars, lifeVars,
              historyVars, SensorUnchanged, MonitorUnchanged
  <2>1. CASE TimerFires
    BY <2>1 DEF TimerFires
  <2>2. CASE Measure
    <3>1. measured' \in Samples
      BY <2>2 DEF Measure, Samples, SensorPathAssumption
    <3> QED
      BY <2>2, <3>1 DEF Measure
  <2>3. CASE NotifyTemp
    <3>1. notify' \in Readings
      BY <2>3, HalfReplaced DEF NotifyTemp
    <3> QED
      BY <2>3, <3>1 DEF NotifyTemp
  <2>4. CASE NotifyPress
    <3>1. notify' \in Readings
      BY <2>4, HalfReplaced DEF NotifyPress, NotifyComplete
    <3> QED
      BY <2>4, <3>1 DEF NotifyPress
  <2>5. CASE SensorReadTemp
    <3>1. text' \in Samples
      BY <2>5, HalfReplaced DEF SensorReadTemp
    <3> QED
      BY <2>5, <3>1 DEF SensorReadTemp
  <2>6. CASE SensorReadPress
    <3>1. reading' \in Readings
      BY <2>6 DEF SensorReadPress, Readings
    <3> QED
      BY <2>6, <3>1 DEF SensorReadPress
  <2>7. CASE SensorStoreTemp
    <3>1. shm' \in Readings
      BY <2>7, HalfReplaced DEF SensorStoreTemp, ShmWithTemp
    <3> QED
      BY <2>7, <3>1 DEF SensorStoreTemp, AfterTemp
  <2>8. CASE SensorStorePress
    <3>1. shm' \in Readings
      BY <2>8, HalfReplaced DEF SensorStorePress
    <3> QED
      BY <2>8, <3>1 DEF SensorStorePress
  <2>9. CASE SensorSend
    <3>1. queue' \in Seq(MsgTypes) /\ Len(queue') <= QueueCap
      BY <2>9 DEF SensorSend, Enqueue, HasRoom, MsgTypes, SensorPathAssumption
    <3> QED
      BY <2>9, <3>1 DEF SensorSend
  <2>10. CASE SensorWakes
    BY <2>10 DEF SensorWakes
  <2>11. CASE CommandDump
    BY <2>11 DEF CommandDump
  <2>12. CASE CommandSend
    <3>1. queue' \in Seq(MsgTypes) /\ Len(queue') <= QueueCap
      BY <2>12 DEF CommandSend, Enqueue, HasRoom, MsgTypes, SensorPathAssumption
    <3> QED
      BY <2>12, <3>1 DEF CommandSend
  <2>13. CASE InputExits \/ SystemConnects \/ SystemExits \/ BrokerLost
    BY <2>13 DEF InputExits, SystemConnects, SystemExits, BrokerLost
  <2>14. CASE MonitorReceive
    <3>1. queue' \in Seq(MsgTypes) /\ Len(queue') <= QueueCap
      BY <2>14 DEF MonitorReceive, SensorPathAssumption
    <3> QED
      BY <2>14, <3>1 DEF MonitorReceive, Dispatch
  <2>15. CASE MonitorCopyTemp
    <3>1. payload' \in Readings
      BY <2>15, HalfReplaced DEF MonitorCopyTemp
    <3> QED
      BY <2>15, <3>1 DEF MonitorCopyTemp
  <2>16. CASE MonitorCopyPress
    <3>1. payload' \in Readings
      BY <2>16, HalfReplaced DEF MonitorCopyPress
    <3> QED
      BY <2>16, <3>1 DEF MonitorCopyPress
  <2>17. CASE MonitorPublish
    BY <2>17 DEF MonitorPublish
  <2>18. CASE MonitorDump
    BY <2>18 DEF MonitorDump
  <2>19. CASE UNCHANGED vars
    BY <2>19 DEF vars
  <2> QED
    BY <2>1, <2>2, <2>3, <2>4, <2>5, <2>6, <2>7, <2>8, <2>9, <2>10, <2>11,
       <2>12, <2>13, <2>14, <2>15, <2>16, <2>17, <2>18, <2>19
    DEF Next, Driver, Sensor, Monitor
<1> QED
  BY <1>1, <1>2, PTL DEF Spec

-----------------------------------------------------------------------------
\* What a step needs to know of the types: no number is negative.
LEMMA Numbers ==
    ASSUME TypeOK
    PROVE  /\ measured \in Nat /\ text \in Nat
           /\ notify.temp \in Nat /\ notify.press \in Nat
           /\ reading.temp \in Nat /\ reading.press \in Nat
           /\ shm.temp \in Nat /\ shm.press \in Nat
           /\ payload.temp \in Nat /\ payload.press \in Nat
           /\ published.temp \in Nat /\ published.press \in Nat
           /\ announced.temp \in Nat /\ announced.press \in Nat
           /\ due.temp \in Nat /\ due.press \in Nat
BY SensorPathAssumption DEF TypeOK, Readings, Samples, SensorPathAssumption

\* Before the first measurement every buffer is empty.
LEMMA Initially == Init => IInv
BY DEF Init, IInv, DriverInv, SensorInv, MonitorInv, AtLeast, NoReading

\* Every step of every thread keeps the order of the buffers.
LEMMA Inductive == TypeOK /\ IInv /\ [Next]_vars => IInv'
<1> SUFFICES ASSUME TypeOK, IInv, [Next]_vars
             PROVE  IInv'
  OBVIOUS
<1> USE DEF IInv, DriverInv, SensorInv, MonitorInv, AtLeast,
        driverVars, sensorVars, monitorVars, lifeVars, historyVars,
        SensorUnchanged, MonitorUnchanged
<1>n. /\ measured \in Nat /\ text \in Nat
      /\ notify.temp \in Nat /\ notify.press \in Nat
      /\ reading.temp \in Nat /\ reading.press \in Nat
      /\ shm.temp \in Nat /\ shm.press \in Nat
      /\ payload.temp \in Nat /\ payload.press \in Nat
      /\ published.temp \in Nat /\ published.press \in Nat
      /\ announced.temp \in Nat /\ announced.press \in Nat
      /\ due.temp \in Nat /\ due.press \in Nat
  BY Numbers
<1>1. CASE TimerFires
  BY <1>1, <1>n DEF TimerFires
<1>2. CASE Measure
  BY <1>2, <1>n DEF Measure
<1>3. CASE NotifyTemp
  <2>1. notify'.temp = measured /\ notify'.press = notify.press
    BY <1>3, HalfReplaced DEF NotifyTemp, TypeOK
  <2> QED
    BY <1>3, <1>n, <2>1 DEF NotifyTemp
<1>4. CASE NotifyPress
  <2>1. notify'.temp = notify.temp /\ notify'.press = measured
    BY <1>4, HalfReplaced DEF NotifyPress, NotifyComplete, TypeOK
  <2> QED
    BY <1>4, <1>n, <2>1 DEF NotifyPress
<1>5. CASE SensorReadTemp
  BY <1>5, <1>n DEF SensorReadTemp, Readable
<1>6. CASE SensorReadPress
  <2>1. /\ reading'.temp = text
        /\ reading'.press = IF notify.press # 0 THEN notify.press
                                                ELSE reading.press
    BY <1>6 DEF SensorReadPress
  <2>2. notify.press >= notify.temp - 1
    <3>1. work \in {"idle", "copyTemp", "copyPress"}
      BY DEF TypeOK
    <3> QED
      BY <1>n, <3>1
  <2>3. CASE notify.press # 0
    BY <1>6, <1>n, <2>1, <2>2, <2>3 DEF SensorReadPress
  <2>4. CASE notify.press = 0
    BY <1>6, <1>n, <2>1, <2>2, <2>4 DEF SensorReadPress
  <2> QED
    BY <2>3, <2>4
<1>7. CASE SensorStoreTemp
  <2>1. shm'.temp = reading.temp /\ shm'.press = shm.press
    BY <1>7, HalfReplaced DEF SensorStoreTemp, ShmWithTemp, TypeOK
  <2> QED
    BY <1>7, <1>n, <2>1 DEF SensorStoreTemp, AfterTemp
<1>8. CASE SensorStorePress
  <2>1. shm'.temp = shm.temp /\ shm'.press = reading.press
    BY <1>8, HalfReplaced DEF SensorStorePress, TypeOK
  <2>2. shm' = reading
    BY <1>8, <2>1 DEF SensorStorePress, TypeOK, Readings
  <2> QED
    BY <1>8, <1>n, <2>1, <2>2 DEF SensorStorePress
<1>9. CASE SensorSend
  BY <1>9, <1>n DEF SensorSend
<1>10. CASE SensorWakes
  BY <1>10, <1>n DEF SensorWakes
<1>11. CASE CommandDump \/ CommandSend
  BY <1>11, <1>n DEF CommandDump, CommandSend
<1>12. CASE InputExits \/ SystemConnects \/ SystemExits \/ BrokerLost
  BY <1>12, <1>n DEF InputExits, SystemConnects, SystemExits, BrokerLost
<1>13. CASE MonitorReceive
  BY <1>13, <1>n DEF MonitorReceive, Dispatch
<1>14. CASE MonitorCopyTemp
  <2>1. payload'.temp = shm.temp /\ payload'.press = payload.press
    BY <1>14, HalfReplaced DEF MonitorCopyTemp, TypeOK
  <2> QED
    BY <1>14, <1>n, <2>1 DEF MonitorCopyTemp
<1>15. CASE MonitorCopyPress
  <2>1. payload'.temp = payload.temp /\ payload'.press = shm.press
    BY <1>15, HalfReplaced DEF MonitorCopyPress, TypeOK
  <2> QED
    BY <1>15, <1>n, <2>1 DEF MonitorCopyPress
<1>16. CASE MonitorPublish
  BY <1>16, <1>n DEF MonitorPublish
<1>17. CASE MonitorDump
  BY <1>17, <1>n DEF MonitorDump
<1>18. CASE UNCHANGED vars
  BY <1>18, <1>n DEF vars
<1> QED
  BY <1>1, <1>2, <1>3, <1>4, <1>5, <1>6, <1>7, <1>8, <1>9, <1>10, <1>11,
     <1>12, <1>13, <1>14, <1>15, <1>16, <1>17, <1>18
  DEF Next, Driver, Sensor, Monitor

\* So the order holds at all times.
LEMMA InvariantHolds == Spec => [](TypeOK /\ IInv)
BY TypeCorrect, Initially, Inductive, PTL DEF Spec

\* Whatever interleaving and whatever backlog, the payload handed to the
\* broker is at least as new as the reading the message announced.
THEOREM NewsIsPublished == Spec => []AnnouncedIsPublished
<1>1. TypeOK /\ IInv => AnnouncedIsPublished
  BY DEF IInv, MonitorInv, AnnouncedIsPublished, AtLeast
<1> QED
  BY <1>1, InvariantHolds, PTL

\* A reading torn between two measurements never gets older than one
\* measurement apart in shared memory, outside of the store itself.
THEOREM TearIsBounded == Spec => []StoredSkew
<1>1. TypeOK /\ IInv => StoredSkew
  BY DEF IInv, SensorInv, StoredSkew
<1> QED
  BY <1>1, InvariantHolds, PTL

-----------------------------------------------------------------------------
(* The queue as a doorbell *)

\* A DUMP_STATE that is appended is one more, any other message is none.
LEMMA AppendedDump ==
    ASSUME NEW q \in Seq(MsgTypes), NEW type \in MsgTypes
    PROVE  /\ DumpsIn(q) \in Nat
           /\ DumpsIn(Append(q, type))
                  = DumpsIn(q) + (IF type = "DUMP_STATE" THEN 1 ELSE 0)
<1> DEFINE D(r) == {i \in 1 .. Len(r) : r[i] = "DUMP_STATE"}
           n == Len(q) + 1
           r == Append(q, type)
<1>1. Len(q) \in Nat /\ Len(r) = n /\ r[n] = type
      /\ \A i \in 1 .. Len(q) : r[i] = q[i]
  OBVIOUS
<1>2. IsFiniteSet(D(q)) /\ Cardinality(D(q)) \in Nat
  <2>1. IsFiniteSet(1 .. Len(q))
    BY <1>1, FS_Interval
  <2>2. D(q) \in SUBSET (1 .. Len(q))
    OBVIOUS
  <2> QED
    BY <2>1, <2>2, FS_Subset, FS_CardinalityType
<1>3. D(r) = IF type = "DUMP_STATE" THEN D(q) \cup {n} ELSE D(q)
  BY <1>1
<1>4. n \notin D(q)
  BY <1>1
<1>5. Cardinality(D(q) \cup {n}) = Cardinality(D(q)) + 1
  BY <1>2, <1>4, FS_AddElement
<1>6. DumpsIn(q) = Cardinality(D(q)) /\ DumpsIn(r) = Cardinality(D(r))
  BY DEF DumpsIn
<1> HIDE DEF D
<1> QED
  BY <1>2, <1>3, <1>5, <1>6

\* One that is received is one less.
LEMMA ReceivedDump ==
    ASSUME NEW q \in Seq(MsgTypes), q # << >>
    PROVE  DumpsIn(q) = DumpsIn(Tail(q))
                            + (IF Head(q) = "DUMP_STATE" THEN 1 ELSE 0)
<1> DEFINE D(r) == {i \in 1 .. Len(r) : r[i] = "DUMP_STATE"}
           t == Tail(q)
           U == D(q) \ {1}
           f == [i \in D(t) |-> i + 1]
<1>1. /\ Len(q) \in Nat /\ Len(q) >= 1 /\ Len(t) = Len(q) - 1
      /\ Head(q) = q[1]
      /\ \A i \in 1 .. Len(t) : t[i] = q[i + 1]
  OBVIOUS
<1>2. f \in Bijection(D(t), U)
  <2>1. f \in [D(t) -> U]
    BY <1>1
  <2>2. \A i, j \in D(t) : f[i] = f[j] => i = j
    BY <1>1
  <2>3. \A k \in U : \E i \in D(t) : f[i] = k
    <3> SUFFICES ASSUME NEW k \in U
                 PROVE  \E i \in D(t) : f[i] = k
      OBVIOUS
    <3>1. k - 1 \in D(t) /\ f[k - 1] = k
      BY <1>1
    <3> QED
      BY <3>1
  <2> QED
    BY <2>1, <2>2, <2>3, Fun_IsBij
<1>3. IsFiniteSet(D(q)) /\ IsFiniteSet(D(t))
  <2>1. IsFiniteSet(1 .. Len(q)) /\ IsFiniteSet(1 .. Len(t))
    BY <1>1, FS_Interval
  <2>2. D(q) \in SUBSET (1 .. Len(q)) /\ D(t) \in SUBSET (1 .. Len(t))
    OBVIOUS
  <2> QED
    BY <2>1, <2>2, FS_Subset
<1>4. Cardinality(U) = Cardinality(D(t))
  BY <1>2, <1>3, FS_Bijection DEF ExistsBijection
<1>5. 1 \in D(q) <=> Head(q) = "DUMP_STATE"
  BY <1>1
<1>6. Cardinality(U) = IF 1 \in D(q) THEN Cardinality(D(q)) - 1
                                     ELSE Cardinality(D(q))
  BY <1>3, FS_RemoveElement
<1>7. Cardinality(D(q)) \in Nat
  BY <1>3, FS_CardinalityType
<1>8. DumpsIn(q) = Cardinality(D(q)) /\ DumpsIn(t) = Cardinality(D(t))
  BY DEF DumpsIn
<1> HIDE DEF D
<1> QED
  BY <1>4, <1>5, <1>6, <1>7, <1>8

\* Every dump asked for stays accounted for.
LEMMA DumpsKept ==
    TypeOK /\ DumpsAreAccounted /\ [Next]_vars => DumpsAreAccounted'
<1> SUFFICES ASSUME TypeOK, DumpsAreAccounted, [Next]_vars
             PROVE  DumpsAreAccounted'
  OBVIOUS
<1> USE DEF driverVars, sensorVars, monitorVars, lifeVars, historyVars,
            SensorUnchanged, MonitorUnchanged
<1>t. /\ asked \in Nat /\ dumped \in Nat /\ queue \in Seq(MsgTypes)
      /\ DumpsIn(queue) \in Nat
  BY AppendedDump DEF TypeOK, MsgTypes
<1>0. ASSUME UNCHANGED <<queue, asked, dumped>>,
             monitor # "dump", monitor' # "dump"
      PROVE  DumpsAreAccounted'
  BY <1>0 DEF DumpsAreAccounted
<1>00. ASSUME UNCHANGED <<queue, asked, dumped, monitor>>
       PROVE  DumpsAreAccounted'
  BY <1>00 DEF DumpsAreAccounted
<1>1. CASE Driver
  BY <1>00, <1>1 DEF Driver, TimerFires, Measure, NotifyTemp, NotifyPress
<1>2. CASE \/ SensorReadTemp \/ SensorReadPress \/ SensorStoreTemp
           \/ SensorStorePress \/ SensorWakes
  BY <1>00, <1>2 DEF SensorReadTemp, SensorReadPress, SensorStoreTemp,
                     SensorStorePress, SensorWakes
<1>3. CASE CommandDump \/ InputExits \/ SystemConnects \/ SystemExits
           \/ BrokerLost
  BY <1>00, <1>3 DEF CommandDump, InputExits, SystemConnects, SystemExits,
                     BrokerLost
<1>4. CASE SensorSend
  <2>1. DumpsIn(queue') = DumpsIn(queue)
    BY <1>4, <1>t, AppendedDump DEF SensorSend, Enqueue, MsgTypes
  <2> QED
    BY <1>4, <2>1 DEF SensorSend, DumpsAreAccounted
<1>5. CASE CommandSend
  <2>1. DumpsIn(queue') = DumpsIn(queue) + 1
    BY <1>5, <1>t, AppendedDump DEF CommandSend, Enqueue, MsgTypes
  <2> QED
    BY <1>5, <1>t, <2>1 DEF CommandSend, DumpsAreAccounted
<1>6. CASE MonitorReceive
  <2>1. /\ DumpsIn(queue) = DumpsIn(queue')
               + (IF Head(queue) = "DUMP_STATE" THEN 1 ELSE 0)
        /\ Head(queue) \in MsgTypes
        /\ DumpsIn(queue') \in Nat
    <3>1. queue # << >> /\ queue' = Tail(queue)
      BY <1>6 DEF MonitorReceive
    <3>2. queue' \in Seq(MsgTypes) /\ Head(queue) \in MsgTypes
      BY <1>t, <3>1
    <3> QED
      BY <1>t, <3>1, <3>2, ReceivedDump, AppendedDump
  <2>2. monitor' = "dump" <=> Head(queue) = "DUMP_STATE"
    BY <1>6, <2>1 DEF MonitorReceive, Dispatch, MsgTypes
  <2> QED
    BY <1>6, <1>t, <2>1, <2>2 DEF MonitorReceive, DumpsAreAccounted
<1>7. CASE MonitorCopyTemp \/ MonitorCopyPress \/ MonitorPublish
  BY <1>0, <1>7 DEF MonitorCopyTemp, MonitorCopyPress, MonitorPublish
<1>8. CASE MonitorDump
  BY <1>8, <1>t DEF MonitorDump, DumpsAreAccounted
<1>9. CASE UNCHANGED vars
  BY <1>00, <1>9 DEF vars
<1> QED
  BY <1>1, <1>2, <1>3, <1>4, <1>5, <1>6, <1>7, <1>8, <1>9
  DEF Next, Sensor, Monitor

\* Somebody keeps coming for what lies in shared memory: a store is followed
\* by a message, a message by a copy, a copy by a publication.
LEMMA RingsKept ==
    TypeOK /\ IInv /\ NothingStranded /\ [Next]_vars => NothingStranded'
<1> SUFFICES ASSUME TypeOK, IInv, NothingStranded, [Next]_vars, Unharmed'
             PROVE  NothingStranded'
  BY DEF NothingStranded
<1> USE DEF driverVars, sensorVars, monitorVars, lifeVars, historyVars,
            SensorUnchanged, MonitorUnchanged
<1> DEFINE Rings(q) == \E i \in 1 .. Len(q) : q[i] = "SENSOR_DATA"
<1>t. /\ queue \in Seq(MsgTypes) /\ Len(queue) \in Nat
      /\ shm.temp \in Nat /\ shm.press \in Nat
      /\ payload.temp \in Nat /\ payload.press \in Nat
      /\ published.temp \in Nat /\ published.press \in Nat
  BY Numbers DEF TypeOK
<1>0. ASSUME UNCHANGED <<monitor, payload, published, shm>>,
             Unharmed' => Unharmed,
             sensor \in {"storePress", "send"}
                 => sensor' \in {"storePress", "send"},
             Rings(queue) => Rings(queue')
      PROVE  NothingStranded'
  BY <1>0 DEF NothingStranded, AtLeast
<1>00. ASSUME UNCHANGED <<input, system, session>>
       PROVE  Unharmed
  BY <1>00 DEF Unharmed
<1>1. CASE Driver
  BY <1>0, <1>00, <1>1 DEF Driver, TimerFires, Measure, NotifyTemp, NotifyPress
<1>2. CASE SensorReadTemp \/ SensorReadPress \/ SensorWakes
  BY <1>0, <1>00, <1>2 DEF SensorReadTemp, SensorReadPress, SensorWakes
<1>3. CASE SensorStoreTemp \/ SensorStorePress
  BY <1>3
  DEF SensorStoreTemp, AfterTemp, SensorStorePress, NothingStranded
<1>4. CASE SensorSend
  <2>1. /\ Len(queue') = Len(queue) + 1
        /\ queue'[Len(queue) + 1] = "SENSOR_DATA"
    BY <1>4, <1>t DEF SensorSend, Enqueue
  <2>2. Rings(queue')
    BY <2>1, <1>t
  <2> QED
    BY <2>2 DEF NothingStranded
<1>5. CASE CommandSend
  <2>1. /\ Len(queue') = Len(queue) + 1
        /\ \A i \in 1 .. Len(queue) : queue'[i] = queue[i]
    BY <1>5, <1>t DEF CommandSend, Enqueue, MsgTypes
  <2>2. Rings(queue) => Rings(queue')
    BY <2>1, <1>t
  <2> QED
    BY <1>0, <1>00, <1>5, <2>2 DEF CommandSend
<1>6. CASE CommandDump
  BY <1>0, <1>00, <1>6 DEF CommandDump
<1>7. CASE InputExits \/ SystemExits
  BY <1>7 DEF InputExits, SystemExits, Unharmed
<1>8. CASE SystemConnects \/ BrokerLost
  <2>1. Unharmed
    BY <1>8 DEF SystemConnects, BrokerLost, Unharmed
  <2> QED
    BY <1>0, <1>8, <2>1 DEF SystemConnects, BrokerLost
<1>9. CASE MonitorReceive
  <2>1. /\ queue # << >> /\ queue' = Tail(queue)
        /\ monitor = "receive" /\ monitor' = Dispatch(Head(queue))
        /\ UNCHANGED <<sensor, shm, published>> /\ Unharmed
    BY <1>9, <1>00 DEF MonitorReceive
  <2>2. CASE Head(queue) = "SENSOR_DATA"
    BY <2>1, <2>2 DEF Dispatch, NothingStranded
  <2>3. CASE Head(queue) # "SENSOR_DATA"
    <3>1. Rings(queue) => Rings(queue')
      <4> SUFFICES ASSUME NEW i \in 1 .. Len(queue),
                          queue[i] = "SENSOR_DATA"
                   PROVE  Rings(queue')
        OBVIOUS
      <4>1. /\ Len(queue') = Len(queue) - 1 /\ Head(queue) = queue[1]
            /\ \A k \in 1 .. Len(queue') : queue'[k] = queue[k + 1]
        BY <1>t, <2>1
      <4>2. i - 1 \in 1 .. Len(queue') /\ queue'[i - 1] = "SENSOR_DATA"
        BY <1>t, <2>3, <4>1
      <4> QED
        BY <4>2
    <3> QED
      BY <2>1, <3>1 DEF NothingStranded, AtLeast
  <2> QED
    BY <2>2, <2>3
<1>10. CASE MonitorCopyTemp
  <2>1. payload'.temp = shm.temp /\ monitor' = "copyPress" /\ shm' = shm
    BY <1>10, HalfReplaced DEF MonitorCopyTemp, TypeOK
  <2> QED
    BY <1>t, <2>1 DEF NothingStranded
<1>11. CASE MonitorCopyPress
  <2>1. /\ payload'.temp = payload.temp /\ payload'.press = shm.press
        /\ monitor' = "publish" /\ monitor = "copyPress"
        /\ UNCHANGED <<sensor, shm, published, queue>> /\ Unharmed
    BY <1>11, <1>00, HalfReplaced DEF MonitorCopyPress, TypeOK
  <2> QED
    BY <1>t, <2>1 DEF NothingStranded, AtLeast
<1>12. CASE MonitorPublish
  <2>1. /\ monitor = "publish" /\ published' = payload
        /\ UNCHANGED <<sensor, shm, queue>> /\ Unharmed
    BY <1>12, <1>00 DEF MonitorPublish, Unharmed
  <2>2. payload.temp >= published.temp /\ payload.press >= published.press
    BY DEF IInv, MonitorInv, AtLeast
  <2> QED
    BY <1>t, <2>1, <2>2 DEF NothingStranded, AtLeast
<1>13. CASE MonitorDump
  BY <1>00, <1>13 DEF MonitorDump, NothingStranded, AtLeast
<1>14. CASE UNCHANGED vars
  BY <1>0, <1>00, <1>14 DEF vars
<1> QED
  BY <1>1, <1>2, <1>3, <1>4, <1>5, <1>6, <1>7, <1>8, <1>9, <1>10, <1>11,
     <1>12, <1>13, <1>14
  DEF Next, Sensor, Monitor

\* The queue is a doorbell that is never lost: it never holds more than
\* MSG_COUNT messages, whoever sends; as long as nothing is lost no reading
\* is stranded in shared memory without somebody who will come for it; and
\* every dump that was asked for is waiting, being taken or taken.
THEOREM DoorbellIsHeard == Spec => []PipelineInv
<1>1. Init => NothingStranded /\ DumpsAreAccounted
  <2> SUFFICES ASSUME Init
               PROVE  NothingStranded /\ DumpsAreAccounted
    OBVIOUS
  <2>1. {i \in 1 .. Len(queue) : queue[i] = "DUMP_STATE"} = {}
    BY DEF Init
  <2>2. DumpsIn(queue) = 0
    BY <2>1, FS_EmptySet DEF DumpsIn
  <2> QED
    BY <2>2 DEF Init, NoReading, NothingStranded, AtLeast, DumpsAreAccounted
<1> QED
  BY <1>1, InvariantHolds, RingsKept, DumpsKept, PTL DEF Spec, PipelineInv

-----------------------------------------------------------------------------
\* A step of the pipeline is a measurement, a publication, or invisible to
\* the subscriber.
LEMMA StepRefines ==
    TypeOK /\ IInv /\ [Next]_vars => [Display!Next]_Display!vars
<1> SUFFICES ASSUME TypeOK, IInv, [Next]_vars
             PROVE  [Display!Next]_Display!vars
  OBVIOUS
<1> USE DEF Display!vars, driverVars, sensorVars, monitorVars, lifeVars,
            historyVars, SensorUnchanged, MonitorUnchanged
<1>1. CASE Measure
  BY <1>1 DEF Measure, Display!Next, Display!Measure
<1>2. CASE MonitorPublish
  <2>1. CASE session # "up"
    BY <1>2, <2>1 DEF MonitorPublish
  <2>2. CASE session = "up"
    <3>1. /\ payload.temp \in published.temp .. measured
          /\ payload.press \in published.press .. measured
      <4>1. notify.temp <= measured /\ notify.press <= measured
        <5>1. work \in {"idle", "copyTemp", "copyPress"}
          BY DEF TypeOK
        <5> QED
          BY <5>1, Numbers DEF IInv, DriverInv
      <4> QED
        BY <4>1, Numbers DEF IInv, SensorInv, MonitorInv, AtLeast
    <3>2. published' = [temp |-> payload.temp, press |-> payload.press]
      BY <1>2, <2>2 DEF MonitorPublish, TypeOK, Readings
    <3>3. Display!Show
      BY <1>2, <3>1, <3>2 DEF MonitorPublish, Display!Show
    <3> QED
      BY <3>3 DEF Display!Next
  <2> QED
    BY <2>1, <2>2
<1>3. CASE \/ TimerFires \/ NotifyTemp \/ NotifyPress
  BY <1>3 DEF TimerFires, NotifyTemp, NotifyPress
<1>4. CASE Sensor
  BY <1>4 DEF Sensor, SensorReadTemp, SensorReadPress, SensorStoreTemp,
              SensorStorePress, SensorSend, SensorWakes
<1>5. CASE \/ CommandDump \/ CommandSend \/ InputExits
           \/ SystemConnects \/ SystemExits \/ BrokerLost
  BY <1>5 DEF CommandDump, CommandSend, InputExits, SystemConnects,
              SystemExits, BrokerLost
<1>6. CASE \/ MonitorReceive \/ MonitorCopyTemp \/ MonitorCopyPress
           \/ MonitorDump
  BY <1>6 DEF MonitorReceive, MonitorCopyTemp, MonitorCopyPress, MonitorDump
<1>7. CASE UNCHANGED vars
  BY <1>7 DEF vars
<1> QED
  BY <1>1, <1>2, <1>3, <1>4, <1>5, <1>6, <1>7 DEF Next, Driver, Monitor

\* The pipeline implements the latest-value display: what a subscriber sees
\* of each quantity never goes back and is never ahead of the chip.
THEOREM PipelineRefines == Spec => ImplementsLatestValue
<1>1. Init => Display!Init
  BY DEF Init, Display!Init, NoReading
<1> QED
  BY <1>1, StepRefines, InvariantHolds, PTL
  DEF Spec, ImplementsLatestValue, Display!Spec
=============================================================================
