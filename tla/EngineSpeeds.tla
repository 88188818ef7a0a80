---------------------------- MODULE EngineSpeeds ----------------------------
(***************************************************************************)
(* The speeds of the two motors on their ways through the system: from the *)
(* prompt (m1, m2) and from MQTT through the ioctl of the engine driver,   *)
(* from a writer of its sysfs files, into the period of its timers, and    *)
(* through the sysfs files into the system information.                    *)
(*                                                                         *)
(* A speed is the period of a timer in milliseconds, an int.               *)
(***************************************************************************)
EXTENDS Integers

CONSTANTS
    Numbers,   \* bound: the ints that users, messages and writers give
    Tails      \* bound: what may follow a number in memory not initialised,
               \* as pairs of a power of ten and a number below it

Base == 500      \* MOTOR_SPEED_BASE
Highest == 10000 \* MOTOR_SPEED_MAX
Motors == {"motor_1", "motor_2"}

VARIABLES
    speed,     \* motor_info.speed of each motor
    period,    \* the period each timer was armed with last
    reader,    \* where get_engine_info is
    reported,  \* engine_info of system_info
    stored,    \* the motors a sysfs writer has set (a history variable)
    fired      \* the motors whose timer has fired (a history variable)

vars == <<speed, period, reader, reported, stored, fired>>

\* engine_module_init starts the timers with 0: they fire at once.
Init ==
    /\ speed = [m \in Motors |-> Base]
    /\ period = [m \in Motors |-> 0]
    /\ reader = "idle"
    /\ reported = [m \in Motors |-> 0]
    /\ stored = {} /\ fired = {}

\* calibrate_ms: a negative int reaches the driver as a large unsigned long.
\* A faulty one forgets the lower bound.
CalibratedAbove(n) == IF n > Highest THEN Base ELSE n
Calibrated(n) == IF n \in 1 .. Highest THEN n ELSE Base

Becomes(m, s) == speed' = [speed EXCEPT ![m] = s]

\* set_motor_speed, from command_set_motor_1_speed, its twin, and
\* mosq_message_callback, where both numbers may be anything.
SetMotorSpeed(m, n) ==
    /\ Becomes(m, Calibrated(n))
    /\ UNCHANGED <<period, reader, reported, stored, fired>>

\* store_engine_class takes any int.
StoreEngineClass(m, n) ==
    /\ Becomes(m, n)
    /\ stored' = stored \cup {m}
    /\ UNCHANGED <<period, reader, reported, fired>>

\* hrtimer_forward_now raises a period below its resolution to one tick of
\* the clock, 0 milliseconds; a faulty kernel does not.
ForwardedAsIs(n) == n
Forwarded(n) == IF n < 1 THEN 0 ELSE n

RestartCallback(m) ==
    /\ period' = [period EXCEPT ![m] = Forwarded(speed[m])]
    /\ fired' = fired \cup {m}
    /\ UNCHANGED <<speed, reader, reported, stored>>

-----------------------------------------------------------------------------
(* Reading a speed back *)

\* The number that the first digits of n make: as many as leave it below the
\* limit, a power of ten.
Powers == {1, 10, 100, 1000, 10000, 100000, 1000000, 10000000, 100000000,
           1000000000}
FirstDigits(n, limit) ==
    n \div (CHOOSE p \in Powers :
                /\ n \div p < limit
                /\ \A q \in Powers : q < p => n \div q >= limit)

\* show_engine_class prints into sizeof(int) + 1 bytes, the last of which is
\* the terminator; the sign takes one.
Shown(n) == IF n < 0 THEN -FirstDigits(-n, 1000) ELSE FirstDigits(n, 10000)

\* A number followed by what memory holds.
Followed(n, tail) ==
    IF n < 0 THEN n * tail[1] - tail[2] ELSE n * tail[1] + tail[2]

\* get_engine_info reads motor_1 into a buffer that is not initialised ...
ReadMotor1 ==
    /\ reader = "idle"
    /\ \E tail \in Tails :
           reported' = [reported EXCEPT !.motor_1 =
                            Followed(Shown(speed.motor_1), tail)]
    /\ reader' = "motor_2"
    /\ UNCHANGED <<speed, period, stored, fired>>

\* ... and motor_2 into the same buffer after clearing it.  A faulty one does
\* not clear it.
CleanedNot(n) == Followed(n, <<10, 7>>)
Cleaned(n) == n

ReadMotor2 ==
    /\ reader = "motor_2"
    /\ reported' = [reported EXCEPT !.motor_2 = Cleaned(Shown(speed.motor_2))]
    /\ reader' = "idle"
    /\ UNCHANGED <<speed, period, stored, fired>>

\* A file cannot be opened or read: the rest is left as it is.
ReadFails ==
    /\ reader' = "idle"
    /\ UNCHANGED <<speed, period, reported, stored, fired>>

Next ==
    \/ \E m \in Motors :
           \/ \E n \in Numbers : SetMotorSpeed(m, n) \/ StoreEngineClass(m, n)
           \/ RestartCallback(m)
    \/ ReadMotor1 \/ ReadMotor2 \/ ReadFails

Spec == Init /\ [][Next]_vars

-----------------------------------------------------------------------------
(* Properties *)

\* The variables keep their types.
TypeOK ==
    /\ speed \in [Motors -> Int]
    /\ period \in [Motors -> Nat]
    /\ reader \in {"idle", "motor_2"}
    /\ reported \in [Motors -> Int]
    /\ stored \subseteq Motors /\ fired \subseteq Motors

\* After its first firing, a timer fires without a pause only after a sysfs
\* writer has set its motor: no command, no message and no payload that does
\* not parse can do that.
PausesUnlessStored ==
    \A m \in fired \ stored : period[m] \in 1 .. Highest

\* Without such a writer the system information names a speed the timers
\* could have for motor_2, of up to four digits: nothing that was in memory
\* before, and nothing of motor_1, gets into it.
ReportIsLegal == "motor_2" \notin stored => reported.motor_2 \in 0 .. 9999
=============================================================================
