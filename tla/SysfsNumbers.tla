---------------------------- MODULE SysfsNumbers ----------------------------
(***************************************************************************)
(* The numbers that pass through sysfs as text: the readings of bmp280 on  *)
(* their way out, and the speeds of the motors both ways.  They meet in no *)
(* file and no variable, so it is enough to let a behaviour exercise one   *)
(* of the two while the other stays in its initial state.                  *)
(***************************************************************************)
EXTENDS Integers

CONSTANTS
    DigT1, DigT2, T3Word, Bytes, Pressures, Stores,   \* of BmpReading
    Numbers, Tails                                    \* of EngineSpeeds

VARIABLES
    temp, press, raw, text, copying,                \* of BmpReading
    written, read, shared, whole, tampered,
    speed, period, reader, reported, stored, fired  \* of EngineSpeeds

readingVars == <<temp, press, raw, text, copying, written, read, shared, whole,
                 tampered>>
speedVars == <<speed, period, reader, reported, stored, fired>>

Readings == INSTANCE BmpReading
Speeds == INSTANCE EngineSpeeds

\* The ints of 32 bits, upper half by upper half.
Ints == {n \in Int : -32768 <= n \div 65536 /\ n \div 65536 < 32768}

SpeedConstants ==
    /\ Numbers \subseteq Ints
    /\ Tails \subseteq (Nat \X Nat)

ASSUME ReadingAssumption == Readings!ReadingConstants
ASSUME SpeedsAssumption == SpeedConstants

NumbersInit == Readings!Init /\ Speeds!Init

NumbersNext ==
    \/ Speeds!Init /\ Readings!Next /\ UNCHANGED speedVars
    \/ Readings!Init /\ Speeds!Next /\ UNCHANGED readingVars

NumbersSpec == NumbersInit /\ [][NumbersNext]_<<readingVars, speedVars>>

-----------------------------------------------------------------------------
(* Properties *)

\* The variables keep their types.
NumbersTypeOK == Readings!TypeOK /\ Speeds!TypeOK

\* Once the sensor thread has read a text that was not half copied, subscribers
\* are not shown what its locals held before they were set, unless somebody
\* wrote to the attribute.
UnsetIsNotShown == Readings!UnsetIsNotShown

\* A motor's timer goes on without a pause only after a sysfs writer has set it.
PausesUnlessStored == Speeds!PausesUnlessStored

\* The system information names a legal speed of motor_2, unless such a writer
\* has set another one.
ReportIsLegal == Speeds!ReportIsLegal

\* The invariant of the numbers nobody has tampered with: after one whole text
\* no reading that was never measured, no motor without a pause, no illegal
\* speed in a report.
NumbersInv ==
    /\ NumbersTypeOK
    /\ UnsetIsNotShown
    /\ PausesUnlessStored
    /\ ReportIsLegal

\* What survives the way through text and sscanf: above zero a value that is
\* close, below zero at least that there was frost.
ReadingSurvives == Readings!FrostIsVisible /\ Readings!ReadingIsClose

\* A read that fails does not pass for a temperature: its error code comes out
\* of the formula beyond what the sensor works in.
FailedReadIsOutOfRange == Readings!FailedReadIsOutOfRange

\* A warmer sensor is not measured as a colder one.
WarmerIsNotColder == Readings!WarmerIsNotColder

\* What a log line of monitor_thread says of what it publishes.
LoggedIsMeasured == Readings!LoggedIsMeasured
-----------------------------------------------------------------------------
(* What the two properties ask of the sensor: conditions of theorems, which  *)
(* no action depends on.                                                     *)

\* The calibration leaves the products of the formula within 32 bits, and its
\* quadratic term is small against the linear one.
LinearTermDominates ==
    /\ 26500 <= DigT1 /\ DigT1 <= 39000
    /\ 24576 <= DigT2 /\ DigT2 <= 27500
    /\ T3Word <= 7500 \/ 58036 <= T3Word

\* The calibration is close to the one of the data sheet (27504, 26435,
\* -1000), and errors are numbers of Linux, which end with EHWPOISON.
NearDataSheet ==
    /\ 26500 <= DigT1 /\ DigT1 <= 28400
    /\ 25000 <= DigT2 /\ DigT2 <= 26600
    /\ T3Word <= 1000 \/ 64536 <= T3Word
ErrorsOfLinux == \A b \in Bytes : \A i \in 1 .. 3 : b[i] >= -133
=============================================================================
