----------------------------- MODULE BmpReading -----------------------------
(***************************************************************************)
(* One reading of the bmp280, as a number: from the three bytes the sensor *)
(* answers with, through the compensation formula, the text of the sysfs   *)
(* attribute, and sscanf in the sensor thread, into shared memory.         *)
(*                                                                         *)
(* Temperatures are in hundredths of a degree and pressures in hundredths  *)
(* of a hectopascal.  The driver copies its text word by word into the     *)
(* attribute, where the thread may meet it half done; the time it takes    *)
(* the thread to read, store and send is the subject of SensorPath.        *)
(***************************************************************************)
EXTENDS Integers, Sequences

CONSTANTS
    DigT1, DigT2,   \* two calibration words of the sensor, and the third
    T3Word,         \* one, as it is read from the bus
    Bytes,          \* bound: the triples of bytes read; below zero, the
                    \* error of a read that failed
    Pressures,      \* bound: what read_pressure returns
    Stores          \* bound: the texts a user writes to the attribute

\* The words of a text, as whole numbers and hundredths.
Words == [whole : Int, part : Int]

\* The words are unsigned short, and a byte or an error is within one byte.
Shorts == 0 .. 65535
BytesOrErrors == -255 .. 255
ReadingConstants ==
    /\ DigT1 \in Shorts /\ DigT2 \in Shorts /\ T3Word \in Shorts
    /\ \A b \in Bytes : b \in Seq(BytesOrErrors) /\ Len(b) = 3
    /\ Pressures \subseteq Nat
    /\ \A words \in Stores : words \in Seq(Words)

VARIABLES
    temp, press,   \* bmp_info of the driver
    raw,           \* what the sensor delivered for it, or -1 when a read failed
                   \* (a history variable)
    text,          \* notify.value, as a sequence of words
    copying,       \* whether the strncpy of wq_func is half done
    written,       \* whether a user wrote it (a history variable)
    read,          \* whether the sensor thread has read it, and no half of it
                   \* (a history variable)
    shared,        \* the structure in shared memory, and the locals of
                   \* sensor_thread it is set from
    whole,         \* whether the thread has ever read a text that was not
                   \* half done (a history variable)
    tampered       \* whether a user has ever written (a history variable)

vars == <<temp, press, raw, text, copying, written, read, shared, whole,
          tampered>>

\* The locals of sensor_thread are not initialised.  NoRaw is more than the
\* converter can deliver.
Unset == -100000000
NoRaw == 1048576

Init ==
    /\ temp = 0 /\ press = 0 /\ raw = NoRaw
    /\ text = <<>> /\ copying = FALSE /\ written = FALSE /\ read = FALSE
    /\ shared = [temp |-> Unset, press |-> Unset]
    /\ whole = FALSE /\ tampered = FALSE

-----------------------------------------------------------------------------
(* From bytes to hundredths *)

\* (d1 << 16) | (d2 << 8) | d3: a negative number has ones in all upper bits,
\* and what lies above the byte of a failed read does not matter.  A faulty
\* version takes a byte of each.
CombinedMasked(d1, d2, d3) ==
    (d1 % 256) * 65536 + (d2 % 256) * 256 + (d3 % 256)
Combined(d1, d2, d3) ==
    CASE d3 < 0 -> d3
      [] d3 >= 0 /\ d2 < 0 -> d2 * 256 + d3
      [] OTHER -> d1 * 65536 + d2 * 256 + d3

RawTemp(b) == Combined(b[1], b[2], b[3]) \div 16

\* n in a type of the values -half .. half - 1.
Wrapped(n, half) == ((n + half) % (2 * half)) - half

\* (a * b) >> k for s = 2^k.  The product itself would leave the integers of
\* TLC.
ShiftedProduct(a, b, s) == (a \div s) * b + (((a % s) * b) \div s)

\* (s32)((int16_t)tmp); a faulty one forgets the sign.
DigT3Unsigned == T3Word
DigT3 == Wrapped(T3Word, 32768)

\* read_temperature.  The kernel is built with wrapping arithmetic, and 32 bits
\* leave 21 of them after a shift by 11, and 20 after one by 12; the last shift
\* is one of 64 bits.
Linear(r) == Wrapped(ShiftedProduct(r \div 8 - 2 * DigT1, DigT2, 2048), 1048576)
Square(r) ==
    LET n == r \div 16 - DigT1 IN Wrapped(ShiftedProduct(n, n, 4096), 524288)
Fine(r) == Linear(r) + ShiftedProduct(Square(r), DigT3, 16384)
Temperature(r) == (Fine(r) * 5 + 128) \div 256

-----------------------------------------------------------------------------
(* From hundredths to text and back *)

\* / and % of C, which round towards zero.
Whole(n) == IF n < 0 THEN -((-n) \div 100) ELSE n \div 100
Part(n) == n - 100 * Whole(n)

\* get_bmp_info_str prints both numbers as "%d.%d".  A faulty version
\* prints the hundredths without their sign.
WordUnsigned(n) ==
    [whole |-> Whole(n), part |-> IF n < 0 THEN -Part(n) ELSE Part(n)]
Word(n) == [whole |-> Whole(n), part |-> Part(n)]
\* Its buffer has room for both; a faulty one only for the first.
BmpInfoStrCut(t, p) == <<Word(t)>>
BmpInfoStr(t, p) == <<Word(t), Word(p)>>

\* The hundredths that the digits after a point stand for when they are
\* parsed: those printed without a leading zero have become tenths.
Hundredths(part) == IF part < 10 THEN 10 * part ELSE part

\* What %f makes of a word: it stops before a second minus sign.  A faulty
\* version drops what follows the point.
NumberOfWhole(w) == 100 * w.whole
Number(w) ==
    LET h == IF w.part < 0 THEN 0 ELSE Hundredths(w.part)
    IN  IF w.whole < 0 THEN 100 * w.whole - h ELSE 100 * w.whole + h

\* sscanf(buf, "%f %f", &temp, &press): what cannot be parsed keeps its old
\* value, and the second %f goes on where the first one stopped.
NotANumber == [whole |-> 0, part |-> 100]
Scanned(words, old) ==
    IF words = <<>> \/ words[1] = NotANumber THEN old
    ELSE [temp |-> Number(words[1]),
          press |-> CASE words[1].part < 0 -> 100 * words[1].part
                      [] words[1].part >= 0 /\ Len(words) = 2
                             -> Number(words[2])
                      [] OTHER -> old.press]

-----------------------------------------------------------------------------
(* Actions *)

\* What the attribute holds when strncpy has copied the first word of a text:
\* behind it the second one of the old text, if there is one.  Over the empty
\* attribute of a driver just loaded, a minus sign may stand there alone.  Of
\* what else a cut within a word makes nothing is claimed.
HalfCopied(new, old) ==
    {IF Len(old) = 2 THEN <<new[1], old[2]>> ELSE <<new[1]>>}
        \cup {t \in {<<NotANumber>>} : old = <<>> /\ new[1].whole < 0}

\* wq_func measures, prints, and begins to copy ...
Measure(b, p) ==
    /\ ~copying
    /\ temp' = Temperature(RawTemp(b))
    /\ press' = p
    /\ text' \in HalfCopied(BmpInfoStr(temp', p), text)
    /\ raw' = IF \E i \in 1 .. 3 : b[i] < 0 THEN -1 ELSE RawTemp(b)
    /\ copying' = TRUE
    /\ written' = FALSE /\ read' = FALSE
    /\ UNCHANGED <<shared, whole, tampered>>

\* ... and copies the rest.  What a user has written meanwhile stays, and the
\* second word follows it or lies beyond its end.
Copied ==
    /\ copying
    /\ text' \in IF written THEN {text, <<Head(text), Word(press)>>}
                ELSE {BmpInfoStr(temp, press)}
    /\ copying' = FALSE
    /\ read' = FALSE
    /\ UNCHANGED <<temp, press, raw, written, shared, whole, tampered>>

\* store_kobj keeps the first word of what is written to notify.
Kept(words) == <<Head(words)>>

Store(words) ==
    /\ text' = IF words = <<>> THEN text ELSE Kept(words)
    /\ written' = (words # <<>> \/ written)
    /\ read' = FALSE
    /\ tampered' = TRUE
    /\ UNCHANGED <<temp, press, raw, copying, shared, whole>>

\* sensor_thread goes on polling when it has read nothing; a faulty one goes
\* on to sscanf.
HasAnything(words) == TRUE
HasText(words) == words # <<>>

SensorReads ==
    /\ HasText(text)
    /\ shared' = Scanned(text, shared)
    /\ read' = ~copying
    /\ whole' = (whole \/ ~copying)
    /\ UNCHANGED <<temp, press, raw, text, copying, written, tampered>>

Next ==
    \/ \E b \in Bytes, p \in Pressures : Measure(b, p)
    \/ Copied
    \/ \E words \in Stores : Store(words)
    \/ SensorReads

Spec == Init /\ [][Next]_vars

-----------------------------------------------------------------------------
(* Properties *)

\* The variables keep their types.
TypeOK ==
    /\ temp \in Int /\ press \in Pressures \cup {0}
    /\ raw \in Int /\ copying \in BOOLEAN /\ written \in BOOLEAN
    /\ read \in BOOLEAN /\ whole \in BOOLEAN /\ tampered \in BOOLEAN
    /\ Len(text) <= 2
    /\ \A i \in DOMAIN text : text[i] \in Words
    /\ shared.temp \in Int /\ shared.press \in Int

\* A read that fails does not pass for a temperature: its error code goes
\* through the whole formula, wraps or not, and comes out beyond the -40 to
\* 85 degrees the sensor works in.  read_temperature does not check.
FailedReadIsOutOfRange == raw < 0 => temp \notin -4000 .. 8500

\* In frost there is no reading: whether the thread read a negative pressure
\* tells whether the sensor measured below zero, whole degrees apart, which
\* are read right.
Measured == read /\ ~written /\ raw # NoRaw
FrostIsVisible ==
    Measured => /\ (shared.press < 0) = (temp < 0 /\ temp % 100 # 0)
                /\ temp < 0 /\ shared.press >= 0 => shared.temp = temp

\* Above zero a reading is never too low, and by less than one degree or
\* hectopascal too high, for the lost zero of hundredths below ten only.
ReadingIsClose ==
    Measured /\ temp >= 0 =>
        \A f \in {<<temp, shared.temp>>, <<press, shared.press>>} :
            /\ f[2] - f[1] \in 0 .. 81
            /\ f[2] # f[1] => f[1] % 100 \in 1 .. 9

\* What the locals of the thread held before they were set is gone once it has
\* read a text that was not half done, unless somebody wrote to the attribute;
\* no later text, half done or not, brings it back.  Before that, subscribers
\* may be shown it: the text of the first measurement can be read without its
\* pressure, or as a minus sign alone, and sscanf does not say so.
UnsetIsNotShown ==
    whole /\ ~tampered => shared.temp # Unset /\ shared.press # Unset

\* A warmer sensor is not measured as a colder one: over all values that the
\* converter delivers the formula is monotone, and no product wraps.
WarmerIsNotColder == [][raw >= 0 /\ raw' >= raw => temp' >= temp]_vars

\* What a log line of monitor_thread says of what it publishes, "temperature:
\* %f°C, pressure: %fhPa": that they are the measured ones.
LoggedIsMeasured ==
    Measured /\ raw >= 0 => shared = [temp |-> temp, press |-> press]
=============================================================================
