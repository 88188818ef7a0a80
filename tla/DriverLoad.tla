----------------------------- MODULE DriverLoad -----------------------------
(***************************************************************************)
(* Loading and unloading the four drivers.  An init function takes one     *)
(* resource after the other; when it notices a failure it jumps into a     *)
(* ladder of releases, and the exit function is a list of releases too.    *)
(* Both release without asking what the module holds.  engine, simple_io   *)
(* and simple_switch use the same GPIO pins, which the kernel frees for    *)
(* anybody who asks for it.                                                *)
(***************************************************************************)
EXTENDS Sequences

Drivers == {"bmp280", "engine", "simple_io", "simple_switch"}

CONSTANT Machines   \* bound: sets of drivers that are loaded together

ASSUME LoadAssumption == Machines \subseteq SUBSET Drivers

\* leds and button are the output and input pins; memory is what kzalloc gives,
\* kobject the reference kobject_init takes in it, and sysfs what kobject_add
\* makes of it; chip the reads of the sensor's calibration, and put the release
\* of the adapter in the middle of init.
Pins == {"leds", "button"}
Resources == Pins \cup {"region", "class", "device", "cdev", "adapter",
    "client", "i2cDriver", "put", "chip", "memory", "kobject", "sysfs", "wq",
    "timer", "irq", "thread"}

\* The init functions.
BmpInit == <<"region", "class", "device", "cdev", "adapter", "client",
             "i2cDriver", "put", "chip", "memory", "kobject", "sysfs", "wq",
             "timer">>
EngineInit == <<"region", "class", "device", "cdev", "memory", "kobject",
                "sysfs", "leds", "button", "irq", "timer">>
IoInit == <<"region", "class", "device", "cdev", "leds", "button", "thread">>
SwitchInit == <<"region", "class", "device", "cdev", "leds", "button",
                "thread">>
Inits == [bmp280 |-> BmpInit, engine |-> EngineInit,
          simple_io |-> IoInit, simple_switch |-> SwitchInit]

\* The labels an init function jumps to when it notices that a step failed,
\* as the releases from there on.  The ktypes have no release function, so that
\* kobject_put leaves the memory; kfree, which frees it, is in every list but
\* the ladder of bmp280.
BmpErrors ==
    [region |-> <<>>,
     class |-> <<"region">>,
     device |-> <<"region">>,
     cdev |-> <<"device", "class", "region">>,
     i2cDriver |-> <<"cdev", "device", "class", "region">>,
     sysfs |-> <<"client", "i2cDriver", "kobject", "cdev", "device", "class",
                 "region">>]
EngineErrors ==
    [region |-> <<>>,
     class |-> <<"region">>,
     device |-> <<"class", "region">>,
     cdev |-> <<"device", "class", "region">>,
     memory |-> <<"device", "class", "region">>,
     sysfs |-> <<"kobject", "memory", "device", "class", "region">>,
     irq |-> <<"leds", "button", "irq", "kobject", "memory", "device",
               "class", "region">>]
IoErrors ==
    [region |-> <<>>,
     class |-> <<"class", "region">>,
     device |-> <<"device", "class", "region">>,
     cdev |-> <<"device", "class", "region">>,
     thread |-> <<"leds", "button", "device", "class", "region">>]
SwitchErrors ==
    [region |-> <<>>,
     class |-> <<"region">>,
     device |-> <<"class", "region">>,
     cdev |-> <<"class", "region">>,
     thread |-> <<"button", "leds", "class", "region">>]

ErrorPaths == [bmp280 |-> BmpErrors, engine |-> EngineErrors,
               simple_io |-> IoErrors, simple_switch |-> SwitchErrors]

\* The exit functions.  Those of simple_io and simple_switch tell the thread
\* to end and do not wait for it.
BmpExit == <<"timer", "wq", "kobject", "memory", "client", "i2cDriver",
             "cdev", "device", "class", "region">>
EngineExit == <<"timer", "irq", "leds", "button", "kobject", "memory",
                "device", "class", "region">>
IoExit == <<"leds", "button", "cdev", "device", "class", "region">>
SwitchExit == <<"leds", "button", "cdev", "device", "class", "region">>
Exits == [bmp280 |-> BmpExit, engine |-> EngineExit,
          simple_io |-> IoExit, simple_switch |-> SwitchExit]

\* Faulty versions: a ladder without the pins, ladders without the region, a
\* work queue destroyed before the timer is cancelled, a class released twice.
PinsForgotten ==
    [ErrorPaths EXCEPT !.simple_io.thread = <<"device", "class", "region">>]
RegionForgotten ==
    [ErrorPaths EXCEPT !.simple_switch.cdev = <<"class">>,
                       !.engine.cdev = <<"device", "class">>]
QueueFirst == [Exits EXCEPT !.bmp280 = <<"wq", "timer">> \o SubSeq(@, 3, 10)]
ClassTwice == [Exits EXCEPT !.simple_switch = @ \o <<"class">>]

OnError == ErrorPaths
OnExit == Exits

\* Failures nobody looks at (that of i2c_new_client_device is an error pointer,
\* which its test for NULL lets pass), and those that class_create,
\* device_create and kthread_create report by such a pointer.
Ignored(d) == CASE d = "bmp280" -> {"adapter", "client", "memory", "wq"}
                [] OTHER -> Pins
ErrorPointers == {"class", "device", "thread"}

\* What a step can only succeed with; some are skipped without it.
Needs(r) == CASE r = "device" -> {"class"}
              [] r = "client" -> {"adapter"}
              [] r = "i2cDriver" -> {"adapter"}
              [] r = "kobject" -> {"memory"}
              [] r = "sysfs" -> {"kobject"}
              [] r = "chip" -> {"client"}
              [] OTHER -> {}
Skipped == {"i2cDriver", "kobject", "sysfs"}

VARIABLES
    machine,  \* the drivers that are loaded in this behaviour
    phase,    \* out, loading, in, failing, leaving, or oops
    todo,     \* the steps that remain of the function that runs
    held,     \* what each driver holds, pins apart
    owner,    \* who has requested each pin, or none
    missing,  \* what a driver could not get, and the pins it had taken from
              \* it, since it was last loaded (a history variable)
    bogus     \* releases of what was not held (a history variable)

vars == <<machine, phase, todo, held, owner, missing, bogus>>

Init ==
    /\ machine \in Machines
    /\ phase = [d \in Drivers |-> "out"]
    /\ todo = [d \in Drivers |-> <<>>]
    /\ held = [d \in Drivers |-> {}]
    /\ owner = [u \in Pins |-> "none"]
    /\ missing = [d \in Drivers |-> {}]
    /\ bogus = [d \in Drivers |-> {}]

-----------------------------------------------------------------------------
(* Init *)

\* insmod.  Bound: a driver that has left something behind is not loaded
\* again.
Insmod(d) ==
    /\ phase[d] = "out" /\ held[d] = {}
    /\ phase' = [phase EXCEPT ![d] = "loading"]
    /\ todo' = [todo EXCEPT ![d] = Inits[d]]
    /\ missing' = [missing EXCEPT ![d] = {}]
    /\ bogus' = [bogus EXCEPT ![d] = {}]
    /\ UNCHANGED <<held, owner>>

AtStep(d, r) == phase[d] = "loading" /\ todo[d] # <<>> /\ Head(todo[d]) = r
Advance(d) == todo' = [todo EXCEPT ![d] = Tail(@)]

\* gpio_request gives a pin nobody has; a faulty one any pin.
RequestsAny(u) == TRUE
Requests(u) == owner[u] = "none"

TakePin(d, u) ==
    /\ AtStep(d, u)
    /\ Requests(u)
    /\ owner' = [owner EXCEPT ![u] = d]
    /\ Advance(d)
    /\ UNCHANGED <<phase, held, missing, bogus>>

\* What a driver that held h holds after step r; a faulty one does not put
\* the adapter, but takes another one.
WithStepAndPut(h, r) == IF r = "chip" THEN h ELSE h \cup {r}
WithStep(h, r) == CASE r = "put" -> h \ {"adapter"}
                    [] r = "chip" -> h
                    [] OTHER -> h \cup {r}

TakeOther(d, r) ==
    /\ AtStep(d, r) /\ r \notin Pins
    /\ Needs(r) \subseteq held[d]
    /\ held' = [held EXCEPT ![d] = WithStep(@, r)]
    /\ Advance(d)
    /\ UNCHANGED <<phase, owner, missing, bogus>>

\* A failure the init function notices.
Notice(d, r) ==
    /\ AtStep(d, r)
    /\ r \in DOMAIN OnError[d]
    /\ r \in Skipped => Needs(r) \subseteq held[d]
    /\ phase' = [phase EXCEPT ![d] = "failing"]
    /\ todo' = [todo EXCEPT ![d] = OnError[d][r]]
    /\ missing' = [missing EXCEPT ![d] = @ \cup {r}]
    /\ UNCHANGED <<held, owner, bogus>>

\* A failure it does not notice, or a step it skips for want of another one.
Overlook(d, r) ==
    /\ AtStep(d, r)
    /\ \/ r \in Ignored(d) \cup (ErrorPointers \ {"thread"})
       \/ r \in Skipped /\ ~(Needs(r) \subseteq held[d])
    /\ missing' = [missing EXCEPT ![d] = @ \cup {r}]
    /\ Advance(d)
    /\ UNCHANGED <<phase, held, owner, bogus>>

\* A thread that is an error pointer is woken up, and a client that is NULL
\* or an error pointer is read from.
Oopses(d, r) ==
    /\ AtStep(d, r)
    /\ r = "thread" \/ (r = "chip" /\ "client" \notin held[d])
    /\ phase' = [phase EXCEPT ![d] = "oops"]
    /\ UNCHANGED <<todo, held, owner, missing, bogus>>

Loaded(d) ==
    /\ phase[d] = "loading" /\ todo[d] = <<>>
    /\ phase' = [phase EXCEPT ![d] = "in"]
    /\ UNCHANGED <<todo, held, owner, missing, bogus>>

-----------------------------------------------------------------------------
(* Error paths and exit *)

Rmmod(d) ==
    /\ phase[d] = "in"
    /\ phase' = [phase EXCEPT ![d] = "leaving"]
    /\ todo' = [todo EXCEPT ![d] = OnExit[d]]
    /\ UNCHANGED <<held, owner, missing, bogus>>

Releasing(d) == phase[d] \in {"failing", "leaving"} /\ todo[d] # <<>>

\* gpio_free does not ask whose the pin is.
FreePin(d, u) ==
    /\ Releasing(d) /\ Head(todo[d]) = u
    /\ owner' = [owner EXCEPT ![u] = "none"]
    /\ missing' = [e \in Drivers |-> IF owner[u] = e /\ e # d
                                    THEN missing[e] \cup {u}
                                    ELSE missing[e]]
    /\ Advance(d)
    /\ UNCHANGED <<phase, held, bogus>>

\* With the reference to a kobject goes its entry in sysfs.  bmp_module_exit
\* looks whether there is a kobject.
Gone(r) == IF r = "kobject" THEN {"kobject", "sysfs"} ELSE {r}
Checked(d, r) == d = "bmp280" /\ r \in {"kobject", "memory"}

FreeOther(d) ==
    /\ Releasing(d)
    /\ LET r == Head(todo[d])
       IN  /\ r \notin Pins
           /\ held' = [held EXCEPT ![d] = @ \ Gone(r)]
           /\ bogus' = IF r \in held[d] \/ Checked(d, r) THEN bogus
                       ELSE [bogus EXCEPT ![d] = @ \cup {r}]
    /\ Advance(d)
    /\ UNCHANGED <<phase, owner, missing>>

Out(d) ==
    /\ phase[d] \in {"failing", "leaving"} /\ todo[d] = <<>>
    /\ phase' = [phase EXCEPT ![d] = "out"]
    /\ UNCHANGED <<todo, held, owner, missing, bogus>>

\* The thread ends by itself, once it has seen the flag that a write to the
\* device or the exit function sets.
ThreadEnds(d) ==
    /\ phase[d] \in {"in", "leaving", "out"} /\ "thread" \in held[d]
    /\ held' = [held EXCEPT ![d] = @ \ {"thread"}]
    /\ UNCHANGED <<phase, todo, owner, missing, bogus>>

Next == UNCHANGED machine /\ \E d \in machine :
    \/ Insmod(d) \/ Loaded(d) \/ Rmmod(d) \/ FreeOther(d) \/ Out(d)
    \/ ThreadEnds(d)
    \/ \E u \in Pins : TakePin(d, u) \/ FreePin(d, u)
    \/ \E r \in Resources :
           TakeOther(d, r) \/ Notice(d, r) \/ Overlook(d, r) \/ Oopses(d, r)

Spec == Init /\ [][Next]_vars

-----------------------------------------------------------------------------
(* Properties *)

\* The variables keep their types.
TypeOK ==
    /\ machine \in Machines
    /\ phase \in [Drivers -> {"out", "loading", "in", "failing", "leaving",
                              "oops"}]
    /\ \A d \in Drivers : \A i \in DOMAIN todo[d] : todo[d][i] \in Resources
    /\ held \in [Drivers -> SUBSET (Resources \ (Pins \cup {"put", "chip"}))]
    /\ owner \in [Pins -> Drivers \cup {"none"}]
    /\ missing \in [Drivers -> SUBSET Resources]
    /\ bogus \in [Drivers -> SUBSET Resources]

\* A driver that is out holds nothing but what its ladder (a step that
\* failed) or its exit function is known to forget: the device file of
\* engine stays registered after every load that got that far, and the kobject
\* of bmp280 allocated after a load that could not add it to sysfs.
Leaks(d) ==
    CASE d = "engine" -> {"cdev"}
      [] d = "bmp280" ->
             (IF "device" \in missing[d] THEN {"class"} ELSE {})
             \cup (IF "i2cDriver" \in missing[d] THEN {"adapter", "client"}
                   ELSE {})
             \cup (IF "sysfs" \in missing[d] THEN {"memory"} ELSE {})
      [] d = "simple_io" -> IF "thread" \in missing[d] THEN {"cdev"}
                            ELSE {"thread"}
      [] d = "simple_switch" ->
             IF "thread" \in missing[d] THEN {"device", "cdev"}
             ELSE IF "cdev" \in missing[d] THEN {"device"} ELSE {"thread"}
LeaksAreKnown ==
    \A d \in Drivers : phase[d] = "out" => held[d] \subseteq Leaks(d)

\* Nothing is released twice: what a driver releases without holding it, it
\* could not get before, whichever steps failed with or without notice.
NothingReleasedTwice ==
    \A d \in Drivers : bogus[d] \subseteq missing[d]

\* What still runs has what it uses, unless init could not get it: the timer
\* of bmp280 its work queue and the sensor, the work queue the sensor and the
\* kobject it notifies, the timers of engine the kobject of their speeds, and
\* a kobject its memory.
Uses(d, r) == CASE d = "bmp280" /\ r = "timer" -> {"wq", "client"}
                [] d = "bmp280" /\ r = "wq" -> {"client", "kobject"}
                [] d = "engine" /\ r \in {"timer", "irq"} -> {"kobject"}
                [] r = "kobject" -> {"memory"}
                [] OTHER -> {}
UsedIsHeld ==
    \A d \in Drivers : \A r \in held[d] :
        Uses(d, r) \ missing[d] \subseteq held[d]

\* No pin stays with a driver that is out.
PinsHaveLivingOwner ==
    \A u \in Pins : owner[u] # "none" => phase[owner[u]] # "out"

\* The invariant of a driver's resources: what it uses is there, what it
\* releases it has held, and its pins do not outlive it.
LoadInv ==
    TypeOK /\ NothingReleasedTwice /\ UsedIsHeld /\ PinsHaveLivingOwner

\* A driver that has a pin loses it by its own releases, or to one that could
\* not get it, or was robbed of it before, and frees it all the same.
PinsAreLostToLosers ==
    [][ \A u \in Pins : \A d \in Drivers :
            (owner[u] = d /\ owner'[u] # d)
                => \/ Releasing(d)
                   \/ \E e \in Drivers : Releasing(e) /\ u \in missing[e]
      ]_vars
=============================================================================
