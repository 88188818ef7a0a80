# nsystem: verification development

nsystem is an embedded telemetry and control system for a Raspberry Pi: a supervisor forks two
processes, which talk to each other through POSIX message queues and a shared memory object, to
four kernel drivers through device files and sysfs, and to the outside through MQTT. This
directory holds TLA+ models of its parts, TLC configurations that check them on small instances,
and TLAPS proofs about the core for every instance. Source paths are relative to the repository
(`src/...`).

## 1. Inventory

| Component | State it keeps | Operations | Talks to |
|---|---|---|---|
| supervisor, `main.c` | child pids | create shared memory and queues, fork, SIGCHLD handler, wait | both processes |
| bmp280 driver, `drivers/bmp280/bmp280.c` | `bmp_info`, `notify.value`, work item, timer | timer callback, `wq_func`, sysfs show/store, init, exit | sensor thread (sysfs) |
| sensor thread, `input/input_process.c` | `temp`, `press`, shared structure | poll, read, parse, store, `mq_send`, sleep | driver, shared memory, monitor queue |
| command thread, `input/input_process.c` | the line, descriptors, a shell | `dump`, `elf`, `exit`, `m1`, `m2`, `mq`, `sh`, `sio`, ... | both queues, engine, simple_io, children |
| MQTT input, `input/input_process.c` | session | connect, subscribe, loop, reconnect, message callback | broker, engine |
| monitor thread, `system/system_process.c` | - | receive, publish, `dump_state` | monitor queue, shared memory, broker |
| watchdog, `system/system_process.c` | `system_info` | SIGALRM every 5 s: collect and publish | /proc, engine (sysfs), broker |
| camera thread, `hal/` | HAL module | receive, `take_picture` | camera queue, vendor HAL |
| disk thread | - | none: it prints a line and ends | - |
| simple_switch driver | `state`, `pre_jiffies`, `cur_led`, `wait_queue_flag`, LEDs | polling thread with a state machine, write, init, exit | button, writers, rmmod |
| simple_io driver | `wait_queue_flag`, LEDs | thread with six patterns, write, init, exit | button, writers (`sio` command), rmmod |
| engine driver | two timers, LEDs, speeds | timer callbacks, GPIO interrupt, ioctl, sysfs, init, exit | button, command thread, MQTT input, system information |

**What is hard here, and what makes each component correct.**

* Telemetry path (driver -> sensor thread -> shared memory and queue -> monitor thread -> broker):
  five actors, no lock. The attribute is rewritten while it is printed; the shared structure is
  stored field by field while `mosquitto_publish` copies it; a message says only "look at shared
  memory"; the queue blocks its senders when full; either process can end anywhere, and a publish
  fails once the broker is gone. Correct means: what is announced is published, nothing goes
  back in time, a torn pair is torn by one measurement at most, nothing is stranded, and a user
  who types `dump` gets it.
* A reading as a number: bus errors that nobody checks, 32-bit products, a text that loses digits
  and signs and can be read half copied, locals that are not initialised. Correct means: what is
  shown is close to what was measured, what is not a measurement does not look like one, and the
  unset locals are gone for good once a whole text was read.
* Supervisor: kernel objects that outlive every process, a signal handler and a `waitpid` that
  want the same child, orphans of an older start. Correct means: the two processes of a start
  meet in the same object and queue, every child is reaped, and `main` ends when they have.
* Command thread and MQTT input: descriptors that are not closed on every path, a shell that the
  inherited handler may reap first, a session without its subscription. Correct means: the
  prompt comes back, the session comes back, and the descriptor table is accounted for.
* Camera: a request crosses two processes. Correct means: one picture for each, in order.
* Watchdog: everything happens in a signal handler, on top of a thread that may hold the locks
  the handler needs, and the next signal may find it still running. Correct means: it does not
  deadlock, and a report is of one collection.
* simple_switch: time. A polled state machine compares elapsed time with limits while its thread
  may be held up, and the LED word is wider than the LEDs. Correct means: presses are classified
  in bounded time, the LEDs are a bar and follow the gestures, a stop is served.
* simple_io: a condition variable in disguise, one flag written by everybody. Correct means: no
  lost wake-up, a stop ends exactly one pattern, a pattern starts from dark.
* engine: timer callbacks against an interrupt handler against init and exit. Correct means:
  stopped motors stay stopped and dark, rmmod leaves nothing behind and ends; no command makes
  a timer fire without a pause.
* Loading the drivers: error ladders that release without asking, and GPIO pins that the drivers
  take from each other. Correct means: nothing is released twice, nothing is used after its
  release, and what leaks is known.

The full list of hazards, each at its line and with the properties that would catch it, is in
`PROJECT.json`.

## 2. Modules

| Module | What it is |
|---|---|
| `SensorPath` | the telemetry path: driver, sensor thread, `dump` of the command thread, monitor thread, process ends, broker loss |
| `LatestValue` | what the path promises to a subscriber; `SensorPath` implements it |
| `SensorPathProofs` | theorems about `SensorPath` |
| `BmpReading` | one reading as a number: bytes, compensation formula, text, `sscanf` |
| `EngineSpeeds` | a motor's speed from prompt, message or sysfs to the timer and the system information |
| `SysfsNumbers` | `BmpReading` and `EngineSpeeds` together: the numbers that pass through sysfs |
| `Supervisor` | `main`, what outlives it, and the life of its children, over several starts |
| `InputProcess` | command thread, MQTT thread and SIGCHLD handler of the input process |
| `CameraPath` | from the command `mq camera` to `takePicture` |
| `CameraPromise` | what that command promises; `CameraPath` implements it |
| `InputAndCamera` | the composition of `InputProcess` and `CameraPath` |
| `Watchdog` | the SIGALRM handler on whatever thread it runs |
| `SimpleSwitch` | the simple_switch driver |
| `LedBar` | what its README promises about the LEDs; `SimpleSwitch` implements it |
| `SimpleIo` | the simple_io driver |
| `Engine` | the engine driver's timers, interrupt and module functions |
| `DriverLoad` | init functions, error ladders and exit functions of all four drivers |
| `SupervisorProofs`, `InputProofs`, `WatchdogProofs`, `SwitchProofs`, `IoProofs`, `EngineProofs` | theorems about `Supervisor`, `InputAndCamera`, `Watchdog`, `SimpleSwitch`, `SimpleIo`, `Engine` |
| `DriverProofs` | theorems about what the drivers have in common: `DriverLoad` and `SysfsNumbers` |
| `MC*` | instantiations for TLC |

Three compositions follow the interactions of the code. `SensorPath` spans driver, sensor thread,
queue, shared memory and monitor thread, because their interaction is the point. `InputAndCamera`
joins the prompt's thread with the other process at the camera queue. `DriverLoad` lets the
drivers take GPIO pins from each other. `Supervisor` models how a pair of processes comes by its
queue and its object; `SensorPath` starts from a pair that has them. Once loaded alone, the three
pin drivers share nothing with each other or with the telemetry path, and their models are
separate.

Faulty variants of a definition stand right before it, introduced in its comment (`RequestsAny`
before `Requests`): they are bugs the code does not have, which the properties tell from the code
as it is.

### SensorPath

Program counters follow the code: `work` is where `wq_func` is, `sensor` where `sensor_thread`
is, `monitor` where `monitor_thread` is, `command` whether `command_dump` is inside `mq_send`.
`notify`, `reading`, `shm`, `payload`, `published` are the buffers a reading passes through.
Every copy of a pair is two actions (temperature, then pressure, in the order the code writes
them), so that every torn combination occurs. `queue` is `/monitor_queue`; `HasRoom` is its
`mq_maxmsg`.

*Data.* Measurements are numbered and a value is represented by the oldest measurement any of its
digits comes from: `strncpy` overwrites a number digit by digit while `show_kobj` may print it,
and a number with mixed digits counts as the older one. 0 is "no measurement". The properties
therefore speak about age, not about the numerical value of a mixed number. A text that is cut
before the pressure leaves the old pressure in the local (`SensorReadPress`), as `sscanf` does.

*External behaviour* (not in `src/`): reading or polling a sysfs attribute always reports it
readable, so `poll` never waits and `sysfs_notify` wakes nobody; `queue_work` ignores an item
that is queued; `mq_send` blocks on a full queue and wakes blocked senders in turn;
`mosquitto_publish` copies the payload before it sends.

*History variables* (`announced`, `due`, `asked`, `dumped`) feed properties only.

*Failures.* `InputExits` and `SystemExits` end a process between any two steps; shared memory and
the queue survive, as they do in the kernel. `BrokerLost` ends the session; the source has no
path that restores it in this process.

### BmpReading, EngineSpeeds, SysfsNumbers

`BmpReading` follows one reading: three bytes, each of which may instead be a negative error code
(`Combined` keeps what `<<` and `|` make of it), the temperature formula of `read_temperature` with
its 32-bit products (`Wrapped`, as the kernel is built to), the text `"%d.%d"` as a pair
of a whole and a part (`Word`), and what `%f` makes of that pair (`Number`): a part below ten
becomes tenths, and a second minus sign ends the number and begins the next. Shared memory holds
hundredths; the rounding of `float` is left out. `Store` is a user who writes the attribute.

`wq_func` copies its text into the attribute in two steps, `Measure` with the first word and
`Copied` with the rest, and the thread may read in between (`HalfCopied`, `copying`): the new
temperature with the old pressure, or, over the attribute that is still empty, with no pressure at
all, or a minus sign that `sscanf` cannot parse. The locals then keep what they had, which is
`Unset` at first. A cut elsewhere within a word makes a number of some of its digits; nothing is
claimed about that number, and it leaves no local unset that the cuts above do not.
`whole` remembers that the thread has read a text that was not half copied.

`EngineSpeeds` follows a speed: `calibrate_ms` behind the ioctl, `store_engine_class` without it,
the timer's period (0 when init starts it, and the speed after each firing; `fired` remembers
that there was one), and the way back through `show_engine_class`, which prints into five bytes,
and `get_engine_info`, which reads motor_1 into a buffer that is not initialised (`Tails` is what
may follow the digits there) and motor_2 into the same buffer after clearing it.

`SysfsNumbers` puts both under one next-state relation. They share no file and no variable, so a
behaviour exercises one while the other stays in its initial state.

### Supervisor

Starts are numbered, and the number of a start names the object and the queue its `main` creates;
0 is none. `main` has one step per call that changes something: `create_shm` (which returns 0 for
an object that exists, so `ftruncate` hits stdin), `ftruncate`, `mq_unlink` and `mq_open`, two
forks, two waits. A wait either takes the zombie, fails because there is no such child, or
blocks; a blocked one looks again when woken and after a handler (`SA_RESTART`). The handler may
win against a wait that has not started or is going to sleep. A child opens the queue, maps the
object (a missing one ends it), and then works; an error path unlinks the object's *name*,
whichever object has it by then; an access to an object of size 0 is a SIGBUS (`ChildFaults`).
`MainKilled` leaves objects, queues and children behind, and the next start finds them.

### InputProcess, CameraPath, InputAndCamera

`InputProcess` has the prompt (`command`), the MQTT thread (`mosq`), the descriptor table
(`open`, with `served` counting what served commands keep) and the child of `sh`. `status` is
what the loop in `command_sh` makes of its local, which is not initialised: "ended" or "other".
The SIGCHLD handler was installed before the fork and is inherited; it runs on the main thread.
`mosquitto_loop` returns positive errors, so the branch for negative ones is never taken and the
thread sleeps and reconnects; the session is a clean one, so the broker forgets the subscription
with it. Lines that change nothing (unknown commands, missing arguments) are not steps. A line of
blanks and an MQTT message without a payload end the process (`LineFails`, `MosqEmptyMessage`).

`CameraPath` numbers the messages as they are typed; the history variable `asked` has the numbers
of the requests among them, which is what `CameraPromise` is about. `camera_thread` first loads the vendor's
library (`Load`), which may abort the process, and then answers each TAKE_PICTURE. It implements
`CameraPromise`: one picture for each request, in order.

`InputAndCamera` identifies `mq camera` at the prompt with the sender of `CameraPath` (`MqCamera`,
`MqReturns`); all other steps of the two processes interleave, and either may end alone.

### Watchdog

`watchdog_thread` installs the handler and arms the timer; the rest happens in the handler.
`at[t]` is where the handler on thread t is, in the order of `get_system_info`. SIGALRM goes to
the main thread, and while that has it blocked (it is inside the handler) to any other
(`TakesSignal`); a signal that is pending is not counted twice. `work[t]` is the lock thread t
holds for its own work: the allocator's ("heap": `monitor_thread` and `camera_thread`) or that of
the MQTT session ("mosq": `monitor_thread`). The handler waits for "heap" where it allocates
(`fopen`, `getline`, publish) and for "mosq" where it sends. A part that cannot be read keeps
what it had, and `get_engine_info` gives up with its first motor. Parts of the structure are
represented by the run that wrote them.

### SimpleSwitch

The thread's loop is three steps (`Sample`, `Act`, `Check`) because the button, the clock and the
flag are read at different times. `transitions` is the table of the source. Time is `elapsed`
(ticks since `pre_jiffies`) and `stall` (ticks since the last step); `MaxStall` bounds how long
the scheduler may hold the thread up, `usleep_range` is a minimum of one tick, and `longest`
remembers the longest stall, so that a property can say what a thread does that is never held up
long (`HeldUp` is three stalls reaching the limit of SHORT and LONG). `curLed` is the set of
one-bits of `cur_led`, so that the shift into and out of the sign bit is explicit. `Judged`
reproduces line 297 as it is, without the negation that line 298 has. `WriteCopy` and `WriteFlag`
are the two halves of the write handler, because its buffer is shared.

### SimpleIo

Each statement of a pattern that touches the flag is a step of its own: set to WAIT (`Arm`), test
and sleep (`Wait`), test (`Judge`), read again for the return value (`Return`). `WriteFlag` and
`WakeUp` are separate, and only KEY and NEXT have a wake-up, as in the source. The uninitialised
`left` of `pattern_6` is an arbitrary level. LEDs are written by group; in patterns 3 to 6 the two
groups are two steps.

### Engine

`callback` is where each timer callback is, `irq` where the handler is, `task` where the init or
exit function is. A cancel waits for a running callback (`CanCancel`) and hits a null pointer if
the timer was never initialised (`oops`, which stops everything). `halted` records that a handler
that started after init had returned has run to its end. Time and speeds are left out here: an
armed timer may fire at any moment, so no ordering depends on a speed.

### DriverLoad

An init function is a sequence of resources, an error label the sequence of releases from there
on, an exit function a sequence of releases, all in the order of the source. `held` is what a
driver has, `owner` who requested each group of pins. A step succeeds (`TakePin`, `TakeOther`),
fails and is noticed (`Notice`), or fails and is not (`Overlook`): results nobody looks at, and
those of `class_create`, `device_create`, `i2c_new_client_device` and `kthread_create`, whose error
pointers are not NULL. A step that the code takes only after another one succeeded is passed over
(`Skipped`); `i2c_add_driver` needs the adapter only, because an error pointer passes for a client.
Going on may crash (`Oopses`). A kobject is two resources: "memory" is what `kzalloc` gives and
`kfree` takes back, "kobject" the reference that `kobject_put` drops; no ktype has a release
function, so the second does not free the first. `gpio_free` frees a pin whoever has it. The threads of simple_io
and simple_switch are told to end, and nobody waits for them (`ThreadEnds`). Which drivers are
loaded together is chosen once (`machine`). `missing` (what could not be had, or was taken away)
and `bogus` (what was released without being held) are histories.

## 3. Runs

| Run | Instance | Shows |
|---|---|---|
| `sensor_path` | queue of 1, 2 measurements, 1 dump | `PipelineInv`, `AnnouncedIsPublished`, `StoredSkew` and the refinement of `LatestValue`, in every interleaving with both processes dying and the broker leaving; `EveryMeasurementArrives`, `EveryDumpIsTaken` under fairness |
| `sysfs_numbers` | 28 triples of bytes, two pressures, user texts; speeds around the bounds of `calibrate_ms` | `NumbersInv`, `FailedReadIsOutOfRange`, `ReadingSurvives`, `WarmerIsNotColder` |
| `reading_logged` | as `sysfs_numbers` | violation, finding 3 |
| `supervisor` | two starts | `SupervisorInv`, `UnsizedOnlyByCrash`, `PairIsConnected`, `WaitsEnd`, with `main` killed, forks failing and children ending anywhere |
| `input_and_camera` | 3 descriptors, queue of 2, 3 requests | `InputInv`, `DescriptorsAccounted`, the refinement of `CameraPromise`, `EveryRequestIsAnswered`, `PromptReturns`, `SessionComesBack` |
| `watchdog` | two signals, collections of up to two periods, three unreadable parts | `WatchdogInv`, `ReportIsOwn`, `EverySignalIsServed` |
| `switch` | limits 4 and 5, stalls of up to 2, a 9-bit `cur_led` | `SwitchInv`, `OnlySingleGestures`, the refinement of `LedBar`, `PressIsClassified`, `StopIsServed` |
| `switch_double_press` | limits 4 and 6, stalls of at most 1 | violation, finding 1 |
| `switch_short_short` | limits 2 and 3, stalls of up to 2, a 10-bit `cur_led` | violation, finding 2 |
| `simple_io` | two writers, 7 writes | `IoInv`, `NoLostWakeup`, `NoFreeTurn`, `SleeperAnswers`, `StopIsServed` |
| `engine` | no constants: the complete system | `EngineInv`, `HaltIsFinal`, `HeldPressStops`, `ExitEnds` |
| `driver_load` | the three pairs of pin drivers, and bmp280 | `LoadInv`, `LeaksAreKnown`, `PinsAreLostToLosers` |

An invariant named `...Inv` is the conjunction of its module's type invariant and the named parts
defined right before it, each with a comment of its own:

| Conjunction | Parts besides the types |
|---|---|
| `PipelineInv` | `NothingStranded`, `DumpsAreAccounted` |
| `SwitchInv` | `LitIsBounded`, `LedsShowCurLed`, `Thermometer` |
| `IoInv` | `PatternsDoNotMix`, `ExactlyOneGroup` |
| `EngineInv` | `OopsOnlyWhileLoading`, `NotBothPairs`, `ExitIsClean` |
| `SupervisorInv` | `EndIsExplained`, `NoZombieForgotten` |
| `WaitsEnd` (liveness) | `EveryChildReaped`, `MainFollows` |
| `InputInv` | `DeafAfterReconnect`, `SpinOnlyAfterRace`, `NoRequestLost` |
| `WatchdogInv` | `NeverKilled`, `StuckOnlyByOverlap`, `NewestIsCovered` |
| `LoadInv` | `NothingReleasedTwice`, `UsedIsHeld`, `PinsHaveLivingOwner` |
| `NumbersInv` | `UnsetIsNotShown`, `PausesUnlessStored`, `ReportIsLegal` |
| `ReadingSurvives` | `FrostIsVisible`, `ReadingIsClose` |

**What the weaker-looking properties record.** Several properties have an exception that is the
behaviour of the code, not of the model. A descriptor is kept by every served motor or elf command
(`DescriptorsAccounted` counts them), and when they fill the table no session comes back. MQTT
commands reach no engine after a reconnection (`DeafAfterReconnect`). The prompt is lost when the
handler reaps the shell first and the uninitialised status is no end (`SpinOnlyAfterRace`). `main`
takes its error path when its own handler is faster (`EndIsExplained`). An object of size 0, left
by a crash between `shm_open` and `ftruncate`, kills whoever uses it (`UnsizedOnlyByCrash` says
that nothing else does). A collection of system information that outlasts its period may mix two
collections and deadlock with its own thread (`ReportIsOwn`, `StuckOnlyByOverlap`). A driver that
could not get its pins frees those of the one that has them (`PinsAreLostToLosers`), and `Leaks`
lists what each driver leaves behind: the memory of the bmp280's kobject, for one, when it could not
be added to sysfs (`kobj_error` has no `kfree`). What the sensor thread had on its stack may be
published as a pressure until it has read a whole text (`UnsetIsNotShown` says that it is gone
then). A timer of the engine is started with a period of 0 (`PausesUnlessStored` is about those
that have fired). Below zero a reading does not survive its text
(`FrostIsVisible` says what does).

**Bounds.** Two measurements let one overtake the other at every buffer, and a queue of one makes
the reading and the dump compete; the safety properties of the path are proved for all bounds, so
TLC only has to show that the formulas mean what they should. Two starts give one generation of
orphans and one of newcomers. Three descriptors hold the socket, one that leaks and one at work, so
that the table fills. A queue of two and three requests make a sender wait. Two signals and
`MaxOverlap` 2 let a handler find another one running, on each kind of thread; with `Unreadable`
one part in the middle and the two motors may fail. Stalls of up to 2 ticks with limits of 4 and 5
give behaviours on both sides of `HeldUp`; a `cur_led` of nine bits has a sign bit that no LED
shows. Seven writes take simple_io through its six patterns and back to the first. A driver that
has left something behind is not loaded again (bound in `Insmod`): the name of its region, class
or kobject would be taken, which only makes more steps fail. The three pin drivers are loaded by
twos, because a pin has one owner and one who takes it; bmp280 shares no pin. The bytes of
`sysfs_numbers` span what the converter can deliver and lie closely around zero degrees and at
room temperature; the calibration is the one of the data sheet (27504, 26435, -1000), and the
pressure is chosen, because the pressure formula is not modelled.

**Deadlock** is checked in the two runs of `SysfsNumbers`, which never stop. It is not checked
elsewhere: those systems really may stop (processes exit, a thread ends, a module is gone, a
handler hangs), and the liveness properties say when they may not. No run uses symmetry, which
would be unsound for liveness.

**Fairness.** Threads that are not blocked are scheduled (weak fairness per thread); the bmp280
timer is periodic and its worker runs; handlers run when their signal is pending; init reaps
orphans. Strongly fair are `mq_send` in `SensorPath`, because the kernel serves blocked senders in
turn; `hrtimer_cancel` and `free_irq`, because they retry until the callback pauses (a timer's
period is at least a millisecond with a legal speed); the steps of the SIGALRM handler, because a
futex that is released again and again is got; and a reconnection, because the properties are
about a broker that can be reached again and again. Nobody has to press a button, type, write,
end a shell, kill, start, load or unload anything; children need not end, the broker need not
accept, and processes need not live: the properties say what holds until they die.

## 4. Findings

1. `switch_double_press`: in SHORT and LONG, `wait_thread_fn` (`simple_switch.c:297`) reports
   TIMEOUT *before* 500 ms have passed. The README of the driver (line 44) says that a press
   within the limit leads to SHORT SHORT; it leads to the SHORT action and INIT. With a thread
   that is not held up for 500 ms no combined gesture exists at all, which is `OnlySingleGestures`;
   one that is held up longer stays in SHORT or LONG until the next press, which is why
   `PressIsClassified` excepts it.
2. `switch_short_short`: `act_short` fills the int beyond the eighth LED; a SHORT SHORT then moves
   a hidden bit into the eighth LED and nothing goes off, contrary to the README (line 158).
   Because of finding 1 it takes a thread held up for half a second to see it today; it becomes
   the normal case once line 297 is repaired.
3. `reading_logged`: the log line of `monitor_thread` names the temperature and the pressure, but
   what it prints went through `"%d.%d"` (`bmp280.c:182`) and `%f`: 20.05 degrees are logged as
   20.5, and -1.25 as -1 with a pressure of -25.

Observed while reading, without a run of their own:

* `dump_state.c:39` is an unterminated string literal, so the file does not compile as committed
  (the model takes the evident `"------\n"`); the top-level `Makefile` builds only the bmp280 and
  engine modules.
* The engine's interrupt handler logs "stopped motor!" before it looks at the button
  (`engine.c:269`): if the button bounced back it stops nothing. `HaltIsFinal` states what does
  hold.
* `mosq_message_callback` looks at the payload without asking for its length
  (`input_process.c:353`); libmosquitto hands out NULL for an empty one, and the input process ends
  (`MosqEmptyMessage`).
* `sscanf`'s result is not looked at (`input_process.c:449`): the first text, read while `strncpy`
  is at work, leaves `press` of line 406 uninitialised, and it is stored and announced.
* `kobj_error` of the bmp280 (`bmp280.c:321`) drops the kobject without the `kfree` that its exit
  function and the engine's ladder have.
* `show_engine_class` (`engine.c:192`) prints into five bytes: the legal speed 10000 reads as 1000.
* The comment on `watchdog_thread` (`system_process.c:363`) calls it the thread that collects the
  system information; it only installs the handler, which runs on other threads.

## 5. Proofs

Each module below extends the one it is about, names an inductive invariant `IInv` as a
conjunction of parts, and proves it from the actions one by one; the theorems follow from `IInv`.

| Theorem | Property | Holds for every |
|---|---|---|
| `SensorPathProofs`: `DoorbellIsHeard`, `NewsIsPublished`, `TearIsBounded` | `PipelineInv`, `AnnouncedIsPublished`, `StoredSkew` | queue capacity, number of measurements and dumps |
| `SensorPathProofs`: `PipelineRefines` | `ImplementsLatestValue` | the same |
| `SupervisorProofs`: `EndsAreExplained`, `SizesAreLostToCrashes`, `PairsAreConnected` | `SupervisorInv`, `UnsizedOnlyByCrash`, `PairIsConnected` | number of starts |
| `InputProofs`: `TableIsAccounted`, `ThreadsAreExplained` | `DescriptorsAccounted`, `InputInv`, in the composition with the camera | size of the descriptor table and of the queue, number of requests |
| `InputProofs`: `PromiseIsKept` | `KeepsPromise`, in the same composition | the same |
| `WatchdogProofs`: `HandlerIsSafe`, `ReportsAreWhole` | `WatchdogInv`, `ReportIsOwn` | number of signals, of handlers at a time, set of unreadable parts |
| `SwitchProofs`: `BarIsShown`, `NoCombinations` | `SwitchInv`, `OnlySingleGestures` | pair of limits, stall, width of `cur_led` above eight, number of writers |
| `SwitchProofs`: `LedsAreABar` | `ImplementsLedBar` | the same |
| `IoProofs`: `PatternsAreApart`, `WakeupsArrive`, `TurnsAreAskedFor` | `IoInv`, `NoLostWakeup`, `NoFreeTurn` | number of writers and of writes |
| `EngineProofs`: `LifeIsClean`, `HaltsAreFinal` | `EngineInv`, `HaltIsFinal` | (the model has no constants) |
| `DriverProofs`: `ResourcesAreAccounted`, `OnlyKnownLeaks`, `LosersTakePins` | `LoadInv`, `LeaksAreKnown`, `PinsAreLostToLosers` | set of drivers that are loaded together, all four included |
| `DriverProofs`: `UntamperedIsRight`, `ReadingsSurvive` | `NumbersInv`, `ReadingSurvives` | calibration of the sensor, bytes and errors of a read, pressure, text of a user, int that reaches a motor, content of memory behind it |
| `DriverProofs`: `NeverColder` | `WarmerIsNotColder` | calibration that meets `LinearTermDominates`, and the same |
| `DriverProofs`: `FailuresStandOut` | `FailedReadIsOutOfRange` | calibration that meets `NearDataSheet` and errors that meet `ErrorsOfLinux`, and the same |

They rest on the named assumptions of the modules (`SensorPathAssumption` and so on), which say
that bounds are natural numbers, that queues and tables have room for one entry, and for the
switch that the limit of SHORT is not above that of LIT and that `cur_led` is wider than the LEDs. In
`SysfsNumbers`, `ReadingAssumption` and `SpeedsAssumption` say that calibration words have 16
bits, that a byte or an error code is within one byte, and that numbers are ints.
TLC evaluates each of them in the run of its module. The last two theorems of the table have
hypotheses of their own, which are conditions on the sensor and not on the code; the sensor of the
run meets them (`SensorIsOrdinary` in `MCSysfsNumbers`).

**`SensorPathProofs`.** None of the properties but `DumpsAreAccounted` is inductive. The strengthening `IInv` follows a measurement downstream:
`DriverInv` says by how much the attribute trails the chip at each point of `wq_func`;
`SensorInv` that locals and shared memory trail the attribute, that they are equal unless a store
is under way, and that the pair in the locals is torn by one at most; `MonitorInv` that the
payload trails shared memory and that the announced reading is in shared memory before the
message is. One step per action (`Inductive`); the refinement maps `Measure` to `Measure`, a
successful `MonitorPublish` to `Show` and everything else to stuttering (`StepRefines`). TLC
checked `IInv` as an invariant before the proof.

`PipelineInv` is what `EveryMeasurementArrives` and `EveryDumpIsTaken` need besides fairness.
`NothingStranded` names, for a reading that lies in shared memory, who will fetch it: the sender
that has not rung yet, a message, the copy under way, or nobody because it is published. Each step
hands it on to the next (`RingsKept`); only the publication needs `IInv`, namely that a payload is
never older than what was published before it. `DumpsAreAccounted` counts the dumps in the queue,
which takes two lemmas about counting in a sequence: one appended is one more (`AppendedDump`), and
one received is one less (`ReceivedDump`, by a bijection between what remains before and after).

**`SupervisorProofs`.** `LifeInv` says that only the newest start has a living `main` and that it
has children only after its forks; `ReapInv` which of the two waits is behind `main` at each point
and that init reaps nothing while `main` lives; `SizeInv` that the name stands for an object
without a size only between `shm_open` and `ftruncate`; `PairInv` that the children of the newest
start find its queue and, if they map the name at all, the same object. `NoZombieForgotten` rests on the
types and on `LifeInv` (`ZombiesKept`): a signal is taken up by entering the handler, and the
handler does not leave its loop over a zombie. It is why `WaitsEnd` survives two children whose
ends are one pending signal.

**`InputProofs`.** `MosqInv` ties the MQTT thread to its session: a second session never reaches
the subscription. `ShellInv` says that while `command_sh` waits, only the handler can have taken
its shell. They, the table and the types are inductive for the input process alone, and one lemma
shows that each step of the composition is one of its steps or leaves it alone.

`PromiseIsKept` needs to know which request each picture belongs to, although commands that are no
requests share the queue. `PathInv` says it with indices: `OrderInv` counts the messages sent,
received and done with, so that the i-th message in the queue has the i-th number not yet received
(which is also what keeps them in order); `AskedInv` makes `asked` the increasing sequence of the
requests among the numbers typed; `TakenInv` says that the i-th request has its picture exactly if
its number is among those done with. A step of `camera_thread` is then the next picture of the
promise, a stuttering step if the message is no request, and a request typed is one asked for.
`NoRequestLost`, the safe half of `EveryRequestIsAnswered`, follows from the same indices: between
the messages done with and those typed there is no gap (`RequestsAreSomewhere`).

**`WatchdogProofs`.** `SetupInv`: the timer starts after the handler is installed, `main` holds no
lock, and a thread other than `main` is inside the handler only once handlers have overlapped.
`OwnSoFar`: until then every part before the handler's position was collected by its own run.
`NewestInv`: until then a collection with no signal pending behind it is the one for the newest
expiration, which is why a signal that is not counted twice still leads to a report
(`NewestIsCovered`, the safe half of `EverySignalIsServed`).

**`SwitchProofs`.** `TimeInv` counts one stall for each step since the look that reset the clock,
so that a thread that is not held up leaves SHORT and LONG at its next look, before the limit has
passed: the transitions to the combinations are dead code for it. `BarInv` is preserved because
both shifts make a bar of a bar, the one in the sign bit included. For the refinement, the bar in
view of `LedBar` is the bar of `cur_led` cut off at the eighth LED: a gesture that changes only
hidden bits is a stuttering step, which is also why finding 2 does not contradict it.

**`IoProofs`.** `LedInv` follows the two writes of a change (left group, then right) and the dark
LEDs from one pattern to the next. `NoLostWakeup` is inductive with the types. For `NoFreeTurn`,
`Spent` says where the flag may still hold the stop the last turn was made for; everywhere else
a stop in the flag is one that no turn has been made for (`TurnInv`).

**`EngineProofs`.** `LoadInv` says which timers exist at each point of the init function, `PairInv`
that a callback darkens one pair before it lights the other, `HaltInv` and `ExitInv` that the
interrupt handler and the exit function leave a quiet motor behind at each of their steps.

**`DriverProofs`: loading.** The invariant has one part per phase of a driver. One that is being
loaded holds what it tried to get except for what it missed (`HoldsWhatItTried`); one that fails or
is removed has still to release all it holds except for what it is known to forget, and releases
nothing twice and nothing before what uses it (`ReleasesWhatItHolds`); one that is out has no pin
and only its known leaks (`IsOut`). Pins are counted by their owner, so that another driver's
release appears in `missing`. Between the phases stand lemmas about the tables of the source: for
each driver and each step of its init function, the label that step jumps to releases exactly what
was got before it (`BmpLadders` to `SwitchLadders`), and the exit function what init got
(`ExitLists`). The error ladders, which the run executes for two pin drivers at a time, are thereby
shown right, up to the leaks listed, for all of them at once.

**`DriverProofs`: numbers.** `ReadingsInv` says that a text that is not half copied is what the last
measurement printed unless a user wrote it (`TextIsPrinted`), and that the thread, once it has read
that, has exactly `ReadOf` of it (`MeasurementWasRead`). `SetStaysSet` says that every word of an
attribute nobody has written, half copied or not, makes a number far from `Unset`, and that so are
the locals from the first whole text on: a word that is read sets a local, and one that is missing
leaves it as it was.
`PartIsSigned` and `NumberIsClose` are what `"%d.%d"` and `%f` do to a number. That no reading is
mistaken for an uninitialised local needs a bound on the temperature formula: `TemperatureBounds`
follows the 32-bit products through their shifts and shows less than 500 degrees for every
calibration, wrapped or not. `SpeedsInv` says that the speeds are ints, and legal where no sysfs
writer has set them; `DigitsFit` that the first digits of a number that fit into the buffer make a
number below the limit, so that five bytes show an int.

**`DriverProofs`: what the formula is good for.** The two theorems about the temperature formula
ask something of the calibration, because neither holds for all: with some words the products
leave 32 bits, and with some a failed read comes out as a temperature. `LinearTermDominates` bounds
the three words so that no product of a delivered value wraps (`FittingIsKept`). Every shift rounds
down to a multiple (`ShiftedIsFloor`), and with that the linear term rises by at least 12 for each
step of `raw / 8` (`LinearRises`), while the quadratic one falls by at most 11 for each step of
`raw / 16` (`SquareIsSlow`); so their sum never falls (`FormulaIsMonotone`). A failed read delivers
a number from -544768 to -1 (`FailedBounds`), wherever in the three bytes the error code was; for a
sensor as in `NearDataSheet` the linear term is then so far below zero, or once it wraps so far
above, that the quadratic one, wrapped or not, cannot bring the sum back into what the sensor
measures (`FailedLinear`, `FailedTerm`, `FailureStandsOut`).

Only model-checked: liveness, which depends on fairness and `ENABLED` and is out of the prover's
reach. Every invariant, action property and refinement of the passing runs is stated by a theorem;
`NeverColder` and `FailuresStandOut` under the conditions above, the others without any but the
named assumptions.

## 6. Not modelled, and why

* The 64-bit pressure formula of `read_pressure`: its intermediate products leave the integers of
  the model checker. It also computes `1 << 47` on an int, which is undefined. Its result is
  chosen from a set.
* Formatting of the system information, of the dump and of its JSON; the values read from /proc
  other than the speeds; the ELF header that `elf` prints (its descriptor is modelled):
  sequential I/O without state that outlives the call.
* The device files of the drivers where they only print or read; commands that only print
  (`mincore`, `mu`).
* `open` and `dump` of the vendor's modules, `posix_sleep_ms` and `get_directory_size`: called
  by nobody.
* The disk thread, which prints a line and ends; build files, scripts and the vendored headers of
  libmosquitto, which have no behaviour of the running system.
* A broker that comes back for the *system* process: its code never looks at the session again
  (`system_process.c:389`), so nothing that could be checked against follows it.

## 7. Plan

Every invariant and every refinement that the passing runs check is proved. What is left, in order
of worth:

1. The parts of the liveness properties that are safety, for the properties where no invariant
   states them yet (`PromptReturns`, `SessionComesBack`, `PressIsClassified`, `HeldPressStops`,
   `ExitEnds` and the two named `StopIsServed`): what each waiting step needs is never taken away
   once it is there.
2. The pressure formula of `read_pressure`, once its products can be evaluated.
3. Weaker conditions on the calibration than `NearDataSheet`.
