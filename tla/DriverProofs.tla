--------------------------- MODULE DriverProofs -----------------------------
(***************************************************************************)
(* Proofs about what the drivers have in common: loading and unloading,    *)
(* for all the sets of drivers that are loaded together, the four of them  *)
(* at once included; and the numbers that pass through their sysfs files,  *)
(* for every calibration of the sensor and every speed.                    *)
(***************************************************************************)
EXTENDS DriverLoad, SysfsNumbers, Functions, SequenceTheorems, TLAPS

\* The steps that remain, and those of init that were tried.
Left(d) == Range(todo[d])
Tried(d) == Range(Inits[d]) \ Left(d)

\* s is what remains of t after some of its steps.
IsSuffix(s, t) == \E k \in 1 .. Len(t) + 1 : s = SubSeq(t, k, Len(t))

\* What nobody releases: no steps of an error path or of an exit function.
Unreleased == {"adapter", "put", "chip", "sysfs", "thread"}

\* The variables keep their types, todo as sequences.
TypeInv == TypeOK /\ todo \in [Drivers -> Seq(Resources)]

\* A driver that is being loaded, or is in, holds what it tried to get, except
\* for what it missed and the adapter it has put; it has the pins it tried to
\* get, except for those it missed.
HoldsWhatItTried(d) ==
    /\ IsSuffix(todo[d], Inits[d])
    /\ phase[d] = "in" => todo[d] = <<>>
    /\ held[d] \subseteq Tried(d)
    /\ "put" \in Tried(d) => "adapter" \notin held[d]
    /\ Tried(d) \ (Pins \cup Unreleased) \subseteq held[d] \cup missing[d]
    /\ missing[d] \cap {"cdev", "thread"} = {}
    /\ \A u \in Pins :
           /\ owner[u] = d => u \in Tried(d)
           /\ u \in Tried(d) => owner[u] = d \/ u \in missing[d]

\* A list of releases comes to everything once, and to nothing before it has
\* come to what uses it.
UsersFirst(d, s) ==
    \A i, j \in 1 .. Len(s) : s[j] \in Uses(d, s[i]) => i < j
IsRelease(d, s) ==
    IsInjective(s) /\ Range(s) \cap Unreleased = {} /\ UsersFirst(d, s)

\* A driver that releases will have released all it holds, but for what it is
\* known to forget, and has got what it releases, but for what it missed.
ReleasesWhatItHolds(d) ==
    /\ IsRelease(d, todo[d])
    /\ held[d] \subseteq Leaks(d) \cup Left(d)
           \cup (IF "kobject" \in Left(d) THEN {"sysfs"} ELSE {})
    /\ Left(d) \ Pins \subseteq held[d] \cup missing[d]
    /\ \A u \in Pins :
           /\ owner[u] = d => u \in Left(d)
           /\ u \in Left(d) => owner[u] = d \/ u \in missing[d]

\* A driver that is out has no pins, and forgets what it is known to forget.
IsOut(d) ==
    /\ held[d] \subseteq Leaks(d)
    /\ \A u \in Pins : owner[u] # d

\* What a driver holds in each phase.
DriverInv(d) ==
    /\ bogus[d] \subseteq missing[d]
    /\ \A r \in held[d] : Uses(d, r) \ missing[d] \subseteq held[d]
    /\ phase[d] \in {"loading", "in"} => HoldsWhatItTried(d)
    /\ phase[d] \in {"failing", "leaving"} => ReleasesWhatItHolds(d)
    /\ phase[d] = "out" => IsOut(d)

IInv == TypeInv /\ \A d \in Drivers : DriverInv(d)

-----------------------------------------------------------------------------
(* The tables of the source *)

\* The steps of init before the k-th.
Before(d, k) == {Inits[d][i] : i \in 1 .. k - 1}

\* The list s of releases is right for a driver that has tried some steps and
\* missed others, up to what it leaks.
Undoes(d, tried, missed, s, leaks) ==
    /\ s \in Seq(Resources) /\ IsRelease(d, s)
    /\ Range(s) \ Pins \subseteq tried \cup missed
    /\ Range(s) \cap Pins = tried \cap Pins
    /\ tried \ (Pins \cup Unreleased \cup leaks) \subseteq Range(s)
    /\ "sysfs" \in tried => "kobject" \in Range(s)
    /\ "adapter" \in tried => "adapter" \in leaks \/ "put" \in tried
    /\ "thread" \in tried => "thread" \in leaks

\* An error path of bmp280 undoes the steps before its failure.
LEMMA BmpLadders ==
    ASSUME NEW k \in 1 .. Len(BmpInit), BmpInit[k] \in DOMAIN BmpErrors,
           BmpInit[k] \in missing'["bmp280"]
    PROVE  Undoes("bmp280", Before("bmp280", k), {BmpInit[k]},
                  BmpErrors[BmpInit[k]], Leaks("bmp280")')
<1>1. \/ k = 1 /\ BmpInit[k] = "region"
      \/ k = 2 /\ BmpInit[k] = "class"
      \/ k = 3 /\ BmpInit[k] = "device"
      \/ k = 4 /\ BmpInit[k] = "cdev"
      \/ k = 7 /\ BmpInit[k] = "i2cDriver"
      \/ k = 12 /\ BmpInit[k] = "sysfs"
  BY DEF BmpInit, BmpErrors
<1>2. /\ Before("bmp280", 1) = {}
      /\ Before("bmp280", 2) = {"region"}
      /\ Before("bmp280", 3) = {"region", "class"}
      /\ Before("bmp280", 4) = {"region", "class", "device"}
      /\ Before("bmp280", 7) = {"region", "class", "device", "cdev",
                                "adapter", "client"}
      /\ Before("bmp280", 12) = {"region", "class", "device", "cdev",
                                 "adapter", "client", "i2cDriver", "put",
                                 "chip", "memory", "kobject"}
  BY DEF Before, Inits, BmpInit
<1>3. /\ DOMAIN BmpErrors = {"region", "class", "device", "cdev",
                             "i2cDriver", "sysfs"}
      /\ Range(BmpErrors["region"]) = {}
      /\ Range(BmpErrors["class"]) = {"region"}
      /\ Range(BmpErrors["device"]) = {"region"}
      /\ Range(BmpErrors["cdev"]) = {"device", "class", "region"}
      /\ Range(BmpErrors["i2cDriver"]) = {"cdev", "device", "class",
                                          "region"}
      /\ Range(BmpErrors["sysfs"]) = {"client", "i2cDriver", "kobject",
                                      "cdev", "device", "class", "region"}
  BY DEF Range, BmpErrors
<1>4. /\ BmpErrors["region"] \in Seq(Resources)
      /\ BmpErrors["class"] \in Seq(Resources)
      /\ BmpErrors["device"] \in Seq(Resources)
      /\ BmpErrors["cdev"] \in Seq(Resources)
      /\ BmpErrors["i2cDriver"] \in Seq(Resources)
      /\ BmpErrors["sysfs"] \in Seq(Resources)
  BY DEF BmpErrors, Resources, Pins
<1>5. \A r \in DOMAIN BmpErrors : IsRelease("bmp280", BmpErrors[r])
  <2>1. \A r \in DOMAIN BmpErrors :
            /\ IsInjective(BmpErrors[r])
            /\ Range(BmpErrors[r]) \cap Unreleased = {}
    BY <1>3 DEF BmpErrors, IsInjective, Unreleased
  <2>2. \A r \in DOMAIN BmpErrors :
            Range(BmpErrors[r]) \cap {"timer", "wq", "memory"} = {}
    BY <1>3
  <2>3. \A q : \A x \in Uses("bmp280", q) : q \in {"timer", "wq"} \/ x = "memory"
    BY DEF Uses
  <2>4. ASSUME NEW r \in DOMAIN BmpErrors
        PROVE  UsersFirst("bmp280", BmpErrors[r])
    <3>1. \A n \in 1 .. Len(BmpErrors[r]) :
              BmpErrors[r][n] \in Range(BmpErrors[r])
      BY <1>3, <1>4 DEF Range
    <3> QED
      BY <2>2, <2>3, <3>1 DEF UsersFirst
  <2> QED
    BY <2>1, <2>4 DEF IsRelease
<1> USE DEF Undoes, Pins, Unreleased, Leaks
<1>6. CASE BmpInit[k] = "region"
  BY <1>1, <1>2, <1>3, <1>4, <1>5, <1>6
<1>7. CASE BmpInit[k] = "class"
  BY <1>1, <1>2, <1>3, <1>4, <1>5, <1>7
<1>8. CASE BmpInit[k] = "device"
  BY <1>1, <1>2, <1>3, <1>4, <1>5, <1>8
<1>9. CASE BmpInit[k] = "cdev"
  BY <1>1, <1>2, <1>3, <1>4, <1>5, <1>9
<1>10. CASE BmpInit[k] = "i2cDriver"
  BY <1>1, <1>2, <1>3, <1>4, <1>5, <1>10
<1>11. CASE BmpInit[k] = "sysfs"
  BY <1>1, <1>2, <1>3, <1>4, <1>5, <1>11
<1> QED
  BY <1>1, <1>6, <1>7, <1>8, <1>9, <1>10, <1>11

\* An error path of engine undoes the steps before its failure.
LEMMA EngineLadders ==
    ASSUME NEW k \in 1 .. Len(EngineInit),
           EngineInit[k] \in DOMAIN EngineErrors,
           EngineInit[k] \in missing'["engine"]
    PROVE  Undoes("engine", Before("engine", k), {EngineInit[k]},
                  EngineErrors[EngineInit[k]], Leaks("engine")')
<1>1. \/ k = 1 /\ EngineInit[k] = "region"
      \/ k = 2 /\ EngineInit[k] = "class"
      \/ k = 3 /\ EngineInit[k] = "device"
      \/ k = 4 /\ EngineInit[k] = "cdev"
      \/ k = 5 /\ EngineInit[k] = "memory"
      \/ k = 7 /\ EngineInit[k] = "sysfs"
      \/ k = 10 /\ EngineInit[k] = "irq"
  BY DEF EngineInit, EngineErrors
<1>2. /\ Before("engine", 1) = {}
      /\ Before("engine", 2) = {"region"}
      /\ Before("engine", 3) = {"region", "class"}
      /\ Before("engine", 4) = {"region", "class", "device"}
      /\ Before("engine", 5) = {"region", "class", "device", "cdev"}
      /\ Before("engine", 7) = {"region", "class", "device", "cdev",
                                "memory", "kobject"}
      /\ Before("engine", 10) = {"region", "class", "device", "cdev",
                                 "memory", "kobject", "sysfs", "leds",
                                 "button"}
  BY DEF Before, Inits, EngineInit
<1>3. /\ DOMAIN EngineErrors = {"region", "class", "device", "cdev",
                                "memory", "sysfs", "irq"}
      /\ Range(EngineErrors["region"]) = {}
      /\ Range(EngineErrors["class"]) = {"region"}
      /\ Range(EngineErrors["device"]) = {"class", "region"}
      /\ Range(EngineErrors["cdev"]) = {"device", "class", "region"}
      /\ Range(EngineErrors["memory"]) = {"device", "class", "region"}
      /\ Range(EngineErrors["sysfs"]) = {"kobject", "memory", "device",
                                         "class", "region"}
      /\ Range(EngineErrors["irq"]) = {"leds", "button", "irq", "kobject",
                                       "memory", "device", "class",
                                       "region"}
  BY DEF Range, EngineErrors
<1>4. /\ EngineErrors["region"] \in Seq(Resources)
      /\ EngineErrors["class"] \in Seq(Resources)
      /\ EngineErrors["device"] \in Seq(Resources)
      /\ EngineErrors["cdev"] \in Seq(Resources)
      /\ EngineErrors["memory"] \in Seq(Resources)
      /\ EngineErrors["sysfs"] \in Seq(Resources)
      /\ EngineErrors["irq"] \in Seq(Resources)
  BY DEF EngineErrors, Resources, Pins
<1>5. \A r \in DOMAIN EngineErrors : IsRelease("engine", EngineErrors[r])
  <2>1. /\ \A r \in DOMAIN EngineErrors :
               Range(EngineErrors[r]) \cap Unreleased = {}
        /\ \A r \in DOMAIN EngineErrors : IsInjective(EngineErrors[r])
    <3>1. \A r \in DOMAIN EngineErrors : IsInjective(EngineErrors[r])
      BY DEF EngineErrors, IsInjective
    <3> QED
      BY <1>3, <3>1 DEF Unreleased
  <2>2. \A r \in DOMAIN EngineErrors \ {"irq", "sysfs"} :
            Range(EngineErrors[r]) \cap {"irq", "timer", "kobject"} = {}
    BY <1>3
  <2>3. /\ UsersFirst("engine", EngineErrors["irq"])
        /\ UsersFirst("engine", EngineErrors["sysfs"])
    BY DEF EngineErrors, UsersFirst, Uses
  <2>4. ASSUME NEW r \in DOMAIN EngineErrors \ {"irq", "sysfs"}
        PROVE  UsersFirst("engine", EngineErrors[r])
    <3>1. \A n \in 1 .. Len(EngineErrors[r]) :
              EngineErrors[r][n] \in Range(EngineErrors[r])
      BY <1>3, <1>4 DEF Range
    <3>2. \A q : Uses("engine", q) # {} => q \in {"irq", "timer", "kobject"}
      BY DEF Uses
    <3> QED
      BY <2>2, <3>1, <3>2 DEF UsersFirst
  <2> QED
    BY <2>1, <2>3, <2>4 DEF IsRelease
<1> USE DEF Undoes, Pins, Unreleased, Leaks
<1>6. CASE EngineInit[k] = "region"
  BY <1>1, <1>2, <1>3, <1>4, <1>5, <1>6
<1>7. CASE EngineInit[k] = "class"
  BY <1>1, <1>2, <1>3, <1>4, <1>5, <1>7
<1>8. CASE EngineInit[k] = "device"
  BY <1>1, <1>2, <1>3, <1>4, <1>5, <1>8
<1>9. CASE EngineInit[k] = "cdev"
  BY <1>1, <1>2, <1>3, <1>4, <1>5, <1>9
<1>10. CASE EngineInit[k] = "memory"
  BY <1>1, <1>2, <1>3, <1>4, <1>5, <1>10
<1>11. CASE EngineInit[k] = "sysfs"
  BY <1>1, <1>2, <1>3, <1>4, <1>5, <1>11
<1>12. CASE EngineInit[k] = "irq"
  BY <1>1, <1>2, <1>3, <1>4, <1>5, <1>12
<1> QED
  BY <1>1, <1>6, <1>7, <1>8, <1>9, <1>10, <1>11, <1>12

\* An error path of simple_io undoes the steps before its failure.
LEMMA IoLadders ==
    ASSUME NEW k \in 1 .. Len(IoInit), IoInit[k] \in DOMAIN IoErrors,
           IoInit[k] \in missing'["simple_io"]
    PROVE  Undoes("simple_io", Before("simple_io", k), {IoInit[k]},
                  IoErrors[IoInit[k]], Leaks("simple_io")')
<1>1. \/ k = 1 /\ IoInit[k] = "region"
      \/ k = 2 /\ IoInit[k] = "class"
      \/ k = 3 /\ IoInit[k] = "device"
      \/ k = 4 /\ IoInit[k] = "cdev"
      \/ k = 7 /\ IoInit[k] = "thread"
  BY DEF IoInit, IoErrors
<1>2. /\ Before("simple_io", 1) = {}
      /\ Before("simple_io", 2) = {"region"}
      /\ Before("simple_io", 3) = {"region", "class"}
      /\ Before("simple_io", 4) = {"region", "class", "device"}
      /\ Before("simple_io", 7) = {"region", "class", "device", "cdev",
                                   "leds", "button"}
  BY DEF Before, Inits, IoInit
<1>3. /\ DOMAIN IoErrors = {"region", "class", "device", "cdev", "thread"}
      /\ Range(IoErrors["region"]) = {}
      /\ Range(IoErrors["class"]) = {"class", "region"}
      /\ Range(IoErrors["device"]) = {"device", "class", "region"}
      /\ Range(IoErrors["cdev"]) = {"device", "class", "region"}
      /\ Range(IoErrors["thread"]) = {"leds", "button", "device", "class",
                                      "region"}
  BY DEF Range, IoErrors
<1>4. /\ IoErrors["region"] \in Seq(Resources)
      /\ IoErrors["class"] \in Seq(Resources)
      /\ IoErrors["device"] \in Seq(Resources)
      /\ IoErrors["cdev"] \in Seq(Resources)
      /\ IoErrors["thread"] \in Seq(Resources)
  BY DEF IoErrors, Resources, Pins
<1>5. \A r \in DOMAIN IoErrors : IsRelease("simple_io", IoErrors[r])
  <2>1. \A r \in DOMAIN IoErrors :
            /\ IsInjective(IoErrors[r])
            /\ Range(IoErrors[r]) \cap Unreleased = {}
    BY <1>3 DEF IoErrors, IsInjective, Unreleased
  <2>2. \A r \in DOMAIN IoErrors : "kobject" \notin Range(IoErrors[r])
    BY <1>3
  <2> QED
    BY <2>1, <2>2 DEF IsRelease, UsersFirst, Uses, Range
<1> USE DEF Undoes, Pins, Unreleased, Leaks
<1>6. CASE IoInit[k] = "region"
  BY <1>1, <1>2, <1>3, <1>4, <1>5, <1>6
<1>7. CASE IoInit[k] = "class"
  BY <1>1, <1>2, <1>3, <1>4, <1>5, <1>7
<1>8. CASE IoInit[k] = "device"
  BY <1>1, <1>2, <1>3, <1>4, <1>5, <1>8
<1>9. CASE IoInit[k] = "cdev"
  BY <1>1, <1>2, <1>3, <1>4, <1>5, <1>9
<1>10. CASE IoInit[k] = "thread"
  BY <1>1, <1>2, <1>3, <1>4, <1>5, <1>10
<1> QED
  BY <1>1, <1>6, <1>7, <1>8, <1>9, <1>10

\* An error path of simple_switch undoes the steps before its failure.
LEMMA SwitchLadders ==
    ASSUME NEW k \in 1 .. Len(SwitchInit),
           SwitchInit[k] \in DOMAIN SwitchErrors,
           SwitchInit[k] \in missing'["simple_switch"]
    PROVE  Undoes("simple_switch", Before("simple_switch", k), {SwitchInit[k]},
                  SwitchErrors[SwitchInit[k]], Leaks("simple_switch")')
<1>1. \/ k = 1 /\ SwitchInit[k] = "region"
      \/ k = 2 /\ SwitchInit[k] = "class"
      \/ k = 3 /\ SwitchInit[k] = "device"
      \/ k = 4 /\ SwitchInit[k] = "cdev"
      \/ k = 7 /\ SwitchInit[k] = "thread"
  BY DEF SwitchInit, SwitchErrors
<1>2. /\ Before("simple_switch", 1) = {}
      /\ Before("simple_switch", 2) = {"region"}
      /\ Before("simple_switch", 3) = {"region", "class"}
      /\ Before("simple_switch", 4) = {"region", "class", "device"}
      /\ Before("simple_switch", 7) = {"region", "class", "device", "cdev",
                                       "leds", "button"}
  BY DEF Before, Inits, SwitchInit
<1>3. /\ DOMAIN SwitchErrors = {"region", "class", "device", "cdev",
                                "thread"}
      /\ Range(SwitchErrors["region"]) = {}
      /\ Range(SwitchErrors["class"]) = {"region"}
      /\ Range(SwitchErrors["device"]) = {"class", "region"}
      /\ Range(SwitchErrors["cdev"]) = {"class", "region"}
      /\ Range(SwitchErrors["thread"]) = {"button", "leds", "class",
                                          "region"}
  BY DEF Range, SwitchErrors
<1>4. /\ SwitchErrors["region"] \in Seq(Resources)
      /\ SwitchErrors["class"] \in Seq(Resources)
      /\ SwitchErrors["device"] \in Seq(Resources)
      /\ SwitchErrors["cdev"] \in Seq(Resources)
      /\ SwitchErrors["thread"] \in Seq(Resources)
  BY DEF SwitchErrors, Resources, Pins
<1>5. \A r \in DOMAIN SwitchErrors : IsRelease("simple_switch", SwitchErrors[r])
  <2>1. \A r \in DOMAIN SwitchErrors :
            /\ IsInjective(SwitchErrors[r])
            /\ Range(SwitchErrors[r]) \cap Unreleased = {}
    BY <1>3 DEF SwitchErrors, IsInjective, Unreleased
  <2>2. \A r \in DOMAIN SwitchErrors : "kobject" \notin Range(SwitchErrors[r])
    BY <1>3
  <2> QED
    BY <2>1, <2>2 DEF IsRelease, UsersFirst, Uses, Range
<1> USE DEF Undoes, Pins, Unreleased, Leaks
<1>6. CASE SwitchInit[k] = "region"
  BY <1>1, <1>2, <1>3, <1>4, <1>5, <1>6
<1>7. CASE SwitchInit[k] = "class"
  BY <1>1, <1>2, <1>3, <1>4, <1>5, <1>7
<1>8. CASE SwitchInit[k] = "device"
  BY <1>1, <1>2, <1>3, <1>4, <1>5, <1>8
<1>9. CASE SwitchInit[k] = "cdev"
  BY <1>1, <1>2, <1>3, <1>4, <1>5, <1>9
<1>10. CASE SwitchInit[k] = "thread"
  BY <1>1, <1>2, <1>3, <1>4, <1>5, <1>10
<1> QED
  BY <1>1, <1>6, <1>7, <1>8, <1>9, <1>10

\* Every error path undoes the steps before the failure it is taken for.
LEMMA Ladders ==
    ASSUME NEW d \in Drivers, NEW k \in 1 .. Len(Inits[d]),
           Inits[d][k] \in DOMAIN OnError[d], Inits[d][k] \in missing'[d]
    PROVE  Undoes(d, Before(d, k), {Inits[d][k]}, OnError[d][Inits[d][k]],
                  Leaks(d)')
<1> USE DEF Inits, OnError, ErrorPaths
<1>1. CASE d = "bmp280"
  BY <1>1, BmpLadders
<1>2. CASE d = "engine"
  BY <1>2, EngineLadders
<1>3. CASE d = "simple_io"
  BY <1>3, IoLadders
<1>4. CASE d = "simple_switch"
  BY <1>4, SwitchLadders
<1> QED
  BY <1>1, <1>2, <1>3, <1>4 DEF Drivers

\* Every exit function undoes the whole of init.
LEMMA ExitLists ==
    ASSUME NEW d \in Drivers, missing[d] \cap {"cdev", "thread"} = {}
    PROVE  Undoes(d, Range(Inits[d]), {}, OnExit[d], Leaks(d))
<1> USE DEF Inits, OnExit, Exits
<1>1. CASE d = "bmp280"
  <2>1. BmpExit \in Seq(Resources) /\ IsRelease(d, BmpExit)
    <3>1. BmpExit \in Seq(Resources) /\ IsInjective(BmpExit)
      BY DEF BmpExit, Resources, Pins, IsInjective
    <3>2. Range(BmpExit) \cap Unreleased = {}
      BY DEF BmpExit, Range, Unreleased
    <3>3. UsersFirst(d, BmpExit)
      BY <1>1 DEF BmpExit, UsersFirst, Uses
    <3> QED
      BY <3>1, <3>2, <3>3 DEF IsRelease
  <2>2. /\ Range(BmpExit) = {"timer", "wq", "kobject", "memory", "client",
                             "i2cDriver", "cdev", "device", "class",
                             "region"}
        /\ Range(BmpInit) = Range(BmpExit)
               \cup {"adapter", "put", "chip", "sysfs"}
    BY DEF BmpExit, BmpInit, Range
  <2> QED
    BY <1>1, <2>1, <2>2 DEF Undoes, Pins, Unreleased
<1>2. CASE d = "engine"
  <2>1. EngineExit \in Seq(Resources) /\ IsRelease(d, EngineExit)
    <3>1. EngineExit \in Seq(Resources) /\ IsInjective(EngineExit)
      BY DEF EngineExit, Resources, Pins, IsInjective
    <3>2. Range(EngineExit) \cap Unreleased = {}
      BY DEF EngineExit, Range, Unreleased
    <3>3. UsersFirst(d, EngineExit)
      BY <1>2 DEF EngineExit, UsersFirst, Uses
    <3> QED
      BY <3>1, <3>2, <3>3 DEF IsRelease
  <2>2. /\ Range(EngineExit) = {"timer", "irq", "leds", "button", "kobject",
                                "memory", "device", "class", "region"}
        /\ Range(EngineInit) = Range(EngineExit) \cup {"cdev", "sysfs"}
    BY DEF EngineExit, EngineInit, Range
  <2> QED
    BY <1>2, <2>1, <2>2 DEF Undoes, Pins, Unreleased, Leaks
<1>3. ASSUME NEW s, s = IoExit, d \in {"simple_io", "simple_switch"}
      PROVE  Undoes(d, Range(IoInit), {}, s, Leaks(d))
  <2>1. s \in Seq(Resources) /\ IsRelease(d, s)
    <3>1. s \in Seq(Resources) /\ IsInjective(s)
      BY <1>3 DEF IoExit, Resources, Pins, IsInjective
    <3>2. Range(s) \cap Unreleased = {}
      BY <1>3 DEF IoExit, Range, Unreleased
    <3>3. "kobject" \notin Range(s)
      BY <1>3 DEF IoExit, Range
    <3> QED
      BY <1>3, <3>1, <3>2, <3>3 DEF IsRelease, UsersFirst, Uses, Range
  <2>2. /\ Range(s) = {"leds", "button", "cdev", "device", "class", "region"}
        /\ Range(IoInit) = Range(s) \cup {"thread"}
    BY <1>3 DEF IoExit, IoInit, Range
  <2> QED
    BY <1>3, <2>1, <2>2 DEF Undoes, Pins, Unreleased, Leaks
<1>4. SwitchInit = IoInit /\ SwitchExit = IoExit
  BY DEF SwitchInit, IoInit, SwitchExit, IoExit
<1> QED
  BY <1>1, <1>2, <1>3, <1>4 DEF Drivers

\* The init functions try each step once.
LEMMA InitTypes ==
    ASSUME NEW d \in Drivers
    PROVE  Inits[d] \in Seq(Resources) /\ IsInjective(Inits[d])
<1> USE DEF Inits, Resources, Pins, IsInjective
<1>1. CASE d = "bmp280"
  BY <1>1 DEF BmpInit
<1>2. CASE d = "engine"
  BY <1>2 DEF EngineInit
<1>3. CASE d = "simple_io"
  BY <1>3 DEF IoInit
<1>4. CASE d = "simple_switch"
  BY <1>4 DEF SwitchInit
<1> QED
  BY <1>1, <1>2, <1>3, <1>4 DEF Drivers

\* They take what is used before what uses it, and the adapter before they put
\* it.
LEMMA InitOrder ==
    ASSUME NEW d \in Drivers, NEW i \in 1 .. Len(Inits[d]),
           NEW j \in 1 .. Len(Inits[d])
    PROVE  /\ Inits[d][j] \in Uses(d, Inits[d][i]) => j < i
           /\ Inits[d][i] = "adapter" /\ Inits[d][j] = "put" => i < j
           /\ Uses(d, Inits[d][i]) \subseteq Range(Inits[d])
<1> USE DEF Inits
<1>1. CASE d = "bmp280"
  <2>1. {"wq", "client", "kobject", "memory"} \subseteq Range(BmpInit)
    BY DEF BmpInit, Range
  <2>2. Inits[d][j] \in Uses(d, Inits[d][i]) => j < i
    BY <1>1 DEF BmpInit, Uses
  <2>3. Inits[d][i] = "adapter" /\ Inits[d][j] = "put" => i < j
    BY <1>1 DEF BmpInit
  <2> QED
    BY <1>1, <2>1, <2>2, <2>3 DEF Uses
<1>2. CASE d = "engine"
  <2>1. {"kobject", "memory"} \subseteq Range(EngineInit)
    BY DEF EngineInit, Range
  <2>2. Inits[d][j] \in Uses(d, Inits[d][i]) => j < i
    BY <1>2 DEF EngineInit, Uses
  <2>3. Inits[d][i] # "adapter"
    BY <1>2 DEF EngineInit
  <2> QED
    BY <1>2, <2>1, <2>2, <2>3 DEF Uses
<1>3. CASE d \in {"simple_io", "simple_switch"}
  <2>1. Inits[d][i] # "adapter" /\ Inits[d][i] # "kobject"
    BY <1>3 DEF IoInit, SwitchInit
  <2> QED
    BY <1>3, <2>1 DEF Uses
<1> QED
  BY <1>1, <1>2, <1>3 DEF Drivers

-----------------------------------------------------------------------------
(* Lists of steps *)

\* A step is done, and does not remain.
LEMMA TailOfSteps ==
    ASSUME NEW S, NEW s \in Seq(S), s # <<>>, IsInjective(s)
    PROVE  /\ Tail(s) \in Seq(S) /\ IsInjective(Tail(s))
           /\ Head(s) \in Range(s) /\ Head(s) = s[1]
           /\ Range(Tail(s)) = Range(s) \ {Head(s)}
           /\ Len(Tail(s)) \in Nat /\ Len(s) = Len(Tail(s)) + 1
           /\ \A i \in 1 .. Len(Tail(s)) : Tail(s)[i] = s[i + 1]
<1>1. /\ Tail(s) \in Seq(S) /\ Len(Tail(s)) = Len(s) - 1
      /\ Len(s) \in Nat \ {0} /\ Head(s) = s[1]
      /\ \A i \in 1 .. Len(Tail(s)) : Tail(s)[i] = s[i + 1]
  BY HeadTailProperties, EmptySeq
<1>2. DOMAIN s = 1 .. Len(s) /\ DOMAIN Tail(s) = 1 .. Len(Tail(s))
  BY <1>1
<1>3. IsInjective(Tail(s))
  BY <1>1, <1>2 DEF IsInjective
<1>4. Head(s) \in Range(s)
  BY <1>1, <1>2 DEF Range
<1>5. Range(Tail(s)) \subseteq Range(s) \ {Head(s)}
  BY <1>1, <1>2 DEF Range, IsInjective
<1>6. ASSUME NEW x \in Range(s), x # Head(s)
      PROVE  x \in Range(Tail(s))
  <2>1. PICK i \in 1 .. Len(s) : s[i] = x
    BY <1>2 DEF Range
  <2>2. i - 1 \in 1 .. Len(Tail(s)) /\ Tail(s)[i - 1] = x
    BY <1>1, <1>6, <2>1
  <2> QED
    BY <1>2, <2>2 DEF Range
<1> QED
  BY <1>1, <1>3, <1>4, <1>5, <1>6

\* What remains of init when the k-th step is next.
LEMMA SuffixSteps ==
    ASSUME NEW S, NEW t \in Seq(S), IsInjective(t),
           NEW k \in 1 .. Len(t) + 1, NEW s, s = SubSeq(t, k, Len(t))
    PROVE  /\ s \in Seq(S) /\ IsInjective(s)
           /\ Len(s) = Len(t) - k + 1
           /\ \A i \in 1 .. Len(t) : t[i] \in Range(s) <=> k <= i
<1>1. /\ s \in Seq(S)
      /\ Len(t) \in Nat
      /\ Len(s) = Len(t) - k + 1
      /\ \A i \in 1 .. Len(t) - k + 1 : s[i] = t[k + i - 1]
  <2>1. Len(t) \in Nat /\ k \in Nat \ {0}
    OBVIOUS
  <2>2. \A i \in k .. Len(t) : t[i] \in S
    BY <2>1
  <2> QED
    BY <2>1, <2>2, SubSeqProperties
<1>2. DOMAIN s = 1 .. Len(s) /\ DOMAIN t = 1 .. Len(t)
  BY <1>1
<1>3. IsInjective(s)
  BY <1>1, <1>2 DEF IsInjective
<1>4. ASSUME NEW i \in 1 .. Len(t)
      PROVE  t[i] \in Range(s) <=> k <= i
  <2>1. ASSUME k <= i
        PROVE  t[i] \in Range(s)
    <3>1. i - k + 1 \in 1 .. Len(s) /\ s[i - k + 1] = t[i]
      BY <1>1, <2>1
    <3> QED
      BY <1>2, <3>1 DEF Range
  <2>2. ASSUME t[i] \in Range(s)
        PROVE  k <= i
    <3>1. PICK j \in 1 .. Len(s) : s[j] = t[i]
      BY <1>2, <2>2 DEF Range
    <3>2. k + j - 1 \in 1 .. Len(t) /\ t[k + j - 1] = t[i]
      BY <1>1, <3>1
    <3>3. k + j - 1 = i
      BY <1>2, <3>2 DEF IsInjective
    <3> QED
      BY <1>1, <3>1, <3>3
  <2> QED
    BY <2>1, <2>2
<1> QED
  BY <1>1, <1>3, <1>4

\* While something remains of init, its next step is the one after those it
\* tried.
LEMMA NextStep ==
    ASSUME TypeInv, NEW d \in Drivers, IsSuffix(todo[d], Inits[d]),
           todo[d] # <<>>
    PROVE  /\ \E k \in 1 .. Len(Inits[d]) :
                  /\ Head(todo[d]) = Inits[d][k]
                  /\ Tried(d) = Before(d, k)
           /\ Head(todo[d]) \in Resources /\ Head(todo[d]) \notin Tried(d)
           /\ Tail(todo[d]) \in Seq(Resources)
           /\ IsSuffix(Tail(todo[d]), Inits[d])
           /\ Range(Inits[d]) \ Range(Tail(todo[d]))
                  = Tried(d) \cup {Head(todo[d])}
<1> DEFINE t == Inits[d]
           s == todo[d]
<1> HIDE DEF t, s
<1>1. t \in Seq(Resources) /\ IsInjective(t) /\ Len(t) \in Nat
  BY InitTypes DEF t
<1>2. PICK k \in 1 .. Len(t) + 1 : s = SubSeq(t, k, Len(t))
  BY DEF IsSuffix, t, s
<1>3. /\ s \in Seq(Resources) /\ IsInjective(s)
      /\ Len(s) = Len(t) - k + 1
      /\ \A i \in 1 .. Len(t) : t[i] \in Range(s) <=> k <= i
  BY <1>1, <1>2, SuffixSteps
<1>4. k \in 1 .. Len(t)
  BY <1>1, <1>2, SubSeqEmpty DEF s
<1>5. Head(s) = t[k] /\ Tail(s) = SubSeq(t, k + 1, Len(t))
  BY <1>1, <1>2, <1>4, HeadTailOfSubSeq
<1>6. IsSuffix(Tail(s), t)
  <2>1. k + 1 \in 1 .. Len(t) + 1
    BY <1>1, <1>4
  <2> QED
    BY <1>5, <2>1 DEF IsSuffix
<1>7. DOMAIN t = 1 .. Len(t) /\ Range(t) = {t[i] : i \in 1 .. Len(t)}
  BY <1>1 DEF Range
<1>8. Range(t) \ Range(s) = {t[i] : i \in 1 .. k - 1}
  BY <1>1, <1>3, <1>4, <1>7
<1>9. /\ Tail(s) \in Seq(Resources) /\ Head(s) \in Range(s)
      /\ Range(Tail(s)) = Range(s) \ {Head(s)}
  BY <1>3, TailOfSteps DEF s
<1>10. t[k] \in Range(t) /\ t[k] \in Resources
  BY <1>1, <1>4, <1>7
<1> QED
  BY <1>4, <1>5, <1>6, <1>8, <1>9, <1>10 DEF Tried, Left, Before, t, s

-----------------------------------------------------------------------------
(* The steps of a driver *)

\* What a driver does to another one: it may take a pin nobody has, or free a
\* pin of the other, which then misses it.
Undisturbed(d) ==
    /\ phase'[d] = phase[d] /\ todo'[d] = todo[d]
    /\ held'[d] = held[d] /\ bogus'[d] = bogus[d]
    /\ missing[d] \subseteq missing'[d]
    /\ missing'[d] \subseteq missing[d] \cup Pins
    /\ \A u \in Pins :
           /\ owner'[u] = d => owner[u] = d
           /\ owner[u] = d => owner'[u] = d \/ u \in missing'[d]

\* The leaks of a driver do not depend on its pins.
LEMMA LeaksKept ==
    ASSUME NEW d \in Drivers, missing[d] \subseteq missing'[d],
           missing'[d] \subseteq missing[d] \cup Pins
    PROVE  Leaks(d)' = Leaks(d)
BY DEF Leaks, Pins

\* Whatever another driver does, a driver holds what it should.
LEMMA OthersKept ==
    ASSUME NEW d \in Drivers, DriverInv(d), Undisturbed(d)
    PROVE  DriverInv(d)'
<1> USE DEF Undisturbed
<1>1. Left(d)' = Left(d) /\ Tried(d)' = Tried(d) /\ Leaks(d)' = Leaks(d)
  BY LeaksKept DEF Left, Tried
<1>2. HoldsWhatItTried(d) => HoldsWhatItTried(d)'
  BY <1>1 DEF HoldsWhatItTried, Pins
<1>3. ReleasesWhatItHolds(d) => ReleasesWhatItHolds(d)'
  BY <1>1 DEF ReleasesWhatItHolds
<1>4. IsOut(d) => IsOut(d)'
  BY <1>1 DEF IsOut
<1> QED
  BY <1>2, <1>3, <1>4 DEF DriverInv

\* A driver that holds what it tried has what it uses.
LEMMA UsedWhileIn ==
    ASSUME NEW d \in Drivers, NEW s, IsSuffix(s, Inits[d]),
           NEW h, h \subseteq Range(Inits[d]) \ Range(s), NEW m,
           (Range(Inits[d]) \ Range(s)) \ (Pins \cup Unreleased)
               \subseteq h \cup m
    PROVE  \A r \in h : Uses(d, r) \ m \subseteq h
<1> DEFINE t == Inits[d]
<1> HIDE DEF t
<1>1. t \in Seq(Resources) /\ IsInjective(t) /\ Len(t) \in Nat
  BY InitTypes DEF t
<1>2. PICK k \in 1 .. Len(t) + 1 : s = SubSeq(t, k, Len(t))
  BY DEF IsSuffix, t
<1>3. \A i \in 1 .. Len(t) : t[i] \in Range(s) <=> k <= i
  BY <1>1, <1>2, SuffixSteps
<1>4. Range(t) = {t[i] : i \in 1 .. Len(t)}
  BY <1>1 DEF Range
<1>5. ASSUME NEW r \in h, NEW x \in Uses(d, r)
      PROVE  x \in Range(t) \ Range(s)
  <2>1. PICK i \in 1 .. Len(t) : r = t[i]
    BY <1>4 DEF t
  <2>2. i < k
    BY <1>1, <1>3, <2>1
  <2>3. PICK j \in 1 .. Len(t) : x = t[j]
    BY <1>4, <1>5, <2>1, InitOrder DEF t
  <2>4. j < i
    BY <1>5, <2>1, <2>3, InitOrder DEF t
  <2> QED
    BY <1>1, <1>3, <1>4, <2>2, <2>3, <2>4
<1>6. \A r \in h : Uses(d, r) \cap (Pins \cup Unreleased) = {}
  BY DEF Uses, Pins, Unreleased
<1> QED
  BY <1>5, <1>6 DEF t

\* What a driver may do.
Step(d) ==
    \/ Insmod(d) \/ Loaded(d) \/ Rmmod(d) \/ FreeOther(d) \/ Out(d)
    \/ ThreadEnds(d)
    \/ \E u \in Pins : TakePin(d, u) \/ FreePin(d, u)
    \/ \E r \in Resources :
           TakeOther(d, r) \/ Notice(d, r) \/ Overlook(d, r) \/ Oopses(d, r)

\* A step keeps the types.
LEMMA TypeKept ==
    ASSUME IInv, NEW d \in Drivers, Step(d), UNCHANGED machine
    PROVE  TypeInv'
<1>1. TypeInv /\ DriverInv(d)
  BY DEF IInv
<1> USE DEF TypeInv, TypeOK
<1>2. Inits[d] \in Seq(Resources)
  BY InitTypes
<1>3. ASSUME Advance(d), todo[d] # <<>>
      PROVE  todo' \in [Drivers -> Seq(Resources)]
  <2>1. Tail(todo[d]) \in Seq(Resources)
    BY <1>1, <1>3
  <2> QED
    BY <1>1, <1>3, <2>1 DEF Advance
<1>4. CASE Insmod(d)
  BY <1>1, <1>2, <1>4 DEF Insmod
<1>5. CASE Loaded(d) \/ Out(d) \/ ThreadEnds(d)
  BY <1>1, <1>5 DEF Loaded, Out, ThreadEnds
<1>6. CASE Rmmod(d)
  <2>1. HoldsWhatItTried(d)
    BY <1>1, <1>6 DEF Rmmod, DriverInv
  <2>2. OnExit[d] \in Seq(Resources)
    BY <2>1, ExitLists DEF HoldsWhatItTried, Undoes
  <2> QED
    BY <1>1, <1>6, <2>2 DEF Rmmod
<1>7. CASE FreeOther(d)
  <2>1. todo' \in [Drivers -> Seq(Resources)] /\ Head(todo[d]) \in Resources
    BY <1>1, <1>3, <1>7 DEF FreeOther, Releasing
  <2>2. /\ held' \in [Drivers ->
                       SUBSET (Resources \ (Pins \cup {"put", "chip"}))]
        /\ bogus' \in [Drivers -> SUBSET Resources]
    BY <1>1, <1>7, <2>1 DEF FreeOther
  <2> QED
    BY <1>1, <1>7, <2>1, <2>2 DEF FreeOther
<1>8. ASSUME NEW u \in Pins, TakePin(d, u)
      PROVE  TypeInv'
  BY <1>1, <1>3, <1>8 DEF TakePin, AtStep
<1>9. ASSUME NEW u \in Pins, FreePin(d, u)
      PROVE  TypeInv'
  <2>1. missing' \in [Drivers -> SUBSET Resources]
    BY <1>1, <1>9 DEF FreePin, Resources
  <2> QED
    BY <1>1, <1>3, <1>9, <2>1 DEF FreePin, Releasing
<1>10. ASSUME NEW r \in Resources, TakeOther(d, r)
       PROVE  TypeInv'
  <2>1. held' \in [Drivers ->
                      SUBSET (Resources \ (Pins \cup {"put", "chip"}))]
    BY <1>1, <1>10 DEF TakeOther, WithStep
  <2> QED
    BY <1>1, <1>3, <1>10, <2>1 DEF TakeOther, AtStep
<1>11. ASSUME NEW r \in Resources, Notice(d, r)
       PROVE  TypeInv'
  <2>1. r \in missing'[d] /\ HoldsWhatItTried(d)
    BY <1>1, <1>11 DEF Notice, AtStep, DriverInv
  <2>2. PICK k \in 1 .. Len(Inits[d]) : r = Inits[d][k]
    BY <1>1, <1>11, <2>1, NextStep DEF Notice, AtStep, HoldsWhatItTried
  <2>3. OnError[d][r] \in Seq(Resources)
    BY <1>11, <2>1, <2>2, Ladders DEF Notice, Undoes
  <2> QED
    BY <1>1, <1>11, <2>3 DEF Notice
<1>12. ASSUME NEW r \in Resources, Overlook(d, r) \/ Oopses(d, r)
       PROVE  TypeInv'
  <2>1. CASE Overlook(d, r)
    BY <1>1, <1>3, <2>1 DEF Overlook, AtStep
  <2>2. CASE Oopses(d, r)
    BY <1>1, <2>2 DEF Oopses
  <2> QED
    BY <1>12, <2>1, <2>2
<1> QED
  BY <1>4, <1>5, <1>6, <1>7, <1>8, <1>9, <1>10, <1>11, <1>12 DEF Step

\* It leaves the other drivers what they have, but for a pin.
LEMMA OthersUndisturbed ==
    ASSUME IInv, NEW d \in Drivers, Step(d), NEW e \in Drivers \ {d}
    PROVE  Undisturbed(e)
<1>1. TypeInv
  BY DEF IInv
<1> USE DEF TypeInv, TypeOK, Undisturbed, Advance
<1>2. CASE Insmod(d) \/ Loaded(d) \/ Rmmod(d) \/ Out(d) \/ ThreadEnds(d)
  BY <1>1, <1>2 DEF Insmod, Loaded, Rmmod, Out, ThreadEnds
<1>3. CASE FreeOther(d)
  BY <1>1, <1>3 DEF FreeOther
<1>4. ASSUME NEW u \in Pins, TakePin(d, u)
      PROVE  Undisturbed(e)
  BY <1>1, <1>4 DEF TakePin, Requests, Drivers
<1>5. ASSUME NEW u \in Pins, FreePin(d, u)
      PROVE  Undisturbed(e)
  <2>1. /\ missing'[e] = IF owner[u] = e THEN missing[e] \cup {u}
                         ELSE missing[e]
        /\ \A p \in Pins : owner'[p] = IF p = u THEN "none" ELSE owner[p]
    BY <1>1, <1>5 DEF FreePin
  <2>2. /\ phase'[e] = phase[e] /\ todo'[e] = todo[e]
        /\ held'[e] = held[e] /\ bogus'[e] = bogus[e]
    BY <1>1, <1>5 DEF FreePin
  <2> QED
    BY <2>1, <2>2 DEF Drivers
<1>6. ASSUME NEW r \in Resources,
             TakeOther(d, r) \/ Notice(d, r) \/ Overlook(d, r) \/ Oopses(d, r)
      PROVE  Undisturbed(e)
  BY <1>1, <1>6 DEF TakeOther, Notice, Overlook, Oopses
<1> QED
  BY <1>2, <1>3, <1>4, <1>5, <1>6 DEF Step

\* insmod: nothing is held yet.
LEMMA InsmodKept ==
    ASSUME IInv, NEW d \in Drivers, Insmod(d)
    PROVE  DriverInv(d)'
<1>1. TypeInv /\ DriverInv(d)
  BY DEF IInv
<1>2. Inits[d] \in Seq(Resources) /\ IsSuffix(Inits[d], Inits[d])
  <2>1. Inits[d] \in Seq(Resources) /\ Len(Inits[d]) \in Nat
    BY InitTypes
  <2> QED
    BY <2>1, SubSeqFull DEF IsSuffix
<1>3. /\ phase'[d] = "loading" /\ todo'[d] = Inits[d] /\ held'[d] = {}
      /\ missing'[d] = {} /\ bogus'[d] = {} /\ owner' = owner
      /\ \A u \in Pins : owner[u] # d
  BY <1>1 DEF Insmod, TypeInv, TypeOK, DriverInv, IsOut
<1>4. Tried(d)' = {}
  BY <1>3 DEF Tried, Left
<1>5. HoldsWhatItTried(d)'
  BY <1>2, <1>3, <1>4 DEF HoldsWhatItTried
<1> QED
  BY <1>3, <1>5 DEF DriverInv

\* The end of init, and that of the releases.
LEMMA EndKept ==
    ASSUME IInv, NEW d \in Drivers, Loaded(d) \/ Out(d)
    PROVE  DriverInv(d)'
<1>1. TypeInv /\ DriverInv(d)
  BY DEF IInv
<1>2. UNCHANGED <<todo, held, owner, missing, bogus>> /\ todo[d] = <<>>
  BY DEF Loaded, Out
<1>3. Left(d)' = Left(d) /\ Tried(d)' = Tried(d) /\ Leaks(d)' = Leaks(d)
  BY <1>2 DEF Left, Tried, Leaks
<1>4. CASE Loaded(d)
  <2>1. phase[d] = "loading" /\ phase'[d] = "in"
    BY <1>1, <1>4 DEF Loaded, TypeInv, TypeOK
  <2>2. HoldsWhatItTried(d)'
    BY <1>1, <1>2, <1>3, <2>1 DEF DriverInv, HoldsWhatItTried
  <2> QED
    BY <1>1, <1>2, <2>1, <2>2 DEF DriverInv
<1>5. CASE Out(d)
  <2>1. phase[d] \in {"failing", "leaving"} /\ phase'[d] = "out"
    BY <1>1, <1>5 DEF Out, TypeInv, TypeOK
  <2>2. Left(d) = {}
    BY <1>2 DEF Left, Range
  <2>3. IsOut(d)'
    BY <1>1, <1>2, <1>3, <2>1, <2>2 DEF DriverInv, ReleasesWhatItHolds, IsOut
  <2> QED
    BY <1>1, <1>2, <2>1, <2>3 DEF DriverInv
<1> QED
  BY <1>4, <1>5

\* The end of a thread, which is no step of init's or of a release.
LEMMA ThreadEndsKept ==
    ASSUME IInv, NEW d \in Drivers, ThreadEnds(d)
    PROVE  DriverInv(d)'
<1>1. TypeInv /\ DriverInv(d)
  BY DEF IInv
<1>2. /\ UNCHANGED <<phase, todo, owner, missing, bogus>>
      /\ held'[d] = held[d] \ {"thread"}
  BY <1>1 DEF ThreadEnds, TypeInv, TypeOK
<1>3. Left(d)' = Left(d) /\ Tried(d)' = Tried(d) /\ Leaks(d)' = Leaks(d)
  BY <1>2 DEF Left, Tried, Leaks
<1>4. HoldsWhatItTried(d) => HoldsWhatItTried(d)'
  BY <1>2, <1>3 DEF HoldsWhatItTried, Unreleased
<1>5. ReleasesWhatItHolds(d) => ReleasesWhatItHolds(d)'
  <2>1. ReleasesWhatItHolds(d) => "thread" \notin Left(d)
    BY DEF ReleasesWhatItHolds, IsRelease, Unreleased, Left
  <2> QED
    BY <1>2, <1>3, <2>1 DEF ReleasesWhatItHolds
<1>6. IsOut(d) => IsOut(d)'
  BY <1>2, <1>3 DEF IsOut
<1>7. \A r \in held'[d] : Uses(d, r) \ missing'[d] \subseteq held'[d]
  <2>1. \A r \in held[d] : "thread" \notin Uses(d, r)
    BY DEF Uses
  <2> QED
    BY <1>1, <1>2, <2>1 DEF DriverInv
<1> QED
  BY <1>1, <1>2, <1>4, <1>5, <1>6, <1>7 DEF DriverInv

\* rmmod: the exit function undoes the whole of init.
LEMMA RmmodKept ==
    ASSUME IInv, NEW d \in Drivers, Rmmod(d)
    PROVE  DriverInv(d)'
<1>1. TypeInv /\ DriverInv(d)
  BY DEF IInv
<1>2. /\ phase[d] = "in" /\ phase'[d] = "leaving" /\ todo'[d] = OnExit[d]
      /\ UNCHANGED <<held, owner, missing, bogus>>
  BY <1>1 DEF Rmmod, TypeInv, TypeOK
<1>3. HoldsWhatItTried(d) /\ Tried(d) = Range(Inits[d])
  BY <1>1, <1>2 DEF DriverInv, HoldsWhatItTried, Tried, Left, Range
<1>4. Undoes(d, Tried(d), {}, OnExit[d], Leaks(d))
  BY <1>3, ExitLists DEF HoldsWhatItTried
<1>5. Left(d)' = Range(OnExit[d]) /\ Leaks(d)' = Leaks(d)
  BY <1>2 DEF Left, Leaks
<1>6. held[d] \cap (Pins \cup {"put", "chip"}) = {}
  BY <1>1 DEF TypeInv, TypeOK
<1>7. ReleasesWhatItHolds(d)'
  <2>1. IsRelease(d, todo[d])'
    BY <1>2, <1>4 DEF Undoes, IsRelease, UsersFirst
  <2>2. held[d] \subseteq Leaks(d) \cup Range(OnExit[d])
            \cup (IF "kobject" \in Range(OnExit[d]) THEN {"sysfs"} ELSE {})
    BY <1>3, <1>4, <1>6 DEF HoldsWhatItTried, Undoes, Unreleased
  <2>3. Range(OnExit[d]) \ Pins \subseteq held[d] \cup missing[d]
    BY <1>3, <1>4 DEF HoldsWhatItTried, Undoes, IsRelease
  <2>4. \A u \in Pins :
            /\ owner[u] = d => u \in Range(OnExit[d])
            /\ u \in Range(OnExit[d]) => owner[u] = d \/ u \in missing[d]
    BY <1>3, <1>4 DEF HoldsWhatItTried, Undoes
  <2> QED
    BY <1>2, <1>5, <2>1, <2>2, <2>3, <2>4 DEF ReleasesWhatItHolds
<1> QED
  BY <1>1, <1>2, <1>7 DEF DriverInv

\* A step of init that succeeds, or fails and is not looked at.
LEMMA AdvanceTries ==
    ASSUME IInv, NEW d \in Drivers, phase[d] = "loading", todo[d] # <<>>,
           Advance(d)
    PROVE  /\ HoldsWhatItTried(d)
           /\ IsSuffix(todo[d], Inits[d])' /\ todo'[d] \in Seq(Resources)
           /\ Tried(d)' = Tried(d) \cup {Head(todo[d])}
           /\ Head(todo[d]) \notin Tried(d)
           /\ Head(todo[d]) = "adapter" => "put" \notin Tried(d)
<1>1. TypeInv /\ HoldsWhatItTried(d)
  BY DEF IInv, DriverInv
<1>2. IsSuffix(todo[d], Inits[d])
  BY <1>1 DEF HoldsWhatItTried
<1>3. todo'[d] = Tail(todo[d])
  BY <1>1 DEF Advance, TypeInv
<1>4. PICK k \in 1 .. Len(Inits[d]) :
          Head(todo[d]) = Inits[d][k] /\ Tried(d) = Before(d, k)
  BY <1>1, <1>2, NextStep
<1>5. Head(todo[d]) = "adapter" => "put" \notin Tried(d)
  <2>1. Inits[d] \in Seq(Resources)
    BY InitTypes
  <2>2. \A j \in 1 .. k - 1 :
            j \in 1 .. Len(Inits[d]) /\ ~(k < j)
    BY <2>1
  <2> QED
    BY <1>4, <2>2, InitOrder DEF Before
<1> QED
  BY <1>1, <1>2, <1>3, <1>5, NextStep DEF Tried, Left, IsSuffix

\* gpio_request.
LEMMA TakePinKept ==
    ASSUME IInv, NEW d \in Drivers, NEW u \in Pins, TakePin(d, u)
    PROVE  DriverInv(d)'
<1>1. TypeInv /\ DriverInv(d)
  BY DEF IInv
<1>2. /\ phase'[d] = "loading" /\ phase[d] = "loading"
      /\ held'[d] = held[d] /\ missing'[d] = missing[d]
      /\ bogus'[d] = bogus[d]
      /\ \A p \in Pins : owner'[p] = IF p = u THEN d ELSE owner[p]
  BY <1>1 DEF TakePin, AtStep, TypeInv, TypeOK
<1>3. /\ HoldsWhatItTried(d)
      /\ IsSuffix(todo[d], Inits[d])'
      /\ Tried(d)' = Tried(d) \cup {u} /\ u \notin Tried(d)
  BY AdvanceTries DEF TakePin, AtStep
<1>4. HoldsWhatItTried(d)'
  BY <1>2, <1>3 DEF HoldsWhatItTried, Pins
<1> QED
  BY <1>1, <1>2, <1>4 DEF DriverInv

\* Any other step that succeeds.
LEMMA TakeOtherKept ==
    ASSUME IInv, NEW d \in Drivers, NEW r \in Resources, TakeOther(d, r)
    PROVE  DriverInv(d)'
<1>1. TypeInv /\ DriverInv(d)
  BY DEF IInv
<1>2. /\ phase'[d] = "loading" /\ phase[d] = "loading" /\ r \notin Pins
      /\ held'[d] = WithStep(held[d], r)
      /\ UNCHANGED <<owner, missing, bogus>>
  BY <1>1 DEF TakeOther, AtStep, TypeInv, TypeOK
<1>3. /\ HoldsWhatItTried(d)
      /\ IsSuffix(todo[d], Inits[d])'
      /\ Tried(d)' = Tried(d) \cup {r} /\ r \notin Tried(d)
      /\ r = "adapter" => "put" \notin Tried(d)
  BY AdvanceTries DEF TakeOther, AtStep
<1>4. HoldsWhatItTried(d)'
  BY <1>2, <1>3 DEF HoldsWhatItTried, WithStep, Unreleased
<1>5. \A q \in held'[d] : Uses(d, q) \ missing'[d] \subseteq held'[d]
  BY <1>4, UsedWhileIn DEF HoldsWhatItTried, Tried, Left
<1> QED
  BY <1>1, <1>2, <1>4, <1>5 DEF DriverInv

\* A failure nobody looks at.
LEMMA OverlookKept ==
    ASSUME IInv, NEW d \in Drivers, NEW r \in Resources, Overlook(d, r)
    PROVE  DriverInv(d)'
<1>1. TypeInv /\ DriverInv(d)
  BY DEF IInv
<1>2. /\ phase'[d] = "loading" /\ phase[d] = "loading"
      /\ UNCHANGED <<held, owner, bogus>>
      /\ missing'[d] = missing[d] \cup {r} /\ r \notin {"cdev", "thread"}
  BY <1>1 DEF Overlook, AtStep, TypeInv, TypeOK, Ignored, ErrorPointers, Skipped,
              Pins
<1>3. /\ HoldsWhatItTried(d)
      /\ IsSuffix(todo[d], Inits[d])'
      /\ Tried(d)' = Tried(d) \cup {r} /\ r \notin Tried(d)
  BY AdvanceTries DEF Overlook, AtStep
<1>4. HoldsWhatItTried(d)'
  <2>1. "put" \in Tried(d)' => "adapter" \notin held'[d]
    <3>1. r # "put"
      BY DEF Overlook, Ignored, ErrorPointers, Skipped, Pins
    <3> QED
      BY <1>2, <1>3, <3>1 DEF HoldsWhatItTried
  <2> QED
    BY <1>2, <1>3, <2>1 DEF HoldsWhatItTried
<1> QED
  BY <1>1, <1>2, <1>4 DEF DriverInv

\* A failure that is noticed: the error path undoes the steps before it.
LEMMA NoticeKept ==
    ASSUME IInv, NEW d \in Drivers, NEW r \in Resources, Notice(d, r)
    PROVE  DriverInv(d)'
<1>1. TypeInv /\ DriverInv(d) /\ HoldsWhatItTried(d)
  BY DEF IInv, DriverInv, Notice, AtStep
<1> DEFINE s == OnError[d][r]
<1>2. /\ phase'[d] = "failing" /\ todo'[d] = s
      /\ UNCHANGED <<held, owner, bogus>>
      /\ missing'[d] = missing[d] \cup {r}
  BY <1>1 DEF Notice, TypeInv, TypeOK
<1>3. PICK k \in 1 .. Len(Inits[d]) :
          r = Inits[d][k] /\ Tried(d) = Before(d, k)
  BY <1>1, NextStep DEF Notice, AtStep, HoldsWhatItTried
<1>4. Undoes(d, Tried(d), {r}, s, Leaks(d)')
  BY <1>2, <1>3, Ladders DEF Notice
<1>5. Left(d)' = Range(s)
  BY <1>2 DEF Left
<1> HIDE DEF s
<1>6. held[d] \cap (Pins \cup {"put", "chip"}) = {}
  BY <1>1 DEF TypeInv, TypeOK
<1>7. ReleasesWhatItHolds(d)'
  <2>1. IsRelease(d, todo[d])'
    BY <1>2, <1>4 DEF Undoes, IsRelease, UsersFirst
  <2>2. held[d] \subseteq Leaks(d)' \cup Range(s)
            \cup (IF "kobject" \in Range(s) THEN {"sysfs"} ELSE {})
    BY <1>1, <1>4, <1>6 DEF HoldsWhatItTried, Undoes, Unreleased
  <2>3. Range(s) \ Pins \subseteq held[d] \cup missing'[d]
    BY <1>1, <1>2, <1>4 DEF HoldsWhatItTried, Undoes, IsRelease
  <2>4. \A u \in Pins :
            /\ owner[u] = d => u \in Range(s)
            /\ u \in Range(s) => owner[u] = d \/ u \in missing'[d]
    BY <1>1, <1>2, <1>4 DEF HoldsWhatItTried, Undoes
  <2> QED
    BY <1>2, <1>5, <2>1, <2>2, <2>3, <2>4 DEF ReleasesWhatItHolds
<1> QED
  BY <1>1, <1>2, <1>7 DEF DriverInv

\* After an oops nothing is released any more.
LEMMA OopsesKept ==
    ASSUME IInv, NEW d \in Drivers, NEW r \in Resources, Oopses(d, r)
    PROVE  DriverInv(d)'
<1>1. TypeInv /\ DriverInv(d)
  BY DEF IInv
<1>2. phase'[d] = "oops" /\ UNCHANGED <<held, missing, bogus>>
  BY <1>1 DEF Oopses, TypeInv, TypeOK
<1> QED
  BY <1>1, <1>2 DEF DriverInv

\* A release leaves a list that lets nothing be used after it.
LEMMA AdvanceReleases ==
    ASSUME IInv, NEW d \in Drivers, Releasing(d), Advance(d)
    PROVE  /\ ReleasesWhatItHolds(d)
           /\ IsRelease(d, todo[d])'
           /\ Left(d)' = Left(d) \ {Head(todo[d])}
           /\ Head(todo[d]) \in Left(d)
           /\ \A q \in Left(d) \ {Head(todo[d])} :
                  Head(todo[d]) \notin Uses(d, q)
<1>1. TypeInv /\ ReleasesWhatItHolds(d)
  BY DEF IInv, DriverInv, Releasing
<1> DEFINE s == todo[d]
<1>2. /\ s \in Seq(Resources) /\ s # <<>> /\ IsRelease(d, s)
      /\ todo'[d] = Tail(s)
  BY <1>1 DEF TypeInv, Releasing, Advance, ReleasesWhatItHolds
<1> HIDE DEF s
<1>3. /\ Tail(s) \in Seq(Resources) /\ IsInjective(Tail(s))
      /\ Head(s) \in Range(s) /\ Head(s) = s[1]
      /\ Range(Tail(s)) = Range(s) \ {Head(s)}
      /\ Len(Tail(s)) \in Nat /\ Len(s) = Len(Tail(s)) + 1
      /\ \A i \in 1 .. Len(Tail(s)) : Tail(s)[i] = s[i + 1]
  BY <1>2, TailOfSteps DEF IsRelease
<1>4. UsersFirst(d, Tail(s))
  BY <1>2, <1>3 DEF IsRelease, UsersFirst
<1>5. IsRelease(d, Tail(s))
  BY <1>2, <1>3, <1>4 DEF IsRelease
<1>6. ASSUME NEW q \in Range(s), Head(s) \in Uses(d, q)
      PROVE  FALSE
  <2>1. PICK i \in 1 .. Len(s) : s[i] = q
    BY <1>2 DEF Range
  <2>2. 1 \in 1 .. Len(s)
    BY <1>3
  <2>3. i < 1
    BY <1>2, <1>3, <1>6, <2>1, <2>2 DEF IsRelease, UsersFirst
  <2> QED
    BY <2>3
<1>7. IsRelease(d, todo[d])'
  BY <1>2, <1>5 DEF IsRelease, UsersFirst
<1> QED
  BY <1>1, <1>2, <1>3, <1>6, <1>7 DEF Left, s

\* gpio_free.
LEMMA FreePinKept ==
    ASSUME IInv, NEW d \in Drivers, NEW u \in Pins, FreePin(d, u)
    PROVE  DriverInv(d)'
<1>1. TypeInv /\ DriverInv(d)
  BY DEF IInv
<1>2. /\ phase' = phase /\ held' = held /\ bogus' = bogus
      /\ missing'[d] = missing[d] /\ Head(todo[d]) = u
      /\ \A p \in Pins : owner'[p] = IF p = u THEN "none" ELSE owner[p]
  BY <1>1 DEF FreePin, TypeInv, TypeOK
<1>3. /\ ReleasesWhatItHolds(d) /\ IsRelease(d, todo[d])'
      /\ Left(d)' = Left(d) \ {u}
  BY <1>2, AdvanceReleases DEF FreePin
<1>4. Leaks(d)' = Leaks(d) /\ phase[d] \in {"failing", "leaving"}
  BY <1>2 DEF Leaks, FreePin, Releasing
<1>5. ReleasesWhatItHolds(d)'
  <2>1. held[d] \cap Pins = {} /\ u # "kobject" /\ "none" # d
    BY <1>1 DEF TypeInv, TypeOK, Pins, Drivers
  <2> QED
    BY <1>2, <1>3, <1>4, <2>1 DEF ReleasesWhatItHolds
<1> QED
  BY <1>1, <1>2, <1>4, <1>5 DEF DriverInv

\* Any other release.
LEMMA FreeOtherKept ==
    ASSUME IInv, NEW d \in Drivers, FreeOther(d)
    PROVE  DriverInv(d)'
<1>1. TypeInv /\ DriverInv(d)
  BY DEF IInv
<1> DEFINE r == Head(todo[d])
<1>2. /\ phase' = phase /\ owner' = owner /\ missing' = missing
      /\ r \notin Pins /\ held'[d] = held[d] \ Gone(r)
  BY <1>1 DEF FreeOther, TypeInv, TypeOK
<1>3. /\ ReleasesWhatItHolds(d) /\ IsRelease(d, todo[d])'
      /\ Left(d)' = Left(d) \ {r} /\ r \in Left(d)
      /\ \A q \in Left(d) \ {r} : r \notin Uses(d, q)
  BY AdvanceReleases DEF FreeOther
<1>4. Leaks(d)' = Leaks(d) /\ phase[d] \in {"failing", "leaving"}
  BY <1>2 DEF Leaks, FreeOther, Releasing
<1>5. bogus'[d] \subseteq missing'[d]
  <2>1. r \in held[d] \cup missing[d]
    BY <1>2, <1>3 DEF ReleasesWhatItHolds
  <2>2. \/ bogus'[d] = bogus[d]
        \/ r \notin held[d] /\ bogus'[d] = bogus[d] \cup {r}
    BY <1>1 DEF FreeOther, TypeInv, TypeOK
  <2> QED
    BY <1>1, <1>2, <2>1, <2>2 DEF DriverInv
<1> HIDE DEF r
<1>6. ReleasesWhatItHolds(d)'
  <2>1. "sysfs" \notin Left(d)
    BY <1>3 DEF ReleasesWhatItHolds, IsRelease, Unreleased, Left
  <2>2. held'[d] \subseteq Leaks(d) \cup Left(d)'
            \cup (IF "kobject" \in Left(d)' THEN {"sysfs"} ELSE {})
    BY <1>2, <1>3 DEF ReleasesWhatItHolds, Gone
  <2>3. Left(d)' \ Pins \subseteq held'[d] \cup missing[d]
    BY <1>2, <1>3, <2>1 DEF ReleasesWhatItHolds, Gone
  <2> QED
    BY <1>2, <1>3, <1>4, <2>2, <2>3 DEF ReleasesWhatItHolds
<1>7. \A q \in held'[d] : Uses(d, q) \ missing'[d] \subseteq held'[d]
  <2>1. ASSUME NEW q \in held'[d], NEW x \in Uses(d, q) \ missing[d]
        PROVE  x \in held'[d]
    <3>1. q \in held[d] /\ x \in held[d] /\ q # r
      BY <1>1, <1>2, <2>1 DEF DriverInv, Gone
    <3>2. q \notin Leaks(d) /\ q # "sysfs" /\ x # "sysfs"
      <4>1. /\ q \in {"timer", "wq", "irq", "kobject"}
            /\ x \in {"wq", "client", "kobject", "memory"}
        BY <2>1 DEF Uses
      <4>2. Leaks(d) \cap {"timer", "wq", "irq", "kobject"} = {}
        BY DEF Leaks, Drivers
      <4> QED
        BY <4>1, <4>2
    <3>3. q \in Left(d)
      BY <1>3, <3>1, <3>2 DEF ReleasesWhatItHolds
    <3>4. x # r
      BY <1>3, <2>1, <3>1, <3>3
    <3> QED
      BY <1>2, <3>1, <3>2, <3>4 DEF Gone
  <2> QED
    BY <1>2, <2>1
<1> QED
  BY <1>2, <1>4, <1>5, <1>6, <1>7 DEF DriverInv

\* Every step keeps what every driver holds.
LEMMA Inductive == IInv /\ [Next]_vars => IInv'
<1> SUFFICES ASSUME IInv, [Next]_vars
             PROVE  IInv'
  OBVIOUS
<1>1. ASSUME NEW d \in Drivers, Step(d), UNCHANGED machine
      PROVE  IInv'
  <2>1. TypeInv'
    BY <1>1, TypeKept
  <2>2. DriverInv(d)'
    BY <1>1, InsmodKept, EndKept, RmmodKept, ThreadEndsKept, TakePinKept,
       TakeOtherKept, NoticeKept, OverlookKept, OopsesKept, FreePinKept,
       FreeOtherKept DEF Step
  <2>3. \A e \in Drivers \ {d} : DriverInv(e)'
    BY <1>1, OthersUndisturbed, OthersKept DEF IInv
  <2> QED
    BY <2>1, <2>2, <2>3 DEF IInv
<1>2. ASSUME Next
      PROVE  \E d \in Drivers : Step(d) /\ UNCHANGED machine
  <2>1. machine \subseteq Drivers
    BY LoadAssumption DEF IInv, TypeInv, TypeOK
  <2> QED
    BY <1>2, <2>1 DEF Next, Step
<1>3. CASE UNCHANGED vars
  <2>1. \A e \in Drivers : Undisturbed(e)
    BY <1>3 DEF vars, Undisturbed
  <2>2. TypeInv'
    BY <1>3 DEF vars, IInv, TypeInv, TypeOK
  <2> QED
    BY <2>1, <2>2, OthersKept DEF IInv
<1> QED
  BY <1>1, <1>2, <1>3

\* It holds in every behaviour, whatever drivers share the machine.
LEMMA Invariant == Spec => []IInv
<1>1. Init => IInv
  BY DEF Init, IInv, TypeInv, TypeOK, DriverInv, IsOut, Drivers, Pins
<1> QED
  BY <1>1, Inductive, PTL DEF Spec

\* A driver that is out holds nothing but what its error path or its exit
\* function is known to forget.
THEOREM OnlyKnownLeaks == Spec => []LeaksAreKnown
<1>1. IInv => LeaksAreKnown
  BY DEF IInv, DriverInv, IsOut, LeaksAreKnown
<1> QED
  BY <1>1, Invariant, PTL

\* Types are kept; nothing is released twice, nothing before what uses it, and
\* no pin stays with a driver that is out.
THEOREM ResourcesAreAccounted == Spec => []LoadInv
<1>1. IInv => LoadInv
  <2> SUFFICES ASSUME IInv
               PROVE  LoadInv
    OBVIOUS
  <2>1. TypeOK
    BY DEF IInv, TypeInv
  <2>2. NothingReleasedTwice /\ UsedIsHeld
    BY DEF IInv, DriverInv, NothingReleasedTwice, UsedIsHeld
  <2>3. PinsHaveLivingOwner
    BY <2>1 DEF IInv, DriverInv, IsOut, PinsHaveLivingOwner, TypeOK
  <2> QED
    BY <2>1, <2>2, <2>3 DEF LoadInv
<1> QED
  BY <1>1, Invariant, PTL

\* A driver loses a pin by its own release, or to the release of one that
\* could not get the pin or was robbed of it.
THEOREM LosersTakePins == Spec => PinsAreLostToLosers
<1> DEFINE Lost ==
        \A u \in Pins : \A d \in Drivers :
            (owner[u] = d /\ owner'[u] # d)
                => \/ Releasing(d)
                   \/ \E e \in Drivers : Releasing(e) /\ u \in missing[e]
<1>1. IInv /\ [Next]_vars => [Lost]_vars
  <2> SUFFICES ASSUME IInv, Next, NEW u \in Pins, NEW d \in Drivers,
                      owner[u] = d, owner'[u] # d
               PROVE  \/ Releasing(d)
                      \/ \E e \in Drivers : Releasing(e) /\ u \in missing[e]
    OBVIOUS
  <2>1. PICK e \in Drivers : Step(e)
    BY LoadAssumption DEF IInv, TypeInv, TypeOK, Next, Step
  <2>2. TypeInv /\ DriverInv(e)
    BY DEF IInv
  <2>3. \E p \in Pins : FreePin(e, p) \/ TakePin(e, p)
    BY <2>1 DEF Step, Insmod, Loaded, Rmmod, FreeOther, Out, ThreadEnds,
                TakeOther, Notice, Overlook, Oopses
  <2>4. \A p \in Pins : ~TakePin(e, p)
    BY <2>2 DEF TakePin, Requests, TypeInv, TypeOK, Drivers
  <2>5. FreePin(e, u)
    BY <2>2, <2>3, <2>4 DEF FreePin, TypeInv, TypeOK
  <2>6. Releasing(e) /\ u \in Left(e)
    BY <2>2, <2>5, AdvanceReleases DEF FreePin
  <2>7. owner[u] = e \/ u \in missing[e]
    BY <2>2, <2>6 DEF DriverInv, ReleasesWhatItHolds, Releasing
  <2> QED
    BY <2>6, <2>7
<1> QED
  BY <1>1, Invariant, PTL DEF Spec, PinsAreLostToLosers

-----------------------------------------------------------------------------
(* The numbers that drivers show *)

\* A temperature that the formula can give.
Celsius(t) == t \in Int /\ -50000 <= t /\ t <= 50000

\* A wrapped number fits its type.
LEMMA WrappedFits ==
    ASSUME NEW n \in Int, NEW half \in Nat, half > 0
    PROVE  /\ Readings!Wrapped(n, half) \in Int
           /\ -half <= Readings!Wrapped(n, half)
           /\ Readings!Wrapped(n, half) < half
BY DEF Readings!Wrapped

\* A product is bounded by the bounds of its factors.
LEMMA ProductBounds ==
    ASSUME NEW x \in Int, NEW m \in Nat, -m <= x, x <= m,
           NEW y \in Int, NEW n \in Nat, -n <= y, y <= n
    PROVE  x * y \in Int /\ -(m * n) <= x * y /\ x * y <= m * n
<1>1. ASSUME NEW a \in Nat, NEW b \in Nat
      PROVE  a * b \in Nat
  OBVIOUS
<1>2. (m - x) * (n + y) \in Nat /\ (m + x) * (n - y) \in Nat
  BY <1>1
<1>3. (m - x) * (n - y) \in Nat /\ (m + x) * (n + y) \in Nat
  BY <1>1
<1>4. (m - x) * (n + y) = m * n + m * y - x * n - x * y
  OBVIOUS
<1>5. (m + x) * (n - y) = m * n - m * y + x * n - x * y
  OBVIOUS
<1>6. (m - x) * (n - y) = m * n - m * y - x * n + x * y
  OBVIOUS
<1>7. (m + x) * (n + y) = m * n + m * y + x * n + x * y
  OBVIOUS
<1>8. m * n \in Int /\ m * y \in Int /\ x * n \in Int /\ x * y \in Int
  OBVIOUS
<1> QED
  BY <1>2, <1>3, <1>4, <1>5, <1>6, <1>7, <1>8

\* Whatever the sensor's words and the bytes are, a temperature is far from
\* what the locals of sensor_thread are taken to hold.
LEMMA TemperatureBounds ==
    ASSUME NEW r \in Int
    PROVE  Celsius(Readings!Temperature(r))
<1>1. DigT1 \in Int /\ DigT2 \in Int /\ T3Word \in Int
  <2>1. ASSUME NEW n \in Readings!Shorts
        PROVE  n \in Int
    BY DEF Readings!Shorts
  <2> QED
    BY <2>1, ReadingAssumption DEF Readings!ReadingConstants
<1>2. /\ Readings!DigT3 \in Int
      /\ -32768 <= Readings!DigT3 /\ Readings!DigT3 < 32768
  BY <1>1, WrappedFits DEF Readings!DigT3
<1>3. \A a, b \in Int :
          /\ Readings!ShiftedProduct(a, b, 2048) \in Int
          /\ Readings!ShiftedProduct(a, b, 4096) \in Int
  BY DEF Readings!ShiftedProduct
<1>4. /\ Readings!Linear(r) \in Int
      /\ -1048576 <= Readings!Linear(r) /\ Readings!Linear(r) < 1048576
  <2>1. r \div 8 - 2 * DigT1 \in Int
    BY <1>1
  <2> QED
    BY <1>1, <1>3, <2>1, WrappedFits DEF Readings!Linear
<1>5. /\ Readings!Square(r) \in Int
      /\ -524288 <= Readings!Square(r) /\ Readings!Square(r) < 524288
  <2>1. r \div 16 - DigT1 \in Int
    BY <1>1
  <2> QED
    BY <1>1, <1>3, <2>1, WrappedFits DEF Readings!Square
<1>6. ASSUME NEW a \in Int, -524288 <= a, a < 524288,
             NEW b \in Int, -32768 <= b, b < 32768
      PROVE  /\ Readings!ShiftedProduct(a, b, 16384) \in Int
             /\ -1081344 <= Readings!ShiftedProduct(a, b, 16384)
             /\ Readings!ShiftedProduct(a, b, 16384) <= 1081344
  <2>1. /\ a \div 16384 \in Int
        /\ -32 <= a \div 16384 /\ a \div 16384 <= 32
    BY <1>6
  <2>2. a % 16384 \in Int /\ -16384 <= a % 16384 /\ a % 16384 <= 16384
    BY <1>6
  <2> DEFINE d == a \div 16384
             e == a % 16384
  <2>3. Readings!ShiftedProduct(a, b, 16384) = d * b + ((e * b) \div 16384)
    BY DEF Readings!ShiftedProduct
  <2> HIDE DEF d, e
  <2>4. d * b \in Int /\ -1048576 <= d * b /\ d * b <= 1048576
    BY <1>6, <2>1, ProductBounds DEF d
  <2>5. /\ e * b \in Int
        /\ (-16384) * 32768 <= e * b /\ e * b <= 16384 * 32768
    BY <1>6, <2>2, ProductBounds DEF e
  <2>6. (e * b) \div 16384 \in Int
    BY <2>5
  <2>7. -32768 <= (e * b) \div 16384
    BY <2>5, SMT
  <2>8. (e * b) \div 16384 <= 32768
    BY <2>5, SMT
  <2> QED
    BY <2>3, <2>4, <2>6, <2>7, <2>8
<1>7. /\ Readings!Fine(r) \in Int
      /\ -2129920 <= Readings!Fine(r) /\ Readings!Fine(r) <= 2129920
  <2> DEFINE sp == Readings!ShiftedProduct(Readings!Square(r),
                                           Readings!DigT3, 16384)
  <2>1. sp \in Int /\ -1081344 <= sp /\ sp <= 1081344
    BY <1>2, <1>5, <1>6
  <2> QED
    BY <1>4, <2>1 DEF Readings!Fine
<1> DEFINE f == Readings!Fine(r)
<1>8. f \in Int /\ -2129920 <= f /\ f <= 2129920
  BY <1>7
<1>9. Readings!Temperature(r) = (f * 5 + 128) \div 256
  BY DEF Readings!Temperature
<1> HIDE DEF f
<1>10. (f * 5 + 128) \div 256 \in Int
  BY <1>8
<1>11. -50000 <= (f * 5 + 128) \div 256
  BY <1>8, SMT
<1>12. (f * 5 + 128) \div 256 <= 50000
  BY <1>8, SMT
<1> QED
  BY <1>9, <1>10, <1>11, <1>12 DEF Celsius

\* What the sensor delivers is an integer, and below NoRaw unless a read
\* failed.
LEMMA RawBounds ==
    ASSUME NEW b \in Seq(Readings!BytesOrErrors), Len(b) = 3
    PROVE  /\ Readings!RawTemp(b) \in Int
           /\ (\A i \in 1 .. 3 : b[i] >= 0)
                  => Readings!RawTemp(b) # Readings!NoRaw
<1>1. /\ b[1] \in Int /\ b[2] \in Int /\ b[3] \in Int
      /\ b[1] <= 255 /\ b[2] <= 255 /\ b[3] <= 255
  <2>1. \A i \in 1 .. 3 : b[i] \in Readings!BytesOrErrors
    BY ElementOfSeq
  <2>2. \A x \in Readings!BytesOrErrors : x \in Int /\ x <= 255
    BY DEF Readings!BytesOrErrors
  <2> QED
    BY <2>1, <2>2
<1>2. ASSUME NEW x \in Int, NEW y \in Int, NEW z \in Int
      PROVE  Readings!Combined(x, y, z) \in Int
  BY DEF Readings!Combined
<1>3. ASSUME NEW x \in Nat, NEW y \in Nat, NEW z \in Nat,
             x <= 255, y <= 255, z <= 255
      PROVE  Readings!Combined(x, y, z) \div 16 < 1048576
  <2>1. Readings!Combined(x, y, z) = x * 65536 + y * 256 + z
    BY DEF Readings!Combined
  <2>2. (x * 65536 + y * 256 + z) \div 16 < 1048576
    BY <1>3, SMT
  <2> QED
    BY <2>1, <2>2
<1>4. Readings!RawTemp(b) = Readings!Combined(b[1], b[2], b[3]) \div 16
  BY DEF Readings!RawTemp
<1>5. Readings!RawTemp(b) \in Int
  <2>1. Readings!Combined(b[1], b[2], b[3]) \in Int
    BY <1>1, <1>2
  <2> QED
    BY <1>4, <2>1
<1>6. ASSUME \A i \in 1 .. 3 : b[i] >= 0
      PROVE  Readings!RawTemp(b) < 1048576
  <2>1. b[1] \in Nat /\ b[2] \in Nat /\ b[3] \in Nat
    BY <1>1, <1>6
  <2> QED
    BY <1>1, <1>3, <1>4, <2>1
<1>7. ASSUME NEW r \in Int, r < 1048576
      PROVE  r # Readings!NoRaw
  BY <1>7, SMT DEF Readings!NoRaw
<1> QED
  BY <1>5, <1>6, <1>7

\* The hundredths of a number have its sign, and are none for whole numbers
\* only.
PartIsSigned(n) ==
    /\ Readings!Whole(n) \in Int /\ Readings!Part(n) \in Int
    /\ n = 100 * Readings!Whole(n) + Readings!Part(n)
    /\ n >= 0 => /\ Readings!Whole(n) >= 0
                 /\ 0 <= Readings!Part(n) /\ Readings!Part(n) <= 99
                 /\ Readings!Part(n) = n % 100
    /\ n < 0 => /\ Readings!Whole(n) <= 0
                /\ -99 <= Readings!Part(n) /\ Readings!Part(n) <= 0
                /\ Readings!Part(n) < 0 <=> n % 100 # 0

\* They do for every number.
LEMMA PartFacts ==
    ASSUME NEW n \in Int
    PROVE  PartIsSigned(n)
<1> USE DEF PartIsSigned
<1>1. CASE n >= 0
  <2>1. Readings!Whole(n) = n \div 100
    BY <1>1 DEF Readings!Whole
  <2>2. Readings!Part(n) = n - 100 * (n \div 100)
    BY <2>1 DEF Readings!Part
  <2> QED
    BY <1>1, <2>1, <2>2
<1>2. CASE n < 0
  <2>1. Readings!Whole(n) = -((-n) \div 100)
    BY <1>2 DEF Readings!Whole
  <2>2. Readings!Part(n) = n - 100 * (-((-n) \div 100))
    BY <2>1 DEF Readings!Part
  <2>3. /\ (-n) \div 100 \in Int /\ (-n) \div 100 >= 0
        /\ 100 * ((-n) \div 100) <= -n /\ -n <= 100 * ((-n) \div 100) + 99
    BY <1>2
  <2>4. n % 100 = 0 <=> -n = 100 * ((-n) \div 100)
    BY <1>2
  <2> QED
    BY <1>2, <2>1, <2>2, <2>3, <2>4
<1> QED
  BY <1>1, <1>2

\* What sscanf makes of a printed number is close to it above zero, and never
\* too low; whole numbers it reads right.
NumberIsClose(n) ==
    LET r == Readings!Number(Readings!Word(n))
    IN  /\ r \in Int
        /\ n >= 0 => /\ 0 <= r - n /\ r - n <= 81
                     /\ r # n => 1 <= n % 100 /\ n % 100 <= 9
        /\ n < 0 => n <= r
        /\ n < 0 /\ n % 100 = 0 => r = n

\* So it makes of every number.
LEMMA NumberFacts ==
    ASSUME NEW n \in Int
    PROVE  NumberIsClose(n)
<1> DEFINE w == Readings!Whole(n)
           p == Readings!Part(n)
<1>1. Readings!Number(Readings!Word(n)) =
          IF w < 0 THEN 100 * w - (IF p < 0 THEN 0 ELSE Readings!Hundredths(p))
          ELSE 100 * w + (IF p < 0 THEN 0 ELSE Readings!Hundredths(p))
  BY DEF Readings!Number, Readings!Word
<1>2. Readings!Hundredths(p) = IF p < 10 THEN 10 * p ELSE p
  BY DEF Readings!Hundredths
<1>3. /\ w \in Int /\ p \in Int /\ n = 100 * w + p
      /\ n >= 0 => w >= 0 /\ 0 <= p /\ p <= 99 /\ p = n % 100
      /\ n < 0 => /\ w <= 0 /\ -99 <= p /\ p <= 0
                  /\ p < 0 <=> n % 100 # 0
  BY PartFacts DEF PartIsSigned
<1> HIDE DEF w, p
<1>4. CASE n >= 0
  <2>1. Readings!Number(Readings!Word(n)) =
            100 * w + (IF p < 10 THEN 10 * p ELSE p)
    BY <1>1, <1>2, <1>3, <1>4
  <2> QED
    BY <1>3, <1>4, <2>1 DEF NumberIsClose
<1>5. CASE n < 0
  <2>1. Readings!Number(Readings!Word(n)) = 100 * w
    BY <1>1, <1>2, <1>3, <1>5
  <2> QED
    BY <1>3, <1>5, <2>1 DEF NumberIsClose
<1> QED
  BY <1>4, <1>5

\* What sensor_thread has read when it has read a measurement that was t and p.
ReadOf(t, p) ==
    [temp |-> Readings!Number(Readings!Word(t)),
     press |-> IF Readings!Part(t) < 0 THEN 100 * Readings!Part(t)
               ELSE Readings!Number(Readings!Word(p))]

\* The variables keep their types; only a user writes.
ReadingTyped ==
    /\ Celsius(temp) /\ press \in Pressures \cup {0} /\ press \in Nat
    /\ raw \in Int /\ copying \in BOOLEAN /\ written \in BOOLEAN
    /\ read \in BOOLEAN /\ whole \in BOOLEAN /\ tampered \in BOOLEAN
    /\ text \in Seq(Readings!Words) /\ Len(text) <= 2
    /\ shared \in [temp : Int, press : Int]
    /\ written => tampered /\ text # <<>>

\* Unless a user wrote it, a text that is not half copied is what the last
\* measurement printed, or nothing before the first.
TextIsPrinted ==
    \/ written
    \/ copying /\ raw # Readings!NoRaw
    \/ ~copying /\ text = <<>> /\ raw = Readings!NoRaw
    \/ text = Readings!BmpInfoStr(temp, press) /\ raw # Readings!NoRaw

\* And the thread has read that.
MeasurementWasRead ==
    read /\ ~written =>
        raw # Readings!NoRaw /\ shared = ReadOf(temp, press)

\* A number that is far from the one that stands for unset locals.
IsSet(n) == n \in Int /\ -50000 <= n

\* A word that makes such a number, by itself and as digits after a point.
WordIsSet(w) ==
    w.part \in Int /\ -99 <= w.part /\ IsSet(Readings!Number(w))

\* Texts nobody has written, half copied or not, are of such words; so the
\* locals stay set once a whole text has set them.
SetStaysSet ==
    ~tampered =>
        /\ \A i \in 1 .. Len(text) : WordIsSet(text[i])
        /\ whole => IsSet(shared.temp) /\ IsSet(shared.press)

ReadingsInv ==
    ReadingTyped /\ TextIsPrinted /\ MeasurementWasRead /\ SetStaysSet

\* A printed number is a word.
LEMMA WordIsWord ==
    ASSUME NEW n \in Int
    PROVE  /\ Readings!Word(n) \in Readings!Words
           /\ Readings!Word(n) # Readings!NotANumber
<1>1. /\ Readings!Whole(n) \in Int /\ Readings!Part(n) \in Int
      /\ -99 <= Readings!Part(n) /\ Readings!Part(n) <= 99
  <2>1. PartIsSigned(n)
    BY PartFacts
  <2> QED
    BY <2>1 DEF PartIsSigned
<1> QED
  BY <1>1 DEF Readings!Word, Readings!Words, Readings!NotANumber

\* What is read of a measurement are integers.
LEMMA ReadOfIsTyped ==
    ASSUME NEW t \in Int, NEW p \in Int
    PROVE  ReadOf(t, p) \in [temp : Int, press : Int]
<1>1. /\ Readings!Number(Readings!Word(t)) \in Int
      /\ Readings!Number(Readings!Word(p)) \in Int /\ Readings!Part(t) \in Int
  BY NumberFacts, PartFacts DEF NumberIsClose, PartIsSigned
<1> QED
  BY <1>1 DEF ReadOf

\* sscanf makes integers of all words.
LEMMA ScannedIsTyped ==
    ASSUME NEW words \in Seq(Readings!Words), Len(words) <= 2,
           NEW old \in [temp : Int, press : Int]
    PROVE  Readings!Scanned(words, old) \in [temp : Int, press : Int]
<1>1. ASSUME NEW w \in Readings!Words
      PROVE  Readings!Number(w) \in Int /\ w.part \in Int
  <2>1. w.whole \in Int /\ w.part \in Int
    BY DEF Readings!Words
  <2> DEFINE h == IF w.part < 0 THEN 0 ELSE Readings!Hundredths(w.part)
  <2>2. h \in Int
    BY <2>1 DEF Readings!Hundredths
  <2>3. Readings!Number(w) =
            IF w.whole < 0 THEN 100 * w.whole - h ELSE 100 * w.whole + h
    BY DEF Readings!Number
  <2> HIDE DEF h
  <2> QED
    BY <2>1, <2>2, <2>3
<1>2. \A i \in 1 .. Len(words) : words[i] \in Readings!Words
  BY ElementOfSeq
<1>3. Len(words) \in Nat
  OBVIOUS
<1>4. CASE words = <<>> \/ words[1] = Readings!NotANumber
  BY <1>4 DEF Readings!Scanned
<1>5. CASE ~(words = <<>> \/ words[1] = Readings!NotANumber)
  <2>1. Len(words) # 0
    BY <1>5
  <2>2. Readings!Number(words[1]) \in Int /\ words[1].part \in Int
    BY <1>1, <1>2, <1>3, <2>1
  <2>3. Len(words) = 2 => Readings!Number(words[2]) \in Int
    BY <1>1, <1>2
  <2>4. old.press \in Int
    OBVIOUS
  <2> DEFINE q == CASE words[1].part < 0 -> 100 * words[1].part
                    [] words[1].part >= 0 /\ Len(words) = 2
                           -> Readings!Number(words[2])
                    [] OTHER -> old.press
  <2>5. q \in Int
    BY <2>2, <2>3, <2>4
  <2>6. Readings!Scanned(words, old) =
            [temp |-> Readings!Number(words[1]), press |-> q]
    BY <1>5 DEF Readings!Scanned
  <2> HIDE DEF q
  <2> QED
    BY <2>2, <2>5, <2>6
<1> QED
  BY <1>4, <1>5

\* sscanf takes both numbers from what get_bmp_info_str has printed.
LEMMA ScannedIsReadOf ==
    ASSUME NEW t \in Int, NEW p \in Int, NEW old
    PROVE  Readings!Scanned(Readings!BmpInfoStr(t, p), old) = ReadOf(t, p)
<1> DEFINE words == <<Readings!Word(t), Readings!Word(p)>>
<1>1. /\ words # <<>> /\ Len(words) = 2
      /\ words[1] = Readings!Word(t) /\ words[2] = Readings!Word(p)
  OBVIOUS
<1>2. Readings!Word(t) # Readings!NotANumber
  BY WordIsWord
<1>3. Readings!Word(t).part = Readings!Part(t) /\ Readings!Part(t) \in Int
  BY PartFacts DEF Readings!Word, PartIsSigned
<1>4. Readings!BmpInfoStr(t, p) = words
  BY DEF Readings!BmpInfoStr
<1> HIDE DEF words
<1>5. Readings!Scanned(words, old) =
          [temp |-> Readings!Number(words[1]),
           press |-> CASE words[1].part < 0 -> 100 * words[1].part
                       [] words[1].part >= 0 /\ Len(words) = 2
                              -> Readings!Number(words[2])
                       [] OTHER -> old.press]
  BY <1>1, <1>2 DEF Readings!Scanned
<1>6. CASE Readings!Part(t) < 0
  BY <1>1, <1>3, <1>4, <1>5, <1>6 DEF ReadOf
<1>7. CASE ~(Readings!Part(t) < 0)
  BY <1>1, <1>3, <1>4, <1>5, <1>7 DEF ReadOf
<1> QED
  BY <1>6, <1>7

\* The words that are printed, or cut to a minus sign, make set numbers.
LEMMA WordsAreSet ==
    /\ WordIsSet(Readings!NotANumber)
    /\ \A n \in Int : -50000 <= n => WordIsSet(Readings!Word(n))
<1>1. WordIsSet(Readings!NotANumber)
  BY DEF WordIsSet, IsSet, Readings!NotANumber, Readings!Number,
         Readings!Hundredths
<1>2. ASSUME NEW n \in Int, -50000 <= n
      PROVE  WordIsSet(Readings!Word(n))
  <2>1. /\ Readings!Part(n) \in Int /\ -99 <= Readings!Part(n)
    <3>1. PartIsSigned(n)
      BY PartFacts
    <3> QED
      BY <3>1 DEF PartIsSigned
  <2>2. IsSet(Readings!Number(Readings!Word(n)))
    <3>1. NumberIsClose(n)
      BY NumberFacts
    <3>2. /\ Readings!Number(Readings!Word(n)) \in Int
          /\ n <= Readings!Number(Readings!Word(n))
      BY <3>1 DEF NumberIsClose
    <3> QED
      BY <1>2, <3>2 DEF IsSet
  <2>3. Readings!Word(n).part = Readings!Part(n)
    BY DEF Readings!Word
  <2> QED
    BY <2>1, <2>2, <2>3 DEF WordIsSet
<1> QED
  BY <1>1, <1>2

\* wq_func measures, prints and begins to copy.
LEMMA MeasureKept ==
    ASSUME ReadingsInv,
           NEW b \in Bytes, NEW p \in Pressures, Readings!Measure(b, p)
    PROVE  ReadingsInv'
<1>1. b \in Seq(Readings!BytesOrErrors) /\ Len(b) = 3 /\ p \in Nat
  BY ReadingAssumption DEF Readings!ReadingConstants
<1>2. Readings!RawTemp(b) \in Int
  BY <1>1, RawBounds
<1>3. temp' \in Int /\ Celsius(temp')
  <2>1. temp' = Readings!Temperature(Readings!RawTemp(b))
    BY DEF Readings!Measure
  <2>2. Celsius(temp')
    BY <1>2, <2>1, TemperatureBounds
  <2> QED
    BY <2>2 DEF Celsius
<1>4. raw' \in Int /\ raw' # Readings!NoRaw
  <2>1. CASE \E i \in 1 .. 3 : b[i] < 0
    <3>1. raw' = -1
      BY <2>1 DEF Readings!Measure
    <3> QED
      BY <3>1, SMT DEF Readings!NoRaw
  <2>2. CASE ~(\E i \in 1 .. 3 : b[i] < 0)
    <3>1. raw' = Readings!RawTemp(b)
      BY <2>2 DEF Readings!Measure
    <3>2. \A i \in 1 .. 3 : b[i] >= 0
      <4>1. \A i \in 1 .. 3 : b[i] \in Readings!BytesOrErrors
        BY <1>1, ElementOfSeq
      <4>2. \A x \in Readings!BytesOrErrors : ~(x < 0) => x >= 0
        BY DEF Readings!BytesOrErrors
      <4> QED
        BY <2>2, <4>1, <4>2
    <3> QED
      BY <1>1, <3>1, <3>2, RawBounds
  <2> QED
    BY <2>1, <2>2
<1>5. /\ press' = p /\ copying' = TRUE
      /\ written' = FALSE /\ read' = FALSE
      /\ shared' = shared /\ whole' = whole /\ tampered' = tampered
  BY DEF Readings!Measure
<1>6. \/ text' = <<Readings!Word(temp'), text[2]>> /\ Len(text) = 2
      \/ text' = <<Readings!Word(temp')>>
      \/ text' = <<Readings!NotANumber>>
  <2>1. text' \in Readings!HalfCopied(Readings!BmpInfoStr(temp', p), text)
    BY DEF Readings!Measure
  <2>2. Readings!BmpInfoStr(temp', p)[1] = Readings!Word(temp')
    BY DEF Readings!BmpInfoStr
  <2> QED
    BY <2>1, <2>2 DEF Readings!HalfCopied
<1>7. text' \in Seq(Readings!Words) /\ Len(text') <= 2 /\ text' # <<>>
  <2>1. Readings!Word(temp') \in Readings!Words
    BY <1>3, WordIsWord
  <2>2. Readings!NotANumber \in Readings!Words
    BY DEF Readings!NotANumber, Readings!Words
  <2>3. text \in Seq(Readings!Words)
    BY DEF ReadingsInv, ReadingTyped
  <2>4. CASE text' = <<Readings!Word(temp'), text[2]>> /\ Len(text) = 2
    <3>1. text[2] \in Readings!Words
      BY <2>3, <2>4, ElementOfSeq
    <3> QED
      BY <2>1, <2>4, <3>1
  <2>5. CASE text' = <<Readings!Word(temp')>>
    BY <2>1, <2>5
  <2>6. CASE text' = <<Readings!NotANumber>>
    BY <2>2, <2>6
  <2> QED
    BY <1>6, <2>4, <2>5, <2>6
<1>8. ReadingTyped'
  BY <1>1, <1>3, <1>4, <1>5, <1>7 DEF ReadingsInv, ReadingTyped
<1>9. TextIsPrinted'
  BY <1>4, <1>5 DEF TextIsPrinted
<1>10. MeasurementWasRead'
  BY <1>5 DEF MeasurementWasRead
<1>11. SetStaysSet'
  <2> SUFFICES ASSUME ~tampered'
               PROVE  /\ \A i \in 1 .. Len(text') : WordIsSet(text'[i])
                      /\ whole' => IsSet(shared'.temp) /\ IsSet(shared'.press)
    BY DEF SetStaysSet, WordIsSet, IsSet, Readings!Number, Readings!Hundredths
  <2>1. /\ \A i \in 1 .. Len(text) : WordIsSet(text[i])
        /\ whole => IsSet(shared.temp) /\ IsSet(shared.press)
    BY <1>5 DEF ReadingsInv, SetStaysSet
  <2>2. WordIsSet(Readings!Word(temp')) /\ WordIsSet(Readings!NotANumber)
    BY <1>3, WordsAreSet DEF Celsius
  <2>3. Len(text) = 2 => WordIsSet(text[2])
    BY <2>1
  <2>4. \A i \in 1 .. Len(text') : WordIsSet(text'[i])
    BY <1>6, <2>2, <2>3
  <2> QED
    BY <1>5, <2>1, <2>4
<1> QED
  BY <1>8, <1>9, <1>10, <1>11 DEF ReadingsInv

\* wq_func copies the rest.
LEMMA CopiedKept ==
    ASSUME ReadingsInv, Readings!Copied
    PROVE  ReadingsInv'
<1>1. /\ ReadingTyped /\ temp \in Int /\ -50000 <= temp
      /\ press \in Nat /\ press \in Int
  BY DEF ReadingsInv, ReadingTyped, Celsius
<1>2. /\ copying /\ copying' = FALSE /\ read' = FALSE
      /\ UNCHANGED <<temp, press, raw, written, shared, whole, tampered>>
  BY DEF Readings!Copied
<1>3. /\ Readings!Word(temp) \in Readings!Words
      /\ Readings!Word(press) \in Readings!Words
  BY <1>1, WordIsWord
<1>4. CASE written
  <2>1. text' = text \/ text' = <<Head(text), Readings!Word(press)>>
    BY <1>4 DEF Readings!Copied
  <2>2. /\ text \in Seq(Readings!Words) /\ Len(text) <= 2 /\ text # <<>>
        /\ tampered
    BY <1>4 DEF ReadingsInv, ReadingTyped
  <2>3. text' \in Seq(Readings!Words) /\ Len(text') <= 2 /\ text' # <<>>
    <3>1. CASE text' = text
      BY <2>2, <3>1
    <3>2. CASE text' = <<Head(text), Readings!Word(press)>>
      <4>1. Head(text) \in Readings!Words
        BY <2>2
      <4> QED
        BY <1>3, <3>2, <4>1
    <3> QED
      BY <2>1, <3>1, <3>2
  <2>4. ReadingTyped'
    BY <1>2, <2>3 DEF ReadingsInv, ReadingTyped
  <2>5. TextIsPrinted' /\ MeasurementWasRead' /\ SetStaysSet'
    BY <1>2, <1>4, <2>2 DEF TextIsPrinted, MeasurementWasRead, SetStaysSet
  <2> QED
    BY <2>4, <2>5 DEF ReadingsInv
<1>5. CASE ~written
  <2>1. text' = Readings!BmpInfoStr(temp, press)
    BY <1>5 DEF Readings!Copied
  <2>2. text' = <<Readings!Word(temp), Readings!Word(press)>>
    BY <2>1 DEF Readings!BmpInfoStr
  <2>3. text' \in Seq(Readings!Words) /\ Len(text') <= 2 /\ ~written'
    BY <1>2, <1>3, <1>5, <2>2
  <2>4. ReadingTyped'
    BY <1>2, <2>3 DEF ReadingsInv, ReadingTyped
  <2>5. raw # Readings!NoRaw
    BY <1>2, <1>5 DEF ReadingsInv, TextIsPrinted
  <2>6. TextIsPrinted' /\ MeasurementWasRead'
    BY <1>2, <2>1, <2>5 DEF TextIsPrinted, MeasurementWasRead
  <2>7. WordIsSet(Readings!Word(temp)) /\ WordIsSet(Readings!Word(press))
    BY <1>1, WordsAreSet
  <2>8. SetStaysSet'
    <3>1. \A i \in 1 .. Len(text') : WordIsSet(text'[i])
      BY <2>2, <2>7
    <3> QED
      BY <1>2, <3>1 DEF ReadingsInv, SetStaysSet
  <2> QED
    BY <2>4, <2>6, <2>8 DEF ReadingsInv
<1> QED
  BY <1>4, <1>5

\* A user writes to the attribute.
LEMMA StoreKept ==
    ASSUME ReadingsInv,
           NEW words \in Stores, Readings!Store(words)
    PROVE  ReadingsInv'
<1>1. words \in Seq(Readings!Words)
  BY ReadingAssumption DEF Readings!ReadingConstants
<1>2. /\ text' = IF words = <<>> THEN text ELSE <<Head(words)>>
      /\ written' = (words # <<>> \/ written)
      /\ read' = FALSE /\ tampered' = TRUE
      /\ UNCHANGED <<temp, press, raw, copying, shared, whole>>
  BY DEF Readings!Store, Readings!Kept
<1>3. /\ text' \in Seq(Readings!Words) /\ Len(text') <= 2
      /\ written' => text' # <<>>
  <2>1. /\ text \in Seq(Readings!Words) /\ Len(text) <= 2
        /\ written => text # <<>>
    BY DEF ReadingsInv, ReadingTyped
  <2>2. CASE words = <<>>
    BY <1>2, <2>1, <2>2
  <2>3. CASE words # <<>>
    <3>1. Head(words) \in Readings!Words
      BY <1>1, <2>3
    <3> QED
      BY <1>2, <2>3, <3>1
  <2> QED
    BY <2>2, <2>3
<1>4. ReadingTyped'
  <2>1. written \in BOOLEAN
    BY DEF ReadingsInv, ReadingTyped
  <2>2. written' \in BOOLEAN
    BY <1>2, <2>1
  <2> QED
    BY <1>2, <1>3, <2>2 DEF ReadingsInv, ReadingTyped
<1>5. TextIsPrinted'
  <2>1. CASE words = <<>>
    <3>1. text' = text /\ (written => written')
      BY <1>2, <2>1
    <3> QED
      BY <1>2, <3>1 DEF ReadingsInv, TextIsPrinted
  <2>2. CASE words # <<>>
    BY <1>2, <2>2 DEF TextIsPrinted
  <2> QED
    BY <2>1, <2>2
<1>6. MeasurementWasRead' /\ SetStaysSet'
  BY <1>2 DEF MeasurementWasRead, SetStaysSet
<1> QED
  BY <1>4, <1>5, <1>6 DEF ReadingsInv

\* sscanf leaves set what is set, and sets both from two words.
LEMMA ScannedIsSet ==
    ASSUME NEW words \in Seq(Readings!Words), Len(words) <= 2,
           \A i \in 1 .. Len(words) : WordIsSet(words[i]),
           NEW old \in [temp : Int, press : Int],
           IsSet(old.temp), IsSet(old.press)
    PROVE  /\ IsSet(Readings!Scanned(words, old).temp)
           /\ IsSet(Readings!Scanned(words, old).press)
<1>1. CASE words = <<>> \/ words[1] = Readings!NotANumber
  BY <1>1 DEF Readings!Scanned
<1>2. CASE ~(words = <<>> \/ words[1] = Readings!NotANumber)
  <2>1. Len(words) \in Nat /\ Len(words) # 0
    BY <1>2
  <2>2. WordIsSet(words[1]) /\ (Len(words) = 2 => WordIsSet(words[2]))
    BY <2>1
  <2> DEFINE q == CASE words[1].part < 0 -> 100 * words[1].part
                    [] words[1].part >= 0 /\ Len(words) = 2
                           -> Readings!Number(words[2])
                    [] OTHER -> old.press
  <2>3. IsSet(q)
    BY <2>2 DEF WordIsSet, IsSet
  <2>4. Readings!Scanned(words, old) =
            [temp |-> Readings!Number(words[1]), press |-> q]
    BY <1>2 DEF Readings!Scanned
  <2> HIDE DEF q
  <2> QED
    BY <2>2, <2>3, <2>4 DEF WordIsSet
<1> QED
  BY <1>1, <1>2

\* What is read of a measurement is set.
LEMMA ReadOfIsSet ==
    ASSUME NEW t \in Int, -50000 <= t, NEW p \in Int, -50000 <= p
    PROVE  IsSet(ReadOf(t, p).temp) /\ IsSet(ReadOf(t, p).press)
<1>1. WordIsSet(Readings!Word(t)) /\ WordIsSet(Readings!Word(p))
  BY WordsAreSet
<1>2. Readings!Word(t).part = Readings!Part(t)
  BY DEF Readings!Word
<1> QED
  BY <1>1, <1>2 DEF WordIsSet, IsSet, ReadOf

\* sensor_thread reads and parses.
LEMMA SensorReadsKept ==
    ASSUME ReadingsInv, Readings!SensorReads
    PROVE  ReadingsInv'
<1>1. /\ text # <<>> /\ shared' = Readings!Scanned(text, shared)
      /\ read' = ~copying /\ whole' = (whole \/ ~copying)
      /\ UNCHANGED <<temp, press, raw, text, copying, written, tampered>>
  BY DEF Readings!SensorReads, Readings!HasText
<1>2. /\ text \in Seq(Readings!Words) /\ Len(text) <= 2
      /\ shared \in [temp : Int, press : Int]
      /\ temp \in Int /\ press \in Int /\ -50000 <= temp /\ -50000 <= press
      /\ copying \in BOOLEAN /\ whole \in BOOLEAN
      /\ written => tampered
  BY DEF ReadingsInv, ReadingTyped, Celsius
<1>3. shared' \in [temp : Int, press : Int]
  BY <1>1, <1>2, ScannedIsTyped
<1>4. ~written /\ ~copying => /\ raw # Readings!NoRaw
                             /\ shared' = ReadOf(temp, press)
  <2> SUFFICES ASSUME ~written, ~copying
               PROVE  /\ raw # Readings!NoRaw
                      /\ shared' = ReadOf(temp, press)
    OBVIOUS
  <2>1. text = Readings!BmpInfoStr(temp, press) /\ raw # Readings!NoRaw
    BY <1>1 DEF ReadingsInv, TextIsPrinted
  <2> QED
    BY <1>1, <1>2, <2>1, ScannedIsReadOf
<1>5. ReadingTyped'
  <2>1. read' \in BOOLEAN /\ whole' \in BOOLEAN
    BY <1>1, <1>2
  <2> QED
    BY <1>1, <1>3, <2>1 DEF ReadingsInv, ReadingTyped
<1>6. TextIsPrinted'
  BY <1>1 DEF ReadingsInv, TextIsPrinted
<1>7. MeasurementWasRead'
  BY <1>1, <1>4 DEF MeasurementWasRead
<1>8. SetStaysSet'
  <2> SUFFICES ASSUME ~tampered, whole'
               PROVE  IsSet(shared'.temp) /\ IsSet(shared'.press)
    BY <1>1 DEF ReadingsInv, SetStaysSet
  <2>1. CASE copying
    <3>1. whole /\ IsSet(shared.temp) /\ IsSet(shared.press)
      BY <1>1, <2>1 DEF ReadingsInv, SetStaysSet
    <3>2. \A i \in 1 .. Len(text) : WordIsSet(text[i])
      BY DEF ReadingsInv, SetStaysSet
    <3> QED
      BY <1>1, <1>2, <3>1, <3>2, ScannedIsSet
  <2>2. CASE ~copying
    <3>1. shared' = ReadOf(temp, press)
      BY <1>2, <1>4, <2>2
    <3> QED
      BY <1>2, <3>1, ReadOfIsSet
  <2> QED
    BY <2>1, <2>2
<1> QED
  BY <1>5, <1>6, <1>7, <1>8 DEF ReadingsInv

\* Every step of a reading keeps ReadingsInv.
LEMMA ReadingsKept ==
    ASSUME ReadingsInv, Readings!Next
    PROVE  ReadingsInv'
BY MeasureKept, CopiedKept, StoreKept, SensorReadsKept DEF Readings!Next

\* ReadingsInv is enough for what the runs check.
LEMMA ReadingsAreRight ==
    ASSUME ReadingsInv
    PROVE  /\ Readings!TypeOK
           /\ Readings!UnsetIsNotShown
           /\ Readings!FrostIsVisible
           /\ Readings!ReadingIsClose
<1>0. /\ temp \in Int /\ -50000 <= temp /\ temp <= 50000
      /\ press \in Nat
  BY DEF ReadingsInv, ReadingTyped, Celsius
<1> DEFINE t == Readings!Number(Readings!Word(temp))
           p == Readings!Number(Readings!Word(press))
<1>1. /\ t \in Int
      /\ temp >= 0 => /\ 0 <= t - temp /\ t - temp <= 81
                      /\ t # temp => 1 <= temp % 100 /\ temp % 100 <= 9
      /\ temp < 0 => temp <= t
      /\ temp < 0 /\ temp % 100 = 0 => t = temp
  <2>1. NumberIsClose(temp)
    BY <1>0, NumberFacts
  <2> QED
    BY <2>1 DEF NumberIsClose
<1>2. /\ p \in Int /\ 0 <= p - press /\ p - press <= 81
      /\ p # press => 1 <= press % 100 /\ press % 100 <= 9
  <2>1. NumberIsClose(press) /\ press >= 0
    BY <1>0, NumberFacts
  <2> QED
    BY <2>1 DEF NumberIsClose
<1>3. /\ Readings!Part(temp) \in Int /\ -99 <= Readings!Part(temp)
      /\ Readings!Part(temp) < 0 <=> temp < 0 /\ temp % 100 # 0
  <2>1. PartIsSigned(temp)
    BY <1>0, PartFacts
  <2> QED
    BY <1>0, <2>1 DEF PartIsSigned
<1>4. ASSUME read, ~written
      PROVE  /\ shared.temp = t
             /\ Readings!Part(temp) < 0 =>
                    shared.press = 100 * Readings!Part(temp)
             /\ ~(Readings!Part(temp) < 0) => shared.press = p
  BY <1>4 DEF ReadingsInv, MeasurementWasRead, ReadOf
<1> HIDE DEF t, p
<1>5. Readings!TypeOK
  <2>1. \A i \in DOMAIN text : text[i] \in Readings!Words
    BY ElementOfSeq DEF ReadingsInv, ReadingTyped
  <2> QED
    BY <2>1 DEF ReadingsInv, ReadingTyped, Celsius, Readings!TypeOK
<1>6. Readings!UnsetIsNotShown
  <2> SUFFICES ASSUME whole, ~tampered
               PROVE  /\ shared.temp # Readings!Unset
                      /\ shared.press # Readings!Unset
    BY DEF Readings!UnsetIsNotShown
  <2>1. ASSUME NEW n, IsSet(n)
        PROVE  n # Readings!Unset
    BY <2>1, SMT DEF IsSet, Readings!Unset
  <2>2. IsSet(shared.temp) /\ IsSet(shared.press)
    BY DEF ReadingsInv, SetStaysSet
  <2> QED
    BY <2>1, <2>2
<1>7. Readings!FrostIsVisible
  <2> SUFFICES ASSUME read, ~written
               PROVE  /\ (shared.press < 0) = (temp < 0 /\ temp % 100 # 0)
                      /\ temp < 0 /\ shared.press >= 0 => shared.temp = temp
    BY DEF Readings!FrostIsVisible, Readings!Measured
  <2>1. (shared.press < 0) <=> (temp < 0 /\ temp % 100 # 0)
    BY <1>0, <1>2, <1>3, <1>4
  <2>2. temp < 0 /\ shared.press >= 0 => shared.temp = temp
    BY <1>0, <1>1, <1>2, <1>3, <1>4
  <2> QED
    BY <2>1, <2>2
<1>8. Readings!ReadingIsClose
  <2> SUFFICES ASSUME read, ~written, temp >= 0
               PROVE  \A f \in {<<temp, shared.temp>>,
                                <<press, shared.press>>} :
                          /\ f[2] - f[1] \in 0 .. 81
                          /\ f[2] # f[1] => f[1] % 100 \in 1 .. 9
    BY DEF Readings!ReadingIsClose, Readings!Measured
  <2>1. shared.temp = t /\ shared.press = p
    BY <1>0, <1>3, <1>4
  <2>2. t - temp \in 0 .. 81 /\ (t # temp => temp % 100 \in 1 .. 9)
    BY <1>0, <1>1
  <2>3. p - press \in 0 .. 81 /\ (p # press => press % 100 \in 1 .. 9)
    BY <1>0, <1>2
  <2> QED
    BY <2>1, <2>2, <2>3
<1> QED
  BY <1>5, <1>6, <1>7, <1>8

-----------------------------------------------------------------------------
(* The speeds of the motors *)

\* The speeds that calibrate_ms lets through.
Legal == 1 .. Speeds!Highest

\* What ReportIsLegal lets a report be.
Reportable == 0 .. 9999

\* The speeds are ints, and legal ones where no sysfs writer has set them; so
\* is what timers and reports take from them.
SpeedsInv ==
    /\ speed \in [Speeds!Motors -> Ints]
    /\ period \in [Speeds!Motors -> Nat]
    /\ reader \in {"idle", "motor_2"}
    /\ reported \in [Speeds!Motors -> Int]
    /\ stored \subseteq Speeds!Motors /\ fired \subseteq Speeds!Motors
    /\ \A m \in Speeds!Motors \ stored : speed[m] \in Legal
    /\ \A m \in fired \ stored : period[m] \in Legal
    /\ "motor_2" \notin stored => reported["motor_2"] \in Reportable

\* Among some of the powers of ten there is a least one.
LEMMA LeastPower ==
    ASSUME NEW T \in SUBSET Speeds!Powers, T # {}
    PROVE  \E p \in T : \A q \in T : p <= q
<1>1. PICK x \in T : TRUE
  OBVIOUS
<1> SUFFICES ASSUME \A p \in T : \E q \in T : q < p
             PROVE  FALSE
  BY SMTT(60) DEF Speeds!Powers
<1> QED
  BY <1>1, SMTT(60) DEF Speeds!Powers

\* The first digits of a number make a number below the limit.
LEMMA DigitsFit ==
    ASSUME NEW n \in Nat, NEW limit \in Nat,
           \E q \in Speeds!Powers : n \div q < limit
    PROVE  /\ Speeds!FirstDigits(n, limit) \in Nat
           /\ Speeds!FirstDigits(n, limit) < limit
<1> DEFINE T == {q \in Speeds!Powers : n \div q < limit}
           Good(p) == /\ n \div p < limit
                      /\ \A q \in Speeds!Powers :
                             q < p => n \div q >= limit
<1>1. Speeds!Powers \subseteq Nat \ {0}
  BY SMT DEF Speeds!Powers
<1>2. T \in SUBSET Speeds!Powers /\ T # {}
  OBVIOUS
<1> HIDE DEF T
<1>3. PICK p \in T : \A q \in T : p <= q
  BY <1>2, LeastPower
<1> USE DEF T
<1>4. \A q \in Speeds!Powers : n \div q \in Nat
  <2> SUFFICES ASSUME NEW q \in Speeds!Powers
               PROVE  n \div q \in Nat
    OBVIOUS
  <2>1. q \in Nat \ {0}
    BY <1>1
  <2> QED
    BY <2>1
<1>5. p \in Speeds!Powers /\ Good(p)
  BY <1>1, <1>3, <1>4
<1> DEFINE c == CHOOSE q \in Speeds!Powers : Good(q)
<1>6. Speeds!FirstDigits(n, limit) = n \div c
  BY DEF Speeds!FirstDigits
<1>7. c \in Speeds!Powers /\ Good(c)
  BY <1>5
<1>8. n \div c \in Nat /\ n \div c < limit
  BY <1>4, <1>7
<1> HIDE DEF c
<1> QED
  BY <1>6, <1>8

\* What a sysfs file shows of an int is an int, and of a legal speed a number
\* of at most four digits.
LEMMA ShownIsNumber ==
    ASSUME NEW n \in Ints
    PROVE  /\ Speeds!Shown(n) \in Int
           /\ n \in Legal => Speeds!Shown(n) \in Reportable
<1>1. n \in Int /\ -32768 <= n \div 65536 /\ n \div 65536 < 32768
  BY DEF Ints
<1>2. CASE n < 0
  <2>1. -n \in Nat
    BY <1>1, <1>2
  <2>2. (-n) \div 1000000000 < 1000
    BY <1>1, <1>2, SMT
  <2>3. \E q \in Speeds!Powers : (-n) \div q < 1000
    BY <2>2, SMT DEF Speeds!Powers
  <2>4. Speeds!FirstDigits(-n, 1000) \in Nat
    BY <2>1, <2>3, DigitsFit
  <2>5. Speeds!Shown(n) = -Speeds!FirstDigits(-n, 1000)
    BY <1>2 DEF Speeds!Shown
  <2>6. n \notin Legal
    BY <1>2 DEF Legal
  <2> QED
    BY <2>4, <2>5, <2>6
<1>3. CASE ~(n < 0)
  <2>1. n \in Nat
    BY <1>1, <1>3
  <2>2. n \div 1000000000 < 10000
    BY <1>1, <1>3, SMT
  <2>3. \E q \in Speeds!Powers : n \div q < 10000
    BY <2>2, SMT DEF Speeds!Powers
  <2>4. /\ Speeds!FirstDigits(n, 10000) \in Nat
        /\ Speeds!FirstDigits(n, 10000) < 10000
    BY <2>1, <2>3, DigitsFit
  <2>5. Speeds!Shown(n) = Speeds!FirstDigits(n, 10000)
    BY <1>3 DEF Speeds!Shown
  <2>6. ASSUME NEW r \in Nat, r < 10000
        PROVE  r \in Reportable
    BY <2>6 DEF Reportable
  <2> QED
    BY <2>4, <2>5, <2>6
<1> QED
  BY <1>2, <1>3

\* calibrate_ms lets legal speeds through.
LEMMA CalibratedIsLegal ==
    ASSUME NEW n \in Int
    PROVE  Speeds!Calibrated(n) \in Legal
BY DEF Speeds!Calibrated, Legal, Speeds!Highest,
       Speeds!Base

\* Every step of the motors keeps SpeedsInv.
LEMMA SpeedsKept ==
    ASSUME SpeedsInv, Speeds!Next
    PROVE  SpeedsInv'
<1> DEFINE M == Speeds!Motors
<1>0. /\ speed \in [M -> Ints] /\ period \in [M -> Nat]
      /\ reader \in {"idle", "motor_2"}
      /\ reported \in [M -> Int] /\ stored \subseteq M /\ fired \subseteq M
      /\ \A m \in M \ stored : speed[m] \in Legal
      /\ \A m \in fired \ stored : period[m] \in Legal
      /\ "motor_2" \notin stored => reported["motor_2"] \in Reportable
  BY DEF SpeedsInv
<1>1. /\ Legal \subseteq Ints /\ Ints \subseteq Int
      /\ Numbers \subseteq Ints
  <2>1. Legal \subseteq Ints
    BY DEF Legal, Ints, Speeds!Highest
  <2>2. Ints \subseteq Int
    BY DEF Ints
  <2> QED
    BY <2>1, <2>2, SpeedsAssumption DEF SpeedConstants
<1> SUFFICES
        /\ speed' \in [M -> Ints] /\ period' \in [M -> Nat]
        /\ reader' \in {"idle", "motor_2"}
        /\ reported' \in [M -> Int] /\ stored' \subseteq M
        /\ fired' \subseteq M
        /\ \A m \in M \ stored' : speed'[m] \in Legal
        /\ \A m \in fired' \ stored' : period'[m] \in Legal
        /\ "motor_2" \notin stored' => reported'["motor_2"] \in Reportable
  BY DEF SpeedsInv
<1>2. ASSUME NEW m \in M, NEW n \in Numbers,
             Speeds!SetMotorSpeed(m, n)
      PROVE  /\ speed' \in [M -> Ints]
             /\ \A o \in M \ stored : speed'[o] \in Legal
             /\ UNCHANGED <<period, reader, reported, stored, fired>>
  <2>1. Speeds!Calibrated(n) \in Legal
    BY <1>1, CalibratedIsLegal
  <2>2. speed' = [speed EXCEPT ![m] = Speeds!Calibrated(n)]
    BY <1>2 DEF Speeds!SetMotorSpeed, Speeds!Becomes
  <2>3. UNCHANGED <<period, reader, reported, stored, fired>>
    BY <1>2 DEF Speeds!SetMotorSpeed
  <2>4. /\ speed' \in [M -> Ints]
        /\ \A o \in M : speed'[o] = speed[o] \/ speed'[o] \in Legal
    <3>1. Speeds!Calibrated(n) \in Ints
      BY <1>1, <2>1
    <3> QED
      BY <1>0, <2>1, <2>2, <3>1
  <2> QED
    BY <1>0, <1>1, <2>3, <2>4
<1>3. ASSUME NEW m \in M, NEW n \in Numbers,
             Speeds!StoreEngineClass(m, n)
      PROVE  /\ speed' \in [M -> Ints]
             /\ stored' = stored \cup {m}
             /\ \A o \in M \ stored' : speed'[o] \in Legal
             /\ UNCHANGED <<period, reader, reported, fired>>
  <2>1. n \in Ints
    BY <1>1
  <2>2. speed' = [speed EXCEPT ![m] = n]
    BY <1>3 DEF Speeds!StoreEngineClass, Speeds!Becomes
  <2>3. stored' = stored \cup {m} /\ UNCHANGED <<period, reader, reported, fired>>
    BY <1>3 DEF Speeds!StoreEngineClass
  <2> QED
    BY <1>0, <1>1, <2>1, <2>2, <2>3
<1>4. ASSUME NEW m \in M, Speeds!RestartCallback(m)
      PROVE  /\ period' \in [M -> Nat]
             /\ fired' = fired \cup {m}
             /\ \A o \in fired' \ stored : period'[o] \in Legal
             /\ UNCHANGED <<speed, reader, reported, stored>>
  <2>1. /\ period' = [period EXCEPT ![m] = Speeds!Forwarded(speed[m])]
        /\ fired' = fired \cup {m}
        /\ UNCHANGED <<speed, reader, reported, stored>>
    BY <1>4 DEF Speeds!RestartCallback
  <2>2. Speeds!Forwarded(speed[m]) \in Nat
    <3>1. speed[m] \in Int
      BY <1>0, <1>1
    <3> QED
      BY <3>1 DEF Speeds!Forwarded
  <2>3. m \notin stored => Speeds!Forwarded(speed[m]) \in Legal
    <3> SUFFICES ASSUME m \notin stored
                 PROVE  Speeds!Forwarded(speed[m]) \in Legal
      OBVIOUS
    <3>1. speed[m] \in Legal
      BY <1>0
    <3>2. ~(speed[m] < 1)
      BY <3>1 DEF Legal
    <3> QED
      BY <3>1, <3>2 DEF Speeds!Forwarded
  <2> QED
    BY <1>0, <2>1, <2>2, <2>3
<1>5. ASSUME Speeds!ReadMotor1
      PROVE  /\ reported' \in [M -> Int]
             /\ reported'["motor_2"] = reported["motor_2"]
             /\ reader' = "motor_2"
             /\ UNCHANGED <<speed, period, stored, fired>>
  <2>1. PICK tail \in Tails :
           reported' = [reported EXCEPT !["motor_1"] =
               Speeds!Followed(Speeds!Shown(speed["motor_1"]),
                                     tail)]
    BY <1>5 DEF Speeds!ReadMotor1
  <2>2. tail[1] \in Nat /\ tail[2] \in Nat
    BY SpeedsAssumption DEF SpeedConstants
  <2>3. "motor_1" \in M
    BY DEF Speeds!Motors
  <2>4. Speeds!Shown(speed["motor_1"]) \in Int
    BY <1>0, <2>3, ShownIsNumber
  <2>5. Speeds!Followed(Speeds!Shown(speed["motor_1"]), tail)
            \in Int
    BY <2>2, <2>4 DEF Speeds!Followed
  <2>6. reader' = "motor_2" /\ UNCHANGED <<speed, period, stored, fired>>
    BY <1>5 DEF Speeds!ReadMotor1
  <2> QED
    BY <1>0, <2>1, <2>5, <2>6 DEF Speeds!Motors
<1>6. ASSUME Speeds!ReadMotor2
      PROVE  /\ reported' \in [M -> Int]
             /\ "motor_2" \notin stored =>
                    reported'["motor_2"] \in Reportable
             /\ reader' = "idle"
             /\ UNCHANGED <<speed, period, stored, fired>>
  <2>1. /\ reported' = [reported EXCEPT !["motor_2"] =
               Speeds!Shown(speed["motor_2"])]
        /\ reader' = "idle" /\ UNCHANGED <<speed, period, stored, fired>>
    BY <1>6 DEF Speeds!ReadMotor2, Speeds!Cleaned
  <2>2. "motor_2" \in M
    BY DEF Speeds!Motors
  <2>3. speed["motor_2"] \in Ints
    BY <1>0, <2>2
  <2>4. /\ Speeds!Shown(speed["motor_2"]) \in Int
        /\ speed["motor_2"] \in Legal =>
               Speeds!Shown(speed["motor_2"]) \in Reportable
    BY <2>3, ShownIsNumber
  <2>5. "motor_2" \notin stored => speed["motor_2"] \in Legal
    BY <1>0, <2>2
  <2>6. /\ reported' \in [M -> Int]
        /\ reported'["motor_2"] = Speeds!Shown(speed["motor_2"])
    BY <1>0, <2>1, <2>2, <2>4
  <2>7. "motor_2" \notin stored => reported'["motor_2"] \in Reportable
    BY <2>4, <2>5, <2>6
  <2> QED
    BY <2>1, <2>6, <2>7
<1>7. ASSUME Speeds!ReadFails
      PROVE  reader' = "idle" /\ UNCHANGED <<speed, period, reported, stored, fired>>
  BY <1>7 DEF Speeds!ReadFails
<1> HIDE DEF M
<1>8. CASE \E m \in M, n \in Numbers : Speeds!SetMotorSpeed(m, n)
  BY <1>0, <1>2, <1>8
<1>9. CASE \E m \in M, n \in Numbers : Speeds!StoreEngineClass(m, n)
  <2>1. PICK m \in M, n \in Numbers : Speeds!StoreEngineClass(m, n)
    BY <1>9
  <2>2. /\ speed' \in [M -> Ints]
        /\ stored' = stored \cup {m}
        /\ \A o \in M \ stored' : speed'[o] \in Legal
        /\ UNCHANGED <<period, reader, reported, fired>>
    BY <1>3, <2>1
  <2> QED
    BY <1>0, <2>2
<1>10. CASE \E m \in M : Speeds!RestartCallback(m)
  BY <1>0, <1>4, <1>10
<1>11. CASE Speeds!ReadMotor1
  BY <1>0, <1>5, <1>11
<1>12. CASE Speeds!ReadMotor2
  BY <1>0, <1>6, <1>12
<1>13. CASE Speeds!ReadFails
  BY <1>0, <1>7, <1>13
<1>14. \/ \E m \in M, n \in Numbers : Speeds!SetMotorSpeed(m, n)
       \/ \E m \in M, n \in Numbers : Speeds!StoreEngineClass(m, n)
       \/ \E m \in M : Speeds!RestartCallback(m)
       \/ Speeds!ReadMotor1 \/ Speeds!ReadMotor2
       \/ Speeds!ReadFails
  BY DEF Speeds!Next, M
<1> QED
  BY <1>8, <1>9, <1>10, <1>11, <1>12, <1>13, <1>14

-----------------------------------------------------------------------------
(* Readings and speeds together *)

SysfsInv == ReadingsInv /\ SpeedsInv

\* SysfsInv is an inductive invariant: a step moves a reading or a motor, and
\* leaves the others alone.
LEMMA SysfsInductive ==
    /\ NumbersInit => SysfsInv
    /\ SysfsInv /\ [NumbersNext]_<<readingVars, speedVars>> => SysfsInv'
<1>1. ASSUME Readings!Init
      PROVE  ReadingsInv
  <2>1. /\ temp = 0 /\ press = 0 /\ raw = Readings!NoRaw
        /\ text = <<>> /\ copying = FALSE /\ written = FALSE /\ read = FALSE
        /\ shared = [temp |-> Readings!Unset, press |-> Readings!Unset]
        /\ whole = FALSE /\ tampered = FALSE
    BY <1>1 DEF Readings!Init
  <2>2. Readings!Unset \in Int /\ Readings!NoRaw \in Int
    BY SMT DEF Readings!Unset, Readings!NoRaw
  <2>3. ReadingTyped
    <3>1. Celsius(temp)
      BY <2>1 DEF Celsius
    <3>2. text \in Seq(Readings!Words) /\ Len(text) <= 2
      BY <2>1
    <3>3. shared \in [temp : Int, press : Int]
      BY <2>1, <2>2
    <3> QED
      BY <2>1, <2>2, <3>1, <3>2, <3>3 DEF ReadingTyped
  <2>4. TextIsPrinted /\ MeasurementWasRead /\ SetStaysSet
    BY <2>1 DEF TextIsPrinted, MeasurementWasRead, SetStaysSet
  <2> QED
    BY <2>3, <2>4 DEF ReadingsInv
<1>2. ASSUME Speeds!Init
      PROVE  SpeedsInv
  <2> DEFINE M == Speeds!Motors
  <2>1. /\ speed = [m \in M |-> Speeds!Base]
        /\ period = [m \in M |-> 0] /\ stored = {} /\ fired = {}
        /\ reader = "idle" /\ reported = [m \in M |-> 0]
    BY <1>2 DEF Speeds!Init
  <2>2. /\ Speeds!Base \in Legal /\ Speeds!Base \in Nat
        /\ Speeds!Base \in Ints
    BY DEF Speeds!Base, Legal, Speeds!Highest, Ints
  <2>3. 0 \in Reportable
    BY DEF Reportable
  <2>4. "motor_2" \in M
    BY DEF Speeds!Motors
  <2> HIDE DEF M
  <2>5. /\ speed \in [M -> Ints] /\ period \in [M -> Nat]
        /\ reported \in [M -> Int] /\ reported["motor_2"] = 0
        /\ \A m \in M : speed[m] \in Legal
    BY <2>1, <2>2, <2>4
  <2> QED
    BY <2>1, <2>3, <2>5 DEF SpeedsInv, M
<1>3. ASSUME ReadingsInv, UNCHANGED readingVars
      PROVE  ReadingsInv'
  BY <1>3 DEF ReadingsInv, ReadingTyped, TextIsPrinted, MeasurementWasRead,
              SetStaysSet, readingVars
<1>4. ASSUME SpeedsInv, UNCHANGED speedVars
      PROVE  SpeedsInv'
  BY <1>4 DEF SpeedsInv, speedVars
<1>5. ASSUME SysfsInv, NumbersNext
      PROVE  SysfsInv'
  BY <1>3, <1>4, <1>5, ReadingsKept, SpeedsKept
     DEF SysfsInv, NumbersNext
<1>6. ASSUME SysfsInv, UNCHANGED <<readingVars, speedVars>>
      PROVE  SysfsInv'
  BY <1>3, <1>4, <1>6 DEF SysfsInv
<1>7. NumbersInit => SysfsInv
  BY <1>1, <1>2 DEF NumbersInit, SysfsInv
<1> QED
  BY <1>5, <1>6, <1>7

\* So every behaviour keeps it.
LEMMA SysfsInvariant == NumbersSpec => []SysfsInv
<1>1. NumbersInit => SysfsInv
  BY SysfsInductive
<1>2. SysfsInv /\ [NumbersNext]_<<readingVars, speedVars>>
          => SysfsInv'
  BY SysfsInductive
<1> QED
  BY <1>1, <1>2, PTL DEF NumbersSpec

\* What nobody has tampered with is right: nothing is shown that was never
\* measured, no timer fires without a pause, and a report names a speed of at
\* most four digits.  For every calibration of the sensor, all that it may
\* deliver and every int that reaches the motors.
THEOREM UntamperedIsRight == NumbersSpec => []NumbersInv
<1>1. ASSUME SpeedsInv
      PROVE  /\ Speeds!TypeOK /\ PausesUnlessStored
             /\ ReportIsLegal
  <2>1. Ints \subseteq Int
    BY DEF Ints
  <2>2. Speeds!TypeOK
    BY <1>1, <2>1 DEF SpeedsInv, Speeds!TypeOK
  <2>3. PausesUnlessStored
    BY <1>1 DEF SpeedsInv, Legal, PausesUnlessStored,
                Speeds!PausesUnlessStored
  <2>4. ReportIsLegal
    <3>1. "motor_2" \notin stored => reported["motor_2"] \in Reportable
      BY <1>1 DEF SpeedsInv
    <3>2. ReportIsLegal =
             ("motor_2" \notin stored => reported["motor_2"] \in Reportable)
      BY DEF ReportIsLegal, Speeds!ReportIsLegal, Reportable
    <3> QED
      BY <3>1, <3>2
  <2> QED
    BY <2>2, <2>3, <2>4
<1>2. SysfsInv => NumbersInv
  BY <1>1, ReadingsAreRight
     DEF SysfsInv, NumbersInv, NumbersTypeOK, UnsetIsNotShown
<1> QED
  BY <1>2, SysfsInvariant, PTL

\* A reading survives the way through text and sscanf: above zero close and
\* never too low, below zero at least so that frost shows.  For every
\* calibration of the sensor and all that it may deliver.
THEOREM ReadingsSurvive == NumbersSpec => []ReadingSurvives
<1>1. SysfsInv => ReadingSurvives
  BY ReadingsAreRight DEF SysfsInv, ReadingSurvives
<1> QED
  BY <1>1, SysfsInvariant, PTL

-----------------------------------------------------------------------------
(* What the formula does with raw values, for which sensors                 *)

\* A product with both factors away from zero is as far from it.
LEMMA ProductAtLeast ==
    ASSUME NEW x \in Nat, NEW m \in Nat, m <= x,
           NEW y \in Nat, NEW n \in Nat, n <= y
    PROVE  m * n <= x * y
<1>1. ASSUME NEW a \in Nat, NEW b \in Nat
      PROVE  a * b \in Nat
  OBVIOUS
<1>2. (x - m) * y \in Nat /\ m * (y - n) \in Nat
  BY <1>1
<1>3. (x - m) * y = x * y - m * y /\ m * (y - n) = m * y - m * n
  OBVIOUS
<1>4. x * y \in Int /\ m * y \in Int /\ m * n \in Int
  OBVIOUS
<1> QED
  BY <1>2, <1>3, <1>4

\* ShiftedProduct rounds the product down to a multiple of the shift.
LEMMA ShiftedIsFloor ==
    ASSUME NEW a \in Int, NEW b \in Int, NEW s \in {2048, 4096, 16384}
    PROVE  /\ Readings!ShiftedProduct(a, b, s) \in Int
           /\ a * b \in Int
           /\ s * Readings!ShiftedProduct(a, b, s) <= a * b
           /\ a * b < s * Readings!ShiftedProduct(a, b, s) + s
<1>1. /\ a \div s \in Int /\ a % s \in Int
      /\ a = s * (a \div s) + (a % s)
  <2>1. CASE s = 2048
    BY <2>1, SMT
  <2>2. CASE s = 4096
    BY <2>2, SMT
  <2>3. CASE s = 16384
    BY <2>3, SMT
  <2> QED
    BY <2>1, <2>2, <2>3
<1> DEFINE q == (a \div s) * b
           e == (a % s) * b
<1>2. q \in Int /\ e \in Int
  BY <1>1
<1>3. a * b = s * q + e
  <2> DEFINE d == a \div s
             f == a % s
  <2>1. d \in Int /\ f \in Int /\ a = s * d + f
    BY <1>1
  <2>2. q = d * b /\ e = f * b
    OBVIOUS
  <2> HIDE DEF d, f, q, e
  <2>3. (s * d + f) * b = s * (d * b) + f * b
    BY <2>1
  <2> QED
    BY <2>1, <2>2, <2>3
<1>4. Readings!ShiftedProduct(a, b, s) = q + (e \div s)
  BY DEF Readings!ShiftedProduct
<1> HIDE DEF q, e
<1>5. /\ e \div s \in Int
      /\ s * (e \div s) <= e /\ e < s * (e \div s) + s
  <2>1. CASE s = 2048
    BY <1>2, <2>1, SMT
  <2>2. CASE s = 4096
    BY <1>2, <2>2, SMT
  <2>3. CASE s = 16384
    BY <1>2, <2>3, SMT
  <2> QED
    BY <2>1, <2>2, <2>3
<1>6. s * (q + (e \div s)) = s * q + s * (e \div s)
  BY <1>2, <1>5
<1>7. s * q \in Int /\ s * (e \div s) \in Int
  BY <1>2, <1>5
<1> QED
  BY <1>2, <1>3, <1>4, <1>5, <1>6, <1>7

\* What fits is not changed by wrapping.
LEMMA FittingIsKept ==
    ASSUME NEW n \in Int, NEW half \in {32768, 524288, 1048576},
           -half <= n, n < half
    PROVE  Readings!Wrapped(n, half) = n
<1>1. CASE half = 32768
  BY <1>1, SMT DEF Readings!Wrapped
<1>2. CASE half = 524288
  BY <1>2, SMT DEF Readings!Wrapped
<1>3. CASE half = 1048576
  BY <1>3, SMT DEF Readings!Wrapped
<1> QED
  BY <1>1, <1>2, <1>3

\* The calibration words are natural numbers of 16 bits.
LEMMA WordsAreNumbers ==
    DigT1 \in Nat /\ DigT2 \in Nat /\ T3Word \in Nat /\ T3Word < 65536
<1>1. ASSUME NEW n \in Readings!Shorts
      PROVE  n \in Nat /\ n < 65536
  BY DEF Readings!Shorts
<1> QED
  BY <1>1, ReadingAssumption DEF Readings!ReadingConstants

\* The third word is signed.
LEMMA SignOfT3 ==
    ASSUME NEW m \in Nat, m < 32768, T3Word <= m \/ 65536 - m <= T3Word
    PROVE  /\ Readings!DigT3 \in Int
           /\ -m <= Readings!DigT3 /\ Readings!DigT3 <= m
<1>1. CASE T3Word <= m
  <2>1. Readings!DigT3 = T3Word
    BY <1>1, WordsAreNumbers, FittingIsKept DEF Readings!DigT3
  <2> QED
    BY <1>1, <2>1, WordsAreNumbers
<1>2. CASE 65536 - m <= T3Word
  <2>1. (T3Word + 32768) % 65536 = T3Word - 32768
    BY <1>2, WordsAreNumbers, SMT
  <2>2. Readings!DigT3 = T3Word - 65536
    <3>1. Readings!DigT3 = ((T3Word + 32768) % 65536) - 32768
      BY SMT DEF Readings!DigT3, Readings!Wrapped
    <3> QED
      BY <2>1, <3>1, WordsAreNumbers
  <2> QED
    BY <1>2, <2>2, WordsAreNumbers
<1> QED
  BY <1>1, <1>2

-----------------------------------------------------------------------------
\* One step up of the raw value moves the linear term by at least twelve for
\* each eight units.
LEMMA LinearRises ==
    ASSUME LinearTermDominates,
           NEW r \in Int, 0 <= r, r <= 1048575,
           NEW s \in Int, r <= s, s <= 1048575
    PROVE  /\ Readings!Linear(r) \in Int /\ Readings!Linear(s) \in Int
           /\ Readings!Linear(s) >= Readings!Linear(r)
                                        + 12 * ((s \div 8) - (r \div 8))
<1>1. /\ DigT1 \in Int /\ DigT2 \in Int
      /\ 26500 <= DigT1 /\ DigT1 <= 39000
      /\ 24576 <= DigT2 /\ DigT2 <= 27500
  BY WordsAreNumbers DEF LinearTermDominates
<1> DEFINE Unwrapped(x) == Readings!ShiftedProduct(x, DigT2, 2048)
<1>2. ASSUME NEW x \in Int, -78071 <= x, x <= 78071
      PROVE  /\ Readings!Wrapped(Unwrapped(x), 1048576) = Unwrapped(x)
             /\ Unwrapped(x) \in Int /\ x * DigT2 \in Int
             /\ 2048 * Unwrapped(x) <= x * DigT2
             /\ x * DigT2 < 2048 * Unwrapped(x) + 2048
  <2> DEFINE u == Unwrapped(x)
             p == x * DigT2
  <2>1. /\ u \in Int /\ p \in Int
        /\ 2048 * u <= p /\ p < 2048 * u + 2048
    BY <1>1, ShiftedIsFloor
  <2>2. -(78071 * 27500) <= p /\ p <= 78071 * 27500
    BY <1>1, <1>2, ProductBounds
  <2> HIDE DEF u, p
  <2>3. -1048576 <= u /\ u < 1048576
    BY <2>1, <2>2, SMT
  <2>4. Readings!Wrapped(u, 1048576) = u
    BY <2>1, <2>3, FittingIsKept
  <2> QED
    BY <2>1, <2>4 DEF u, p
<1> DEFINE x == r \div 8 - 2 * DigT1
           k == (s \div 8) - (r \div 8)
<1>3. /\ x \in Int /\ k \in Int /\ 0 <= k
      /\ -78071 <= x /\ x + k <= 78071
  BY <1>1, SMT
<1>4. s \div 8 - 2 * DigT1 = x + k
  BY <1>1, SMT
<1>5. /\ Readings!Linear(r) = Readings!Wrapped(Unwrapped(x), 1048576)
      /\ Readings!Linear(s) = Readings!Wrapped(Unwrapped(x + k), 1048576)
  BY <1>4 DEF Readings!Linear
<1> HIDE DEF x, k, Unwrapped
<1>6. -78071 <= x + k /\ x <= 78071 /\ x + k \in Int
  BY <1>3
<1>7. (x + k) * DigT2 >= x * DigT2 + 24576 * k
  <2>1. k * DigT2 >= k * 24576
    BY <1>1, <1>3, ProductAtLeast
  <2>2. (x + k) * DigT2 = x * DigT2 + k * DigT2
    BY <1>1, <1>3
  <2>3. x * DigT2 \in Int /\ k * DigT2 \in Int
    BY <1>1, <1>3
  <2> QED
    BY <1>3, <2>1, <2>2, <2>3
<1> DEFINE u == Unwrapped(x)
           v == Unwrapped(x + k)
           p == x * DigT2
           q == (x + k) * DigT2
<1>8. /\ u \in Int /\ v \in Int /\ p \in Int /\ q \in Int
      /\ 2048 * u <= p /\ q < 2048 * v + 2048
      /\ q >= p + 24576 * k
  BY <1>2, <1>3, <1>6, <1>7
<1>9. Readings!Linear(r) = u /\ Readings!Linear(s) = v
  BY <1>2, <1>3, <1>5, <1>6
<1> HIDE DEF u, v, p, q
<1>10. v >= u + 12 * k
  BY <1>3, <1>8, SMT
<1> QED
  BY <1>3, <1>8, <1>9, <1>10 DEF k

\* The quadratic term moves by at most eleven for each sixteen units.
LEMMA SquareIsSlow ==
    ASSUME LinearTermDominates,
           NEW r \in Int, 0 <= r, r <= 1048575,
           NEW s \in Int, r <= s, s <= 1048575
    PROVE  LET Term(n) == Readings!ShiftedProduct(Readings!Square(n),
                                                  Readings!DigT3, 16384)
           IN  /\ Term(r) \in Int /\ Term(s) \in Int
               /\ Term(s) >= Term(r) - 11 * ((s \div 16) - (r \div 16))
<1>1. DigT1 \in Int /\ 26500 <= DigT1 /\ DigT1 <= 39000
  BY WordsAreNumbers DEF LinearTermDominates
<1>2. /\ Readings!DigT3 \in Int
      /\ -7500 <= Readings!DigT3 /\ Readings!DigT3 <= 7500
  <2>1. T3Word <= 7500 \/ 65536 - 7500 <= T3Word
    BY DEF LinearTermDominates
  <2> QED
    BY <2>1, SignOfT3
<1> DEFINE Unwrapped(n) == Readings!ShiftedProduct(n, n, 4096)
<1>3. ASSUME NEW n \in Int, -39035 <= n, n <= 39035
      PROVE  /\ Readings!Wrapped(Unwrapped(n), 524288) = Unwrapped(n)
             /\ Unwrapped(n) \in Int /\ n * n \in Int
             /\ 4096 * Unwrapped(n) <= n * n
             /\ n * n < 4096 * Unwrapped(n) + 4096
  <2> DEFINE u == Unwrapped(n)
             p == n * n
  <2>1. /\ u \in Int /\ p \in Int
        /\ 4096 * u <= p /\ p < 4096 * u + 4096
    BY ShiftedIsFloor
  <2>2. -(39035 * 39035) <= p /\ p <= 39035 * 39035
    BY <1>3, ProductBounds
  <2> HIDE DEF u, p
  <2>3. -524288 <= u /\ u < 524288
    BY <2>1, <2>2, SMT
  <2>4. Readings!Wrapped(u, 524288) = u
    BY <2>1, <2>3, FittingIsKept
  <2> QED
    BY <2>1, <2>4 DEF u, p
<1> DEFINE n == r \div 16 - DigT1
           j == (s \div 16) - (r \div 16)
<1>4. /\ n \in Int /\ j \in Int /\ 0 <= j
      /\ -39035 <= n /\ n + j <= 39035
  BY <1>1, SMT
<1>5. s \div 16 - DigT1 = n + j
  BY <1>1, SMT
<1>6. /\ Readings!Square(r) = Readings!Wrapped(Unwrapped(n), 524288)
      /\ Readings!Square(s) = Readings!Wrapped(Unwrapped(n + j), 524288)
  BY <1>5 DEF Readings!Square
<1> HIDE DEF n, j, Unwrapped
<1>7. -39035 <= n + j /\ n <= 39035 /\ n + j \in Int
  BY <1>4
<1> DEFINE u == Unwrapped(n)
           v == Unwrapped(n + j)
           p == n * n
           q == (n + j) * (n + j)
<1>8. /\ u \in Int /\ v \in Int /\ p \in Int /\ q \in Int
      /\ 4096 * u <= p /\ p < 4096 * u + 4096
      /\ 4096 * v <= q /\ q < 4096 * v + 4096
  BY <1>3, <1>4, <1>7
<1>9. Readings!Square(r) = u /\ Readings!Square(s) = v
  BY <1>3, <1>4, <1>6, <1>7
<1>10. q - p <= 78070 * j /\ p - q <= 78070 * j
  <2> DEFINE w == n + (n + j)
  <2>1. w \in Int /\ -78070 <= w /\ w <= 78070
    BY <1>4, <1>7
  <2>2. q - p = j * w
    BY <1>4, SMT
  <2> HIDE DEF w, p, q
  <2>3. -(j * 78070) <= j * w /\ j * w <= j * 78070 /\ j * w \in Int
    BY <1>4, <2>1, ProductBounds
  <2> QED
    BY <1>4, <1>8, <2>2, <2>3
<1>11. j = 0 => u = v
  BY <1>4
<1> HIDE DEF u, v, p, q
<1>12. v - u <= 21 * j /\ u - v <= 21 * j
  <2>1. CASE j = 0
    BY <1>8, <1>11, <2>1
  <2>2. CASE j >= 1
    BY <1>4, <1>8, <1>10, <2>2, SMT
  <2> QED
    BY <1>4, <2>1, <2>2
<1> DEFINE t == Readings!DigT3
           Term(a) == Readings!ShiftedProduct(a, t, 16384)
<1>13. /\ Term(u) \in Int /\ u * t \in Int
       /\ 16384 * Term(u) <= u * t /\ u * t < 16384 * Term(u) + 16384
       /\ Term(v) \in Int /\ v * t \in Int
       /\ 16384 * Term(v) <= v * t /\ v * t < 16384 * Term(v) + 16384
  BY <1>2, <1>8, ShiftedIsFloor
<1>14. v * t - u * t >= -(157500 * j)
  <2>1. v * t - u * t = (v - u) * t
    BY <1>2, <1>8
  <2>2. -((21 * j) * 7500) <= (v - u) * t
    <3>1. /\ 21 * j \in Nat /\ v - u \in Int
          /\ -(21 * j) <= v - u /\ v - u <= 21 * j
      BY <1>4, <1>8, <1>12
    <3> HIDE DEF t
    <3> QED
      BY <1>2, <3>1, ProductBounds DEF t
  <2>3. (21 * j) * 7500 = 157500 * j
    BY <1>4
  <2> QED
    BY <2>1, <2>2, <2>3
<1>15. j = 0 => Term(u) = Term(v)
  BY <1>11
<1> DEFINE a == Term(u)
           b == Term(v)
           c == u * t
           d == v * t
<1>16. /\ a \in Int /\ b \in Int /\ c \in Int /\ d \in Int
       /\ 16384 * a <= c /\ d < 16384 * b + 16384
       /\ d - c >= -(157500 * j) /\ (j = 0 => a = b)
  BY <1>13, <1>14, <1>15
<1> HIDE DEF a, b, c, d
<1>17. b >= a - 11 * j
  <2>1. CASE j = 0
    BY <1>16, <2>1
  <2>2. CASE j >= 1
    BY <1>4, <1>16, <2>2, SMT
  <2> QED
    BY <1>4, <2>1, <2>2
<1> QED
  BY <1>9, <1>16, <1>17 DEF a, b, j

\* So the temperature never falls when the raw value rises.
LEMMA FormulaIsMonotone ==
    ASSUME LinearTermDominates,
           NEW r \in Int, 0 <= r, r <= 1048575,
           NEW s \in Int, r <= s, s <= 1048575
    PROVE  Readings!Temperature(r) <= Readings!Temperature(s)
<1> DEFINE Term(n) == Readings!ShiftedProduct(Readings!Square(n),
                                              Readings!DigT3, 16384)
           k == (s \div 8) - (r \div 8)
           j == (s \div 16) - (r \div 16)
<1>1. /\ Readings!Linear(r) \in Int /\ Readings!Linear(s) \in Int
      /\ Readings!Linear(s) >= Readings!Linear(r) + 12 * k
  BY LinearRises
<1>2. /\ Term(r) \in Int /\ Term(s) \in Int
      /\ Term(s) >= Term(r) - 11 * j
  BY SquareIsSlow
<1>3. k \in Int /\ j \in Int /\ 0 <= j /\ j <= k
  BY SMT
<1> HIDE DEF k, j
<1> DEFINE f == Readings!Fine(r)
           g == Readings!Fine(s)
<1>4. f = Readings!Linear(r) + Term(r) /\ g = Readings!Linear(s) + Term(s)
  BY DEF Readings!Fine
<1> HIDE DEF Term, f, g
<1>5. f \in Int /\ g \in Int /\ f <= g
  BY <1>1, <1>2, <1>3, <1>4
<1>6. (f * 5 + 128) \div 256 <= (g * 5 + 128) \div 256
  BY <1>5, SMT
<1> QED
  BY <1>6 DEF f, g, Readings!Temperature

\* What three bytes without an error stand for.
LEMMA DeliveredBounds ==
    ASSUME NEW b \in Seq(Readings!BytesOrErrors), Len(b) = 3,
           \A i \in 1 .. 3 : ~(b[i] < 0)
    PROVE  /\ Readings!RawTemp(b) \in Int
           /\ 0 <= Readings!RawTemp(b) /\ Readings!RawTemp(b) <= 1048575
<1>1. /\ b[1] \in Nat /\ b[2] \in Nat /\ b[3] \in Nat
      /\ b[1] <= 255 /\ b[2] <= 255 /\ b[3] <= 255
  <2>1. \A i \in 1 .. 3 : b[i] \in Readings!BytesOrErrors
    BY ElementOfSeq
  <2>2. \A x \in Readings!BytesOrErrors : ~(x < 0) => x \in Nat /\ x <= 255
    BY DEF Readings!BytesOrErrors
  <2> QED
    BY <2>1, <2>2
<1> DEFINE c == Readings!Combined(b[1], b[2], b[3])
<1>2. c \in Int /\ 0 <= c /\ c <= 16777215
  BY <1>1 DEF Readings!Combined
<1>3. Readings!RawTemp(b) = c \div 16
  BY DEF Readings!RawTemp
<1> HIDE DEF c
<1>4. c \div 16 \in Int /\ 0 <= c \div 16 /\ c \div 16 <= 1048575
  BY <1>2, SMT
<1> QED
  BY <1>3, <1>4

\* What a read that failed leaves is negative, wherever the error is, and its
\* size is that of the error in the uppermost byte at most.
LEMMA FailedBounds ==
    ASSUME NEW b \in Seq(Readings!BytesOrErrors), Len(b) = 3,
           \A i \in 1 .. 3 : b[i] >= -133,
           \E i \in 1 .. 3 : b[i] < 0
    PROVE  /\ Readings!RawTemp(b) \in Int
           /\ -544768 <= Readings!RawTemp(b) /\ Readings!RawTemp(b) <= -1
<1>1. /\ b[1] \in Int /\ b[2] \in Int /\ b[3] \in Int
      /\ -133 <= b[1] /\ -133 <= b[2] /\ -133 <= b[3]
      /\ b[1] <= 255 /\ b[2] <= 255 /\ b[3] <= 255
      /\ b[1] < 0 \/ b[2] < 0 \/ b[3] < 0
  <2>1. \A i \in 1 .. 3 : b[i] \in Readings!BytesOrErrors
    BY ElementOfSeq
  <2>2. \A x \in Readings!BytesOrErrors : x \in Int /\ x <= 255
    BY DEF Readings!BytesOrErrors
  <2>3. \A i \in 1 .. 3 : i = 1 \/ i = 2 \/ i = 3
    OBVIOUS
  <2> QED
    BY <2>1, <2>2, <2>3
<1> DEFINE c == Readings!Combined(b[1], b[2], b[3])
<1>2. c \in Int /\ -8716288 <= c /\ c <= -1
  <2>1. CASE b[3] < 0
    BY <1>1, <2>1 DEF Readings!Combined
  <2>2. CASE b[3] >= 0 /\ b[2] < 0
    BY <1>1, <2>2 DEF Readings!Combined
  <2>3. CASE b[3] >= 0 /\ b[2] >= 0
    BY <1>1, <2>3 DEF Readings!Combined
  <2> QED
    BY <1>1, <2>1, <2>2, <2>3
<1>3. Readings!RawTemp(b) = c \div 16
  BY DEF Readings!RawTemp
<1> HIDE DEF c
<1>4. c \div 16 \in Int /\ -544768 <= c \div 16 /\ c \div 16 <= -1
  BY <1>2, SMT
<1> QED
  BY <1>3, <1>4

\* The raw value, unless it stands for none or a failed read, is one that the
\* converter delivers, and the temperature is what the formula makes of it.
TempIsOfRaw ==
    0 <= raw => \/ raw = Readings!NoRaw
                \/ raw <= 1048575 /\ temp = Readings!Temperature(raw)

\* A measurement delivers such a value, or -1 when a read failed.
LEMMA MeasuredRaw ==
    ASSUME NEW b \in Bytes, NEW p \in Pressures, Readings!Measure(b, p)
    PROVE  \/ raw' = -1
           \/ /\ raw' \in Int /\ 0 <= raw' /\ raw' <= 1048575
              /\ temp' = Readings!Temperature(raw')
<1>1. b \in Seq(Readings!BytesOrErrors) /\ Len(b) = 3
  BY ReadingAssumption DEF Readings!ReadingConstants
<1>2. temp' = Readings!Temperature(Readings!RawTemp(b))
  BY DEF Readings!Measure
<1>3. CASE \E i \in 1 .. 3 : b[i] < 0
  BY <1>3 DEF Readings!Measure
<1>4. CASE \A i \in 1 .. 3 : ~(b[i] < 0)
  <2>1. raw' = Readings!RawTemp(b)
    BY <1>4 DEF Readings!Measure
  <2> QED
    BY <1>1, <1>2, <1>4, <2>1, DeliveredBounds
<1> QED
  BY <1>3, <1>4

\* Every step of a reading keeps TempIsOfRaw.
LEMMA TempOfRawKept ==
    ASSUME TempIsOfRaw, Readings!Next
    PROVE  TempIsOfRaw'
<1>1. ASSUME NEW b \in Bytes, NEW p \in Pressures, Readings!Measure(b, p)
      PROVE  TempIsOfRaw'
  BY <1>1, MeasuredRaw DEF TempIsOfRaw
<1>2. ASSUME NEW words \in Stores, Readings!Store(words)
      PROVE  TempIsOfRaw'
  BY <1>2 DEF Readings!Store, TempIsOfRaw
<1>3. ASSUME Readings!SensorReads \/ Readings!Copied
      PROVE  TempIsOfRaw'
  BY <1>3 DEF Readings!SensorReads, Readings!Copied, TempIsOfRaw
<1> QED
  BY <1>1, <1>2, <1>3 DEF Readings!Next

\* So every behaviour keeps it.
LEMMA TempOfRawAlways == NumbersSpec => []TempIsOfRaw
<1>1. NumbersInit => TempIsOfRaw
  BY DEF NumbersInit, Readings!Init, TempIsOfRaw
<1>2. TempIsOfRaw /\ [NumbersNext]_<<readingVars, speedVars>>
          => TempIsOfRaw'
  <2>1. ASSUME TempIsOfRaw, UNCHANGED readingVars
        PROVE  TempIsOfRaw'
    BY <2>1 DEF TempIsOfRaw, readingVars
  <2> QED
    BY <2>1, TempOfRawKept DEF NumbersNext
<1> QED
  BY <1>1, <1>2, PTL DEF NumbersSpec

\* A warmer sensor is never measured as a colder one: not only over the values
\* a run tries but over all that the converter delivers, in every order, and
\* for every calibration that keeps the products within 32 bits and has a
\* small quadratic term.
THEOREM NeverColder ==
    ASSUME LinearTermDominates
    PROVE  NumbersSpec => WarmerIsNotColder
<1>1. ASSUME TempIsOfRaw, SysfsInv, SysfsInv',
             [NumbersNext]_<<readingVars, speedVars>>
      PROVE  [raw >= 0 /\ raw' >= raw => temp' >= temp]_(Readings!vars)
  <2>1. raw \in Int /\ raw' \in Int /\ temp \in Int /\ temp' \in Int
    BY <1>1 DEF SysfsInv, ReadingsInv, ReadingTyped, Celsius
  <2>2. CASE UNCHANGED readingVars
    BY <2>2 DEF readingVars, Readings!vars
  <2>3. CASE Readings!Next
    <3> SUFFICES ASSUME raw >= 0, raw' >= raw
                 PROVE  temp' >= temp
      OBVIOUS
    <3>1. CASE \E words \in Stores : Readings!Store(words)
      BY <2>1, <3>1 DEF Readings!Store
    <3>2. CASE Readings!SensorReads \/ Readings!Copied
      BY <2>1, <3>2 DEF Readings!SensorReads, Readings!Copied
    <3>3. CASE \E b \in Bytes, p \in Pressures : Readings!Measure(b, p)
      <4>1. raw' <= 1048575 /\ temp' = Readings!Temperature(raw')
        BY <2>1, <3>3, MeasuredRaw
      <4>2. raw <= 1048575
        BY <2>1, <4>1
      <4>3. raw # Readings!NoRaw
        BY <2>1, <4>2, SMT DEF Readings!NoRaw
      <4>4. temp = Readings!Temperature(raw)
        BY <1>1, <2>1, <4>3 DEF TempIsOfRaw
      <4>5. Readings!Temperature(raw) <= Readings!Temperature(raw')
        BY <2>1, <4>1, <4>2, FormulaIsMonotone
      <4> QED
        BY <2>1, <4>1, <4>4, <4>5
    <3> QED
      BY <2>3, <3>1, <3>2, <3>3 DEF Readings!Next
  <2> QED
    BY <1>1, <2>2, <2>3 DEF NumbersNext
<1>2. TempIsOfRaw /\ SysfsInv /\ SysfsInv'
        /\ [NumbersNext]_<<readingVars, speedVars>>
      => [raw >= 0 /\ raw' >= raw => temp' >= temp]_(Readings!vars)
  BY <1>1
<1> QED
  BY <1>2, TempOfRawAlways, SysfsInvariant, PTL
     DEF NumbersSpec, WarmerIsNotColder, Readings!WarmerIsNotColder

\* A negative raw value gives a linear term far below zero, or far above it
\* when the product has wrapped.
LEMMA FailedLinear ==
    ASSUME NearDataSheet, NEW r \in Int, -544768 <= r, r <= -1
    PROVE  /\ Readings!Linear(r) \in Int
           /\ \/ Readings!Linear(r) <= -646985
              \/ Readings!Linear(r) >= 474967
<1>1. /\ DigT1 \in Int /\ DigT2 \in Nat
      /\ 26500 <= DigT1 /\ DigT1 <= 28400
      /\ 25000 <= DigT2 /\ DigT2 <= 26600
  BY WordsAreNumbers DEF NearDataSheet
<1> DEFINE x == r \div 8 - 2 * DigT1
           u == Readings!ShiftedProduct(x, DigT2, 2048)
           p == x * DigT2
<1>2. x \in Int /\ -124896 <= x /\ x <= -53001
  BY <1>1, SMT
<1>3. Readings!Linear(r) = Readings!Wrapped(u, 1048576)
  BY DEF Readings!Linear
<1> HIDE DEF x
<1>4. /\ u \in Int /\ p \in Int
      /\ 2048 * u <= p /\ p < 2048 * u + 2048
  BY <1>1, <1>2, ShiftedIsFloor
<1>5. -(124896 * 26600) <= p /\ p <= -(53001 * 25000)
  <2> DEFINE m == -x
  <2>1. m \in Nat /\ 53001 <= m /\ m <= 124896 /\ p = -(m * DigT2)
    BY <1>1, <1>2
  <2> HIDE DEF m, p
  <2>2. 53001 * 25000 <= m * DigT2
    BY <1>1, <2>1, ProductAtLeast
  <2>3. m * DigT2 <= 124896 * 26600
    BY <1>1, <2>1, ProductAtLeast
  <2>4. m * DigT2 \in Int
    BY <1>1, <2>1
  <2> QED
    BY <2>1, <2>2, <2>3, <2>4
<1> HIDE DEF u, p
<1>6. -1622185 <= u /\ u <= -646985
  BY <1>4, <1>5, SMT
<1>7. CASE -1048576 <= u
  <2>1. Readings!Wrapped(u, 1048576) = u
    BY <1>4, <1>6, <1>7, FittingIsKept
  <2> QED
    BY <1>3, <1>4, <1>6, <2>1
<1>8. CASE u < -1048576
  <2>1. (u + 1048576) % 2097152 = u + 3145728
    BY <1>4, <1>6, <1>8, SMT
  <2>2. Readings!Wrapped(u, 1048576) = u + 2097152
    <3>1. Readings!Wrapped(u, 1048576)
              = ((u + 1048576) % 2097152) - 1048576
      BY SMT DEF Readings!Wrapped
    <3> QED
      BY <1>4, <2>1, <3>1
  <2> QED
    BY <1>3, <1>4, <1>6, <2>2
<1> QED
  BY <1>4, <1>7, <1>8

\* With a small third word the quadratic term does not make up for it, even
\* when it has wrapped.
LEMMA FailedTerm ==
    ASSUME NearDataSheet, NEW r \in Int
    PROVE  LET t == Readings!ShiftedProduct(Readings!Square(r),
                                            Readings!DigT3, 16384)
           IN  t \in Int /\ -32001 <= t /\ t <= 32000
<1>1. /\ Readings!DigT3 \in Int
      /\ -1000 <= Readings!DigT3 /\ Readings!DigT3 <= 1000
  <2>1. T3Word <= 1000 \/ 65536 - 1000 <= T3Word
    BY DEF NearDataSheet
  <2> QED
    BY <2>1, SignOfT3
<1>2. /\ Readings!Square(r) \in Int
      /\ -524288 <= Readings!Square(r) /\ Readings!Square(r) < 524288
  <2>1. r \div 16 - DigT1 \in Int
    BY WordsAreNumbers
  <2>2. Readings!ShiftedProduct(r \div 16 - DigT1, r \div 16 - DigT1, 4096)
            \in Int
    BY <2>1, ShiftedIsFloor
  <2> QED
    BY <2>2, WrappedFits DEF Readings!Square
<1>3. ASSUME NEW q \in Int, -524288 <= q, q <= 524288,
             NEW d \in Int, -1000 <= d, d <= 1000
      PROVE  LET t == Readings!ShiftedProduct(q, d, 16384)
             IN  t \in Int /\ -32001 <= t /\ t <= 32000
  <2> DEFINE t == Readings!ShiftedProduct(q, d, 16384)
             p == q * d
  <2>1. /\ t \in Int /\ p \in Int
        /\ 16384 * t <= p /\ p < 16384 * t + 16384
    BY ShiftedIsFloor
  <2>2. -(524288 * 1000) <= p /\ p <= 524288 * 1000
    BY <1>3, ProductBounds
  <2> HIDE DEF t, p
  <2>3. -32001 <= t /\ t <= 32000
    BY <2>1, <2>2, SMT
  <2> QED
    BY <2>1, <2>3 DEF t
<1> QED
  BY <1>1, <1>2, <1>3

\* So the temperature of a read that failed is beyond what the sensor works
\* in.
LEMMA FailureStandsOut ==
    ASSUME NearDataSheet, NEW r \in Int, -544768 <= r, r <= -1
    PROVE  Readings!Temperature(r) < -4000 \/ 8500 < Readings!Temperature(r)
<1> DEFINE t == Readings!ShiftedProduct(Readings!Square(r),
                                        Readings!DigT3, 16384)
           f == Readings!Fine(r)
<1>1. t \in Int /\ -32001 <= t /\ t <= 32000
  BY FailedTerm
<1>2. f = Readings!Linear(r) + t
  BY DEF Readings!Fine
<1> HIDE DEF t, f
<1>3. f \in Int /\ (f <= -614985 \/ f >= 442966)
  BY <1>1, <1>2, FailedLinear
<1>4. \/ (f * 5 + 128) \div 256 < -4000
      \/ 8500 < (f * 5 + 128) \div 256
  BY <1>3, SMT
<1> QED
  BY <1>4 DEF f, Readings!Temperature

\* A read that fails does not pass for a temperature, whichever of the three
\* reads it is, whatever the other two deliver, and whatever error of Linux it
\* returns; for every calibration close to the one of the data sheet.
THEOREM FailuresStandOut ==
    ASSUME NearDataSheet, ErrorsOfLinux
    PROVE  NumbersSpec => []FailedReadIsOutOfRange
<1> DEFINE Beyond == temp < -4000 \/ 8500 < temp
           Inv == raw < 0 => Beyond
<1>1. NumbersInit => Inv
  BY SMT DEF NumbersInit, Readings!Init, Readings!NoRaw
<1>2. Inv /\ [NumbersNext]_<<readingVars, speedVars>> => Inv'
  <2>1. ASSUME Inv, UNCHANGED readingVars
        PROVE  Inv'
    BY <2>1 DEF readingVars
  <2>2. ASSUME Inv, Readings!Next
        PROVE  Inv'
    <3>1. ASSUME NEW b \in Bytes, NEW p \in Pressures,
                 Readings!Measure(b, p)
          PROVE  Inv'
      <4>1. b \in Seq(Readings!BytesOrErrors) /\ Len(b) = 3
        BY ReadingAssumption DEF Readings!ReadingConstants
      <4>2. CASE \E i \in 1 .. 3 : b[i] < 0
        <5>1. \A i \in 1 .. 3 : b[i] >= -133
          BY DEF ErrorsOfLinux
        <5>2. /\ Readings!RawTemp(b) \in Int
              /\ -544768 <= Readings!RawTemp(b)
              /\ Readings!RawTemp(b) <= -1
          BY <4>1, <4>2, <5>1, FailedBounds
        <5>3. temp' = Readings!Temperature(Readings!RawTemp(b))
          BY <3>1 DEF Readings!Measure
        <5> QED
          BY <5>2, <5>3, FailureStandsOut
      <4>3. CASE \A i \in 1 .. 3 : ~(b[i] < 0)
        <5>1. raw' = Readings!RawTemp(b)
          BY <3>1, <4>3 DEF Readings!Measure
        <5>2. Readings!RawTemp(b) \in Int /\ 0 <= Readings!RawTemp(b)
          BY <4>1, <4>3, DeliveredBounds
        <5> QED
          BY <5>1, <5>2
      <4> QED
        BY <4>2, <4>3
    <3>2. ASSUME NEW words \in Stores, Readings!Store(words)
          PROVE  Inv'
      BY <2>2, <3>2 DEF Readings!Store
    <3>3. ASSUME Readings!SensorReads \/ Readings!Copied
          PROVE  Inv'
      BY <2>2, <3>3 DEF Readings!SensorReads, Readings!Copied
    <3> QED
      BY <2>2, <3>1, <3>2, <3>3 DEF Readings!Next
  <2> QED
    BY <2>1, <2>2 DEF NumbersNext
<1>3. Inv /\ temp \in Int => FailedReadIsOutOfRange
  <2> DEFINE R == -4000 .. 8500
  <2>1. \A n \in R : -4000 <= n /\ n <= 8500
    BY SMT
  <2>2. FailedReadIsOutOfRange <=> (raw < 0 => temp \notin R)
    BY SMT DEF FailedReadIsOutOfRange, Readings!FailedReadIsOutOfRange
  <2> HIDE DEF R
  <2>3. temp \in Int /\ Beyond => temp \notin R
    BY <2>1, SMT
  <2> HIDE DEF Beyond
  <2> QED
    BY <2>2, <2>3, Zenon
<1>4. SysfsInv => temp \in Int
  BY DEF SysfsInv, ReadingsInv, ReadingTyped, Celsius
<1> QED
  BY <1>1, <1>2, <1>3, <1>4, SysfsInvariant, PTL DEF NumbersSpec
=============================================================================
