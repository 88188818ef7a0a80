-------------------------- MODULE SupervisorProofs --------------------------
(***************************************************************************)
(* Proofs about the supervisor, for every number of starts: how main ends  *)
(* is explained by who reaped its children, an object of size 0 is left    *)
(* behind by a crash only, and the two processes of a start are connected. *)
(***************************************************************************)
EXTENDS Supervisor, TLAPS

BeforeSystem == {"none", "create", "truncate", "unlink", "createQueue",
                 "forkSystem"}
BeforeInput == BeforeSystem \cup {"forkInput"}

\* One main lives at a time, and has children after its forks only.
LifeInv ==
    \A s \in Starts :
        /\ main[s] = "none" <=> s > started
        /\ s < started => main[s] \in Ended
        /\ main[s] \in BeforeSystem => child[s]["system"] = "none"
        /\ main[s] \in BeforeInput => child[s]["input"] = "none"

\* What main has waited for at each point, and that nobody but it and its
\* handler reaps while it lives.
ReapInv ==
    \A s \in Starts :
        /\ main[s] \notin Ended =>
               /\ \A p \in Processes : reaper[s][p] # "init"
               /\ reaper[s]["input"] # "wait"
        /\ main[s] \in BeforeInput \cup {"waitSystem", "inSystem"}
               => reaper[s]["system"] # "wait"
        /\ main[s] \in {"waitInput", "inInput"}
               => reaper[s]["system"] = "wait"

\* The name stands for an object without a size only between the two calls.
SizeInv ==
    /\ shm # 0 /\ shm \notin sized => main[shm] \in {"truncate", "killed"}
    /\ UnsizedOnlyByCrash

\* The children of the newest start find its queue, and the object that was
\* there when they were forked or none.
PairInv ==
    \A s \in Starts :
        s = started =>
            /\ main[s] \in {"forkSystem", "forkInput"} => mq = s
            /\ \A p \in Processes :
                   /\ child[s][p] # "none" => mq = s
                   /\ child[s][p] \in {"opened", "up"} => queueOf[s][p] = s
                   /\ child[s][p] = "up" /\ shm # 0 => mapped[s][p] = shm
            /\ \A p, q \in Processes :
                   child[s][p] = "up" /\ child[s][q] = "up"
                       => mapped[s][p] = mapped[s][q]

IInv == TypeOK /\ LifeInv /\ ReapInv /\ EndIsExplained /\ SizeInv /\ PairInv

-----------------------------------------------------------------------------
LEMMA Initial == Init => IInv
<1> SUFFICES ASSUME Init
             PROVE  IInv
  OBVIOUS
<1> USE SupervisorAssumption
    DEF Init, ForEach, ForBoth, Starts, Objects, Processes, Ended
<1>1. TypeOK
  BY DEF TypeOK, Alive
<1>2. LifeInv /\ ReapInv /\ EndIsExplained
  BY DEF LifeInv, ReapInv, EndIsExplained, BeforeSystem, BeforeInput
<1>3. SizeInv /\ PairInv
  BY DEF SizeInv, PairInv, UnsizedOnlyByCrash
<1> QED
  BY <1>1, <1>2, <1>3 DEF IInv

\* Starts and objects are numbered alike.
LEMMA Numbers == Starts \subseteq Nat \ {0} /\ Objects = Starts \cup {0}
BY SupervisorAssumption DEF Starts, Objects

\* The order of main's first calls.
LEMMA CallOrder ==
    /\ Following["create"] = "truncate"
    /\ Following["truncate"] = "unlink"
    /\ Following["unlink"] = "createQueue"
    /\ Following["createQueue"] = "forkSystem"
    /\ Following["forkSystem"] = "forkInput"
    /\ Following["forkInput"] = "waitSystem"
BY DEF Following, Order

\* A step that maps nothing but the named object, and takes no main away from
\* between the two calls but by a crash, leaves no other trace of an object
\* without a size.
LEMMA UnsizedFrame ==
    ASSUME TypeOK, SizeInv, sized \subseteq sized',
           \A m \in Starts :
               main[m] \in {"truncate", "killed"} /\ m \notin sized'
                   => main'[m] \in {"truncate", "killed"},
           \A s \in Starts, p \in Processes :
               mapped'[s][p] \in {mapped[s][p], 0, shm}
    PROVE  UnsizedOnlyByCrash'
<1> SUFFICES ASSUME NEW s \in Starts, NEW p \in Processes,
                    mapped'[s][p] # 0, mapped'[s][p] \notin sized'
             PROVE  main'[mapped'[s][p]] \in {"truncate", "killed"}
  BY DEF UnsizedOnlyByCrash
<1>1. mapped'[s][p] \in Starts
  BY Numbers DEF TypeOK
<1>2. main[mapped'[s][p]] \in {"truncate", "killed"}
  BY DEF SizeInv, UnsizedOnlyByCrash
<1> QED
  BY <1>1, <1>2

\* A step that only unmaps, or maps the current object, keeps SizeInv.
LEMMA SizeFrame ==
    ASSUME TypeOK, SizeInv, sized \subseteq sized', shm' \in {shm, 0},
           \A m \in Starts :
               main[m] \in {"truncate", "killed"} /\ m \notin sized'
                   => main'[m] \in {"truncate", "killed"},
           \A s \in Starts, p \in Processes :
               mapped'[s][p] \in {mapped[s][p], 0, shm}
    PROVE  SizeInv'
<1>1. UnsizedOnlyByCrash'
  BY UnsizedFrame
<1> QED
  BY <1>1, Numbers DEF TypeOK, SizeInv

\* Before its waits main makes one call after the other.
LEMMA CreateKept ==
    ASSUME IInv, NEW s \in Starts,
           CreateShm(s) \/ Truncate(s) \/ UnlinkQueue(s) \/ CreateQueue(s)
    PROVE  IInv'
<1> USE Numbers, CallOrder
    DEF IInv, Ended, Processes, BeforeSystem, BeforeInput, childVars,
        objectVars, At, Goes
<1>0. s = started
  BY DEF LifeInv, CreateShm, Truncate, UnlinkQueue, CreateQueue, TypeOK
<1>1. CASE CreateShm(s)
  <2>1. TypeOK'
    BY <1>1 DEF CreateShm, TypeOK
  <2>2. LifeInv' /\ ReapInv' /\ EndIsExplained'
    BY <1>1 DEF CreateShm, TypeOK, LifeInv, ReapInv, EndIsExplained
  <2>3. SizeInv'
    <3>1. /\ main[s] = "create" /\ UNCHANGED <<mapped, sized>>
          /\ \A t \in Starts \ {s} : main'[t] = main[t]
      BY <1>1 DEF CreateShm, TypeOK
    <3>2. UnsizedOnlyByCrash'
      <4>1. \A m \in Starts : main[m] \in {"truncate", "killed"} => m # s
        BY <3>1
      <4> QED
        BY <3>1, <4>1, UnsizedFrame
    <3>3. shm' = shm \/ (shm' = s /\ main'[s] = "truncate")
      BY <1>1 DEF CreateShm, TypeOK
    <3> QED
      BY <3>1, <3>2, <3>3 DEF TypeOK, SizeInv
  <2>4. PairInv'
    BY <1>0, <1>1 DEF CreateShm, TypeOK, LifeInv, PairInv
  <2> QED
    BY <2>1, <2>2, <2>3, <2>4
<1>2. CASE Truncate(s)
  <2>1. TypeOK'
    BY <1>2 DEF Truncate, TypeOK
  <2>2. LifeInv' /\ ReapInv' /\ EndIsExplained'
    BY <1>2 DEF Truncate, TypeOK, LifeInv, ReapInv, EndIsExplained
  <2>3. SizeInv'
    BY <1>2 DEF Truncate, TypeOK, SizeInv, UnsizedOnlyByCrash
  <2>4. PairInv'
    BY <1>0, <1>2 DEF Truncate, TypeOK, LifeInv, PairInv
  <2> QED
    BY <2>1, <2>2, <2>3, <2>4
<1>3. CASE UnlinkQueue(s)
  <2>1. TypeOK'
    BY <1>3 DEF UnlinkQueue, TypeOK
  <2>2. LifeInv' /\ ReapInv' /\ EndIsExplained'
    BY <1>3 DEF UnlinkQueue, TypeOK, LifeInv, ReapInv, EndIsExplained
  <2>3. SizeInv'
    BY <1>3 DEF UnlinkQueue, TypeOK, SizeInv, UnsizedOnlyByCrash
  <2>4. PairInv'
    BY <1>0, <1>3 DEF UnlinkQueue, TypeOK, LifeInv, PairInv
  <2> QED
    BY <2>1, <2>2, <2>3, <2>4
<1>4. CASE CreateQueue(s)
  <2>1. TypeOK'
    BY <1>4 DEF CreateQueue, TypeOK
  <2>2. LifeInv' /\ ReapInv' /\ EndIsExplained'
    BY <1>4 DEF CreateQueue, TypeOK, LifeInv, ReapInv, EndIsExplained
  <2>3. SizeInv'
    BY <1>4 DEF CreateQueue, TypeOK, SizeInv, UnsizedOnlyByCrash
  <2>4. PairInv'
    BY <1>0, <1>4 DEF CreateQueue, TypeOK, LifeInv, PairInv
  <2> QED
    BY <2>1, <2>2, <2>3, <2>4
<1> QED
  BY <1>1, <1>2, <1>3, <1>4

\* Starting main keeps every part.
LEMMA StartKept == IInv /\ StartMain => IInv'
<1> SUFFICES ASSUME IInv, StartMain
             PROVE  IInv'
  OBVIOUS
<1> USE Numbers
    DEF IInv, Ended, Processes, BeforeSystem, BeforeInput, childVars,
        objectVars, Goes
<1>1. /\ started' = started + 1 /\ started' \in Starts
      /\ main[started'] = "none" /\ main'[started'] = "create"
      /\ \A t \in Starts \ {started'} : main'[t] = main[t]
      /\ UNCHANGED <<handling, signalled, childVars, objectVars>>
  BY SupervisorAssumption DEF StartMain, TypeOK, LifeInv, Starts, Objects
<1>2. TypeOK'
  BY SupervisorAssumption DEF StartMain, TypeOK, Objects
<1>3. LifeInv'
  BY <1>1 DEF StartMain, TypeOK, LifeInv
<1>4. ReapInv' /\ EndIsExplained'
  BY <1>1 DEF TypeOK, LifeInv, ReapInv, EndIsExplained
<1>5. SizeInv'
  BY <1>1, SizeFrame
<1>6. PairInv'
  BY <1>1 DEF TypeOK, LifeInv, PairInv
<1> QED
  BY <1>2, <1>3, <1>4, <1>5, <1>6

\* A fork gives main a child, or ends it before it has one more.
LEMMA ForkKept ==
    ASSUME IInv, NEW s \in Starts, ForkSystem(s) \/ ForkInput(s)
    PROVE  IInv'
<1> USE Numbers, CallOrder
    DEF IInv, Ended, Processes, BeforeSystem, BeforeInput, objectVars, At,
        Goes, ForkSystem, ForkInput, Fork
<1>1. TypeOK'
  <2>1. main' \in [Starts -> Ended \cup
                 {"none", "create", "truncate", "unlink", "createQueue",
                  "forkSystem", "forkInput", "waitSystem", "inSystem",
                  "waitInput", "inInput"}]
    BY DEF TypeOK
  <2>2. child' \in [Starts -> [Processes -> Alive \cup
                                  {"none", "zombie", "gone"}]]
    BY DEF TypeOK, Alive
  <2>3. \A t \in Starts, p \in Processes :
            child'[t][p] = "gone" <=> child[t][p] = "gone"
    BY DEF TypeOK, LifeInv
  <2>4. UNCHANGED <<started, handling, signalled, queueOf, mapped, reaper,
                    shm, sized, mq>>
    OBVIOUS
  <2> HIDE DEF ForkSystem, ForkInput, Fork
  <2> QED
    BY <2>1, <2>2, <2>3, <2>4 DEF TypeOK
<1>2. s = started
  BY DEF TypeOK, LifeInv
<1>3. LifeInv'
  BY DEF TypeOK, LifeInv
<1>4. ReapInv'
  BY DEF TypeOK, LifeInv, ReapInv
<1>5. EndIsExplained'
  BY DEF TypeOK, LifeInv, ReapInv, EndIsExplained
<1>6. SizeInv'
  <2>1. /\ UNCHANGED <<mapped, shm, sized>>
        /\ \A t \in Starts \ {s} : main'[t] = main[t]
        /\ main[s] \notin {"truncate", "killed"}
    BY DEF TypeOK
  <2>2. \A m \in Starts : main[m] \in {"truncate", "killed"} => m # s
    BY <2>1
  <2> QED
    BY <2>1, <2>2, SizeFrame
<1>7. PairInv'
  BY <1>2 DEF TypeOK, LifeInv, PairInv
<1> QED
  BY <1>1, <1>3, <1>4, <1>5, <1>6, <1>7
\* Whoever reaps an ended child is remembered.
LEMMA ReapTypes ==
    ASSUME TypeOK, NEW s \in Starts, NEW p \in Processes,
           NEW who \in {"wait", "handler", "init"},
           child[s][p] = "zombie", Reap(s, p, who),
           UNCHANGED <<queueOf, mapped, shm, sized, mq, started>>,
           handling' \in [Starts -> BOOLEAN],
           signalled' \in [Starts -> BOOLEAN],
           main' \in [Starts -> Ended \cup
                 {"none", "create", "truncate", "unlink", "createQueue",
                  "forkSystem", "forkInput", "waitSystem", "inSystem",
                  "waitInput", "inInput"}]
    PROVE  /\ TypeOK'
           /\ \A t \in Starts, q \in Processes :
                  /\ child'[t][q] = (IF t = s /\ q = p THEN "gone"
                                                   ELSE child[t][q])
                  /\ reaper'[t][q] = (IF t = s /\ q = p THEN who
                                                    ELSE reaper[t][q])
<1>1. \A t \in Starts, q \in Processes :
          /\ child'[t][q] = (IF t = s /\ q = p THEN "gone" ELSE child[t][q])
          /\ reaper'[t][q] = (IF t = s /\ q = p THEN who ELSE reaper[t][q])
  BY DEF Reap, TypeOK
<1>2. child' \in [Starts -> [Processes -> Alive \cup
                                {"none", "zombie", "gone"}]]
  BY DEF Reap, TypeOK
<1>3. reaper' \in [Starts -> [Processes ->
                                {"nobody", "wait", "handler", "init"}]]
  BY DEF Reap, TypeOK
<1>4. \A t \in Starts, q \in Processes :
          child'[t][q] = "gone" <=> reaper'[t][q] # "nobody"
  <2> SUFFICES ASSUME NEW t \in Starts, NEW q \in Processes
               PROVE  child'[t][q] = "gone" <=> reaper'[t][q] # "nobody"
    OBVIOUS
  <2>1. CASE t = s /\ q = p
    BY <1>1, <2>1
  <2>2. CASE ~(t = s /\ q = p)
    <3>1. child'[t][q] = child[t][q] /\ reaper'[t][q] = reaper[t][q]
      BY <1>1, <2>2
    <3>2. child[t][q] = "gone" <=> reaper[t][q] # "nobody"
      BY DEF TypeOK
    <3> QED
      BY <3>1, <3>2
  <2> QED
    BY <2>1, <2>2
<1>5. TypeOK'
  <2> HIDE DEF Reap
  <2> QED
    BY <1>2, <1>3, <1>4 DEF TypeOK
<1> QED
  BY <1>1, <1>5

\* Children that are reaped were neither up nor about to be.
LEMMA ReapPair ==
    ASSUME TypeOK, PairInv,
           NEW s \in Starts, NEW p \in Processes, child[s][p] = "zombie",
           \A t \in Starts, q \in Processes :
               child'[t][q] = (IF t = s /\ q = p THEN "gone"
                                                ELSE child[t][q]),
           \A t \in Starts :
               main'[t] \in {"forkSystem", "forkInput"} => main'[t] = main[t],
           UNCHANGED <<started, mq, shm, queueOf, mapped>>
    PROVE  PairInv'
BY DEF TypeOK, PairInv, Processes

\* waitpid takes a child, misses it, or blocks.
LEMMA WaitKept ==
    ASSUME IInv, NEW s \in Starts,
           \/ WaitEnter(s, "system", "waitSystem", "inSystem", "waitInput")
           \/ WaitReturns(s, "system", "inSystem", "waitInput")
           \/ WaitEnter(s, "input", "waitInput", "inInput", "done")
           \/ WaitReturns(s, "input", "inInput", "done")
    PROVE  IInv'
<1> USE Numbers DEF IInv, Ended, BeforeSystem, BeforeInput, objectVars
<1> DEFINE Waits(p, pcs, to) ==
        /\ main[s] \in pcs
        /\ UNCHANGED <<started, handling, signalled, queueOf, mapped, shm,
                       sized, mq>>
        /\ \/ /\ child[s][p] = "zombie"
              /\ Goes(s, to) /\ Reap(s, p, "wait")
           \/ /\ child[s][p] = "gone"
              /\ Goes(s, "failed") /\ ReapsNone
           \/ /\ main[s] = IF p = "system" THEN "waitSystem" ELSE "waitInput"
              /\ Goes(s, IF p = "system" THEN "inSystem" ELSE "inInput")
              /\ ReapsNone
<1>1. \/ Waits("system", {"waitSystem", "inSystem"}, "waitInput")
      \/ Waits("input", {"waitInput", "inInput"}, "done")
  BY DEF WaitEnter, WaitReturns, At, NoSuchChild, AfterLost
<1>2. main[s] # "truncate" /\ main[s] # "killed"
  BY <1>1
<1>3. /\ main' \in [Starts -> Ended \cup
                 {"none", "create", "truncate", "unlink", "createQueue",
                  "forkSystem", "forkInput", "waitSystem", "inSystem",
                  "waitInput", "inInput"}]
      /\ \A t \in Starts \ {s} : main'[t] = main[t]
      /\ main'[s] \notin BeforeInput
  BY <1>1 DEF Goes, TypeOK
<1>4. ASSUME NEW p \in Processes, NEW to, child[s][p] = "zombie",
             \/ p = "system" /\ to = "waitInput"
                /\ main[s] \in {"waitSystem", "inSystem"}
             \/ p = "input" /\ to = "done"
                /\ main[s] \in {"waitInput", "inInput"},
             Goes(s, to), Reap(s, p, "wait"),
             UNCHANGED <<started, handling, signalled, queueOf, mapped, shm,
                         sized, mq>>
      PROVE  IInv'
  <2>1. /\ TypeOK'
        /\ \A t \in Starts, q \in Processes :
               /\ child'[t][q] = (IF t = s /\ q = p THEN "gone"
                                                   ELSE child[t][q])
               /\ reaper'[t][q] = (IF t = s /\ q = p THEN "wait"
                                                    ELSE reaper[t][q])
    <3>1. /\ handling' \in [Starts -> BOOLEAN]
          /\ signalled' \in [Starts -> BOOLEAN]
      BY <1>4 DEF TypeOK
    <3> QED
      BY <1>3, <1>4, <3>1, ReapTypes
  <2>2. main'[s] = to
    BY <1>4 DEF Goes, TypeOK
  <2>3. LifeInv'
    BY <1>3, <1>4, <2>1, <2>2 DEF TypeOK, LifeInv, Processes
  <2>4. ReapInv'
    BY <1>3, <1>4, <2>1, <2>2 DEF TypeOK, ReapInv, Processes
  <2>5. EndIsExplained'
    BY <1>3, <1>4, <2>1, <2>2 DEF TypeOK, ReapInv, EndIsExplained, Processes
  <2>6. SizeInv'
    BY <1>2, <1>3, <1>4, SizeFrame
  <2>7. PairInv'
    BY <1>3, <1>4, <2>1, <2>2, ReapPair
  <2> QED
    BY <2>1, <2>3, <2>4, <2>5, <2>6, <2>7
<1>5. ASSUME ReapsNone,
             UNCHANGED <<started, handling, signalled, queueOf, mapped, shm,
                         sized, mq>>,
             \/ main'[s] = "failed"
                /\ \E p \in Processes : reaper[s][p] = "handler"
             \/ main[s] = "waitSystem" /\ main'[s] = "inSystem"
             \/ main[s] = "waitInput" /\ main'[s] = "inInput"
      PROVE  IInv'
  <2>1. TypeOK'
    BY <1>3, <1>5 DEF ReapsNone, TypeOK
  <2>2. LifeInv'
    BY <1>1, <1>3, <1>5 DEF ReapsNone, TypeOK, LifeInv
  <2>3. ReapInv' /\ EndIsExplained'
    BY <1>3, <1>5 DEF ReapsNone, TypeOK, ReapInv, EndIsExplained
  <2>4. SizeInv'
    BY <1>2, <1>3, <1>5, SizeFrame
  <2>5. PairInv'
    BY <1>3, <1>5 DEF ReapsNone, TypeOK, PairInv
  <2> QED
    BY <2>1, <2>2, <2>3, <2>4, <2>5
<1>6. CASE Waits("system", {"waitSystem", "inSystem"}, "waitInput")
  <2>1. CASE child[s]["system"] = "gone" /\ Goes(s, "failed") /\ ReapsNone
    <3>1. reaper[s]["system"] = "handler" /\ main'[s] = "failed"
      BY <1>6, <2>1 DEF TypeOK, ReapInv, Goes, Processes
    <3> QED
      BY <1>6, <2>1, <3>1, <1>5 DEF Processes
  <2>2. CASE main[s] = "waitSystem" /\ Goes(s, "inSystem") /\ ReapsNone
    <3>1. main'[s] = "inSystem"
      BY <2>2 DEF TypeOK, Goes
    <3> QED
      BY <1>6, <2>2, <3>1, <1>5
  <2> QED
    BY <1>6, <2>1, <2>2, <1>4 DEF Processes
<1>7. CASE Waits("input", {"waitInput", "inInput"}, "done")
  <2>1. CASE child[s]["input"] = "gone" /\ Goes(s, "failed") /\ ReapsNone
    <3>1. reaper[s]["input"] = "handler" /\ main'[s] = "failed"
      BY <1>7, <2>1 DEF TypeOK, ReapInv, Goes, Processes
    <3> QED
      BY <1>7, <2>1, <3>1, <1>5 DEF Processes
  <2>2. CASE main[s] = "waitInput" /\ Goes(s, "inInput") /\ ReapsNone
    <3>1. main'[s] = "inInput"
      BY <2>2 DEF TypeOK, Goes
    <3> QED
      BY <1>7, <2>2, <3>1, <1>5
  <2> QED
    BY <1>7, <2>1, <2>2, <1>4 DEF Processes
<1> QED
  BY <1>1, <1>6, <1>7
\* The handler and the init process reap too; main may be gone at any time.
LEMMA HandlerKept ==
    ASSUME IInv, NEW s \in Starts,
           \/ HandlerStarts(s) \/ HandlerEnds(s) \/ MainKilled(s)
           \/ \E p \in Processes : HandlerReaps(s, p) \/ InitReaps(s, p)
    PROVE  IInv'
<1> USE Numbers
    DEF IInv, Ended, BeforeSystem, BeforeInput, childVars, objectVars,
        mainVars
<1>1. CASE HandlerStarts(s) \/ HandlerEnds(s)
  <2>1. UNCHANGED <<started, main, childVars, objectVars>>
    BY <1>1 DEF HandlerStarts, HandlerEnds
  <2>2. TypeOK'
    BY <1>1 DEF HandlerStarts, HandlerEnds, TypeOK
  <2>3. LifeInv' /\ ReapInv' /\ EndIsExplained'
    BY <2>1 DEF LifeInv, ReapInv, EndIsExplained
  <2>4. SizeInv'
    BY <2>1, SizeFrame
  <2>5. PairInv'
    BY <2>1 DEF PairInv
  <2> QED
    BY <2>2, <2>3, <2>4, <2>5
<1>2. CASE MainKilled(s)
  <2>1. /\ UNCHANGED <<started, childVars, objectVars>>
        /\ main'[s] = "killed" /\ main[s] \notin Ended \cup {"none"}
        /\ \A t \in Starts \ {s} : main'[t] = main[t]
    BY <1>2 DEF MainKilled, Goes, TypeOK
  <2>2. TypeOK'
    BY <1>2 DEF MainKilled, Goes, TypeOK
  <2>3. LifeInv' /\ ReapInv' /\ EndIsExplained'
    BY <2>1 DEF LifeInv, ReapInv, EndIsExplained, TypeOK
  <2>4. SizeInv'
    BY <2>1, SizeFrame
  <2>5. PairInv'
    BY <2>1 DEF PairInv
  <2> QED
    BY <2>2, <2>3, <2>4, <2>5
<1>3. ASSUME NEW p \in Processes, NEW who \in {"handler", "init"},
             child[s][p] = "zombie", Reap(s, p, who),
             who = "init" => main[s] \in Ended,
             UNCHANGED <<mainVars, queueOf, mapped, objectVars>>
      PROVE  IInv'
  <2>1. /\ TypeOK'
        /\ \A t \in Starts, q \in Processes :
               /\ child'[t][q] = (IF t = s /\ q = p THEN "gone"
                                                   ELSE child[t][q])
               /\ reaper'[t][q] = (IF t = s /\ q = p THEN who
                                                    ELSE reaper[t][q])
    BY <1>3, ReapTypes DEF TypeOK
  <2>2. reaper[s][p] = "nobody"
    BY <1>3 DEF TypeOK
  <2>3. LifeInv'
    BY <1>3, <2>1 DEF LifeInv, Processes
  <2>4. ReapInv'
    BY <1>3, <2>1, <2>2 DEF ReapInv, Processes
  <2>5. EndIsExplained'
    BY <1>3, <2>1, <2>2 DEF EndIsExplained, Processes
  <2>6. SizeInv'
    BY <1>3, SizeFrame
  <2>7. PairInv'
    BY <1>3, <2>1, ReapPair
  <2> QED
    BY <2>1, <2>3, <2>4, <2>5, <2>6, <2>7
<1> QED
  BY <1>1, <1>2, <1>3 DEF HandlerReaps, InitReaps

\* A child goes on or ends, and may take the name of the object with it.
LEMMA ChildKept ==
    ASSUME IInv, NEW s \in Starts, NEW p \in Processes, Child(s, p)
    PROVE  IInv'
<1> USE Numbers DEF IInv, childVars, objectVars, mainVars
<1>0. ASSUME NEW to \in Alive \cup {"zombie"},
             child[s][p] \in Alive, child' = [child EXCEPT ![s][p] = to],
             signalled' \in [Starts -> BOOLEAN],
             queueOf' \in [Starts -> [Processes -> Objects]],
             mapped' \in [Starts -> [Processes -> Objects]],
             shm' \in Objects,
             UNCHANGED <<started, main, handling, reaper, sized, mq>>
      PROVE  /\ TypeOK' /\ LifeInv' /\ ReapInv' /\ EndIsExplained'
             /\ \A t \in Starts, q \in Processes :
                    child'[t][q] = IF t = s /\ q = p THEN to ELSE child[t][q]
  <2>1. \A t \in Starts, q \in Processes :
            child'[t][q] = IF t = s /\ q = p THEN to ELSE child[t][q]
    BY <1>0 DEF TypeOK
  <2>2. child' \in [Starts -> [Processes -> Alive \cup
                                  {"none", "zombie", "gone"}]]
    BY <1>0 DEF TypeOK
  <2>3. \A t \in Starts, q \in Processes :
            child'[t][q] = "gone" <=> child[t][q] = "gone"
    BY <1>0, <2>1 DEF Alive
  <2>4. TypeOK'
    BY <1>0, <2>2, <2>3 DEF TypeOK
  <2>5. \A t \in Starts, q \in Processes :
            child'[t][q] = "none" <=> child[t][q] = "none"
    BY <1>0, <2>1 DEF Alive
  <2>6. LifeInv' /\ ReapInv' /\ EndIsExplained'
    BY <1>0, <2>5 DEF LifeInv, ReapInv, EndIsExplained, Processes
  <2> QED
    BY <2>1, <2>4, <2>6
<1>1. CASE ChildOpens(s, p)
  <2>1. /\ child[s][p] \in Alive /\ child' = [child EXCEPT ![s][p] = "opened"]
        /\ queueOf' = [queueOf EXCEPT ![s][p] = mq]
        /\ UNCHANGED <<mainVars, mapped, reaper, objectVars>>
    BY <1>1 DEF ChildOpens, Alive
  <2>2. queueOf' \in [Starts -> [Processes -> Objects]]
    BY <2>1 DEF TypeOK
  <2>3. /\ TypeOK' /\ LifeInv' /\ ReapInv' /\ EndIsExplained'
        /\ \A t \in Starts, q \in Processes :
               child'[t][q] = IF t = s /\ q = p THEN "opened" ELSE child[t][q]
    <3>1. "opened" \in Alive \cup {"zombie"}
      BY DEF Alive
    <3>2. /\ signalled' \in [Starts -> BOOLEAN]
          /\ queueOf' \in [Starts -> [Processes -> Objects]]
          /\ mapped' \in [Starts -> [Processes -> Objects]]
          /\ shm' \in Objects
          /\ UNCHANGED <<started, main, handling, reaper, sized, mq>>
      BY <2>1, <2>2 DEF TypeOK
    <3> QED
      BY <2>1, <3>1, <3>2, <1>0
  <2>4. SizeInv'
    BY <2>1, SizeFrame
  <2>5. PairInv'
    <3>1. \A t \in Starts, q \in Processes :
              queueOf'[t][q] = IF t = s /\ q = p THEN mq ELSE queueOf[t][q]
      BY <2>1 DEF TypeOK
    <3> QED
      BY <2>1, <2>3, <3>1 DEF PairInv, Alive
  <2> QED
    BY <2>3, <2>4, <2>5
<1>2. CASE ChildMaps(s, p) /\ child'[s][p] = "up"
  <2>1. /\ child[s][p] \in Alive /\ child' = [child EXCEPT ![s][p] = "up"]
        /\ child[s][p] = "opened"
        /\ shm # 0 /\ mapped' = [mapped EXCEPT ![s][p] = shm]
        /\ UNCHANGED <<mainVars, queueOf, reaper, objectVars>>
    BY <1>2 DEF ChildMaps, Ends, Alive, TypeOK
  <2>2. mapped' \in [Starts -> [Processes -> Objects]]
    BY <2>1 DEF TypeOK
  <2>3. \A t \in Starts, q \in Processes :
            mapped'[t][q] = IF t = s /\ q = p THEN shm ELSE mapped[t][q]
    BY <2>1 DEF TypeOK
  <2>4. /\ TypeOK' /\ LifeInv' /\ ReapInv' /\ EndIsExplained'
        /\ \A t \in Starts, q \in Processes :
               child'[t][q] = IF t = s /\ q = p THEN "up" ELSE child[t][q]
    <3>1. "up" \in Alive \cup {"zombie"}
      BY DEF Alive
    <3>2. /\ signalled' \in [Starts -> BOOLEAN]
          /\ queueOf' \in [Starts -> [Processes -> Objects]]
          /\ mapped' \in [Starts -> [Processes -> Objects]]
          /\ shm' \in Objects
          /\ UNCHANGED <<started, main, handling, reaper, sized, mq>>
      BY <2>1, <2>2 DEF TypeOK
    <3> QED
      BY <2>1, <3>1, <3>2, <1>0
  <2>5. SizeInv'
    BY <2>1, <2>3, SizeFrame
  <2>6. PairInv'
    BY <2>1, <2>3, <2>4 DEF PairInv
  <2> QED
    BY <2>4, <2>5, <2>6
<1>3. ASSUME NEW to \in {"failing", "zombie"},
             child[s][p] \in Alive, child' = [child EXCEPT ![s][p] = to],
             shm' \in {shm, 0},
             queueOf' \in {queueOf, [queueOf EXCEPT ![s][p] = 0]},
             mapped' \in {mapped, [mapped EXCEPT ![s][p] = 0]},
             signalled' \in [Starts -> BOOLEAN],
             UNCHANGED <<started, main, handling, reaper, sized, mq>>
      PROVE  IInv'
  <2>1. \A t \in Starts, q \in Processes :
            /\ mapped'[t][q] \in {mapped[t][q], 0}
            /\ (t = s /\ q = p) \/ mapped'[t][q] = mapped[t][q]
            /\ (t = s /\ q = p) \/ queueOf'[t][q] = queueOf[t][q]
    BY <1>3 DEF TypeOK
  <2>2. /\ queueOf' \in [Starts -> [Processes -> Objects]]
        /\ mapped' \in [Starts -> [Processes -> Objects]]
        /\ shm' \in Objects
    BY <1>3 DEF TypeOK
  <2>3. /\ TypeOK' /\ LifeInv' /\ ReapInv' /\ EndIsExplained'
        /\ \A t \in Starts, q \in Processes :
               child'[t][q] = IF t = s /\ q = p THEN to ELSE child[t][q]
    <3>1. to \in Alive \cup {"zombie"}
      BY <1>3 DEF Alive
    <3> QED
      BY <1>3, <2>2, <3>1, <1>0
  <2>4. SizeInv'
    BY <1>3, <2>1, SizeFrame
  <2>5. PairInv'
    BY <1>3, <2>1, <2>3 DEF PairInv, Alive
  <2> QED
    BY <2>3, <2>4, <2>5
<1>4. Ends(s, p) =>
          /\ child' = [child EXCEPT ![s][p] = "zombie"]
          /\ queueOf' \in {queueOf, [queueOf EXCEPT ![s][p] = 0]}
          /\ mapped' \in {mapped, [mapped EXCEPT ![s][p] = 0]}
          /\ signalled' \in [Starts -> BOOLEAN]
  <2> SUFFICES ASSUME Ends(s, p)
               PROVE  signalled' \in [Starts -> BOOLEAN]
    BY DEF Ends
  <2>1. \A set : (main[s] \notin set) \in BOOLEAN
    OBVIOUS
  <2> QED
    BY <2>1 DEF Ends, TypeOK
<1>5. CASE ChildMaps(s, p) /\ child'[s][p] # "up"
  <2>1. \/ child' = [child EXCEPT ![s][p] = "failing"]
           /\ UNCHANGED <<queueOf, mapped, signalled>>
        \/ Ends(s, p)
    BY <1>5 DEF ChildMaps, TypeOK
  <2> QED
    BY <1>5, <1>3, <1>4, <2>1 DEF ChildMaps, Alive, TypeOK
<1>6. CASE ChildFaults(s, p) \/ ChildExits(s, p)
  BY <1>6, <1>3, <1>4 DEF ChildFaults, ChildExits, Alive
<1>7. CASE ChildFails(s, p)
  BY <1>7, <1>3 DEF ChildFails, Alive, TypeOK
<1>8. CASE ChildUnlinks(s, p)
  BY <1>8, <1>3, <1>4 DEF ChildUnlinks, Alive
<1> QED
  BY <1>1, <1>2, <1>5, <1>6, <1>7, <1>8 DEF Child

\* The parts together are inductive.
LEMMA Invariant == Spec => []IInv
<1>1. IInv /\ [Next]_vars => IInv'
  <2> SUFFICES ASSUME IInv, [Next]_vars
               PROVE  IInv'
    OBVIOUS
  <2>1. CASE UNCHANGED vars
    <3>1. UNCHANGED <<started, main, handling, signalled, child, queueOf,
                      mapped, reaper, shm, sized, mq>>
      BY <2>1 DEF vars, mainVars, childVars, objectVars
    <3>2. SizeInv'
      BY <3>1, SizeFrame DEF IInv
    <3> QED
      BY <3>1, <3>2
      DEF IInv, TypeOK, LifeInv, ReapInv, EndIsExplained, PairInv
  <2>2. CASE \E s \in Starts : MainSteps(s)
    BY <2>2, CreateKept, ForkKept, WaitKept DEF MainSteps
  <2>3. CASE \E s \in Starts : Handler(s) \/ MainKilled(s)
    BY <2>3, HandlerKept DEF Handler
  <2>4. CASE \E s \in Starts, p \in Processes : Child(s, p) \/ InitReaps(s, p)
    BY <2>4, HandlerKept, ChildKept
  <2> QED
    BY <2>1, <2>2, <2>3, <2>4, StartKept DEF Next
<1> QED
  BY <1>1, Initial, PTL DEF Spec

\* A signal that is taken up puts main into the handler, which does not leave
\* its loop over a zombie; a child that ends leaves a signal.
LEMMA ZombiesKept ==
    ASSUME IInv, NoZombieForgotten, [Next]_vars
    PROVE  NoZombieForgotten'
<1> USE DEF IInv, Ended, mainVars, childVars, objectVars
<1>0. ASSUME UNCHANGED <<handling, signalled>>,
             \A t \in Starts : main[t] \in Ended => main'[t] \in Ended,
             \A t \in Starts, q \in Processes :
                 child'[t][q] = "zombie" => child[t][q] = "zombie"
      PROVE  NoZombieForgotten'
  BY <1>0 DEF NoZombieForgotten
<1>1. CASE StartMain
  <2>1. main[started + 1] \notin Ended
    <3>1. started \in Nat /\ started < MaxStarts
      BY <1>1, SupervisorAssumption DEF StartMain, TypeOK, Objects
    <3>2. started + 1 \in Starts /\ started + 1 > started
      BY <3>1, SupervisorAssumption DEF Starts
    <3>3. main[started + 1] = "none"
      BY <3>2 DEF LifeInv
    <3> QED
      BY <3>3
  <2> QED
    BY <1>0, <1>1, <2>1 DEF StartMain, Goes, TypeOK
<1>2. ASSUME NEW s \in Starts, MainSteps(s)
      PROVE  NoZombieForgotten'
  <2>1. CASE CreateShm(s) \/ Truncate(s) \/ UnlinkQueue(s) \/ CreateQueue(s)
    BY <1>0, <2>1
    DEF CreateShm, Truncate, UnlinkQueue, CreateQueue, At, Goes, TypeOK
  <2>2. ASSUME NEW p \in Processes, NEW from, from \notin Ended,
               Fork(s, p, from)
        PROVE  NoZombieForgotten'
    <3>1. /\ UNCHANGED <<handling, signalled>>
          /\ main[s] \notin Ended
          /\ \A t \in Starts \ {s} : main'[t] = main[t]
      BY <2>2 DEF Fork, At, Goes, TypeOK
    <3>2. child' = child \/ child' = [child EXCEPT ![s][p] = "starting"]
      BY <2>2 DEF Fork
    <3>3. \A t \in Starts, q \in Processes :
              child'[t][q] = "zombie" => child[t][q] = "zombie"
      <4>1. CASE child' = [child EXCEPT ![s][p] = "starting"]
        <5>1. \A t \in Starts, q \in Processes :
                  child'[t][q] = IF t = s /\ q = p THEN "starting" ELSE child[t][q]
          BY <4>1 DEF TypeOK
        <5> QED
          BY <5>1
      <4> QED
        BY <3>2, <4>1
    <3> QED
      BY <1>0, <3>1, <3>3
  <2>3. ASSUME NEW p \in Processes, NEW from, from \notin Ended, NEW in, NEW to,
               \/ WaitEnter(s, p, from, in, to) \/ WaitReturns(s, p, from, to)
        PROVE  NoZombieForgotten'
    <3>1. /\ UNCHANGED <<handling, signalled>>
          /\ main[s] \notin Ended
          /\ \A t \in Starts \ {s} : main'[t] = main[t]
      BY <2>3 DEF WaitEnter, WaitReturns, At, Goes, TypeOK
    <3>2. child' = child \/ child' = [child EXCEPT ![s][p] = "gone"]
      BY <2>3 DEF WaitEnter, WaitReturns, ReapsNone, Reap
    <3>3. \A t \in Starts, q \in Processes :
              child'[t][q] = "zombie" => child[t][q] = "zombie"
      <4>1. CASE child' = [child EXCEPT ![s][p] = "gone"]
        <5>1. \A t \in Starts, q \in Processes :
                  child'[t][q] = IF t = s /\ q = p THEN "gone" ELSE child[t][q]
          BY <4>1 DEF TypeOK
        <5> QED
          BY <5>1
      <4> QED
        BY <3>2, <4>1
    <3> QED
      BY <1>0, <3>1, <3>3
  <2> QED
    BY <1>2, <2>1, <2>2, <2>3 DEF MainSteps, ForkSystem, ForkInput, Processes
<1>3. ASSUME NEW s \in Starts, Handler(s)
      PROVE  NoZombieForgotten'
  <2>1. CASE HandlerStarts(s)
    BY <1>3, <2>1 DEF NoZombieForgotten, HandlerStarts, TypeOK
  <2>2. ASSUME NEW p \in Processes, HandlerReaps(s, p)
        PROVE  NoZombieForgotten'
    BY <1>0, <2>2 DEF HandlerReaps, Reap, TypeOK
  <2>3. CASE HandlerEnds(s)
    BY <1>3, <2>3 DEF NoZombieForgotten, HandlerEnds, NoneLeft, TypeOK
  <2> QED
    BY <1>3, <2>1, <2>2, <2>3 DEF Handler
<1>4. ASSUME NEW s \in Starts, MainKilled(s)
      PROVE  NoZombieForgotten'
  BY <1>4 DEF NoZombieForgotten, MainKilled, Goes, TypeOK
<1>5. ASSUME NEW s \in Starts, NEW p \in Processes, InitReaps(s, p)
      PROVE  NoZombieForgotten'
  BY <1>0, <1>5 DEF InitReaps, Reap, TypeOK
<1>6. ASSUME NEW s \in Starts, NEW p \in Processes, Child(s, p)
      PROVE  NoZombieForgotten'
  <2>1. ASSUME NEW to \in Alive, UNCHANGED <<main, handling, signalled>>,
               child' = [child EXCEPT ![s][p] = to]
        PROVE  NoZombieForgotten'
    BY <1>0, <2>1 DEF Alive, TypeOK
  <2>2. ASSUME Ends(s, p), UNCHANGED <<main, handling>>
        PROVE  NoZombieForgotten'
    BY <2>2 DEF NoZombieForgotten, Ends, TypeOK
  <2> QED
    BY <1>6, <2>1, <2>2
    DEF Child, ChildOpens, ChildMaps, ChildFaults, ChildFails, ChildUnlinks,
        ChildExits, Alive
<1>7. CASE UNCHANGED vars
  BY <1>0, <1>7 DEF vars
<1> QED
  BY <1>1, <1>2, <1>3, <1>4, <1>5, <1>6, <1>7 DEF Next

\* Every child that is gone was reaped by somebody, and an ended one is never
\* overlooked; main ends well only after it has waited for both, and fails
\* only for a fork or a faster handler.
THEOREM EndsAreExplained == Spec => []SupervisorInv
<1>1. Init => NoZombieForgotten
  BY DEF Init, ForBoth, NoZombieForgotten
<1>2. IInv /\ NoZombieForgotten => SupervisorInv
  BY DEF IInv, SupervisorInv
<1> QED
  BY <1>1, <1>2, Invariant, ZombiesKept, PTL DEF Spec

\* A process finds an object of size 0 only in or after a crash of the main
\* that created it.
THEOREM SizesAreLostToCrashes == Spec => []UnsizedOnlyByCrash
<1>1. IInv => UnsizedOnlyByCrash
  BY DEF IInv, SizeInv
<1> QED
  BY <1>1, Invariant, PTL

\* The two processes of the newest start have the same queue and object.
THEOREM PairsAreConnected == Spec => []PairIsConnected
<1>1. IInv => PairIsConnected
  BY DEF IInv, PairInv, PairIsConnected, Processes
<1> QED
  BY <1>1, Invariant, PTL
=============================================================================
