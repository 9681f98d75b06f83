-------------------------- MODULE KeScheduler_proofs --------------------------
(***************************************************************************)
(* The scheduler keeps the dispatcher database consistent, for every       *)
(* finite set of threads, every range of priorities, and whatever the      *)
(* threads, the DPCs and the interrupts do.                                *)
(***************************************************************************)
EXTENDS KeScheduler, KiDispatcher_proofs, FiniteSetTheorems

\* Inductive: each Ki routine relies on the whole of Consistent (KiThreadFind
\* on the queues and on the idle thread, KiThreadReady on KiThreadNext), so
\* no part of it is inductive alone.
Inv ==
  /\ TypeOK
  /\ Consistent(d)
  /\ SwitchPending

-----------------------------------------------------------------------------
\* The priorities that threads are created with.
LEMMA CreationPriorityTyped == \A t \in Thread : CreationPriority(t) \in Priority
<1> SUFFICES ASSUME NEW t \in Thread PROVE CreationPriority(t) \in Priority
  OBVIOUS
<1>1. Priority = 0 .. PRIORITY_HIGHREALTIME /\ PRIORITY_HIGHREALTIME \in Nat
  BY PriorityAssumption DEF Priority, PRIORITY_IDLE
<1>2. InitialBase[t] \in Priority /\ KEBOOSTINITIAL \in Nat
  BY CreationAssumption
<1>3. CASE t = IdleThread
  BY <1>1, <1>3 DEF CreationPriority, PRIORITY_IDLE
<1>4. CASE t # IdleThread /\ t \in FirstThreads
  <2>1. InitialBase[t] + KEBOOSTINITIAL <= PRIORITY_HIGHREALTIME
    BY <1>4, CreationAssumption
  <2> QED BY <1>1, <1>2, <1>4, <2>1 DEF CreationPriority
<1>5. CASE t # IdleThread /\ t \notin FirstThreads
  BY <1>2, <1>5 DEF CreationPriority
<1> QED BY <1>3, <1>4, <1>5

\* The database that the kernel starts with is consistent.
LEMMA InitialConsistent == Consistent(InitialDatabase)
<1> DEFINE db == InitialDatabase
           stacks == [p \in Process |->
                        Cardinality({t \in Thread : ThreadProcess[t] = p})]
<1>1. stacks \in [Process -> Int]
  <2>1. ASSUME NEW p \in Process
        PROVE  Cardinality({t \in Thread : ThreadProcess[t] = p}) \in Int
    <3>1. IsFiniteSet({t \in Thread : ThreadProcess[t] = p})
      BY FiniteAssumption, FS_Subset
    <3> QED BY <3>1, FS_CardinalityType
  <2> QED BY <2>1
<1>2. db.residentStacks = stacks
  BY DEF InitialDatabase
<1> HIDE DEF stacks
<1>3. /\ db.status = [t \in Thread |-> IF t = IdleThread THEN "RUNNING"
                                       ELSE "INITIALIZED"]
      /\ db.queue = [p \in Priority |-> << >>]
      /\ db.next = NoThread /\ db.current = IdleThread
      /\ db.priority = [t \in Thread |-> CreationPriority(t)]
      /\ \A t \in Thread : db.stackResident[t] /\ ~db.inSwapList[t]
      /\ \A p \in Process : db.memoryState[p] = "RESIDENT"
  BY DEF InitialDatabase
<1>4. db \in Database
  <2>1. db.priority \in [Thread -> Priority]
    BY <1>3, CreationPriorityTyped
  <2>2. db.base \in [Thread -> Priority] /\ db.process \in [Thread -> Process]
    BY CreationAssumption DEF InitialDatabase
  <2>3. /\ db.quantum \in [Thread -> Byte] /\ db.quantumEnds \in [Thread -> Byte]
    BY QuantumAssumption DEF InitialDatabase, Byte
  <2>4. db.current \in Thread /\ db.next \in Thread \cup {NoThread}
    BY <1>3, ThreadAssumption
  <2>5. db.status \in [Thread -> Status]
    BY <1>3 DEF Status
  <2>6. db.queue \in [Priority -> Seq(Thread)]
    BY <1>3
  <2>7. db.residentStacks \in [Process -> Int]
    BY <1>1, <1>2
  <2>8. /\ db.deferred \in [Process -> Seq(Thread)]
        /\ db.processIn \in Seq(Process) /\ db.processOut \in Seq(Process)
        /\ db.threadIn \in Seq(Thread)
    BY DEF InitialDatabase
  <2> QED BY <2>1, <2>2, <2>3, <2>4, <2>5, <2>6, <2>7, <2>8
          DEF InitialDatabase, Database, WaitMode, MemoryState
<1> HIDE DEF db
<1>5. QueuesInPlace(db, {})
  <2> SUFFICES ASSUME NEW p \in Priority
               PROVE  /\ IsInjective(db.queue[p])
                      /\ Range(db.queue[p]) = {t \in Thread \ {} :
                            db.status[t] = "READY" /\ db.priority[t] = p}
    BY DEF QueuesInPlace
  <2>1. db.queue[p] = << >>
    BY <1>3
  <2>2. IsInjective(<< >>) /\ Range(<< >>) = {}
    BY DEF IsInjective, Range
  <2> QED BY <1>3, <2>1, <2>2
<1>6. ProcessorInPlace(db)
  BY <1>3, ThreadAssumption DEF ProcessorInPlace
<1>7. IdleReady(db)
  BY <1>3, ThreadAssumption DEF IdleReady, CreationPriority
<1> QED BY <1>3, <1>4, <1>5, <1>6, <1>7 DEF Consistent, AllResident, db

LEMMA InitInv == Init => Inv
<1> SUFFICES ASSUME Init PROVE Inv
  OBVIOUS
<1>1. Consistent(d) /\ d.next = NoThread
  BY InitialConsistent DEF Init, InitialDatabase
<1>2. NoTarget \in [process : Process, priority : Priority]
  <2>1. (CHOOSE p \in Process : TRUE) \in Process
    BY CallerAssumption
  <2>2. PRIORITY_LOWUSER \in Priority
    BY PriorityAssumption DEF Priority, PRIORITY_LOWUSER, PRIORITY_IDLE
  <2> QED BY <2>1, <2>2 DEF NoTarget
<1>3. TypeOK
  BY <1>1, <1>2 DEF Init, TypeOK, Consistent, Regions
<1> QED BY <1>1, <1>3 DEF Inv, SwitchPending

-----------------------------------------------------------------------------
(***************************************************************************)
(* Every step preserves the invariant.                                     *)
(***************************************************************************)

\* A call of a Ki routine outside of the software interrupt, by a step that
\* goes on at any region.
LEMMA CallKeepsInv ==
  ASSUME Inv, region \notin Stages, Consistent(d'), Keeps(d, d'),
         region' \in Regions, events' \subseteq Events, taken' \subseteq Events,
         target' \in [process : Process, priority : Priority]
  PROVE  Inv'
<1>1. TypeOK'
  BY DEF TypeOK, Consistent
<1>2. SwitchPending'
  BY DEF Inv, SwitchPending, Keeps
<1> QED BY <1>1, <1>2 DEF Inv

\* A thread that is being created is on its way to the ready queues.
LEMMA CreatedOnItsWay ==
  ASSUME NEW db, Consistent(db), NEW t \in Thread, db.status[t] = "INITIALIZED"
  PROVE  ConsistentBut(db, t)
<1>1. QueuesInPlace(db, {t})
  <2>1. {u \in Thread \ {} : db.status[u] = "READY"}
        = {u \in Thread \ {t} : db.status[u] = "READY"}
    OBVIOUS
  <2>2. \A u \in Thread \ {} : db.status[u] = "READY"
                               => db.priority[u] = db.priority[u]
    OBVIOUS
  <2> QED BY <2>1, <2>2, SameQueues DEF Consistent
<1> QED BY <1>1 DEF Consistent, ConsistentBut, ProcessorInPlace, IdleReady

\* A thread that KeBoostReadyThreads finds is ready at a time-sharing priority.
LEMMA StarvedIsReady ==
  ASSUME Consistent(d), NEW t \in Thread, BoostStarved(t)
  PROVE  /\ t # IdleThread /\ d.status[t] = "READY"
         /\ d.priority[t] <= PRIORITY_HIGHUSER
<1>1. PICK p \in ScannedForBoost : t \in Range(d.queue[p])
  BY DEF BoostStarved
<1>2. p \in Priority /\ p # PRIORITY_IDLE /\ p <= PRIORITY_HIGHUSER
  BY <1>1, PriorityAssumption
     DEF ScannedForBoost, Priority, PRIORITY_LOWUSER, PRIORITY_IDLE
<1>3. d.priority[t] = p /\ d.status[t] = "READY"
  BY <1>1, <1>2 DEF Consistent, QueuesInPlace
<1> QED BY <1>2, <1>3 DEF Consistent, IdleReady

LEMMA StepInv ==
  ASSUME Inv, [Next]_vars
  PROVE  Inv'
<1>1. /\ TypeOK /\ Consistent(d) /\ SwitchPending
      /\ d \in Database /\ d.current \in Thread
      /\ region \in Regions /\ events \subseteq Events /\ taken \subseteq Events
      /\ target \in [process : Process, priority : Priority]
      /\ Boosts \subseteq Nat
  BY CallerAssumption DEF Inv, TypeOK, Database
<1>2. /\ {"low", "leave"} \subseteq Regions /\ Stages \subseteq Regions
      /\ Calls \subseteq Regions
      /\ "low" \notin Stages /\ "leave" \notin Stages
      /\ \A c \in Calls : c \notin Stages
      /\ "wake" \notin Stages /\ "boost" \notin Stages
      /\ "base" \notin Stages /\ "starved" \notin Stages
  BY CallerAssumption DEF Regions, Stages
<1>3. NoTarget \in [process : Process, priority : Priority]
  <2>1. (CHOOSE p \in Process : TRUE) \in Process
    BY CallerAssumption
  <2>2. PRIORITY_LOWUSER \in Priority
    BY PriorityAssumption DEF Priority, PRIORITY_LOWUSER, PRIORITY_IDLE
  <2> QED BY <2>1, <2>2 DEF NoTarget
<1>4. CASE KeClockTick
  <2> DEFINE left == Drained(d.quantum[d.current])
             qs == [d.quantum EXCEPT ![d.current] = left]
             pending == d.dpcPending \/ left = 0
  <2>1. qs \in [Thread -> Byte] /\ pending \in BOOLEAN
    <3>1. d.quantum \in [Thread -> Byte] /\ d.dpcPending \in BOOLEAN
      BY <1>1 DEF Database
    <3>2. left \in Byte
      BY <1>1, <3>1, QuantumAssumption DEF Drained, Byte, QUANTUMUNITSPERTICK
    <3> HIDE DEF left
    <3> QED BY <3>1, <3>2
  <2>2. d' = [d EXCEPT !.quantum = qs, !.dpcPending = pending]
    BY <1>1, <1>4 DEF KeClockTick, Database
  <2>3. d.dpcPending => pending
    OBVIOUS
  <2>4. /\ events' \subseteq Events
        /\ region' = region /\ taken' = taken /\ target' = target
    BY <1>1, <1>4 DEF KeClockTick, Events
  <2> HIDE DEF qs, pending, left
  <2>5. /\ d' \in Database
        /\ d'.status = d.status /\ d'.queue = d.queue /\ d'.next = d.next
        /\ d'.current = d.current /\ d'.priority = d.priority
        /\ d'.stackResident = d.stackResident /\ d'.inSwapList = d.inSwapList
        /\ d'.memoryState = d.memoryState /\ d'.dpcPending = pending
    BY <1>1, <2>1, <2>2 DEF Database
  <2>6. Consistent(d')
    BY <1>1, <2>5, QuietConsistent
  <2>7. TypeOK'
    BY <1>1, <2>4, <2>5 DEF TypeOK
  <2>8. SwitchPending'
    BY <1>1, <2>3, <2>4, <2>5 DEF SwitchPending
  <2> QED BY <2>6, <2>7, <2>8 DEF Inv
<1>5. CASE KeDPCEnqueue
  <2>1. /\ d' \in Database
        /\ d'.status = d.status /\ d'.queue = d.queue /\ d'.next = d.next
        /\ d'.current = d.current /\ d'.priority = d.priority
        /\ d'.stackResident = d.stackResident /\ d'.inSwapList = d.inSwapList
        /\ d'.memoryState = d.memoryState /\ d'.dpcPending = TRUE
    BY <1>1, <1>5 DEF KeDPCEnqueue, Database
  <2>2. Consistent(d')
    BY <1>1, <2>1, QuietConsistent
  <2>3. TypeOK'
    BY <1>1, <1>5, <2>1 DEF KeDPCEnqueue, TypeOK, Events
  <2>4. SwitchPending'
    BY <2>1 DEF SwitchPending
  <2> QED BY <2>2, <2>3, <2>4 DEF Inv
<1>6. CASE KiSoftwareInterruptDPC
  <2>1. /\ d' \in Database
        /\ d'.status = d.status /\ d'.queue = d.queue /\ d'.next = d.next
        /\ d'.current = d.current /\ d'.priority = d.priority
        /\ d'.stackResident = d.stackResident /\ d'.inSwapList = d.inSwapList
        /\ d'.memoryState = d.memoryState
    BY <1>1, <1>6 DEF KiSoftwareInterruptDPC, Database
  <2>2. Consistent(d')
    BY <1>1, <2>1, QuietConsistent
  <2>3. region' \in Stages
    BY <1>6 DEF KiSoftwareInterruptDPC, AfterDPCs, Stages
  <2>4. TypeOK'
    BY <1>1, <1>2, <1>6, <2>1, <2>3 DEF KiSoftwareInterruptDPC, TypeOK, Events
  <2>5. SwitchPending'
    BY <2>3 DEF SwitchPending
  <2> QED BY <2>2, <2>4, <2>5 DEF Inv
<1>7. CASE DPCsDone
  <2>1. region' \in Stages /\ d' = d
    BY <1>7 DEF DPCsDone, AfterDPCs, Stages
  <2>2. TypeOK'
    BY <1>1, <1>2, <1>7, <2>1 DEF DPCsDone, TypeOK
  <2> QED BY <1>1, <2>1, <2>2 DEF Inv, SwitchPending
<1>8. ASSUME NEW t \in Thread, NEW boost \in Boosts, DPCWake(t, boost)
      PROVE  Inv'
  <2>1. Consistent(d')
    BY <1>1, <1>8, WakeupConsistent DEF DPCWake
  <2>2. TypeOK'
    BY <1>1, <1>8, <2>1 DEF DPCWake, TypeOK, Consistent
  <2>3. SwitchPending'
    BY <1>8 DEF DPCWake, SwitchPending, Stages
  <2> QED BY <2>1, <2>2, <2>3 DEF Inv
<1>9. CASE QuantumEnd
  <2>1. Consistent(d')
    BY <1>1, <1>9, QuantumEndConsistent DEF QuantumEnd
  <2>2. TypeOK'
    BY <1>1, <1>2, <1>9, <2>1 DEF QuantumEnd, TypeOK, Consistent, Stages
  <2>3. SwitchPending'
    BY <1>9 DEF QuantumEnd, SwitchPending, Stages
  <2> QED BY <2>1, <2>2, <2>3 DEF Inv
<1>10. CASE NextSwitch
  <2>1. Consistent(d') /\ d'.next = NoThread
    BY <1>1, <1>10, NextSwitchConsistent DEF NextSwitch
  <2>2. TypeOK'
    BY <1>1, <1>2, <1>10, <2>1 DEF NextSwitch, TypeOK, Consistent
  <2>3. SwitchPending'
    BY <2>1 DEF SwitchPending
  <2> QED BY <2>1, <2>2, <2>3 DEF Inv
<1>11. CASE KeIPLLower
  <2>1. d' = d /\ region' = "low" /\ events' = events /\ taken' = taken
        /\ target' = NoTarget /\ region \notin Stages
    BY <1>2, <1>11 DEF KeIPLLower
  <2>2. Keeps(d, d')
    BY <2>1 DEF Keeps
  <2> QED BY <1>1, <1>2, <1>3, <2>1, <2>2, CallKeepsInv
<1>12. ASSUME NEW call, KeIPLRaise(call),
              target' \in [process : Process, priority : Priority]
       PROVE  Inv'
  <2>1. d' = d /\ region' \in Regions /\ events' = events /\ taken' = taken
        /\ region \notin Stages
    BY <1>2, <1>12 DEF KeIPLRaise, Calling
  <2>2. Keeps(d, d')
    BY <2>1 DEF Keeps
  <2> QED BY <1>1, <1>12, <2>1, <2>2, CallKeepsInv
<1>13. CASE EnterWake \/ EnterBoost \/ EnterStarved
  BY <1>1, <1>12, <1>13 DEF EnterWake, EnterBoost, EnterStarved
<1>14. ASSUME NEW p \in Process, NEW prio \in BaseTargets, EnterBase(p, prio)
       PROVE  Inv'
  <2>1. prio \in Priority
    BY CallerAssumption, PriorityAssumption
       DEF Priority, PRIORITY_LOWUSER, PRIORITY_IDLE
  <2>2. target' \in [process : Process, priority : Priority]
    BY <1>14, <2>1 DEF EnterBase
  <2> QED BY <1>12, <1>14, <2>2 DEF EnterBase
<1>15. ASSUME NEW t \in Thread, NEW boost \in Boosts, Wake(t, boost)
       PROVE  Inv'
  <2>1. Consistent(d') /\ Keeps(d, d')
    BY <1>1, <1>15, WakeupConsistent DEF Wake
  <2> QED BY <1>1, <1>2, <1>15, <2>1, CallKeepsInv DEF Wake
<1>16. ASSUME NEW t \in Thread, NEW boost \in Boosts, Boost(t, boost)
       PROVE  Inv'
  <2>1. Consistent(d') /\ Keeps(d, d')
    BY <1>1, <1>16, BoostConsistent DEF Boost
  <2> QED BY <1>1, <1>2, <1>16, <2>1, CallKeepsInv DEF Boost
<1>17. ASSUME NEW t \in Thread, KeThreadReady(t)
       PROVE  Inv'
  <2>1. ConsistentBut(d, t)
    BY <1>1, <1>17, CreatedOnItsWay DEF KeThreadReady
  <2>2. Consistent(d') /\ Keeps(d, d')
    BY <1>17, <2>1, ReadyConsistent DEF KeThreadReady
  <2> QED BY <1>1, <1>2, <1>17, <2>2, CallKeepsInv DEF KeThreadReady, Calling
<1>18. ASSUME NEW t \in Thread, RaiseBase(t)
       PROVE  Inv'
  <2>1. target.priority \in Priority
    BY <1>1
  <2>2. Consistent(d') /\ Keeps(d, d')
    BY <1>1, <1>18, <2>1, BasePrioritySetConsistent DEF RaiseBase
  <2> QED BY <1>1, <1>2, <1>18, <2>2, CallKeepsInv DEF RaiseBase
<1>19. ASSUME NEW t \in Thread, BoostStarved(t)
       PROVE  Inv'
  <2>1. /\ t # IdleThread /\ d.status[t] = "READY"
        /\ d.priority[t] <= PRIORITY_HIGHUSER
    BY <1>1, <1>19, StarvedIsReady
  <2>2. Consistent(d') /\ Keeps(d, d')
    BY <1>1, <1>19, <2>1, BoostReadyConsistent DEF BoostStarved
  <2> QED BY <1>1, <1>2, <1>19, <2>2, CallKeepsInv DEF BoostStarved
<1>20. ASSUME NEW kind \in WaitKinds, KeThreadWait(kind)
       PROVE  Inv'
  <2>1. kind[1] \in WaitMode /\ kind[2] \in Asleep
    BY CallerAssumption
  <2>2. Consistent(d') /\ Keeps(d, d')
    BY <1>1, <1>20, <2>1, WaitConsistent DEF KeThreadWait
  <2> QED BY <1>1, <1>2, <1>20, <2>2, CallKeepsInv DEF KeThreadWait, Calling
<1>21. CASE KeThreadTerminate
  <2>1. "TERMINATED" \in Status \ {"READY", "STANDBY", "RUNNING"}
    BY DEF Status
  <2>2. Consistent(d') /\ Keeps(d, d')
    BY <1>1, <1>21, <2>1, BlockConsistent DEF KeThreadTerminate
  <2> QED BY <1>1, <1>2, <1>21, <2>2, CallKeepsInv DEF KeThreadTerminate, Calling
<1>22. CASE KeThreadYield
  <2>1. Consistent(d') /\ Keeps(d, d')
    BY <1>1, <1>22, YieldConsistent DEF KeThreadYield
  <2> QED BY <1>1, <1>2, <1>22, <2>1, CallKeepsInv DEF KeThreadYield, Calling
<1>23. ASSUME NEW t \in Thread, NEW prio \in SetTargets,
              KeThreadPrioritySet(t, prio)
       PROVE  Inv'
  <2>1. prio \in Priority
    BY CallerAssumption, PriorityAssumption
       DEF Priority, PRIORITY_LOWREALTIME, PRIORITY_IDLE
  <2>2. Consistent(d') /\ Keeps(d, d')
    BY <1>1, <1>23, <2>1, PrioritySetConsistent DEF KeThreadPrioritySet
  <2> QED BY <1>1, <1>2, <1>23, <2>2, CallKeepsInv DEF KeThreadPrioritySet, Calling
<1>24. CASE UNCHANGED vars
  BY <1>1, <1>24 DEF vars, Inv, TypeOK, SwitchPending
<1> QED
  BY <1>4, <1>5, <1>6, <1>7, <1>8, <1>9, <1>10, <1>11, <1>13, <1>14, <1>15,
     <1>16, <1>17, <1>18, <1>19, <1>20, <1>21, <1>22, <1>23, <1>24
  DEF Next, Interrupt, SoftwareInterrupt, Call

LEMMA InvHolds == Spec => []Inv
<1>1. Inv /\ [Next]_vars => Inv'
  BY StepInv
<1> QED BY InitInv, <1>1, PTL DEF Spec

-----------------------------------------------------------------------------
(***************************************************************************)
(* The best thread stays selected.                                         *)
(***************************************************************************)

\* A quantum end may lower the current thread no further than the next one,
\* because it decays: AboveBase.  A process's threads may be raised over the
\* next thread, one by one, because the first of them takes its place.
BestInv ==
  /\ Best(d)
  /\ AboveBase(d)
  /\ region = "base" => NextReaches(d, target.priority)

LEMMA InitBestInv == Init => BestInv
<1> SUFFICES ASSUME Init PROVE BestInv
  OBVIOUS
<1>1. /\ d.status = [t \in Thread |-> IF t = IdleThread THEN "RUNNING"
                                       ELSE "INITIALIZED"]
      /\ d.next = NoThread /\ d.current = IdleThread
      /\ d.priority = [t \in Thread |-> CreationPriority(t)]
      /\ d.base = InitialBase
      /\ d.instantDecay = [t \in Thread |-> FALSE]
      /\ region = "low"
  BY DEF Init, InitialDatabase
<1>2. Best(d)
  <2>1. IdleThread \in Thread /\ d.priority[IdleThread] = 0
    BY <1>1, ThreadAssumption DEF CreationPriority, PRIORITY_IDLE
  <2> QED BY <1>1, <2>1 DEF Best, Chosen
<1>3. AboveBase(d)
  <2> SUFFICES ASSUME NEW t \in Thread \ {IdleThread}
               PROVE  InitialBase[t] <= CreationPriority(t)
    BY <1>1 DEF AboveBase
  <2>1. InitialBase[t] \in Int /\ KEBOOSTINITIAL \in Nat
    BY CreationAssumption, PriorityAssumption DEF Priority, PRIORITY_IDLE
  <2> QED BY <2>1 DEF CreationPriority
<1> QED BY <1>1, <1>2, <1>3 DEF BestInv

\* Steps that change neither places nor priorities.
LEMMA QuietBest ==
  ASSUME NEW db, NEW r, NEW prio, SameDecay(db, r),
         r.status = db.status, r.next = db.next, r.current = db.current
  PROVE  /\ Best(db) => Best(r)
         /\ AboveBase(db) => AboveBase(r)
         /\ NextReaches(db, prio) => NextReaches(r, prio)
  BY DEF SameDecay, Best, AboveBase, NextReaches, Chosen

LEMMA StepBestInv ==
  ASSUME Inv, BestInv, [Next]_vars
  PROVE  BestInv'
<1>1. /\ Consistent(d) /\ SwitchPending /\ Best(d) /\ AboveBase(d)
      /\ d \in Database /\ d.current \in Thread
      /\ target \in [process : Process, priority : Priority]
      /\ Boosts \subseteq Nat
      /\ Calling => d.next = NoThread
      /\ region = "base" => NextReaches(d, target.priority)
  <2>1. "low" \notin Stages
    BY DEF Stages
  <2> QED BY <2>1, CallerAssumption
          DEF Inv, TypeOK, Database, BestInv, SwitchPending, Calling
<1>2. ASSUME region' # "base", Best(d'), AboveBase(d')
      PROVE  BestInv'
  BY <1>2 DEF BestInv
<1>3. CASE KeClockTick \/ KeDPCEnqueue \/ KiSoftwareInterruptDPC
  <2>1. /\ SameDecay(d, d') /\ d'.status = d.status
        /\ d'.next = d.next /\ d'.current = d.current
    BY <1>1, <1>3
       DEF KeClockTick, KeDPCEnqueue, KiSoftwareInterruptDPC, Database, SameDecay
  <2>2. /\ Best(d') /\ AboveBase(d')
        /\ NextReaches(d, target.priority) => NextReaches(d', target.priority)
    BY <1>1, <2>1, QuietBest
  <2>3. /\ region' = "base" => region = "base"
        /\ target' = target
    BY <1>3 DEF KeClockTick, KeDPCEnqueue, KiSoftwareInterruptDPC, AfterDPCs
  <2> QED BY <1>1, <2>2, <2>3 DEF BestInv
<1>4. CASE DPCsDone \/ KeIPLLower \/ EnterWake \/ EnterBoost \/ EnterStarved
  <2>1. d' = d /\ region' # "base"
    BY <1>4 DEF DPCsDone, AfterDPCs, KeIPLLower, EnterWake, EnterBoost,
                EnterStarved, KeIPLRaise
  <2> QED BY <1>1, <1>2, <2>1
<1>5. ASSUME NEW p \in Process, NEW prio \in BaseTargets, EnterBase(p, prio)
      PROVE  BestInv'
  <2>1. d' = d /\ d.next = NoThread
    BY <1>1, <1>5 DEF EnterBase, KeIPLRaise
  <2> QED BY <1>1, <2>1 DEF BestInv, NextReaches
<1>6. ASSUME NEW t \in Thread, NEW boost \in Boosts,
             DPCWake(t, boost) \/ Wake(t, boost)
      PROVE  BestInv'
  <2>1. /\ d' = KiThreadWakeup(d, t, boost) /\ d.status[t] \in Asleep
        /\ region' # "base"
    BY <1>6 DEF DPCWake, Wake
  <2>2. Best(d') /\ AboveBase(d')
    BY <1>1, <2>1, WakeupConsistent
  <2> QED BY <1>2, <2>1, <2>2
<1>7. CASE QuantumEnd
  <2>1. Best(d') /\ AboveBase(d')
    BY <1>1, <1>7, QuantumEndConsistent DEF QuantumEnd
  <2> QED BY <1>2, <1>7, <2>1 DEF QuantumEnd
<1>8. CASE NextSwitch
  <2>1. CASE d.next = NoThread
    BY <1>1, <1>2, <1>8, <2>1 DEF NextSwitch
  <2>2. CASE d.next # NoThread
    <3>1. Best(d') /\ SameDecay(d, d')
      BY <1>1, <1>8, <2>2, NextSwitchConsistent DEF NextSwitch
    <3> QED BY <1>1, <1>2, <1>8, <3>1, SameDecayAboveBase DEF NextSwitch
  <2> QED BY <2>1, <2>2
<1>9. ASSUME NEW t \in Thread, NEW boost \in Boosts, Boost(t, boost)
      PROVE  BestInv'
  <2>1. Best(d') /\ AboveBase(d')
    BY <1>1, <1>9, BoostConsistent DEF Boost
  <2> QED BY <1>2, <1>9, <2>1 DEF Boost
<1>10. ASSUME NEW t \in Thread, KeThreadReady(t)
       PROVE  BestInv'
  <2>1. ConsistentBut(d, t) /\ d' = KiThreadReady(d, t)
    BY <1>1, <1>10, CreatedOnItsWay DEF KeThreadReady
  <2>2. BestBut(d, t)
    BY <1>1 DEF Best, BestBut
  <2>3. Best(d') /\ Frame(d, d')
    BY <2>1, <2>2, ReadyConsistent
  <2>4. AboveBase(d')
    BY <1>1, <2>3, SameDecayAboveBase DEF SameDecay, Frame
  <2> QED BY <1>2, <1>10, <2>3, <2>4 DEF KeThreadReady
<1>11. ASSUME NEW t \in Thread, RaiseBase(t)
       PROVE  BestInv'
  <2>1. /\ region = "base" /\ t # IdleThread
        /\ d' = KiThreadBasePrioritySet(d, t, target.priority)
        /\ target' = target
    BY <1>11 DEF RaiseBase
  <2>2. target.priority \in Priority
    BY <1>1
  <2>3. /\ Best(d') /\ AboveBase(d')
        /\ NextReaches(d', target.priority)
    BY <1>1, <2>1, <2>2, BasePrioritySetConsistent
  <2> QED BY <2>1, <2>3 DEF BestInv
<1>12. ASSUME NEW t \in Thread, BoostStarved(t)
       PROVE  BestInv'
  <2>1. /\ t # IdleThread /\ d.status[t] = "READY"
        /\ d.priority[t] <= PRIORITY_HIGHUSER
        /\ d' = BoostReadyThread(d, t)
    BY <1>1, <1>12, StarvedIsReady DEF BoostStarved
  <2>2. Best(d') /\ AboveBase(d')
    BY <1>1, <2>1, BoostReadyConsistent
  <2> QED BY <1>2, <1>12, <2>2 DEF BoostStarved
<1>13. ASSUME NEW kind \in WaitKinds, KeThreadWait(kind)
       PROVE  BestInv'
  <2>1. kind[1] \in WaitMode /\ kind[2] \in Asleep
    BY CallerAssumption
  <2>2. Best(d') /\ SameDecay(d, d')
    BY <1>1, <1>13, <2>1, WaitConsistent DEF KeThreadWait
  <2> QED BY <1>1, <1>2, <1>13, <2>2, SameDecayAboveBase DEF KeThreadWait
<1>14. CASE KeThreadTerminate
  <2>1. "TERMINATED" \in Status \ {"READY", "STANDBY", "RUNNING"}
    BY DEF Status
  <2>2. Best(d') /\ SameDecay(d, d')
    BY <1>1, <1>14, <2>1, BlockConsistent DEF KeThreadTerminate
  <2> QED BY <1>1, <1>2, <1>14, <2>2, SameDecayAboveBase DEF KeThreadTerminate
<1>15. CASE KeThreadYield
  <2>1. Best(d') /\ SameDecay(d, d')
    BY <1>1, <1>15, YieldConsistent DEF KeThreadYield
  <2> QED BY <1>1, <1>2, <1>15, <2>1, SameDecayAboveBase DEF KeThreadYield
<1>16. ASSUME NEW t \in Thread, NEW prio \in SetTargets,
              KeThreadPrioritySet(t, prio)
       PROVE  BestInv'
  <2>1. /\ t \in Thread \ {IdleThread} /\ d.next = NoThread
        /\ d' = KiThreadPrioritySet(d, t, prio)
    BY <1>1, <1>16 DEF KeThreadPrioritySet
  <2>2. /\ prio \in Priority
        /\ ~ (prio < PRIORITY_LOWREALTIME) /\ PRIORITY_HIGHUSER <= prio
    BY CallerAssumption, PriorityAssumption
       DEF Priority, PRIORITY_LOWREALTIME, PRIORITY_IDLE
  <2>3. KeepsRank(d, t, prio)
    BY <2>1, ThreadAssumption DEF KeepsRank
  <2>4. Best(d')
    BY <1>1, <2>1, <2>2, <2>3, PrioritySetBest
  <2>5. AboveBase(d')
    BY <1>1, <2>1, <2>2, PrioritySetAboveBase
  <2> QED BY <1>2, <1>16, <2>4, <2>5 DEF KeThreadPrioritySet
<1>17. CASE UNCHANGED vars
  BY <1>1, <1>17 DEF vars, BestInv
<1> QED
  BY <1>3, <1>4, <1>5, <1>6, <1>7, <1>8, <1>9, <1>10, <1>11, <1>12, <1>13,
     <1>14, <1>15, <1>16, <1>17
  DEF Next, Interrupt, SoftwareInterrupt, Call

LEMMA BestInvHolds == Spec => [](Inv /\ BestInv)
<1>1. Inv /\ BestInv /\ [Next]_vars => (Inv /\ BestInv)'
  BY StepInv, StepBestInv
<1> QED BY InitInv, InitBestInv, <1>1, PTL DEF Spec

-----------------------------------------------------------------------------
(***************************************************************************)
(* What the kernel relies on.                                              *)
(***************************************************************************)

\* Every variable keeps its type: in particular every Ki routine that indexes
\* the queues by a priority finds the priority in range, and the byte
\* counters of quanta never leave their byte.
THEOREM TypeCorrect == Spec => []TypeOK
<1>1. Inv => TypeOK
  BY DEF Inv
<1> QED BY InvHolds, <1>1, PTL

\* No thread is ever lost, queued twice or queued at a stale priority, and
\* KiThreadNext and KeThreadCurrent are the STANDBY and the RUNNING thread.
THEOREM ThreadsStayInPlace == Spec => []ThreadsInPlace
<1>1. Inv => ThreadsInPlace
  BY DEF Inv, Consistent, ThreadsInPlace
<1> QED BY InvHolds, <1>1, PTL

\* The idle thread is always there for KiThreadSelect to fall back on.
THEOREM IdleStaysReady == Spec => []IdleAlwaysReady
<1>1. Inv => IdleAlwaysReady
  BY DEF Inv, Consistent, IdleAlwaysReady
<1> QED BY InvHolds, <1>1, PTL

\* A thread selected to run next is never forgotten.
THEOREM SwitchStaysPending == Spec => []SwitchPending
<1>1. Inv => SwitchPending
  BY DEF Inv
<1> QED BY InvHolds, <1>1, PTL

\* No queued thread ever outranks the thread that runs next, which lets
\* KiThreadSelect look no higher than the priority of the thread that leaves.
THEOREM BestStaysSelected == Spec => []BestThreadSelected
<1>1. Inv /\ BestInv => BestThreadSelected
  BY BestMeansBestChosen DEF Inv, BestInv, BestThreadSelected
<1> QED BY BestInvHolds, <1>1, PTL

\* No wakeup, boost or quantum end leaves a time-sharing thread below its base
\* priority, and none but a quantum takes a starved thread's boost away.
THEOREM DecayAlwaysStopsAtBase == Spec => []DecayStopsAtBase
<1>1. BestInv => DecayStopsAtBase
  BY DEF BestInv, AboveBase, DecayStopsAtBase
<1> QED BY BestInvHolds, <1>1, PTL
=============================================================================
