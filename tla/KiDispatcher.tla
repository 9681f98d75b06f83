---------------------------- MODULE KiDispatcher ----------------------------
(***************************************************************************)
(* The dispatcher database of the kernel (OSKernel/Kernel/                 *)
(* KeThreadDispatcher.df) and the routines that change it.                 *)
(*                                                                         *)
(* The database is one record, d.  Every Ki routine of the source is an    *)
(* operator from the database before the call to the database after it, so *)
(* a routine that calls another applies the other's operator, in the order *)
(* of the source.  The routines run at IPLDPC on the only processor: no    *)
(* other thread and no DPC runs between the call and the return, and the   *)
(* interrupt routines that may (KeClockTick, KeDPCEnqueue) touch only the  *)
(* current thread's quantum and the pending software interrupts, which the *)
(* modules that use this one interleave between the calls.                 *)
(*                                                                         *)
(*   d.status ... d.inSwapList   the fields of KeThread, by thread         *)
(*   d.queue                     KiThreadPriorityQueueHeads/Tails, a       *)
(*                               sequence (head first) for each priority   *)
(*   d.next, d.current           KiThreadNext, KeThreadCurrent             *)
(*   d.dpcPending                the IPLDPC bit of                         *)
(*                               KiPendingSoftwareInterrupts               *)
(*   d.waitList                  the members of KeThreadWaitListHead       *)
(*   d.memoryState ... deferred  the fields of KeProcess, by process       *)
(*   d.processIn, d.processOut, d.threadIn   the lists of the swap worker  *)
(*   d.swapEvent, d.swapWaiting  MmSwapEvent: signaled, and whether the    *)
(*                               swap worker waits for it                  *)
(***************************************************************************)
EXTENDS Integers, FiniteSets, SequencesExt

CONSTANTS
  Thread,               \* thread objects, the idle thread among them
  Process,              \* process objects
  NoThread,             \* the null pointer
  IdleThread,           \* KiIdleThread
  SwapWorker,           \* the thread that runs MiSwapWorker
  PRIORITY_HIGHUSER,    \* highest time-sharing priority (23)
  PRIORITY_HIGHREALTIME,\* highest priority (31)
  BaseQuantum,          \* KeProcess_BaseQuantumB of every process
  ByteRange,            \* the number of values of a byte field (256)
  KEBOOSTINITIAL,       \* what the first thread of a process gets on top (2)
  ThreadProcess,        \* KeThread_ActualProcess, by thread
  InitialBase,          \* the base priority a thread is created with
  FirstThreads          \* the threads that are the first of their process

PRIORITY_IDLE        == 0
PRIORITY_LOWUSER     == 1
PRIORITY_LOWREALTIME == PRIORITY_HIGHUSER + 1
Priority             == PRIORITY_IDLE .. PRIORITY_HIGHREALTIME
QUANTUMUNITSPERTICK  == 2

ASSUME ThreadAssumption ==
  /\ IdleThread \in Thread
  /\ NoThread \notin Thread

ASSUME FiniteAssumption == IsFiniteSet(Thread)

ASSUME PriorityAssumption ==
  /\ PRIORITY_HIGHUSER \in Nat
  /\ PRIORITY_HIGHREALTIME \in Nat
  /\ PRIORITY_LOWUSER <= PRIORITY_HIGHUSER
  /\ PRIORITY_HIGHUSER < PRIORITY_HIGHREALTIME

ASSUME QuantumAssumption ==
  /\ BaseQuantum \in Nat
  /\ ByteRange \in Nat
  /\ 0 < BaseQuantum
  /\ BaseQuantum < ByteRange

ASSUME CreationAssumption ==
  /\ ThreadProcess \in [Thread -> Process]
  /\ InitialBase \in [Thread -> Priority]
  /\ \A t \in Thread : InitialBase[t] >= PRIORITY_LOWUSER
  /\ KEBOOSTINITIAL \in Nat
  /\ FirstThreads \subseteq Thread \ {IdleThread}
  /\ \A t \in FirstThreads :
       InitialBase[t] + KEBOOSTINITIAL <= PRIORITY_HIGHREALTIME

\* A thread that KeThreadWait... put to sleep; the two wait statuses of the
\* source differ only in what may interrupt the wait.
Status == {"INITIALIZED", "READY", "STANDBY", "RUNNING", "WAITING",
           "SUSPENDED", "TRANSITION", "TERMINATED"}
Asleep == {"WAITING", "SUSPENDED"}
WaitMode    == {"KERNEL", "USER"}
MemoryState == {"RESIDENT", "TRANSITION", "OUTSWAPPED"}
Byte        == 0 .. ByteRange - 1

-----------------------------------------------------------------------------
(***************************************************************************)
(* The ready queues: doubly linked lists through KeThread_QueueNext/Prev.  *)
(***************************************************************************)
\* Unlinking by the thread's own links.  A thread that is on no queue has no
\* links, so it is taken for both the head and the tail and the whole queue
\* is dropped.
ForgetToUnlink(q, t) == q
Unlink(q, t) ==
  IF t \in Range(q)
  THEN RemoveAt(q, CHOOSE i \in DOMAIN q : q[i] = t)
  ELSE << >>

AtHead(d, t) ==
  [d EXCEPT !.status[t] = "READY", !.queue[d.priority[t]] = Cons(t, @)]

AtTail(d, t) ==
  [d EXCEPT !.status[t] = "READY", !.queue[d.priority[t]] = Append(@, t)]

\* KiThreadFind: the priorities it scans that have a thread, the one it
\* stops at, and the thread it takes off that queue.
Occupied(d, low, high) == {p \in low .. high : d.queue[p] # << >>}
LowestOf(d, low, high) == Min(Occupied(d, low, high))
TopOf(d, low, high)    == Max(Occupied(d, low, high))
StayQueued(d, p) == d
Dequeue(d, p) == [d EXCEPT !.queue[p] = Tail(@)]

\* KiSoftwareInterruptRequest at IPLDPC.
DropRequest(d) == d
KiSoftwareInterruptRequest(d) == [d EXCEPT !.dpcPending = TRUE]

-----------------------------------------------------------------------------
(***************************************************************************)
(* KiThreadReady, the part for a thread whose process and stack are        *)
(* resident: preempt the next thread, or the current one, or join a queue. *)
(***************************************************************************)
ReadyResident(d, t) ==
  LET preempted == d.wasPreempted[t]
      c == [d EXCEPT !.wasPreempted[t] = FALSE, !.inSwapList[t] = FALSE]
      standby == [c EXCEPT !.status[t] = "STANDBY", !.next = t]
  IN  CASE d.next # NoThread /\ d.priority[t] > d.priority[d.next] ->
             \* the thread it displaces is readied again, as preempted
             AtHead([standby EXCEPT !.wasPreempted[d.next] = FALSE], d.next)
        [] d.next = NoThread /\ d.priority[t] > d.priority[d.current] ->
             [KiSoftwareInterruptRequest(standby) EXCEPT
                !.wasPreempted[d.current] = TRUE]
        [] OTHER ->
             IF preempted THEN AtHead(c, t) ELSE AtTail(c, t)

(***************************************************************************)
(* KiThreadWakeup before the final KiThreadReady: leave the wait list, take *)
(* the boost, pay one quantum unit for the wait and, when that exhausts the *)
(* quantum, do a partial quantum end.                                      *)
(***************************************************************************)
Uncapped(p) == p
Capped(p) == IF p > PRIORITY_HIGHUSER THEN PRIORITY_HIGHUSER ELSE p

Larger(a, b) == IF a > b THEN a ELSE b

\* Leave KeThreadWaitListHead; a thread whose stack is out left it then.
StayOnWaitList(d, t) == d.waitList
LeaveWaitList(d, t) ==
  IF d.waitMode[t] = "USER" /\ d.stackResident[t]
  THEN d.waitList \ {t} ELSE d.waitList

Roused(d, t, boost) ==
  LET base     == d.base[t]
      boosted  == IF d.instantDecay[t] THEN d.priority[t]
                  ELSE Larger(d.priority[t], Capped(base + boost))
      spent    == d.quantum[t] <= 1
      decayed  == IF d.instantDecay[t] THEN base
                  ELSE IF boosted > base THEN boosted - 1 ELSE boosted
      realtime == d.priority[t] >= PRIORITY_LOWREALTIME
  IN  [d EXCEPT
        !.waitList = LeaveWaitList(d, t),
        !.priority[t] = IF realtime THEN @
                        ELSE IF spent THEN decayed ELSE boosted,
        !.quantum[t] = IF realtime \/ spent THEN BaseQuantum ELSE @ - 1,
        !.instantDecay[t] = @ /\ (realtime \/ ~spent)]

(***************************************************************************)
(* KeEventSignal(MmSwapEvent), a synchronization event that only the swap  *)
(* worker waits for.  The system process is never swapped out.             *)
(***************************************************************************)
SignalSwapEvent(d) ==
  IF d.swapWaiting
  THEN ReadyResident(Roused([d EXCEPT !.swapWaiting = FALSE], SwapWorker, 0),
                     SwapWorker)
  ELSE [d EXCEPT !.swapEvent = TRUE]

\* Put t on the list of threads its process owes a swap-in, and the process
\* on the swap worker's list if it is already out.
Defer(d, t) ==
  LET p == d.process[t]
      c == [d EXCEPT !.status[t] = "READY", !.deferred[p] = Cons(t, @)]
  IN  SignalSwapEvent(
        IF d.memoryState[p] = "OUTSWAPPED"
        THEN [c EXCEPT !.memoryState[p] = "TRANSITION",
                       !.processIn = Cons(p, @)]
        ELSE c)

KiThreadReady(d, t) ==
  IF d.memoryState[d.process[t]] # "RESIDENT" THEN
     Defer([d EXCEPT !.wasPreempted[t] = FALSE, !.inSwapList[t] = TRUE], t)
  ELSE IF ~d.stackResident[t] THEN
     SignalSwapEvent([d EXCEPT !.wasPreempted[t] = FALSE,
                               !.status[t] = "TRANSITION",
                               !.threadIn = Cons(t, @),
                               !.residentStacks[d.process[t]] = @ + 1])
  ELSE ReadyResident(d, t)

KiThreadWakeup(d, t, boost) == KiThreadReady(Roused(d, t, boost), t)

-----------------------------------------------------------------------------
(***************************************************************************)
(* Leaving the processor.                                                  *)
(***************************************************************************)
KiThreadSwitch(d, t) == [d EXCEPT !.status[t] = "RUNNING", !.current = t]

\* KiThreadSelect and the switch to the thread it returns.
SwitchToSelected(d) ==
  IF d.next # NoThread
  THEN KiThreadSwitch([d EXCEPT !.next = NoThread], d.next)
  ELSE LET p == TopOf(d, PRIORITY_IDLE, d.priority[d.current])
       IN  KiThreadSwitch(Dequeue(d, p), Head(d.queue[p]))

KiThreadBlock(d, status) ==
  SwitchToSelected([d EXCEPT !.quantumEnds[d.current] = 0,
                             !.status[d.current] = status])

KiThreadWait(d, mode, status) ==
  KiThreadBlock([d EXCEPT !.waitMode[d.current] = mode,
                          !.waitList = IF mode = "USER"
                                       THEN @ \cup {d.current} ELSE @],
                status)

KiThreadYieldQuantum(d) ==
  LET p == d.priority[d.current]
  IN  IF d.next # NoThread \/ d.queue[p] = << >> THEN d
      ELSE KiThreadSwitch(KiThreadReady(Dequeue(d, p), d.current),
                          Head(d.queue[p]))

KiThreadNextSwitch(d) ==
  KiThreadSwitch(KiThreadReady([d EXCEPT !.next = NoThread], d.current),
                 d.next)

-----------------------------------------------------------------------------
(***************************************************************************)
(* Priorities and quanta.                                                  *)
(***************************************************************************)
\* Make the best queued thread of a priority above `low' the next thread, if
\* there is one.
MakeNext(d, t) == [d EXCEPT !.status[t] = "STANDBY", !.next = t]
Promote(d, low, high) ==
  LET p == TopOf(d, low, high)
  IN  IF Occupied(d, low, high) = {} THEN d
      ELSE MakeNext(Dequeue(d, p), Head(d.queue[p]))

KiThreadPrioritySet(d, t, prio) ==
  LET old    == d.priority[t]
      c      == [d EXCEPT !.priority[t] = prio]
      better == Occupied(d, prio + 1, old) # {}
      chosen == Promote(c, prio + 1, old)
  IN  CASE prio = old -> d
        [] prio # old /\ d.status[t] = "READY" ->
             IF d.inSwapList[t] THEN c
             ELSE KiThreadReady([c EXCEPT !.queue[old] = Unlink(@, t)], t)
        [] prio < old /\ d.status[t] = "STANDBY" ->
             IF better THEN KiThreadReady(chosen, t) ELSE c
        [] prio < old /\ d.status[t] = "RUNNING" /\ d.next = NoThread ->
             IF better THEN KiSoftwareInterruptRequest(chosen) ELSE c
        [] OTHER -> c

KiThreadBasePrioritySet(d, t, prio) ==
  IF d.base[t] = prio THEN d
  ELSE LET c == IF prio > d.priority[t]
                THEN KiThreadPrioritySet(d, t, prio) ELSE d
       IN  [c EXCEPT !.base[t] = prio]

KiThreadPriorityBoost(d, t, boost) ==
  LET boosted == Capped(d.base[t] + boost)
  IN  IF \/ d.priority[t] >= PRIORITY_LOWREALTIME
         \/ d.instantDecay[t]
         \/ boosted <= d.priority[t]
      THEN d
      ELSE KiThreadPrioritySet([d EXCEPT !.quantum[t] = BaseQuantum],
                               t, boosted)

\* The queues that KeBoostReadyThreads scans, and its body for a thread that has been ready too long.
ScannedFromIdle  == PRIORITY_IDLE .. PRIORITY_HIGHUSER - 1
ScannedFromTwo   == PRIORITY_LOWUSER + 1 .. PRIORITY_HIGHUSER - 1
ScannedForBoost  == PRIORITY_LOWUSER .. PRIORITY_HIGHUSER - 1
BoostReadyThread(d, t) ==
  KiThreadPrioritySet([d EXCEPT !.quantum[t] = (BaseQuantum * 2) % ByteRange,
                                !.instantDecay[t] = TRUE],
                      t, PRIORITY_HIGHUSER)

\* The priority a quantum end leaves the thread with.
DecayedForever(d, t) ==
  IF d.priority[t] >= PRIORITY_LOWREALTIME THEN d.priority[t]
  ELSE IF d.instantDecay[t] THEN d.base[t]
  ELSE Larger(d.priority[t] - 1, PRIORITY_LOWUSER)
Decayed(d, t) ==
  IF d.priority[t] >= PRIORITY_LOWREALTIME THEN d.priority[t]
  ELSE IF d.instantDecay[t] THEN d.base[t]
  ELSE Larger(d.priority[t] - 1, d.base[t])

KiThreadQuantumEnd(d) ==
  LET t     == d.current
      old   == d.priority[t]
      ends  == d.quantumEnds[t]
      user  == old < PRIORITY_LOWREALTIME
      prio  == Decayed(d, t)
      fresh == IF ~user THEN BaseQuantum
               ELSE IF ends >= BaseQuantum THEN 1 ELSE BaseQuantum - ends
      c     == [d EXCEPT !.quantumEnds[t] = (ends + 1) % ByteRange,
                         !.quantum[t] = fresh,
                         !.instantDecay[t] = @ /\ ~user]
      alone == [c EXCEPT !.quantumEnds[t] = 0]
  IN  CASE old = PRIORITY_IDLE -> [d EXCEPT !.quantum[t] = ByteRange - 1]
        [] old # PRIORITY_IDLE /\ prio # old ->
             KiThreadPrioritySet(alone, t, prio)
        [] old # PRIORITY_IDLE /\ prio = old /\ d.next # NoThread ->
             [c EXCEPT !.wasPreempted[t] = FALSE]
        [] OTHER ->
             IF d.queue[old] = << >> THEN alone ELSE Promote(c, old, old)

-----------------------------------------------------------------------------
(***************************************************************************)
(* KeProcessInitialize and KeThreadInitialize for every process and thread *)
(* the system will start, and the first KiThreadSwitch of KeMain, to the   *)
(* idle thread, which runs the initialization of the executive.            *)
(***************************************************************************)
CreationPriority(t) ==
  IF t = IdleThread THEN PRIORITY_IDLE
  ELSE IF t \in FirstThreads THEN InitialBase[t] + KEBOOSTINITIAL
  ELSE InitialBase[t]

InitialDatabase ==
  [status         |-> [t \in Thread |-> IF t = IdleThread THEN "RUNNING"
                                       ELSE "INITIALIZED"],
   priority       |-> [t \in Thread |-> CreationPriority(t)],
   base           |-> InitialBase,
   quantum        |-> [t \in Thread |-> BaseQuantum],
   quantumEnds    |-> [t \in Thread |-> 0],
   instantDecay   |-> [t \in Thread |-> FALSE],
   wasPreempted   |-> [t \in Thread |-> FALSE],
   process        |-> ThreadProcess,
   waitMode       |-> [t \in Thread |-> "KERNEL"],
   stackResident  |-> [t \in Thread |-> TRUE],
   inSwapList     |-> [t \in Thread |-> FALSE],
   queue          |-> [p \in Priority |-> << >>],
   next           |-> NoThread,
   current        |-> IdleThread,
   dpcPending     |-> FALSE,
   waitList       |-> {},
   memoryState    |-> [p \in Process |-> "RESIDENT"],
   residentStacks |-> [p \in Process |->
                        Cardinality({t \in Thread : ThreadProcess[t] = p})],
   deferred       |-> [p \in Process |-> << >>],
   processIn      |-> << >>,
   processOut     |-> << >>,
   threadIn       |-> << >>,
   swapEvent      |-> FALSE,
   swapWaiting    |-> FALSE]

-----------------------------------------------------------------------------
(***************************************************************************)
(* The type of the database.                                               *)
(***************************************************************************)
Database ==
  [status         : [Thread -> Status],
   priority       : [Thread -> Priority],
   base           : [Thread -> Priority],
   quantum        : [Thread -> Byte],
   quantumEnds    : [Thread -> Byte],
   instantDecay   : [Thread -> BOOLEAN],
   wasPreempted   : [Thread -> BOOLEAN],
   process        : [Thread -> Process],
   waitMode       : [Thread -> WaitMode],
   stackResident  : [Thread -> BOOLEAN],
   inSwapList     : [Thread -> BOOLEAN],
   queue          : [Priority -> Seq(Thread)],
   next           : Thread \cup {NoThread},
   current        : Thread,
   dpcPending     : BOOLEAN,
   waitList       : SUBSET Thread,
   memoryState    : [Process -> MemoryState],
   residentStacks : [Process -> Int],
   deferred       : [Process -> Seq(Thread)],
   processIn      : Seq(Process),
   processOut     : Seq(Process),
   threadIn       : Seq(Thread),
   swapEvent      : BOOLEAN,
   swapWaiting    : BOOLEAN]

-----------------------------------------------------------------------------
(***************************************************************************)
(* What makes a database consistent, while the threads in `moving' are on  *)
(* their way from one place to another.                                    *)
(***************************************************************************)
\* The ready queues hold the READY threads, each once, on the queue of its
\* own priority.
QueuesInPlace(d, moving) ==
  \A p \in Priority :
    /\ IsInjective(d.queue[p])
    /\ Range(d.queue[p]) = {t \in Thread \ moving :
                              d.status[t] = "READY" /\ d.priority[t] = p}

\* Nothing is swapped out or being swapped.
AllResident(d) ==
  /\ \A t \in Thread : d.stackResident[t] /\ ~d.inSwapList[t]
  /\ \A p \in Process : d.memoryState[p] = "RESIDENT"

\* The STANDBY thread is KiThreadNext and the RUNNING one KeThreadCurrent.
ProcessorInPlace(d) ==
  \A t \in Thread : /\ d.status[t] = "STANDBY" <=> d.next = t
                    /\ d.status[t] = "RUNNING" <=> d.current = t

IdleReady(d) ==
  /\ d.status[IdleThread] \in {"READY", "STANDBY", "RUNNING"}
  /\ d.priority[IdleThread] = PRIORITY_IDLE

\* What every routine relies on and restores, while nothing is swapped.
Consistent(d) ==
  /\ d \in Database
  /\ AllResident(d)
  /\ QueuesInPlace(d, {})
  /\ ProcessorInPlace(d)
  /\ IdleReady(d)

\* The thread that runs when the processor leaves IPLDPC.
Chosen(d) == IF d.next = NoThread THEN d.current ELSE d.next

\* It does not lose to the current thread or to a queued one.
BestChosen(d) ==
  /\ \A p \in Priority : d.queue[p] # << >> => p <= d.priority[Chosen(d)]
  /\ d.priority[d.current] <= d.priority[Chosen(d)]
=============================================================================
