----------------------------- MODULE KeScheduler -----------------------------
(***************************************************************************)
(* The scheduler of one processor, while every process and kernel stack is *)
(* resident (the swap worker is not modelled).  It composes                *)
(*                                                                         *)
(*   - the dispatcher database and its routines (KiDispatcher);            *)
(*   - KeIPL.df: software interrupts at IPLDPC, which run the queued DPCs, *)
(*     then the quantum end, then switch to KiThreadNext;                  *)
(*   - the clock and device interrupt routines, which interleave with      *)
(*     everything;                                                         *)
(*   - the calls of threads: wait, wake, yield, boost, set priorities,     *)
(*     start and terminate.                                                *)
(*                                                                         *)
(* `region' is where the processor is between two steps:                   *)
(*   "low"         below IPLDPC, in the code of the current thread;        *)
(*   "wake", "boost", "base", "starved"   the current thread raised to     *)
(*                 IPLDPC and wakes waiters, boosts lock owners, sets the  *)
(*                 base priority of a process, boosts starved threads:     *)
(*                 loops of the source, one iteration a step;              *)
(*   "dpcs", "quantum", "switch"   the stages of KiSoftwareInterruptDPC;   *)
(*   "leave"       at IPLDPC with only KeIPLLower left to do.  A thread    *)
(*                 that was switched out continues here.                   *)
(***************************************************************************)
EXTENDS KiDispatcher

CONSTANTS
  Boosts,     \* the priority boosts callers pass
  WaitKinds,  \* the wait modes and statuses threads go to sleep with
  Calls,      \* the loops at IPLDPC that threads run
  BaseTargets,\* the base priorities processes are raised to
  SetTargets  \* the priorities threads set with KeThreadPrioritySet

VARIABLES
  d,        \* the dispatcher database
  region,   \* where the processor is
  events,   \* KiDispatchEvents
  taken,    \* the events that KiSoftwareInterruptDPC works on
  target    \* the process and priority KiProcessBasePrioritySet works on

vars == <<d, region, events, taken, target>>

Events   == {"DPC", "QUANTUMEND"}
Stages   == {"dpcs", "quantum", "switch"}
Regions  == {"low", "leave"} \cup Calls \cup Stages
NoTarget == [process |-> CHOOSE p \in Process : TRUE,
             priority |-> PRIORITY_LOWUSER]

ASSUME CallerAssumption ==
  /\ Boosts \subseteq Nat
  /\ WaitKinds \subseteq WaitMode \X Asleep
  /\ Calls \subseteq {"wake", "boost", "base", "starved"}
  /\ BaseTargets \subseteq PRIORITY_LOWUSER .. PRIORITY_HIGHREALTIME
  /\ SetTargets \subseteq PRIORITY_LOWREALTIME .. PRIORITY_HIGHREALTIME
  /\ Process # {}

Init ==
  /\ d = InitialDatabase
  /\ region = "low"
  /\ events = {}
  /\ taken = {}
  /\ target = NoTarget

-----------------------------------------------------------------------------
(***************************************************************************)
(* Interrupt routines: they run between any two steps.                     *)
(***************************************************************************)

\* KeClockTick, without the expired timers (KeTimer).
DrainedBelowZero(q) == q - QUANTUMUNITSPERTICK
Drained(q) == IF q <= QUANTUMUNITSPERTICK THEN 0 ELSE q - QUANTUMUNITSPERTICK

KeClockTick ==
  LET left == Drained(d.quantum[d.current])
  IN  /\ d' = [d EXCEPT !.quantum[d.current] = left,
                        !.dpcPending = @ \/ left = 0]
      /\ events' = IF left = 0 THEN events \cup {"QUANTUMEND"} ELSE events
      /\ UNCHANGED <<region, taken, target>>

\* KeDPCEnqueue of some DPC.
KeDPCEnqueue ==
  /\ d' = [d EXCEPT !.dpcPending = TRUE]
  /\ events' = events \cup {"DPC"}
  /\ UNCHANGED <<region, taken, target>>

-----------------------------------------------------------------------------
(***************************************************************************)
(* Software interrupts.                                                    *)
(***************************************************************************)

\* The stage of KiSoftwareInterruptDPC that follows the DPCs.
AfterDPCs(work) == IF "QUANTUMEND" \in work THEN "quantum" ELSE "switch"

\* KiDispatchSoftwareInterrupts finds IPLDPC pending.
KiSoftwareInterruptDPC ==
  /\ region = "low" /\ d.dpcPending
  /\ d' = [d EXCEPT !.dpcPending = FALSE]
  /\ taken' = events
  /\ events' = {}
  /\ region' = IF "DPC" \in events THEN "dpcs" ELSE AfterDPCs(events)
  /\ UNCHANGED target

\* A DPC routine, timer expiration for one, wakes a thread.
DPCWake(t, boost) ==
  /\ region = "dpcs"
  /\ d.status[t] \in Asleep
  /\ d' = KiThreadWakeup(d, t, boost)
  /\ UNCHANGED <<region, events, taken, target>>

DPCsDone ==
  /\ region = "dpcs"
  /\ region' = AfterDPCs(taken)
  /\ UNCHANGED <<d, events, taken, target>>

QuantumEnd ==
  /\ region = "quantum"
  /\ d' = KiThreadQuantumEnd(d)
  /\ region' = "switch"
  /\ UNCHANGED <<events, taken, target>>

NextSwitch ==
  /\ region = "switch"
  /\ d' = IF d.next = NoThread THEN d ELSE KiThreadNextSwitch(d)
  /\ region' = "leave"
  /\ taken' = {}
  /\ UNCHANGED <<events, target>>

\* KeIPLLower, or the return of KiDispatchSoftwareInterrupts.
KeIPLLower ==
  /\ \/ region \in {"leave", "wake", "boost", "starved"}
     \/ region = "base" /\ \A t \in Thread \ {IdleThread} :
          d.process[t] = target.process => d.base[t] >= target.priority
  /\ region' = "low"
  /\ target' = NoTarget
  /\ UNCHANGED <<d, events, taken>>

-----------------------------------------------------------------------------
(***************************************************************************)
(* Calls of the current thread.  A pending software interrupt is taken     *)
(* before the thread's next instruction below IPLDPC.                      *)
(***************************************************************************)
Calling == region = "low" /\ ~d.dpcPending

KeIPLRaise(call) ==
  /\ Calling
  /\ call \in Calls
  /\ region' = call
  /\ UNCHANGED <<d, events, taken>>

\* KeEventSignal, KeSemaphoreRelease, KeThreadSignal, KeThreadResume... wake
\* any number of sleeping threads.
EnterWake == KeIPLRaise("wake") /\ UNCHANGED target

Wake(t, boost) ==
  /\ region = "wake"
  /\ d.status[t] \in Asleep
  /\ d' = KiThreadWakeup(d, t, boost)
  /\ UNCHANGED <<region, events, taken, target>>

\* KeThreadWait..., KeThreadSleep and KeThreadWaitSuspended, once they
\* decide to sleep; the caller may have signaled something in the same
\* IPLDPC region.  The idle thread does not sleep (the check of KiThreadWait).
KeThreadWait(kind) ==
  /\ Calling \/ region = "wake"
  /\ d.current # IdleThread
  /\ d' = KiThreadWait(d, kind[1], kind[2])
  /\ region' = "leave"
  /\ UNCHANGED <<events, taken, target>>

\* PsiThreadGoByeBye, after PsThreadExit raised its priority.
KeThreadTerminate ==
  /\ Calling \/ region = "wake"
  /\ d.current # IdleThread
  /\ d' = KiThreadBlock(d, "TERMINATED")
  /\ region' = "leave"
  /\ UNCHANGED <<events, taken, target>>

\* KeThreadSleep with an interval of zero.
KeThreadYield ==
  /\ Calling
  /\ d.current # IdleThread
  /\ d' = KiThreadYieldQuantum(d)
  /\ region' = "leave"
  /\ UNCHANGED <<events, taken, target>>

\* The end of PsThreadCreateObject.
KeThreadReady(t) ==
  /\ Calling
  /\ d.status[t] = "INITIALIZED"
  /\ d' = KiThreadReady(d, t)
  /\ region' = "leave"
  /\ UNCHANGED <<events, taken, target>>

\* A worker or exiting thread sets its own priority; PsInitPhase1 raises the
\* reaper's.
KeThreadPrioritySet(t, prio) ==
  /\ Calling
  /\ t # IdleThread
  /\ t = d.current \/ prio = PRIORITY_HIGHREALTIME
  /\ d' = KiThreadPrioritySet(d, t, prio)
  /\ region' = "leave"
  /\ UNCHANGED <<events, taken, target>>

\* ExRwLockWait boosts the owners of the lock, other than itself.
EnterBoost == KeIPLRaise("boost") /\ d.current # IdleThread /\ UNCHANGED target

Boost(t, boost) ==
  /\ region = "boost"
  /\ t \notin {IdleThread, d.current}
  /\ d' = KiThreadPriorityBoost(d, t, boost)
  /\ UNCHANGED <<region, events, taken, target>>

\* KiProcessBasePrioritySet raises the threads below the new base priority.
EnterBase(p, prio) ==
  /\ KeIPLRaise("base")
  /\ d.current # IdleThread
  /\ target' = [process |-> p, priority |-> prio]

RaiseBase(t) ==
  /\ region = "base"
  /\ t # IdleThread
  /\ d.process[t] = target.process
  /\ target.priority > d.base[t]
  /\ d' = KiThreadBasePrioritySet(d, t, target.priority)
  /\ UNCHANGED <<region, events, taken, target>>

\* KeBoostReadyThreads; whether a thread has been ready long enough depends
\* on times that are not modelled.
EnterStarved ==
  KeIPLRaise("starved") /\ d.current # IdleThread /\ UNCHANGED target

BoostStarved(t) ==
  /\ region = "starved"
  /\ ~d.instantDecay[t]
  /\ \E p \in ScannedForBoost : t \in Range(d.queue[p])
  /\ d' = BoostReadyThread(d, t)
  /\ UNCHANGED <<region, events, taken, target>>

-----------------------------------------------------------------------------
Interrupt == KeClockTick \/ KeDPCEnqueue

SoftwareInterrupt ==
  \/ KiSoftwareInterruptDPC
  \/ \E t \in Thread, boost \in Boosts : DPCWake(t, boost)
  \/ DPCsDone
  \/ QuantumEnd
  \/ NextSwitch

Call ==
  \/ EnterWake \/ EnterBoost \/ EnterStarved
  \/ \E p \in Process, prio \in BaseTargets : EnterBase(p, prio)
  \/ \E t \in Thread, boost \in Boosts : Wake(t, boost) \/ Boost(t, boost)
  \/ \E t \in Thread : KeThreadReady(t) \/ RaiseBase(t) \/ BoostStarved(t)
  \/ \E kind \in WaitKinds : KeThreadWait(kind)
  \/ KeThreadTerminate
  \/ KeThreadYield
  \/ \E t \in Thread, prio \in SetTargets : KeThreadPrioritySet(t, prio)

Next == Interrupt \/ SoftwareInterrupt \/ Call \/ KeIPLLower

Spec == Init /\ [][Next]_vars

\* Interrupts are delivered and what runs at IPLDPC is finite code.  The
\* balance manager calls KeBoostReadyThreads every second, and a thread that
\* stays ready is old enough in one of those calls.
Fairness ==
  /\ WF_vars(KeClockTick)
  /\ WF_vars(KiSoftwareInterruptDPC)
  /\ WF_vars(DPCsDone)
  /\ WF_vars(QuantumEnd)
  /\ WF_vars(NextSwitch)
  /\ WF_vars(KeIPLLower)
  /\ SF_vars(EnterStarved)
  /\ \A t \in Thread : SF_vars(BoostStarved(t)) /\ WF_vars(RaiseBase(t))

FairSpec == Spec /\ Fairness

-----------------------------------------------------------------------------
(***************************************************************************)
(* Properties.                                                             *)
(***************************************************************************)

\* Every variable has its type.
TypeOK ==
  /\ d \in Database
  /\ region \in Regions
  /\ events \subseteq Events
  /\ taken \subseteq Events
  /\ target \in [process : Process, priority : Priority]

\* A thread is where its status says, and nowhere else: a READY thread is on
\* the queue of its own priority, once; the STANDBY thread is KiThreadNext
\* and the RUNNING one is KeThreadCurrent.  Unlinking, preempting and
\* switching each move a thread between two of these places.
ThreadsInPlace == QueuesInPlace(d, {}) /\ ProcessorInPlace(d)

\* No queued thread beats the thread that will run when the processor leaves
\* IPLDPC, and that thread does not lose to the current one.  KiThreadSelect
\* relies on it: it looks no higher than the current thread's priority.
BestThreadSelected == BestChosen(d)

\* A selected next thread is never forgotten: the software interrupt that
\* switches to it is pending, or KiSoftwareInterruptDPC has yet to look.
SwitchPending == d.next # NoThread => d.dpcPending \/ region \in Stages

\* The idle thread "is never ever not ready to run" (KeMain.df).
IdleAlwaysReady == IdleReady(d)

\* The global wait list that MiSwapOutStacks scans holds exactly the threads
\* in user-mode waits whose stacks are resident.
WaitListExact ==
  d.waitList = {t \in Thread : /\ d.status[t] \in Asleep
                               /\ d.waitMode[t] = "USER"
                               /\ d.stackResident[t]}

\* Boosting and decay, in KiThreadWakeup, KiThreadQuantumEnd and the boosts,
\* leave a time-sharing thread at its base priority or above, and a starved
\* thread keeps its boost until it has used a quantum.
DecayStopsAtBase ==
  \A t \in Thread \ {IdleThread} :
    /\ d.priority[t] < PRIORITY_LOWREALTIME => d.base[t] <= d.priority[t]
    /\ d.instantDecay[t] => PRIORITY_HIGHUSER <= d.priority[t]

\* No boost takes a time-sharing thread into the real-time priorities, where
\* it would never decay: only KeThreadPrioritySet and a real-time base do.
BoostsStayTimeSharing ==
  [][\A t \in Thread :
       d.priority[t] < PRIORITY_LOWREALTIME =>
         \/ d'.priority[t] < PRIORITY_LOWREALTIME
         \/ d'.base[t] >= PRIORITY_LOWREALTIME
         \/ \E prio \in SetTargets : KeThreadPrioritySet(t, prio)]_vars

\* As long as interrupts leave threads any time at all, a ready time-sharing
\* thread runs again, whatever others of its kind do: quanta end, and
\* KeBoostReadyThreads lifts it over those that outrank it.
NoStarvation ==
  []<>Calling => \A t \in Thread \ {IdleThread} :
                   d.status[t] = "READY" ~> d.status[t] = "RUNNING"
=============================================================================
