------------------------------- MODULE KeWait -------------------------------
(***************************************************************************)
(* Dispatcher objects and the threads that wait for them: events,          *)
(* semaphores and mutexes (KeEvent.df, KeSemaphore.df, KeMutex.df), waits  *)
(* for any or all of several objects with timeouts (KeThreadWait.df), and  *)
(* what ends a wait early: kernel and user APCs, signals, termination      *)
(* (KeAPC.df, KeThread.df).                                                *)
(*                                                                         *)
(* All of it happens at IPLDPC and no interrupt routine takes part, so a   *)
(* section of code at IPLDPC is one step.  When a woken thread runs is up  *)
(* to the scheduler, here: at any time.                                    *)
(*                                                                         *)
(* The wait list of an object is the set of the threads on it and the      *)
(* strict order they are in.                                               *)
(***************************************************************************)
EXTENDS Integers, Sequences, FiniteSets

CONSTANTS
  Thread,
  Object,
  Kind,            \* "notification", "synchronization", "semaphore", "mutex"
  KernelMutex,     \* the mutexes that disable APCs while they are held
  Null,
  Waits,           \* the waits that threads call for
  Alerts,          \* of "kill", "signal", "apc", "kernelapc", "suspend"
  Alerted,         \* the threads they are aimed at
  Priority,
  PrioritiesKept,  \* the priority of a sleeping thread does not change
  Releases,        \* the adjustments semaphores are released by
  MaxCount,        \* bound: the count of a semaphore
  LowestCount      \* 0x80000000: the signal state of a mutex held most often

Mutex == {o \in Object : Kind[o] = "mutex"}

Again  == "kernelapc"     \* the wait status that makes a wait start over
Failures == {"no", "timeout", "killed", "signalled", "userapc", "overflow"}

ASSUME FiniteAssumption == IsFiniteSet(Thread) /\ IsFiniteSet(Object)

\* No index of an object is the code of another wait status.
ASSUME OutcomeAssumption == Object \cap ({"none", "all", Again} \cup Failures) = {}

ASSUME WaitAssumption ==
  /\ Kind \in [Object -> {"notification", "synchronization", "semaphore", "mutex"}]
  /\ KernelMutex \subseteq Mutex
  /\ Null \notin Thread /\ Null \notin Waits
  /\ Alerts \subseteq {"kill", "signal", "apc", "kernelapc", "suspend"}
  /\ Alerted \subseteq Thread
  /\ Priority \subseteq Nat /\ 0 \in Priority
  /\ PrioritiesKept \in BOOLEAN
  /\ Releases \subseteq Nat \ {0}
  /\ MaxCount \in Nat \ {0} /\ LowestCount \in Int /\ LowestCount <= 0
  /\ \A w \in Waits :
       /\ w.type \in {"any", "all", "sleep"}
       /\ w.objects \in Seq(Object)
       /\ \A i, j \in DOMAIN w.objects : w.objects[i] = w.objects[j] => i = j
       /\ w.type = "sleep" <=> w.objects = <<>>
       /\ w.timeout \in {"none", "finite", "infinite"}
       /\ w.mode \in {"kernel", "user"} /\ w.alertable \in BOOLEAN

VARIABLES
  signaled,    \* KeDispatchHeader_Signaled
  owner,       \* KeMutex_OwningThread; a thread's mutex list is what names it
  apcDisable,  \* KeThread_APCDisableCount
  waiters,     \* the threads on an object's wait list
  ahead,       \* the pairs of them of which the first is ahead of the second
  status,      \* KeThread_StatusB; "running" stands for ready ones too
  call,        \* the wait a thread is in, from its call to its return
  outcome,     \* KeThread_WaitStatus, or what a wait returned without sleeping;
               \* the object stands for its index
  priority,    \* of a sleeping thread
  pending,     \* signals, the termination and user APCs that are pending
  accepts,     \* KeThread_SignalAcceptMask
  onWait,      \* KeThread_SignalDeliverOnWaitMask
  triggered,   \* KeThread_UserAPCTriggeredB
  suspended,   \* KeThread_SuspendedB
  exiting      \* the thread whose KeThreadRundown is at IPLDPC

objects == <<signaled, owner, apcDisable>>
waits   == <<waiters, ahead, status, call, outcome, priority>>
alerts  == <<pending, accepts, onWait, triggered, suspended>>
vars    == <<signaled, owner, apcDisable, waiters, ahead, status, call, outcome,
             priority, pending, accepts, onWait, triggered, suspended, exiting>>

Asleep == {"waitingalertable", "waitingunalertable", "suspended"}
Objects(w) == {w.objects[i] : i \in DOMAIN w.objects}

Init ==
  /\ signaled \in [Object -> {0, 1}]
  /\ \A m \in Mutex : signaled[m] = 1
  /\ owner = [m \in Mutex |-> Null]
  /\ apcDisable = [t \in Thread |-> 0]
  /\ waiters = [o \in Object |-> {}]
  /\ ahead = [o \in Object |-> {}]
  /\ status = [t \in Thread |-> "running"]
  /\ call = [t \in Thread |-> Null]
  /\ outcome = [t \in Thread |-> "none"]
  /\ priority = [t \in Thread |-> 0]
  /\ pending = [t \in Thread |-> {}]
  /\ accepts = [t \in Thread |-> FALSE]
  /\ onWait = [t \in Thread |-> FALSE]
  /\ triggered = [t \in Thread |-> FALSE]
  /\ suspended = [t \in Thread |-> FALSE]
  /\ exiting = Null

-----------------------------------------------------------------------------
(***************************************************************************)
(* Waking and granting.                                                    *)
(***************************************************************************)

\* The threads of W wake, each with its wait status: they leave all wait lists
\* (KiThreadWaitBlocksDequeue), their timeouts are taken back, and their waits
\* return, unless they are to start over.
KiThreadWakeup(W, waitstatus) ==
  /\ waiters'  = [o \in Object |-> waiters[o] \ W]
  /\ ahead'    = [o \in Object |-> {x \in ahead[o] : x[1] \notin W /\ x[2] \notin W}]
  /\ status'   = [t \in Thread |-> IF t \in W THEN "running" ELSE status[t]]
  /\ call'     = [t \in Thread |-> IF t \in W /\ waitstatus[t] # Again THEN Null
                                   ELSE call[t]]
  /\ outcome'  = [t \in Thread |-> IF t \in W THEN waitstatus[t] ELSE outcome[t]]
  /\ priority' = [t \in Thread |-> IF t \in W THEN 0 ELSE priority[t]]

Wake(t, waitstatus) == KiThreadWakeup({t}, [u \in {t} |-> waitstatus])

\* The waiters of o that wait for any of several objects, in front of t.
AnyWaiters(o) == {t \in waiters[o] : call[t].type = "any"}
Behind(o, t)  == {u \in AnyWaiters(o) : <<t, u>> \in ahead[o]}
Before(o, t)  == {u \in AnyWaiters(o) : <<u, t>> \in ahead[o]}

\* KiDispatchSatisfyFirst n times: the waiters it takes off the list until the
\* n-th of those that get the object, or all.
OneTooMany(o, n) == {t \in AnyWaiters(o) : Cardinality(Before(o, t)) <= n}
AnyFirst(o, n) == {t \in AnyWaiters(o) : Cardinality(Before(o, t)) < n}
OnlyAny(o, n) == AnyFirst(o, n)
Reached(o, n)  == {t \in waiters[o] : Cardinality(Before(o, t)) < n}

\* A waiter for any object gets this one, one for all objects tries again.
WaitStatus(o) ==
  [t \in waiters[o] |-> IF call[t].type = "any" THEN o ELSE Again]

\* KiMutexOwnerSet for the mutexes of M.
KiMutexOwnerSet(t, M) ==
  /\ owner' = [m \in Mutex |-> IF m \in M THEN t ELSE owner[m]]
  /\ apcDisable' =
       [apcDisable EXCEPT ![t] = @ + Cardinality(M \cap KernelMutex)]

\* The object is available to t: signaled, or a mutex it owns.
Owns(t, o)      == o \in Mutex /\ owner[o] = t
Available(t, o) == signaled[o] > 0 \/ Owns(t, o)
DoesNotOverflow(t, o) == FALSE
Overflows(t, o) == signaled[o] <= 0 /\ Owns(t, o) /\ signaled[o] = LowestCount

\* t gets the objects of S.
Consumed(o) ==
  CASE Kind[o] = "notification"    -> signaled[o]
    [] Kind[o] = "synchronization" -> 0
    [] Kind[o] = "semaphore"       -> signaled[o] - 1
    [] Kind[o] = "mutex"           -> IF signaled[o] > 0 THEN 0 ELSE signaled[o] - 1
Consume(t, S) ==
  /\ signaled' = [o \in Object |-> IF o \in S THEN Consumed(o) ELSE signaled[o]]
  /\ KiMutexOwnerSet(t, {m \in S \cap Mutex : signaled[m] > 0})
-----------------------------------------------------------------------------
(***************************************************************************)
(* A thread waits.                                                         *)
(***************************************************************************)

\* What keeps t from an alertable wait of user mode,
KiCheckWaitInterruptingEvents(t) ==
  IF "apc" \in pending[t] THEN "userapc"
  ELSE IF "signal" \in pending[t] /\ accepts[t] /\ onWait[t] THEN "signalled"
  ELSE "none"

\* ... and from any.
Interruption(t, w) ==
  IF w.mode = "user" /\ w.alertable THEN KiCheckWaitInterruptingEvents(t)
  ELSE IF (w.mode = "user" \/ w.alertable) /\ "kill" \in pending[t] THEN "killed"
  ELSE "none"

\* The events that are taken up by ending or refusing a wait.
TakeUp(t, event) ==
  /\ triggered' = [triggered EXCEPT ![t] = @ \/ event = "userapc"]
  /\ onWait' = [onWait EXCEPT ![t] = @ /\ event # "signalled"]

Return(t, result) ==
  /\ call' = [call EXCEPT ![t] = Null]
  /\ outcome' = [outcome EXCEPT ![t] = result]
  /\ UNCHANGED <<waiters, ahead, status, priority>>

Interrupted(t, w) ==
  /\ Interruption(t, w) # "none"
  /\ TakeUp(t, Interruption(t, w))
  /\ Return(t, Interruption(t, w))
  /\ UNCHANGED <<objects, pending, accepts, suspended>>

\* The first of the objects that is available.
Found(t, w, i) ==
  /\ Available(t, w.objects[i])
  /\ \A j \in 1 .. i - 1 : ~Available(t, w.objects[j])
CanHaveAll(t, w) == \A o \in Objects(w) : Available(t, o)

SatisfiedAny(t, w) ==
  /\ w.type = "any"
  /\ \E i \in DOMAIN w.objects :
       /\ Found(t, w, i)
       /\ ~Overflows(t, w.objects[i])
       /\ Consume(t, {w.objects[i]})
       /\ Return(t, w.objects[i])

\* The objects of a wait for all are taken together, except by one without a
\* timeout, which only says whether they are available.
NoneTaken(t, w) == {}
TakenTogether(t, w) == IF w.timeout = "none" THEN {} ELSE Objects(w)
SatisfiedAll(t, w) ==
  /\ w.type = "all"
  /\ CanHaveAll(t, w)
  /\ \A o \in Objects(w) : ~Overflows(t, o)
  /\ Consume(t, TakenTogether(t, w))
  /\ Return(t, "all")

HeldTooOften(t, w) ==
  /\ \/ /\ w.type = "any"
        /\ \E i \in DOMAIN w.objects : Found(t, w, i) /\ Overflows(t, w.objects[i])
     \/ /\ w.type = "all"
        /\ \E o \in Objects(w) : Overflows(t, o)
  /\ Return(t, "overflow")
  /\ UNCHANGED objects

\* No object, or not all of them, are to be had now.
Unsatisfied(t, w) ==
  \/ w.type = "any" /\ \A o \in Objects(w) : ~Available(t, o)
  \/ w.type = "all" /\ ~CanHaveAll(t, w) /\ \A o \in Objects(w) : ~Overflows(t, o)

\* KiDispatchWaitBlockEnqueue: behind the last waiter of at least its priority.
Above(u, p)    == priority[u] > p
NotBelow(u, p) == priority[u] >= p
EveryoneInFront(o, p) == waiters[o]
InFront(o, p) == {u \in waiters[o] : \E v \in waiters[o] :
                    NotBelow(v, p) /\ (u = v \/ <<u, v>> \in ahead[o])}
Enqueued(o, t, p) ==
  ahead[o] \cup (InFront(o, p) \X {t}) \cup ({t} \X (waiters[o] \ InFront(o, p)))

KiThreadWait(t, w, p) ==
  /\ waiters'  = [o \in Object |-> IF o \in Objects(w) THEN waiters[o] \cup {t}
                                   ELSE waiters[o]]
  /\ ahead'    = [o \in Object |-> IF o \in Objects(w) THEN Enqueued(o, t, p)
                                   ELSE ahead[o]]
  /\ priority' = [priority EXCEPT ![t] = p]
  /\ status'   = [status EXCEPT ![t] = IF w.alertable THEN "waitingalertable"
                                       ELSE "waitingunalertable"]
  /\ call'     = [call EXCEPT ![t] = w]
  /\ outcome'  = [outcome EXCEPT ![t] = "none"]
  /\ UNCHANGED objects

\* One turn of the loop of KeThreadWaitForMultipleObjects, or of that of
\* KeThreadWaitForObject, which is the same for one object.
KeThreadWaitForMultipleObjects(t, w) ==
  /\ w.type # "sleep"
  /\ \/ Interrupted(t, w)
     \/ /\ Interruption(t, w) = "none"
        /\ UNCHANGED alerts
        /\ \/ SatisfiedAny(t, w)
           \/ SatisfiedAll(t, w)
           \/ HeldTooOften(t, w)
           \/ /\ Unsatisfied(t, w)
              /\ IF w.timeout = "none"
                 THEN Return(t, "no") /\ UNCHANGED objects
                 ELSE \E p \in Priority : KiThreadWait(t, w, p)

KeThreadSleep(t, w) ==
  /\ w.type = "sleep"
  /\ \/ Interrupted(t, w)
     \/ /\ Interruption(t, w) = "none"
        /\ UNCHANGED alerts
        /\ IF w.timeout = "none"
           THEN Return(t, "no") /\ UNCHANGED objects
           ELSE KiThreadWait(t, w, 0)

\* A thread calls for a wait, or starts over the one a kernel APC, or an object
\* of a wait for all, ended.
Wait(t) ==
  /\ status[t] = "running"
  /\ \E w \in IF call[t] = Null THEN Waits ELSE {call[t]} :
       KeThreadWaitForMultipleObjects(t, w) \/ KeThreadSleep(t, w)

\* The timeout expires and satisfies its wait block.
KeTimerExpire(t) ==
  /\ status[t] \in Asleep /\ call[t] # Null /\ call[t].timeout = "finite"
  /\ Wake(t, "timeout")
  /\ UNCHANGED <<objects, alerts>>

\* A sleeping thread's priority is changed; it keeps its place on wait lists.
KeThreadBoost(t, p) ==
  /\ ~PrioritiesKept
  /\ status[t] \in Asleep
  /\ priority' = [priority EXCEPT ![t] = p]
  /\ UNCHANGED <<objects, waiters, ahead, status, call, outcome, alerts>>

-----------------------------------------------------------------------------
(***************************************************************************)
(* Threads and DPCs signal events and release semaphores; threads release  *)
(* their mutexes.                                                          *)
(***************************************************************************)

Grant(o, n) == KiThreadWakeup(Reached(o, n), WaitStatus(o))

\* The first waiter for any object gets the signal, else it stays.
StaySignaled(o) == 1
SignalLeft(o) == IF AnyWaiters(o) = {} THEN 1 ELSE 0

KeEventSignal(e) ==
  /\ signaled[e] = 0
  /\ \/ /\ Kind[e] = "notification"
        /\ signaled' = [signaled EXCEPT ![e] = 1]
        /\ KiThreadWakeup(waiters[e], WaitStatus(e))
     \/ /\ Kind[e] = "synchronization"
        /\ signaled' = [signaled EXCEPT ![e] = SignalLeft(e)]
        /\ Grant(e, 1)
  /\ UNCHANGED <<owner, apcDisable, alerts>>

\* The same without a look at whether the event is signaled.
KeEventSignalGetWaiter(e) ==
  /\ Kind[e] = "synchronization"
  /\ signaled' = [signaled EXCEPT ![e] = IF AnyWaiters(e) = {} THEN 1 ELSE @]
  /\ Grant(e, 1)
  /\ UNCHANGED <<owner, apcDisable, alerts>>

KeEventPulse(e) ==
  /\ \/ /\ Kind[e] = "notification"
        /\ signaled' = [signaled EXCEPT ![e] = 0]
        /\ KiThreadWakeup(waiters[e], WaitStatus(e))
     \/ /\ Kind[e] = "synchronization"
        /\ UNCHANGED signaled
        /\ Grant(e, 1)
  /\ UNCHANGED <<owner, apcDisable, alerts>>

KeEventReset(e) ==
  /\ Kind[e] \in {"notification", "synchronization"}
  /\ signaled' = [signaled EXCEPT ![e] = 0]
  /\ UNCHANGED <<owner, apcDisable, waits, alerts>>

\* A semaphore that has units left has nobody waiting for any object.
KeSemaphoreRelease(s, n) ==
  /\ Kind[s] = "semaphore"
  /\ signaled[s] + n <= MaxCount
  /\ IF signaled[s] = 0
     THEN /\ signaled' = [signaled EXCEPT ![s] = n - Cardinality(AnyFirst(s, n))]
          /\ Grant(s, n)
     ELSE /\ signaled' = [signaled EXCEPT ![s] = @ + n]
          /\ UNCHANGED waits
  /\ UNCHANGED <<owner, apcDisable, alerts>>

\* A mutex let go for good is handed to its first waiter for any object: APCs
\* are disabled once more for that thread, and once less for the one before.
DisabledBy(m, is) == IF m \in KernelMutex /\ is THEN 1 ELSE 0
KeptDisabled(m, t, u)  == DisabledBy(m, u \in AnyFirst(m, 1))
DisabledMore(m, t, u) == DisabledBy(m, u \in AnyFirst(m, 1)) - DisabledBy(m, u = t)

HandOver(m, t) ==
  /\ Grant(m, 1)
  /\ apcDisable' = [u \in Thread |-> apcDisable[u] + DisabledMore(m, t, u)]
  /\ \/ /\ AnyWaiters(m) = {}
        /\ owner' = [owner EXCEPT ![m] = Null]
        /\ signaled' = [signaled EXCEPT ![m] = 1]
     \/ \E u \in AnyFirst(m, 1) :
          /\ owner' = [owner EXCEPT ![m] = u]
          /\ signaled' = [signaled EXCEPT ![m] = 0]

KeMutexRelease(m) ==
  /\ owner[m] # Null
  /\ status[owner[m]] = "running" /\ call[owner[m]] = Null
  /\ IF signaled[m] < 0
     THEN /\ signaled' = [signaled EXCEPT ![m] = @ + 1]
          /\ UNCHANGED <<owner, apcDisable, waits>>
     ELSE HandOver(m, owner[m])
  /\ UNCHANGED alerts

-----------------------------------------------------------------------------
(***************************************************************************)
(* APCs, signals, termination and suspension.                              *)
(***************************************************************************)

InWait(t)     == status[t] \in Asleep /\ call[t] # Null
InUserMode(t) == status[t] = "running" /\ call[t] = Null

\* A special kernel APC, or one that t's mutexes do not hold off, runs before
\* the wait it interrupts starts over.
KeAPCEnqueue(t) ==
  /\ "kernelapc" \in Alerts
  /\ InWait(t)
  /\ Wake(t, Again)
  /\ UNCHANGED <<objects, alerts>>

KeAPCEnqueueUser(t) ==
  /\ "apc" \in Alerts \ pending[t]
  /\ status[t] # "exited"
  /\ pending' = [pending EXCEPT ![t] = @ \cup {"apc"}]
  /\ IF status[t] = "waitingalertable" /\ call[t].mode = "user"
     THEN triggered' = [triggered EXCEPT ![t] = TRUE] /\ Wake(t, "userapc")
     ELSE UNCHANGED <<triggered, waits>>
  /\ UNCHANGED <<objects, accepts, onWait, suspended>>

\* On the way back to user mode.
KeAPCDispatchQueueUser(t) ==
  /\ InUserMode(t)
  /\ triggered[t]
  /\ triggered' = [triggered EXCEPT ![t] = FALSE]
  /\ pending' = [pending EXCEPT ![t] = @ \ {"apc"}]
  /\ UNCHANGED <<objects, waits, accepts, onWait, suspended>>

\* How the signals sig, of which the accepted ones are acc, end t's wait.
KilledInUserMode(t, sig) ==
  "kill" \in sig /\ (InWait(t) => call[t].mode = "user")
KilledIn(t, sig) ==
  /\ "kill" \in sig
  /\ InWait(t) => call[t].mode = "user" \/ status[t] = "waitingalertable"
SignalledIn(t, sig, acc) ==
  /\ "signal" \in sig /\ acc
  /\ status[t] # "waitingunalertable"
  /\ InWait(t) => call[t].mode = "user"

KiThreadWakeForSignal(t, sig, acc, susp) ==
  LET end == IF status[t] \notin Asleep THEN "none"
             ELSE IF KilledIn(t, sig) THEN "killed"
             ELSE IF SignalledIn(t, sig, acc) THEN "signalled"
             ELSE "none"
      resumes == end # "none" /\ status[t] # "waitingunalertable"
  IN  /\ IF end = "none" THEN UNCHANGED waits ELSE Wake(t, end)
      /\ onWait' = [onWait EXCEPT ![t] = @ /\ end # "signalled"]
      /\ suspended' = [suspended EXCEPT ![t] = susp /\ ~resumes]

\* A kill also takes back a suspension, asked for or under way.
KeThreadSignal(t, signal) ==
  /\ signal \in Alerts \cap {"kill", "signal"}
  /\ pending' = [pending EXCEPT ![t] = @ \cup {signal}]
  /\ KiThreadWakeForSignal(t, pending[t] \cup {signal}, accepts[t],
                           suspended[t] /\ signal # "kill")
  /\ UNCHANGED <<objects, accepts, triggered>>

KeThreadMaskSignal(t) ==
  /\ "signal" \in Alerts
  /\ accepts[t]
  /\ accepts' = [accepts EXCEPT ![t] = FALSE]
  /\ UNCHANGED <<objects, waits, pending, onWait, triggered, suspended>>

\* The other way round, which wakes t for a signal that was held off.
KeThreadUnmaskSignal(t) ==
  /\ "signal" \in Alerts
  /\ accepts' = [accepts EXCEPT ![t] = TRUE]
  /\ KiThreadWakeForSignal(t, pending[t], TRUE, suspended[t])
  /\ UNCHANGED <<objects, pending, triggered>>

KeThreadDeliverOnWaitSignal(t) ==
  /\ "signal" \in Alerts
  /\ onWait' = [onWait EXCEPT ![t] = ~@]
  /\ UNCHANGED <<objects, waits, pending, accepts, triggered, suspended>>

\* On the way back to user mode: the handler runs with the signal masked.
KeThreadDispatchSignal(t) ==
  /\ InUserMode(t)
  /\ "signal" \in pending[t] /\ accepts[t] /\ ~onWait[t]
  /\ pending' = [pending EXCEPT ![t] = @ \ {"signal"}]
  /\ accepts' = [accepts EXCEPT ![t] = FALSE]
  /\ UNCHANGED <<objects, waits, onWait, triggered, suspended>>

KeThreadSuspend(t) ==
  /\ "suspend" \in Alerts
  /\ "kill" \notin pending[t]
  /\ suspended' = [suspended EXCEPT ![t] = TRUE]
  /\ UNCHANGED <<objects, waits, pending, accepts, onWait, triggered>>

KeThreadResume(t) ==
  /\ "suspend" \in Alerts
  /\ suspended' = [suspended EXCEPT ![t] = FALSE]
  /\ IF status[t] = "suspended" THEN Wake(t, "none") ELSE UNCHANGED waits
  /\ UNCHANGED <<objects, pending, accepts, onWait, triggered>>

\* On the way back to user mode.
KeThreadWaitSuspended(t) ==
  /\ InUserMode(t)
  /\ suspended[t]
  /\ LET event == KiCheckWaitInterruptingEvents(t) IN
     /\ TakeUp(t, event)
     /\ suspended' = [suspended EXCEPT ![t] = event = "none"]
     /\ status' = [status EXCEPT ![t] = IF event = "none" THEN "suspended" ELSE @]
  /\ UNCHANGED <<objects, waiters, ahead, call, outcome, priority, pending, accepts>>

\* A killed thread is run down on its way back to user mode, holding no kernel
\* mutex: it abandons the others, at IPLDPC throughout, and its user APCs.
KeThreadRundown(t) ==
  /\ InUserMode(t)
  /\ "kill" \in pending[t]
  /\ \A m \in KernelMutex : owner[m] # t
  /\ exiting' = t
  /\ UNCHANGED <<objects, waits, alerts>>

Abandon(m) ==
  /\ owner[m] = exiting
  /\ HandOver(m, exiting)
  /\ UNCHANGED <<alerts, exiting>>

RundownEnds ==
  /\ \A m \in Mutex : owner[m] # exiting
  /\ status' = [status EXCEPT ![exiting] = "exited"]
  /\ pending' = [pending EXCEPT ![exiting] = @ \ {"apc"}]
  /\ exiting' = Null
  /\ UNCHANGED <<objects, waiters, ahead, call, outcome, priority, accepts, onWait,
                 triggered, suspended>>

-----------------------------------------------------------------------------
Alert(t) ==
  \/ KeAPCEnqueue(t)
  \/ KeAPCEnqueueUser(t)
  \/ KeAPCDispatchQueueUser(t)
  \/ \E signal \in {"kill", "signal"} : KeThreadSignal(t, signal)
  \/ KeThreadMaskSignal(t)
  \/ KeThreadUnmaskSignal(t)
  \/ KeThreadDeliverOnWaitSignal(t)
  \/ KeThreadDispatchSignal(t)
  \/ KeThreadSuspend(t)
  \/ KeThreadResume(t)
  \/ KeThreadWaitSuspended(t)

Step ==
  \/ \E t \in Thread : Wait(t) \/ KeTimerExpire(t) \/ \E p \in Priority : KeThreadBoost(t, p)
  \/ \E o \in Object :
       \/ KeEventSignal(o)
       \/ KeEventSignalGetWaiter(o)
       \/ KeEventPulse(o)
       \/ KeEventReset(o)
       \/ \E n \in Releases : KeSemaphoreRelease(o, n)
  \/ \E m \in Mutex : KeMutexRelease(m)
  \/ \E t \in Alerted : Alert(t)

Next ==
  \/ exiting = Null /\ Step /\ UNCHANGED exiting
  \/ exiting = Null /\ \E t \in Alerted : KeThreadRundown(t)
  \/ exiting # Null /\ \E m \in Mutex : Abandon(m)
  \/ exiting # Null /\ RundownEnds

Spec == Init /\ [][Next]_vars

\* Fairness: timeouts expire, waits that are to start over do, and threads
\* release what they hold.
FairSpec ==
  /\ Spec
  /\ \A t \in Thread :
       /\ WF_vars(exiting = Null /\ KeTimerExpire(t) /\ UNCHANGED exiting)
       /\ WF_vars(exiting = Null /\ call[t] # Null /\ Wait(t) /\ UNCHANGED exiting)
  /\ \A m \in Mutex : WF_vars(exiting = Null /\ KeMutexRelease(m) /\ UNCHANGED exiting)

-----------------------------------------------------------------------------
(***************************************************************************)
(* Properties.                                                             *)
(***************************************************************************)

\* Every variable has its type; only the signal state of a mutex goes below
\* zero, and no further than LowestCount.
TypeOK ==
  /\ \A o \in Object :
       IF o \in Mutex THEN signaled[o] \in LowestCount .. 1
       ELSE signaled[o] \in 0 .. IF Kind[o] = "semaphore" THEN MaxCount ELSE 1
  /\ owner \in [Mutex -> Thread \cup {Null}]
  /\ apcDisable \in [Thread -> 0 .. Cardinality(KernelMutex)]
  /\ waiters \in [Object -> SUBSET Thread]
  /\ ahead \in [Object -> SUBSET (Thread \X Thread)]
  /\ status \in [Thread -> Asleep \cup {"running", "exited"}]
  /\ call \in [Thread -> Waits \cup {Null}]
  /\ outcome \in [Thread -> Object \cup {"none", "all", Again} \cup Failures]
  /\ priority \in [Thread -> Priority]
  /\ pending \in [Thread -> SUBSET {"kill", "signal", "apc"}]
  /\ accepts \in [Thread -> BOOLEAN] /\ onWait \in [Thread -> BOOLEAN]
  /\ triggered \in [Thread -> BOOLEAN] /\ suspended \in [Thread -> BOOLEAN]
  /\ exiting \in Thread \cup {Null}

\* A thread is on the lists of exactly the objects it sleeps for, in an order
\* that is total and, while priorities are kept, that of their priorities: no
\* ending of a wait (by another object, a timeout or an alert) leaves a wait
\* block behind or takes one too many.
ListsMatchWaits ==
  \A o \in Object :
    /\ waiters[o] = {t \in Thread : InWait(t) /\ o \in Objects(call[t])}
    /\ ahead[o] \subseteq waiters[o] \X waiters[o]
    /\ \A t, u \in waiters[o] :
         /\ t # u => (<<t, u>> \in ahead[o]) # (<<u, t>> \in ahead[o])
         /\ \A v \in waiters[o] :
              <<t, u>> \in ahead[o] /\ <<u, v>> \in ahead[o] => <<t, v>> \in ahead[o]
         /\ <<t, u>> \in ahead[o] =>
              t # u /\ (PrioritiesKept => priority[t] >= priority[u])

\* Nobody sleeps for what is to be had: no waiter for any object while one is
\* available, no waiter for all while all are.  A signal that is consumed by a
\* waiter in front of another, comes with no waiter, or meets a wait that is
\* starting over, must not be lost.
NoLostWakeup ==
  \A t \in Thread : InWait(t) =>
    /\ call[t].type = "any" => \A o \in Objects(call[t]) : ~Available(t, o)
    /\ call[t].type = "all" => ~CanHaveAll(t, call[t])

\* A mutex is held exactly while it has an owner, who is alive, and a thread's
\* APCs are disabled as often as it holds kernel mutexes: through recursion,
\* hand-over to a sleeping thread and rundown.
MutexesAccounted ==
  /\ \A m \in Mutex :
       /\ owner[m] = Null <=> signaled[m] = 1
       /\ owner[m] # Null => status[owner[m]] # "exited"
  /\ \A t \in Thread :
       apcDisable[t] = Cardinality({m \in KernelMutex : owner[m] = t})

\* What may end a wait keeps a thread from sleeping in one: a kill ends waits
\* for user mode that are not alertable and those of the kernel that are, a
\* user APC the alertable ones for user mode; a killed thread does not stay
\* suspended.  Checks before sleeping and wakes after must leave no gap.
AlertsEndWaits ==
  \A t \in Thread :
    /\ InWait(t) =>
         /\ (call[t].mode = "user") # call[t].alertable => "kill" \notin pending[t]
         /\ call[t].mode = "user" /\ call[t].alertable => "apc" \notin pending[t]
    /\ suspended[t] \/ status[t] = "suspended" => "kill" \notin pending[t]

\* The waits for any object that a step of somebody else satisfies with o.
Got(o) == {t \in waiters[o] : call[t].type = "any" /\ status'[t] = "running"
                              /\ call'[t] = Null /\ outcome'[t] = o}

\* The highest priority, earliest wait is satisfied: whoever gets an object is
\* ahead of all that stay, and none of those has a higher priority.
BestWaiterFirst ==
  [][\A o \in Object : \A t \in Got(o), u \in waiters[o] :
       u \in waiters'[o] /\ call[u].type = "any" =>
         <<t, u>> \in ahead[o] /\ priority[t] >= priority[u]]_vars

\* A signal of a synchronization event, or a release of a mutex, satisfies one
\* waiter for any object and is then used up; a release of a semaphore satisfies
\* as many as it has units, and what is left of them stays.
EachUnitOnce ==
  [][\A o \in Object : Got(o) # {} =>
       /\ Kind[o] \in {"synchronization", "mutex"} =>
            Cardinality(Got(o)) = 1 /\ signaled'[o] <= 0
       /\ Kind[o] = "semaphore" =>
            \E n \in Releases : /\ Cardinality(Got(o)) <= n
                               /\ signaled'[o] = signaled[o] + n - Cardinality(Got(o))]_vars

\* A wait that says it succeeded has the mutexes it was for.
SuccessMeansHeld ==
  [][\A t \in Thread :
       /\ outcome'[t] \in Mutex /\ outcome[t] # outcome'[t] =>
            owner'[outcome'[t]] = t
       /\ outcome'[t] = "all" /\ outcome[t] # "all" =>
            \E w \in Waits : /\ w.type = "all"
                             /\ \A m \in Objects(w) \cap Mutex : owner'[m] = t]_vars

\* Whoever waits for a mutex alone is handed it in its turn.
MutexIsPassedOn ==
  \A t \in Thread, m \in Mutex :
    (t \in waiters[m] /\ call[t].type = "any") ~> (t \notin waiters[m])
=============================================================================
