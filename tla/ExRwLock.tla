------------------------------ MODULE ExRwLock ------------------------------
(***************************************************************************)
(* An executive reader-writer lock (Executive/ExRwLock.df).  What happens  *)
(* at IPLDPC is one step; a thread can be switched out between any two.    *)
(***************************************************************************)
EXTENDS Naturals, FiniteSets

CONSTANTS
  Thread, None,
  Calls,       \* [Thread -> SUBSET Call], the calls each thread makes
  Mortal,      \* the threads that may be killed
  MaxDepth,    \* bound: how often each thread holds the lock
  FirstSize,   \* slots of the first owner table (3 in the source)
  MoreSlots    \* slots by which it grows (4)

Call == [op : {"exclusive", "shared", "demote"}, nowait : BOOLEAN, canstarve : BOOLEAN,
         alertable : BOOLEAN]

ASSUME ThreadAssumption == None \notin Thread \cup Nat /\ IsFiniteSet(Thread) /\ Mortal \subseteq Thread
ASSUME SizeAssumption == FirstSize \in Nat \ {0} /\ MoreSlots \in Nat \ {0} /\ MaxDepth \in [Thread -> Nat]
\* Nobody calls ExRwLockAcquireExclusive with nowait.
ASSUME CallAssumption ==
  \A t \in Thread : Calls[t] \subseteq {c \in Call : c.op = "exclusive" => ~c.nowait}

VARIABLES
  ExclusiveOwner,    \* [OwningThread, Locked]
  Owners,            \* slot 0 is SharedOwner, the others are the owner table
  TableSize,
  SharedWaiters, ExclusiveWaiters, HeldCount,
  SharedSemaphore,   \* its count, or None
  SyncEvent,         \* 1 when signaled, 0 when not, or None
  pc, call, oldsize, \* where each thread is, in which call, its oldsize
  killed,
  mode, depth        \* what the results of its calls tell each thread it has

lockVars == <<ExclusiveOwner, Owners, TableSize, SharedWaiters, ExclusiveWaiters, HeldCount,
              SharedSemaphore, SyncEvent>>
countVars == <<SharedWaiters, ExclusiveWaiters, HeldCount, SharedSemaphore, SyncEvent>>
tableVars == <<ExclusiveOwner, Owners, TableSize>>
userVars == <<mode, depth>>
vars     == <<lockVars, pc, call, oldsize, killed, userVars>>

-----------------------------------------------------------------------------
(* Data.                                                                   *)

Entry  == [OwningThread : Thread \cup {None}, Locked : Nat]
NoOne  == [OwningThread |-> None, Locked |-> 0]
By(t)  == [OwningThread |-> t, Locked |-> 1]
More(e) == [e EXCEPT !.Locked = @ + 1]
Less(e) == [e EXCEPT !.Locked = @ - 1]
NoCall == [op |-> "shared", nowait |-> FALSE, canstarve |-> FALSE, alertable |-> FALSE]

SlotsOf(t) == {i \in DOMAIN Owners : Owners[i].OwningThread = t}
FreeSlots  == SlotsOf(None)

Init ==
  /\ ExclusiveOwner = NoOne
  /\ Owners = [i \in {0} |-> NoOne]
  /\ TableSize = 0
  /\ SharedWaiters = 0 /\ ExclusiveWaiters = 0 /\ HeldCount = 0
  /\ SharedSemaphore = None /\ SyncEvent = None
  /\ pc = [t \in Thread |-> "out"]
  /\ call = [t \in Thread |-> NoCall]
  /\ oldsize = [t \in Thread |-> 0]
  /\ killed = {}
  /\ mode = [t \in Thread |-> "none"]
  /\ depth = [t \in Thread |-> 0]

-----------------------------------------------------------------------------
(* The ends of a call.                                                     *)

\* A thread does not ask for exclusivity on top of a shared hold.
Begin(t, c) ==
  /\ pc[t] = "out" /\ c \in Calls[t] /\ (c.op = "demote" \/ depth[t] < MaxDepth[t])
  /\ c.op = "exclusive" => mode[t] # "shared"
  /\ c.op = "demote" => mode[t] = "exclusive"
  /\ pc' = [pc EXCEPT ![t] = "try"]
  /\ call' = [call EXCEPT ![t] = c]
  /\ UNCHANGED <<lockVars, oldsize, killed, userVars>>

Goto(t, place) == /\ pc' = [pc EXCEPT ![t] = place]
                  /\ UNCHANGED <<call, oldsize, killed, userVars>>

Over(t) == call' = [call EXCEPT ![t] = NoCall]

Refused(t) == /\ pc' = [pc EXCEPT ![t] = "out"]
              /\ Over(t)
              /\ UNCHANGED <<oldsize, killed, userVars>>

\* The caller has it, once more or as it asked for.
Acquired(t) ==
  /\ pc' = [pc EXCEPT ![t] = "out"]
  /\ mode' = IF mode[t] = "none" THEN [mode EXCEPT ![t] = call[t].op] ELSE mode
  /\ depth' = [depth EXCEPT ![t] = @ + 1]
  /\ Over(t)
  /\ UNCHANGED <<oldsize, killed>>

-----------------------------------------------------------------------------
(* One turn of the loop of an acquisition.                                 *)

Waits(t)  == ~(call[t].alertable /\ t \in killed)
Mine(t)   == ExclusiveOwner.Locked # 0 /\ ExclusiveOwner.OwningThread = t

TakeAgain(t) ==
  /\ ExclusiveOwner' = More(ExclusiveOwner)
  /\ Acquired(t)
  /\ UNCHANGED <<Owners, TableSize, countVars>>

ExRwLockAcquireExclusive(t) ==
  /\ pc[t] = "try" /\ call[t].op = "exclusive"
  /\ \/ /\ HeldCount = 0
        /\ ExclusiveOwner' = By(t)
        /\ HeldCount' = 1
        /\ Acquired(t)
        /\ UNCHANGED <<Owners, TableSize, SharedWaiters, ExclusiveWaiters, SharedSemaphore, SyncEvent>>
     \/ /\ HeldCount # 0 /\ Mine(t)
        /\ TakeAgain(t)
     \/ /\ HeldCount # 0 /\ ~Mine(t)
        /\ \/ /\ ~Waits(t)
              /\ Refused(t)
              /\ UNCHANGED lockVars
           \/ /\ Waits(t) /\ SyncEvent = None
              /\ Goto(t, "allocate")
              /\ UNCHANGED lockVars
           \/ /\ Waits(t) /\ SyncEvent # None
              /\ ExclusiveWaiters' = ExclusiveWaiters + 1
              /\ Goto(t, "wait")
              /\ UNCHANGED <<tableVars, SharedWaiters, HeldCount, SharedSemaphore, SyncEvent>>

\* A waiter enters itself into the slot it will own.
WaitShared(t, i) ==
  \/ /\ ~Waits(t)
     /\ Refused(t)
     /\ UNCHANGED lockVars
  \/ /\ Waits(t) /\ SharedSemaphore = None
     /\ Goto(t, "allocate")
     /\ UNCHANGED lockVars
  \/ /\ Waits(t) /\ SharedSemaphore # None
     /\ Owners' = [Owners EXCEPT ![i] = By(t)]
     /\ SharedWaiters' = SharedWaiters + 1
     /\ Goto(t, "wait")
     /\ UNCHANGED <<ExclusiveOwner, TableSize, ExclusiveWaiters, HeldCount, SharedSemaphore, SyncEvent>>

\* ExRwLockFindOwner without a free slot: remember the size, lower the IPL.
NoSlot(t) ==
  /\ FreeSlots = {}
  /\ pc' = [pc EXCEPT ![t] = "grow"]
  /\ oldsize' = [oldsize EXCEPT ![t] = TableSize]
  /\ UNCHANGED <<lockVars, call, killed, userVars>>

Overtakes(t) == call[t].canstarve \/ ExclusiveWaiters = 0

Share(t, i) ==
  /\ Owners' = [Owners EXCEPT ![i] = By(t)]
  /\ HeldCount' = HeldCount + 1
  /\ Acquired(t)
  /\ UNCHANGED <<ExclusiveOwner, TableSize, SharedWaiters, ExclusiveWaiters, SharedSemaphore, SyncEvent>>

ShareAgain(t, i) ==
  /\ Owners' = [Owners EXCEPT ![i] = More(@)]
  /\ Acquired(t)
  /\ UNCHANGED <<ExclusiveOwner, TableSize, countVars>>

\* Which of the free slots is taken makes no difference.
ExRwLockAcquireShared(t) ==
  /\ pc[t] = "try" /\ call[t].op = "shared"
  /\ \/ /\ HeldCount = 0
        /\ Share(t, 0)
     \/ /\ HeldCount # 0 /\ Mine(t)
        /\ TakeAgain(t)
     \/ /\ HeldCount # 0 /\ ExclusiveOwner.Locked # 0 /\ ~Mine(t)
        /\ IF call[t].nowait
           THEN Refused(t) /\ UNCHANGED lockVars
           ELSE NoSlot(t) \/ \E i \in FreeSlots : WaitShared(t, i)
     \/ /\ HeldCount # 0 /\ ExclusiveOwner.Locked = 0
        /\ \/ \E i \in SlotsOf(t) : ShareAgain(t, i)
           \/ SlotsOf(t) = {} /\ NoSlot(t)
           \/ /\ SlotsOf(t) = {}
              /\ \E i \in FreeSlots :
                   IF Overtakes(t) THEN Share(t, i)
                   ELSE IF call[t].nowait THEN Refused(t) /\ UNCHANGED lockVars
                   ELSE WaitShared(t, i)

\* The memory for the event or the semaphore has come: somebody else may
\* have been faster.
Allocate(t) ==
  /\ pc[t] = "allocate"
  /\ SyncEvent' = IF call[t].op = "exclusive" /\ SyncEvent = None THEN 0 ELSE SyncEvent
  /\ SharedSemaphore' = IF call[t].op = "shared" /\ SharedSemaphore = None THEN 0 ELSE SharedSemaphore
  /\ Goto(t, "try")
  /\ UNCHANGED <<tableVars, SharedWaiters, ExclusiveWaiters, HeldCount>>

Larger(n) == IF n = 0 THEN FirstSize ELSE n + MoreSlots

\* The rest of ExRwLockFindOwner, with the memory for a larger table.
Grown(t) == TableSize = oldsize[t]
Grow(t) ==
  /\ pc[t] = "grow"
  /\ IF Grown(t)
     THEN /\ TableSize' = Larger(TableSize)
          /\ Owners' = [i \in 0..Larger(oldsize[t]) |-> IF i <= oldsize[t] THEN Owners[i] ELSE NoOne]
     ELSE UNCHANGED <<TableSize, Owners>>
  /\ pc' = [pc EXCEPT ![t] = "try"]
  /\ oldsize' = [oldsize EXCEPT ![t] = 0]
  /\ UNCHANGED <<ExclusiveOwner, countVars, call, killed, userVars>>

-----------------------------------------------------------------------------
(* Waiting.  ExRwLockWait gives up the wait from time to time to boost the *)
(* owners, and begins it again; kernel APCs make it begin again too.       *)

Sleepers(op) == {t \in Thread : pc[t] = "asleep" /\ call[t].op = op}

\* An event that is signaled goes to whoever waits next; a woken waiter for
\* exclusivity still has to write its name down.
Wait(t) ==
  /\ pc[t] = "wait"
  /\ \/ /\ call[t].op = "exclusive" /\ SyncEvent = 1
        /\ SyncEvent' = 0
        /\ Goto(t, "granted")
        /\ UNCHANGED SharedSemaphore
     \/ /\ call[t].op = "shared" /\ SharedSemaphore > 0
        /\ SharedSemaphore' = SharedSemaphore - 1
        /\ Goto(t, "owner")
        /\ UNCHANGED SyncEvent
     \/ /\ IF call[t].op = "exclusive" THEN SyncEvent = 0 ELSE SharedSemaphore = 0
        /\ Goto(t, "asleep")
        /\ UNCHANGED <<SharedSemaphore, SyncEvent>>
  /\ UNCHANGED <<tableVars, SharedWaiters, ExclusiveWaiters, HeldCount>>

Timeout(t) ==
  /\ pc[t] = "asleep"
  /\ Goto(t, "wait")
  /\ UNCHANGED lockVars

WriteName(t) ==
  /\ pc[t] = "granted"
  /\ ExclusiveOwner' = [ExclusiveOwner EXCEPT !.OwningThread = t]
  /\ Goto(t, "owner")
  /\ UNCHANGED <<Owners, TableSize, countVars>>

-----------------------------------------------------------------------------
(* Releasing.  `place` is where the releasing thread goes.                 *)

Neither(n, m) == 0
Fewer(n, m) == IF n < m THEN n ELSE m

\* KeSemaphoreRelease: the sleepers first, what is left is counted.
ReleaseUnits(n, t, place) ==
  LET sleepers == Sleepers("shared")
      woken    == IF SharedSemaphore = 0 THEN Fewer(n, Cardinality(sleepers)) ELSE 0
  IN /\ SharedSemaphore' = SharedSemaphore + n - woken
     /\ \E W \in SUBSET sleepers :
          /\ Cardinality(W) = woken
          /\ pc' = [u \in Thread |-> IF u = t THEN place ELSE IF u \in W THEN "owner" ELSE pc[u]]

HandToOneReader(t, place) ==
  /\ HeldCount' = 1
  /\ SharedWaiters' = 0
  /\ ReleaseUnits(SharedWaiters, t, place)
  /\ UNCHANGED <<ExclusiveWaiters, SyncEvent>>
HandToReaders(t, place) ==
  /\ HeldCount' = SharedWaiters
  /\ SharedWaiters' = 0
  /\ ReleaseUnits(SharedWaiters, t, place)
  /\ UNCHANGED <<ExclusiveWaiters, SyncEvent>>

\* KeEventSignalGetWaiter: with nobody asleep the lock is nobody's yet.
HandToWriter(t, place) ==
  /\ HeldCount' = 1
  /\ ExclusiveWaiters' = ExclusiveWaiters - 1
  /\ \/ /\ Sleepers("exclusive") = {}
        /\ SyncEvent' = 1
        /\ ExclusiveOwner' = By(None)
        /\ pc' = [pc EXCEPT ![t] = place]
     \/ \E w \in Sleepers("exclusive") :
          /\ ExclusiveOwner' = By(w)
          /\ pc' = [pc EXCEPT ![t] = place, ![w] = "granted"]
          /\ UNCHANGED SyncEvent
  /\ UNCHANGED <<SharedWaiters, SharedSemaphore>>

LetGo(t, place) ==
  /\ HeldCount' = HeldCount - 1
  /\ pc' = [pc EXCEPT ![t] = place]
  /\ UNCHANGED <<SharedWaiters, ExclusiveWaiters, SharedSemaphore, SyncEvent>>

NotFreed(entry) == Less(entry)
Freed(entry)    == [Less(entry) EXCEPT !.OwningThread = None]

ReleaseExclusive(t, place) ==
  /\ UNCHANGED <<Owners, TableSize>>
  /\ \/ /\ ExclusiveOwner.Locked > 1
        /\ ExclusiveOwner' = Less(ExclusiveOwner)
        /\ pc' = [pc EXCEPT ![t] = place]
        /\ UNCHANGED countVars
     \/ /\ ExclusiveOwner.Locked = 1
        /\ \/ /\ HeldCount = 1 /\ SharedWaiters = 0 /\ ExclusiveWaiters > 0
              /\ HandToWriter(t, place)
           \/ /\ HeldCount = 1 /\ SharedWaiters > 0
              /\ ExclusiveOwner' = Freed(ExclusiveOwner)
              /\ HandToReaders(t, place)
           \/ /\ HeldCount > 1 \/ (SharedWaiters = 0 /\ ExclusiveWaiters = 0)
              /\ ExclusiveOwner' = Freed(ExclusiveOwner)
              /\ LetGo(t, place)

\* A reader that leaves last prefers a writer.
PrefersReaders == SharedWaiters = 0 /\ ExclusiveWaiters > 0
PrefersWriter  == ExclusiveWaiters > 0

ReleaseShared(t, i, place) ==
  /\ UNCHANGED TableSize
  /\ \/ /\ Owners[i].Locked > 1
        /\ Owners' = [Owners EXCEPT ![i] = Less(@)]
        /\ pc' = [pc EXCEPT ![t] = place]
        /\ UNCHANGED <<ExclusiveOwner, countVars>>
     \/ /\ Owners[i].Locked = 1
        /\ Owners' = [Owners EXCEPT ![i] = Freed(@)]
        /\ \/ /\ HeldCount = 1 /\ PrefersWriter
              /\ HandToWriter(t, place)
           \/ /\ HeldCount = 1 /\ ~PrefersWriter /\ SharedWaiters > 0
              /\ UNCHANGED ExclusiveOwner
              /\ HandToReaders(t, place)
           \/ /\ HeldCount > 1 \/ (SharedWaiters = 0 /\ ExclusiveWaiters = 0)
              /\ UNCHANGED ExclusiveOwner
              /\ LetGo(t, place)

\* ExRwLockRelease; with no entry of the thread it crashes.
Released(t, place) ==
  \/ /\ ExclusiveOwner.OwningThread = t
     /\ ReleaseExclusive(t, place)
  \/ /\ ExclusiveOwner.OwningThread # t
     /\ \E i \in SlotsOf(t) : ReleaseShared(t, i, place)

ExRwLockRelease(t) ==
  /\ pc[t] = "out" /\ depth[t] > 0
  /\ Released(t, "out")
  /\ depth' = [depth EXCEPT ![t] = @ - 1]
  /\ mode' = IF depth[t] = 1 THEN [mode EXCEPT ![t] = "none"] ELSE mode
  /\ UNCHANGED <<call, oldsize, killed>>

\* The end of a call that waited: a thread that was killed meanwhile gives
\* back at once what it waited for.
Return(t) ==
  /\ pc[t] = "owner"
  /\ \/ /\ Waits(t)
        /\ Acquired(t)
        /\ UNCHANGED lockVars
     \/ /\ ~Waits(t)
        /\ Released(t, "out")
        /\ Over(t)
        /\ UNCHANGED <<oldsize, killed, userVars>>

-----------------------------------------------------------------------------
\* The readers that wait come in with the thread, whoever else does.
ExRwLockDemoteToShared(t) ==
  /\ pc[t] = "try" /\ call[t].op = "demote"
  /\ \/ NoSlot(t)
     \/ \E i \in FreeSlots :
          /\ Owners' = [Owners EXCEPT ![i] = [OwningThread |-> t, Locked |-> ExclusiveOwner.Locked]]
          /\ ExclusiveOwner' = NoOne
          /\ IF SharedWaiters > 0
             THEN /\ HeldCount' = SharedWaiters + 1
                  /\ SharedWaiters' = 0
                  /\ ReleaseUnits(SharedWaiters, t, "out")
             ELSE /\ pc' = [pc EXCEPT ![t] = "out"]
                  /\ UNCHANGED <<HeldCount, SharedWaiters, SharedSemaphore>>
          /\ mode' = [mode EXCEPT ![t] = "shared"]
          /\ Over(t)
          /\ UNCHANGED <<TableSize, ExclusiveWaiters, SyncEvent, oldsize, killed, depth>>

Kill(t) ==
  /\ t \in Mortal \ killed
  /\ killed' = killed \cup {t}
  /\ UNCHANGED <<lockVars, pc, call, oldsize, userVars>>

-----------------------------------------------------------------------------
GoOn(t) == \/ ExRwLockAcquireExclusive(t) \/ ExRwLockAcquireShared(t) \/ ExRwLockDemoteToShared(t)
           \/ Allocate(t) \/ Grow(t) \/ Wait(t) \/ WriteName(t) \/ Return(t)

Next == \E t \in Thread : \/ \E c \in Calls[t] : Begin(t, c)
                          \/ GoOn(t) \/ ExRwLockRelease(t) \/ Timeout(t) \/ Kill(t)

Spec == Init /\ [][Next]_vars

\* Threads go on with their calls, and those that hold the lock let it go.
FairSpec ==
  Spec /\ \A t \in Thread : /\ WF_vars(GoOn(t)) /\ SF_vars(ExRwLockRelease(t))
                             /\ SF_vars(ExRwLockRelease(t) /\ depth[t] = 1)

-----------------------------------------------------------------------------
(* Properties.                                                             *)

Places == {"out", "try", "allocate", "grow", "wait", "asleep", "granted", "owner"}

TypeOK ==
  /\ ExclusiveOwner \in Entry
  /\ TableSize \in Nat /\ Owners \in [0..TableSize -> Entry]
  /\ SharedWaiters \in Nat /\ ExclusiveWaiters \in Nat /\ HeldCount \in Nat
  /\ SharedSemaphore \in Nat \cup {None} /\ SyncEvent \in {0, 1, None}
  /\ pc \in [Thread -> Places] /\ call \in [Thread -> Call] /\ oldsize \in [Thread -> Nat]
  /\ killed \subseteq Thread
  /\ mode \in [Thread -> {"none", "shared", "exclusive"}] /\ depth \in [Thread -> Nat]

\* The lock keeps apart those who think they have it: it implements the
\* abstract lock, through hand-overs, kills, demotion and growing tables.
Abstract == INSTANCE ReadersWriter
ImplementsReadersWriter == Abstract!Spec

Waiting(op) == {t \in Thread : pc[t] \in {"wait", "asleep"} /\ call[t].op = op}
Readers == {t \in Thread : mode[t] = "shared" \/ (pc[t] = "owner" /\ call[t].op = "shared")}
Units   == IF SharedSemaphore = None THEN 0 ELSE SharedSemaphore
Reserved == IF SyncEvent = 1 THEN 1 ELSE 0

\* Counts of holders and waiters, signaled units and the threads that are to
\* take them always add up: nobody waits for a unit that never comes, and no
\* unit is left for nobody.
CountsAddUp ==
  /\ Cardinality(Waiting("shared")) = SharedWaiters + Units
  /\ Cardinality(Waiting("exclusive")) = ExclusiveWaiters + Reserved
  /\ HeldCount = IF ExclusiveOwner.Locked # 0 THEN 1 ELSE Cardinality(Readers) + Units
  /\ ExclusiveOwner.Locked # 0 => Readers = {} /\ Units = 0
  /\ HeldCount = 0 => SharedWaiters = 0 /\ ExclusiveWaiters = 0
  /\ Units > 0 => Sleepers("shared") = {}
  /\ Reserved = 1 => Sleepers("exclusive") = {} /\ ExclusiveOwner = By(None)

\* Each thread that holds the lock shared, or waits for it, has one slot of
\* the owner table with what it owes, whoever replaces the table meanwhile,
\* and nobody else has one.
SlotsExact ==
  \A t \in Thread :
    /\ Cardinality(SlotsOf(t)) = IF t \in Readers \cup Waiting("shared") THEN 1 ELSE 0
    /\ mode[t] = "shared" => \A i \in SlotsOf(t) : Owners[i].Locked = depth[t]
    /\ mode[t] = "exclusive" => ExclusiveOwner = [OwningThread |-> t, Locked |-> depth[t]]

\* Neither readers nor writers are passed over for ever, once the waits are
\* no longer interrupted.
Served ==
  (<>[][\A t \in Thread : ~Timeout(t)]_vars) =>
    /\ \A t \in Thread : pc[t] \in {"wait", "asleep"} /\ call[t].op = "shared" ~> pc[t] = "owner"
    /\ Waiting("exclusive") # {} ~> \E t \in Thread : pc[t] = "granted"
=============================================================================
