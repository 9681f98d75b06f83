---------------------------- MODULE KeWait_proofs ----------------------------
(***************************************************************************)
(* Proofs about waits, for every finite set of threads and of objects, all *)
(* waits that can be called for and all priorities.                        *)
(***************************************************************************)
EXTENDS KeWait, FiniteSetTheorems, TLAPS

-----------------------------------------------------------------------------
(***************************************************************************)
(* Counting from the head of a list.                                       *)
(***************************************************************************)

\* R orders W strictly.
Orders(R, W) ==
  /\ \A t, u \in W : t # u => (<<t, u>> \in R) # (<<u, t>> \in R)
  /\ \A t \in W : <<t, t>> \notin R
  /\ \A t, u, v \in W : <<t, u>> \in R /\ <<u, v>> \in R => <<t, v>> \in R

Preceding(R, W, t) == {u \in W : <<u, t>> \in R}
FirstOf(R, W, n)   == {t \in W : Cardinality(Preceding(R, W, t)) < n}

LEMMA PrecedingFinite ==
  ASSUME NEW W, IsFiniteSet(W), NEW R, NEW t
  PROVE  /\ IsFiniteSet(Preceding(R, W, t))
         /\ Cardinality(Preceding(R, W, t)) \in Nat
         /\ Cardinality(Preceding(R, W, t)) <= Cardinality(W)
         /\ Cardinality(W) \in Nat
<1>1. Preceding(R, W, t) \in SUBSET W
  BY DEF Preceding
<1> QED BY <1>1, FS_Subset, FS_CardinalityType

LEMMA PrecedingGrows ==
  ASSUME NEW W, IsFiniteSet(W), NEW R, Orders(R, W),
         NEW t \in W, NEW u \in W, <<t, u>> \in R
  PROVE  Cardinality(Preceding(R, W, t)) < Cardinality(Preceding(R, W, u))
<1> DEFINE A == Preceding(R, W, t)
           B == Preceding(R, W, u)
<1>1. A \in SUBSET B /\ t \in B /\ t \notin A
  BY DEF Preceding, Orders
<1>2. IsFiniteSet(A) /\ IsFiniteSet(B) /\ Cardinality(A) \in Nat /\ Cardinality(B) \in Nat
  BY PrecedingFinite
<1>3. Cardinality(A) <= Cardinality(B) /\ Cardinality(A) # Cardinality(B)
  BY <1>1, <1>2, FS_Subset
<1> QED BY <1>2, <1>3

LEMMA CountFromZero ==
  ASSUME NEW k \in Nat
  PROVE  IsFiniteSet(0 .. k - 1) /\ Cardinality(0 .. k - 1) = k
<1>1. 0 \in Int /\ k - 1 \in Int
  OBVIOUS
<1>2. Cardinality(0 .. k - 1) = IF 0 > k - 1 THEN 0 ELSE (k - 1) - 0 + 1
  BY <1>1, FS_Interval
<1> QED BY <1>1, <1>2, FS_Interval

\* The n first of a list are n, or all there are.
LEMMA FirstOfCounted ==
  ASSUME NEW W, IsFiniteSet(W), NEW R, Orders(R, W), NEW n \in Nat
  PROVE  /\ IsFiniteSet(FirstOf(R, W, n))
         /\ Cardinality(FirstOf(R, W, n)) \in 0 .. n
         /\ Cardinality(FirstOf(R, W, n)) < n =>
              FirstOf(R, W, n) = W /\ Cardinality(W) < n
<1> DEFINE N == Cardinality(W)
           F == FirstOf(R, W, n)
           rank == [t \in W |-> Cardinality(Preceding(R, W, t))]
           low == [t \in F |-> rank[t]]
<1>1. N \in Nat /\ \A t \in W : rank[t] \in Nat
  BY PrecedingFinite, FS_CardinalityType
<1>2. \A t \in W : rank[t] < N
  <2> TAKE t \in W
  <2>1. Preceding(R, W, t) \in SUBSET W /\ t \notin Preceding(R, W, t)
    BY DEF Preceding, Orders
  <2>2. Cardinality(Preceding(R, W, t)) # N
    BY <2>1, FS_Subset
  <2> QED BY <2>2, <1>1, PrecedingFinite
<1>3. \A t, u \in W : rank[t] = rank[u] => t = u
  <2> TAKE t, u \in W
  <2>1. CASE <<t, u>> \in R
    BY <2>1, <1>1, PrecedingGrows
  <2>2. CASE <<u, t>> \in R
    BY <2>2, <1>1, PrecedingGrows
  <2> QED BY <2>1, <2>2 DEF Orders
<1>4. F \subseteq W /\ \A t \in W : t \in F <=> rank[t] < n
  BY DEF FirstOf
<1> HIDE DEF F, N
<1>5. IsFiniteSet(F)
  BY <1>4, FS_Subset
<1>6. rank \in [W -> 0 .. N - 1] /\ low \in [F -> 0 .. n - 1]
  BY <1>1, <1>2, <1>4
<1>7. rank \in Injection(W, 0 .. N - 1) /\ low \in Injection(F, 0 .. n - 1)
  BY <1>6, <1>3, <1>4 DEF Injection, IsInjective
<1>8. /\ IsFiniteSet(0 .. N - 1) /\ Cardinality(0 .. N - 1) = N
      /\ IsFiniteSet(0 .. n - 1) /\ Cardinality(0 .. n - 1) = n
  BY <1>1, CountFromZero
<1>9. Cardinality(F) <= n
  BY <1>7, <1>8, FS_Injection
<1>10. Cardinality(F) \in Nat
  BY <1>5, FS_CardinalityType
<1>11. ASSUME Cardinality(F) < n PROVE F = W
  <2> SUFFICES ASSUME F # W PROVE FALSE
    OBVIOUS
  <2>1. PICK u \in W : u \notin F
    BY <1>4
  <2>2. n <= N - 1
    BY <2>1, <1>1, <1>2, <1>4
  <2>3. rank \in Surjection(W, 0 .. N - 1)
    BY <1>7, <1>8, FS_Injection DEF N
  <2>4. \A k \in 0 .. n - 1 : \E t \in F : low[t] = k
    <3> TAKE k \in 0 .. n - 1
    <3>1. k \in 0 .. N - 1
      BY <2>2, <1>1
    <3>2. PICK t \in W : rank[t] = k
      BY <3>1, <2>3 DEF Surjection
    <3>3. t \in F
      BY <3>2, <1>4
    <3> QED BY <3>2, <3>3
  <2>5. low \in Surjection(F, 0 .. n - 1)
    BY <2>4, <1>6 DEF Surjection
  <2>6. n <= Cardinality(F)
    BY <2>5, <1>5, <1>8, FS_Surjection
  <2> QED BY <2>6, <1>11, <1>10
<1> QED BY <1>5, <1>9, <1>10, <1>11 DEF F

-----------------------------------------------------------------------------
(***************************************************************************)
(* The invariant, in parts.                                                *)
(***************************************************************************)

\* Signal states are numbers in the range of the object's kind.
InRange(o, n) ==
  IF o \in Mutex THEN n \in LowestCount .. 1
  ELSE n \in 0 .. IF Kind[o] = "semaphore" THEN MaxCount ELSE 1
Counters == signaled \in [Object -> Int]
ObjectsTyped ==
  /\ Counters
  /\ \A o \in Object : InRange(o, signaled[o])
  /\ owner \in [Mutex -> Thread \cup {Null}]
  /\ apcDisable \in [Thread -> Int]

WaitsTyped ==
  /\ waiters \in [Object -> SUBSET Thread]
  /\ ahead \in [Object -> SUBSET (Thread \X Thread)]
  /\ status \in [Thread -> Asleep \cup {"running", "exited"}]
  /\ call \in [Thread -> Waits \cup {Null}]
  /\ outcome \in [Thread -> Object \cup {"none", "all", Again} \cup Failures]
  /\ priority \in [Thread -> Priority]

AlertsTyped ==
  /\ pending \in [Thread -> SUBSET {"kill", "signal", "apc"}]
  /\ accepts \in [Thread -> BOOLEAN] /\ onWait \in [Thread -> BOOLEAN]
  /\ triggered \in [Thread -> BOOLEAN] /\ suspended \in [Thread -> BOOLEAN]

\* The part of MutexesAccounted that is about the owners.
OwnersRight ==
  /\ \A m \in Mutex : owner[m] = Null <=> signaled[m] = 1
  /\ \A t \in Thread : apcDisable[t] = Cardinality({m \in KernelMutex : owner[m] = t})

OwnersLive == \A m \in Mutex : owner[m] # Null => status[owner[m]] # "exited"

\* What a status says of the wait a thread is in.
StatusRight(t) ==
  /\ status[t] = "suspended" => call[t] = Null
  /\ InWait(t) => (status[t] = "waitingalertable" <=> call[t].alertable)
StatusesRight == \A t \in Thread : StatusRight(t)

ExitingRight == exiting \in Thread \cup {Null} /\ (exiting # Null => InUserMode(exiting))

\* None of the properties is inductive alone: that a mutex goes to a living
\* thread needs the lists, that nobody is left on them needs the statuses, and
\* that a signal meets who waits for it needs that nobody was missed before.
Inv == /\ ObjectsTyped /\ WaitsTyped /\ AlertsTyped
       /\ OwnersRight /\ OwnersLive /\ StatusesRight /\ ExitingRight
       /\ ListsMatchWaits /\ NoLostWakeup /\ AlertsEndWaits

Held(own, t) == {m \in KernelMutex : own[m] = t}

LEMMA HeldFinite ==
  ASSUME NEW own, NEW t
  PROVE  /\ IsFiniteSet(Held(own, t))
         /\ Cardinality(Held(own, t)) \in 0 .. Cardinality(KernelMutex)
         /\ Cardinality(KernelMutex) \in Nat
<1>1. KernelMutex \in SUBSET Object /\ Held(own, t) \in SUBSET KernelMutex
  BY WaitAssumption DEF Mutex, Held
<1>2. IsFiniteSet(KernelMutex)
  BY <1>1, FiniteAssumption, FS_Subset
<1>3. IsFiniteSet(Held(own, t)) /\ Cardinality(Held(own, t)) <= Cardinality(KernelMutex)
  BY <1>1, <1>2, FS_Subset
<1> QED BY <1>2, <1>3, FS_CardinalityType

LEMMA MutexIsObject == KernelMutex \subseteq Mutex /\ Mutex \subseteq Object
BY WaitAssumption DEF Mutex

LEMMA InvProperties == Inv => TypeOK /\ MutexesAccounted
<1> SUFFICES ASSUME Inv PROVE TypeOK /\ MutexesAccounted
  OBVIOUS
<1>1. MutexesAccounted
  BY DEF Inv, OwnersRight, OwnersLive, MutexesAccounted
<1>2. apcDisable \in [Thread -> 0 .. Cardinality(KernelMutex)]
  <2>1. \A t \in Thread : apcDisable[t] \in 0 .. Cardinality(KernelMutex)
    <3> TAKE t \in Thread
    <3>1. apcDisable[t] = Cardinality(Held(owner, t))
      BY DEF Inv, OwnersRight, Held
    <3> QED BY <3>1, HeldFinite
  <2> QED BY <2>1 DEF Inv, ObjectsTyped
<1>3. TypeOK
  BY <1>2 DEF Inv, ObjectsTyped, WaitsTyped, AlertsTyped, ExitingRight, InRange, TypeOK
<1> QED BY <1>1, <1>3

-----------------------------------------------------------------------------
(***************************************************************************)
(* Who is served.                                                          *)
(***************************************************************************)
LEMMA WaitersSleep ==
  ASSUME WaitsTyped, ListsMatchWaits, NEW o \in Object
  PROVE  /\ waiters[o] \subseteq Thread
         /\ IsFiniteSet(waiters[o])
         /\ \A t \in waiters[o] : InWait(t) /\ o \in Objects(call[t]) /\ status[t] # "running"
<1>1. waiters[o] = {t \in Thread : InWait(t) /\ o \in Objects(call[t])}
  BY DEF ListsMatchWaits
<1>2. waiters[o] \in SUBSET Thread
  BY <1>1
<1>3. IsFiniteSet(waiters[o])
  BY <1>2, FiniteAssumption, FS_Subset
<1>4. \A t \in waiters[o] : status[t] # "running"
  BY <1>1 DEF InWait, Asleep
<1> QED BY <1>1, <1>2, <1>3, <1>4

LEMMA AnyWaitersOrdered ==
  ASSUME WaitsTyped, ListsMatchWaits, NEW o \in Object
  PROVE  /\ AnyWaiters(o) \subseteq waiters[o]
         /\ IsFiniteSet(AnyWaiters(o))
         /\ Orders(ahead[o], AnyWaiters(o))
<1>1. AnyWaiters(o) \in SUBSET waiters[o]
  BY DEF AnyWaiters
<1>2. IsFiniteSet(AnyWaiters(o))
  BY <1>1, WaitersSleep, FS_Subset
<1>3. \A t, u \in waiters[o] :
         /\ t # u => (<<t, u>> \in ahead[o]) # (<<u, t>> \in ahead[o])
         /\ \A v \in waiters[o] :
              <<t, u>> \in ahead[o] /\ <<u, v>> \in ahead[o] => <<t, v>> \in ahead[o]
         /\ <<t, u>> \in ahead[o] => t # u
  BY DEF ListsMatchWaits
<1>4. Orders(ahead[o], AnyWaiters(o))
  BY <1>1, <1>3 DEF Orders
<1> QED BY <1>1, <1>2, <1>4

\* What KiDispatchSatisfyFirst does to a list: at most n get the object, and
\* if fewer, all have been taken off.
LEMMA Served ==
  ASSUME WaitsTyped, ListsMatchWaits, NEW o \in Object, NEW n \in Nat
  PROVE  /\ AnyFirst(o, n) \subseteq Reached(o, n)
         /\ AnyFirst(o, n) \subseteq AnyWaiters(o)
         /\ Reached(o, n) \subseteq waiters[o]
         /\ Reached(o, n) \cap AnyWaiters(o) = AnyFirst(o, n)
         /\ IsFiniteSet(AnyFirst(o, n))
         /\ Cardinality(AnyFirst(o, n)) \in 0 .. n
         /\ Cardinality(AnyFirst(o, n)) < n =>
              AnyFirst(o, n) = AnyWaiters(o) /\ Reached(o, n) = waiters[o]
<1>1. \A t : Before(o, t) = Preceding(ahead[o], AnyWaiters(o), t)
  BY DEF Before, Preceding
<1>2. AnyFirst(o, n) = FirstOf(ahead[o], AnyWaiters(o), n)
  BY <1>1 DEF AnyFirst, FirstOf
<1>3. IsFiniteSet(AnyWaiters(o)) /\ Orders(ahead[o], AnyWaiters(o))
      /\ AnyWaiters(o) \subseteq waiters[o]
  BY AnyWaitersOrdered
<1>4. /\ IsFiniteSet(AnyFirst(o, n))
      /\ Cardinality(AnyFirst(o, n)) \in 0 .. n
      /\ Cardinality(AnyFirst(o, n)) < n =>
           AnyFirst(o, n) = AnyWaiters(o) /\ Cardinality(AnyWaiters(o)) < n
  BY <1>2, <1>3, FirstOfCounted
<1>5. ASSUME Cardinality(AnyWaiters(o)) < n PROVE Reached(o, n) = waiters[o]
  <2>1. \A t : Cardinality(Before(o, t)) < n
    BY <1>1, <1>3, <1>5, PrecedingFinite
  <2> QED BY <2>1 DEF Reached
<1>6. AnyFirst(o, n) \subseteq Reached(o, n) /\ AnyFirst(o, n) \subseteq AnyWaiters(o)
      /\ Reached(o, n) \subseteq waiters[o]
      /\ Reached(o, n) \cap AnyWaiters(o) = AnyFirst(o, n)
  BY <1>3 DEF AnyFirst, Reached
<1> QED BY <1>4, <1>5, <1>6

LEMMA ServedOne ==
  ASSUME WaitsTyped, ListsMatchWaits, NEW o \in Object
  PROVE  /\ AnyWaiters(o) = {} => AnyFirst(o, 1) = {} /\ Reached(o, 1) = waiters[o]
         /\ AnyWaiters(o) # {} => Cardinality(AnyFirst(o, 1)) = 1
         /\ \A u \in AnyFirst(o, 1) : AnyFirst(o, 1) = {u}
<1>1. /\ AnyFirst(o, 1) \subseteq AnyWaiters(o)
      /\ IsFiniteSet(AnyFirst(o, 1))
      /\ Cardinality(AnyFirst(o, 1)) \in 0 .. 1
      /\ Cardinality(AnyFirst(o, 1)) < 1 =>
           AnyFirst(o, 1) = AnyWaiters(o) /\ Reached(o, 1) = waiters[o]
  BY Served
<1>2. AnyFirst(o, 1) = {} => Cardinality(AnyFirst(o, 1)) = 0
  BY FS_EmptySet
<1>3. Cardinality(AnyFirst(o, 1)) = 0 => AnyFirst(o, 1) = {}
  BY <1>1, FS_EmptySet
<1>4. Cardinality(AnyFirst(o, 1)) = 1 => \E u : AnyFirst(o, 1) = {u}
  BY <1>1, FS_Singleton
<1> QED BY <1>1, <1>2, <1>3, <1>4

-----------------------------------------------------------------------------
(***************************************************************************)
(* Steps that take threads off lists, or none.                             *)
(***************************************************************************)

\* The threads of W leave their waits; the others stay where they are.
Thinned(W) ==
  /\ \A o \in Object :
       /\ waiters'[o] = waiters[o] \ W
       /\ ahead'[o] = {x \in ahead[o] : x[1] \notin W /\ x[2] \notin W}
  /\ \A t \in Thread :
       /\ InWait(t)' <=> InWait(t) /\ t \notin W
       /\ InWait(t) /\ t \notin W =>
            call'[t] = call[t] /\ (PrioritiesKept => priority'[t] = priority[t])

\* What is available afterwards to a thread that stays was before.
Spared(W) ==
  \A o \in Object : \A t \in waiters[o] \ W : Available(t, o)' => Available(t, o)

LEMMA ThinnedLists ==
  ASSUME WaitsTyped, ListsMatchWaits, NEW W, Thinned(W)
  PROVE  ListsMatchWaits'
<1> SUFFICES ASSUME NEW o \in Object
             PROVE  /\ waiters'[o] = {t \in Thread : InWait(t)' /\ o \in Objects(call'[t])}
                    /\ ahead'[o] \subseteq waiters'[o] \X waiters'[o]
                    /\ \A t, u \in waiters'[o] :
                         /\ t # u => (<<t, u>> \in ahead'[o]) # (<<u, t>> \in ahead'[o])
                         /\ \A v \in waiters'[o] :
                              <<t, u>> \in ahead'[o] /\ <<u, v>> \in ahead'[o] => <<t, v>> \in ahead'[o]
                         /\ <<t, u>> \in ahead'[o] =>
                              t # u /\ (PrioritiesKept => priority'[t] >= priority'[u])
  BY DEF ListsMatchWaits
<1>1. /\ waiters[o] = {t \in Thread : InWait(t) /\ o \in Objects(call[t])}
      /\ ahead[o] \subseteq waiters[o] \X waiters[o]
      /\ \A t, u \in waiters[o] :
           /\ t # u => (<<t, u>> \in ahead[o]) # (<<u, t>> \in ahead[o])
           /\ \A v \in waiters[o] :
                <<t, u>> \in ahead[o] /\ <<u, v>> \in ahead[o] => <<t, v>> \in ahead[o]
           /\ <<t, u>> \in ahead[o] =>
                t # u /\ (PrioritiesKept => priority[t] >= priority[u])
  BY DEF ListsMatchWaits
<1>2. waiters'[o] = waiters[o] \ W
      /\ ahead'[o] = {x \in ahead[o] : x[1] \notin W /\ x[2] \notin W}
  BY DEF Thinned
<1>3. \A t \in Thread : 
       /\ InWait(t)' <=> InWait(t) /\ t \notin W
       /\ InWait(t) /\ t \notin W =>
            call'[t] = call[t] /\ (PrioritiesKept => priority'[t] = priority[t])
  BY DEF Thinned
<1>4. waiters'[o] = {t \in Thread : InWait(t)' /\ o \in Objects(call'[t])}
  BY <1>1, <1>2, <1>3
<1>5. ahead'[o] \subseteq waiters'[o] \X waiters'[o]
  BY <1>1, <1>2
<1>6. \A t, u \in waiters'[o] : <<t, u>> \in ahead'[o] <=> <<t, u>> \in ahead[o]
  BY <1>1, <1>2
<1>7. \A t \in waiters'[o] : t \in waiters[o] /\ (PrioritiesKept => priority'[t] = priority[t])
  BY <1>1, <1>2, <1>3
<1>8. ASSUME NEW t \in waiters'[o], NEW u \in waiters'[o]
      PROVE  /\ t # u => (<<t, u>> \in ahead'[o]) # (<<u, t>> \in ahead'[o])
             /\ <<t, u>> \in ahead'[o] =>
                  t # u /\ (PrioritiesKept => priority'[t] >= priority'[u])
  <2>1. t \in waiters[o] /\ u \in waiters[o]
    BY <1>7
  <2>2. /\ t # u => (<<t, u>> \in ahead[o]) # (<<u, t>> \in ahead[o])
        /\ <<t, u>> \in ahead[o] =>
             t # u /\ (PrioritiesKept => priority[t] >= priority[u])
    BY <1>1, <2>1
  <2>3. (<<t, u>> \in ahead'[o] <=> <<t, u>> \in ahead[o])
        /\ (<<u, t>> \in ahead'[o] <=> <<u, t>> \in ahead[o])
    BY <1>6
  <2> QED BY <1>7, <2>2, <2>3
<1>9. ASSUME NEW t \in waiters'[o], NEW u \in waiters'[o], NEW v \in waiters'[o],
             <<t, u>> \in ahead'[o], <<u, v>> \in ahead'[o]
      PROVE  <<t, v>> \in ahead'[o]
  BY <1>1, <1>6, <1>7, <1>9
<1> QED BY <1>4, <1>5, <1>8, <1>9

LEMMA SparedNotMissed ==
  ASSUME WaitsTyped, ListsMatchWaits, NoLostWakeup, NEW W, Thinned(W), Spared(W)
  PROVE  NoLostWakeup'
<1> SUFFICES ASSUME NEW t \in Thread, InWait(t)'
             PROVE  /\ call'[t].type = "any" =>
                         \A o \in Objects(call'[t]) : ~Available(t, o)'
                    /\ call'[t].type = "all" =>
                         \E o \in Objects(call'[t]) : ~Available(t, o)'
  BY DEF NoLostWakeup, CanHaveAll
<1>1. InWait(t) /\ t \notin W /\ call'[t] = call[t]
  BY DEF Thinned
<1>2. call[t] \in Waits
  BY <1>1 DEF WaitsTyped, InWait
<1>3. Objects(call[t]) \subseteq Object
  BY <1>2, WaitAssumption DEF Objects
<1>4. \A o \in Objects(call[t]) : t \in waiters[o]
  BY <1>1, <1>3 DEF ListsMatchWaits
<1>5. \A o \in Objects(call[t]) : Available(t, o)' => Available(t, o)
  BY <1>1, <1>3, <1>4 DEF Spared
<1>6. /\ call[t].type = "any" => \A o \in Objects(call[t]) : ~Available(t, o)
      /\ call[t].type = "all" => \E o \in Objects(call[t]) : ~Available(t, o)
  BY <1>1 DEF NoLostWakeup, CanHaveAll
<1> QED BY <1>1, <1>5, <1>6

LEMMA WakeupThins ==
  ASSUME WaitsTyped, NEW W \in SUBSET Thread, NEW waitstatus, KiThreadWakeup(W, waitstatus)
  PROVE  Thinned(W)
BY DEF WaitsTyped, KiThreadWakeup, Thinned, InWait, Asleep

LEMMA WakeThins ==
  ASSUME WaitsTyped, NEW t \in Thread, NEW waitstatus, Wake(t, waitstatus)
  PROVE  Thinned({t})
BY WakeupThins DEF Wake

LEMMA SameWaitsThin ==
  ASSUME WaitsTyped, UNCHANGED waits
  PROVE  Thinned({})
BY DEF WaitsTyped, waits, Thinned, InWait, Asleep

LEMMA ReturnThins ==
  ASSUME WaitsTyped, NEW t \in Thread, NEW result, status[t] = "running", Return(t, result)
  PROVE  Thinned({})
BY DEF WaitsTyped, Return, Thinned, InWait, Asleep

LEMMA SameObjectsSpare ==
  ASSUME UNCHANGED objects, NEW W
  PROVE  Spared(W)
BY DEF objects, Spared, Available, Owns

LEMMA SignalSpares ==
  ASSUME ObjectsTyped, UNCHANGED owner, NEW o \in Object, NEW n \in Int, NEW W,
         signaled' = [signaled EXCEPT ![o] = n],
         n > 0 => signaled[o] > 0 \/ waiters[o] \subseteq W
  PROVE  Spared(W)
BY DEF ObjectsTyped, Counters, Spared, Available, Owns

-----------------------------------------------------------------------------
(***************************************************************************)
(* Counts of objects, and mutexes held.                                    *)
(***************************************************************************)
LEMMA SameObjectsRight ==
  ASSUME UNCHANGED objects, ObjectsTyped, OwnersRight
  PROVE  ObjectsTyped' /\ OwnersRight'
BY DEF objects, ObjectsTyped, OwnersRight, InRange, Counters

\* A thread takes what is available to it.
LEMMA ConsumeRight ==
  ASSUME ObjectsTyped, OwnersRight, NEW t \in Thread, NEW S \in SUBSET Object, Consume(t, S),
         \A o \in S : Available(t, o) /\ ~Overflows(t, o)
  PROVE  /\ ObjectsTyped'
         /\ OwnersRight'
         /\ \A m \in Mutex : owner'[m] = owner[m] \/ owner'[m] = t
         /\ \A m \in S \cap Mutex : owner'[m] = t
         /\ \A o \in Object : signaled'[o] > 0 => signaled[o] > 0
<1> DEFINE M == {m \in S \cap Mutex : signaled[m] > 0}
<1>1. /\ signaled' = [o \in Object |-> IF o \in S THEN Consumed(o) ELSE signaled[o]]
      /\ owner' = [m \in Mutex |-> IF m \in M THEN t ELSE owner[m]]
      /\ apcDisable' = [apcDisable EXCEPT ![t] = @ + Cardinality(M \cap KernelMutex)]
  BY DEF Consume, KiMutexOwnerSet
<1>2. \A o \in Object : signaled[o] \in Int /\ InRange(o, signaled[o])
  BY DEF ObjectsTyped, Counters
<1>3. ASSUME NEW o \in S
      PROVE  /\ Consumed(o) \in Int /\ InRange(o, Consumed(o))
             /\ Consumed(o) > 0 => signaled[o] > 0
             /\ o \in Mutex => Consumed(o) # 1
  <2>1. Available(t, o) /\ ~Overflows(t, o)
    OBVIOUS
  <2>2. Kind[o] \in {"notification", "synchronization", "semaphore", "mutex"}
        /\ (o \in Mutex <=> Kind[o] = "mutex")
    BY WaitAssumption DEF Mutex
  <2>3. signaled[o] \in Int /\ InRange(o, signaled[o])
    BY <1>2
  <2>4. CASE Kind[o] = "notification"
    <3>1. Consumed(o) = signaled[o]
      BY <2>4 DEF Consumed
    <3> QED BY <3>1, <2>3, <2>2, <2>4
  <2>5. CASE Kind[o] = "synchronization"
    <3>1. Consumed(o) = 0
      BY <2>5 DEF Consumed
    <3> QED BY <3>1, <2>2, <2>5 DEF InRange
  <2>6. CASE Kind[o] = "semaphore"
    <3>1. Consumed(o) = signaled[o] - 1
      BY <2>6 DEF Consumed
    <3>2. signaled[o] > 0
      BY <2>1, <2>2, <2>6 DEF Available, Owns
    <3>3. signaled[o] \in 0 .. MaxCount
      BY <2>2, <2>3, <2>6 DEF InRange
    <3>4. Consumed(o) \in 0 .. MaxCount
      BY <3>1, <3>2, <3>3, WaitAssumption
    <3> QED BY <3>4, <3>2, <2>2, <2>6 DEF InRange
  <2>7. CASE Kind[o] = "mutex"
    <3>1. Consumed(o) = IF signaled[o] > 0 THEN 0 ELSE signaled[o] - 1
      BY <2>7 DEF Consumed
    <3>2. signaled[o] \in LowestCount .. 1 /\ LowestCount \in Int /\ LowestCount <= 0
      BY <2>2, <2>3, <2>7, WaitAssumption DEF InRange
    <3>3. signaled[o] > 0 \/ signaled[o] # LowestCount
      BY <2>1, <3>2 DEF Available, Overflows
    <3>4. Consumed(o) \in LowestCount .. 0
      BY <3>1, <3>2, <3>3
    <3> QED BY <3>4, <3>2, <2>2, <2>7 DEF InRange
  <2> QED BY <2>2, <2>4, <2>5, <2>6, <2>7
<1>4. Counters' /\ (\A o \in Object : InRange(o, signaled'[o]))
      /\ \A o \in Object : signaled'[o] > 0 => signaled[o] > 0
  BY <1>1, <1>2, <1>3 DEF Counters
<1>5. owner' \in [Mutex -> Thread \cup {Null}]
  BY <1>1 DEF ObjectsTyped
<1>6. apcDisable' \in [Thread -> Int]
  <2>1. M \cap KernelMutex \in SUBSET KernelMutex /\ IsFiniteSet(KernelMutex)
    BY MutexIsObject, FiniteAssumption, FS_Subset
  <2>2. Cardinality(M \cap KernelMutex) \in Nat
    BY <2>1, FS_Subset, FS_CardinalityType
  <2> QED BY <1>1, <2>2 DEF ObjectsTyped
<1>7. \A m \in M : owner[m] = Null
  <2> TAKE m \in M
  <2>1. m \in Mutex /\ m \in Object /\ signaled[m] > 0
    BY MutexIsObject
  <2>2. signaled[m] \in LowestCount .. 1
    BY <2>1, <1>2 DEF InRange
  <2>3. signaled[m] = 1
    BY <2>1, <2>2, WaitAssumption
  <2> QED BY <2>1, <2>3 DEF OwnersRight
<1>8. \A m \in S \cap Mutex : m \notin M => owner[m] = t
  BY DEF Available, Owns
<1>9. \A m \in Mutex : owner'[m] = Null <=> signaled'[m] = 1
  <2> TAKE m \in Mutex
  <2>1. m \in Object /\ t # Null
    BY MutexIsObject, WaitAssumption
  <2>2. CASE m \in S
    BY <2>1, <2>2, <1>1, <1>3, <1>8
  <2>3. CASE m \notin S
    BY <2>1, <2>3, <1>1 DEF OwnersRight
  <2> QED BY <2>2, <2>3
<1>10. \A u \in Thread : apcDisable'[u] = Cardinality(Held(owner', u))
  <2> TAKE u \in Thread
  <2>1. apcDisable[u] = Cardinality(Held(owner, u))
    BY DEF OwnersRight, Held
  <2>2. CASE u # t
    <3>1. Held(owner', u) = Held(owner, u)
      BY <1>1, <1>7, <2>2, MutexIsObject, WaitAssumption DEF Held
    <3>2. apcDisable'[u] = apcDisable[u]
      BY <1>1, <2>2 DEF ObjectsTyped
    <3> QED BY <3>1, <3>2, <2>1
  <2>3. CASE u = t
    <3> DEFINE A == Held(owner, t)
               B == M \cap KernelMutex
    <3>1. Held(owner', t) = A \cup B
      BY <1>1, MutexIsObject DEF Held
    <3>2. A \cap B = {}
      BY <1>7, WaitAssumption DEF Held
    <3>3. B \in SUBSET Held(owner', t) /\ IsFiniteSet(A) /\ IsFiniteSet(Held(owner', t))
      BY <3>1, HeldFinite
    <3>4. IsFiniteSet(B)
      BY <3>3, FS_Subset
    <3>5. Cardinality(A) \in Nat /\ Cardinality(B) \in Nat
      BY <3>3, <3>4, FS_CardinalityType
    <3>6. Cardinality(A \cup B) = Cardinality(A) + Cardinality(B) - Cardinality(A \cap B)
      BY <3>3, <3>4, FS_Union
    <3>7. Cardinality(A \cap B) = 0
      BY <3>2, FS_EmptySet
    <3>8. apcDisable'[t] = apcDisable[t] + Cardinality(B)
      BY <1>1 DEF ObjectsTyped
    <3> HIDE DEF A, B
    <3>9. Cardinality(A \cup B) = Cardinality(A) + Cardinality(B)
      BY <3>5, <3>6, <3>7
    <3> QED BY <3>1, <3>8, <3>9, <2>1, <2>3 DEF A
  <2> QED BY <2>2, <2>3
<1>11. \A m \in Mutex : owner'[m] = owner[m] \/ owner'[m] = t
  BY <1>1
<1>12. \A m \in S \cap Mutex : owner'[m] = t
  BY <1>1, <1>8
<1> QED BY <1>4, <1>5, <1>6, <1>9, <1>10, <1>11, <1>12 DEF ObjectsTyped, OwnersRight, Held

\* A mutex changes hands.
\* How many more kernel mutexes x holds after t gave m to y.
More(m, x, y, t) == IF m \notin KernelMutex THEN 0
                    ELSE IF x = y THEN 1 ELSE IF x = t THEN -1 ELSE 0

LEMMA HeldChanges ==
  ASSUME ObjectsTyped, NEW m \in Mutex, NEW t \in Thread, owner[m] = t,
         NEW y \in Thread \cup {Null}, y # t, NEW x \in Thread,
         owner' = [owner EXCEPT ![m] = y]
  PROVE  Cardinality(Held(owner', x)) =
           Cardinality(Held(owner, x)) + More(m, x, y, t)
<1>1. \A k \in KernelMutex : owner'[k] = IF k = m THEN y ELSE owner[k]
  BY MutexIsObject DEF ObjectsTyped
<1>2. IsFiniteSet(Held(owner, x)) /\ Cardinality(Held(owner, x)) \in Nat
  BY HeldFinite, FS_CardinalityType
<1>3. CASE m \notin KernelMutex \/ (x # y /\ x # t)
  <2>1. Held(owner', x) = Held(owner, x)
    BY <1>1, <1>3 DEF Held
  <2>2. More(m, x, y, t) = 0
    BY <1>3 DEF More
  <2> QED BY <2>1, <2>2, <1>2
<1>4. CASE m \in KernelMutex /\ x = y
  <2>1. Held(owner', x) = Held(owner, x) \cup {m} /\ m \notin Held(owner, x)
    BY <1>1, <1>4 DEF Held
  <2>2. More(m, x, y, t) = 1
    BY <1>4 DEF More
  <2>3. Cardinality(Held(owner, x) \cup {m}) = Cardinality(Held(owner, x)) + 1
    BY <2>1, <1>2, FS_AddElement
  <2>4. Cardinality(Held(owner', x)) = Cardinality(Held(owner, x)) + 1
    BY <2>1, <2>3
  <2> QED BY <2>2, <2>4, <1>2
<1>5. CASE m \in KernelMutex /\ x = t
  <2>1. Held(owner', x) = Held(owner, x) \ {m} /\ m \in Held(owner, x)
    BY <1>1, <1>5 DEF Held
  <2>2. More(m, x, y, t) = -1
    BY <1>5 DEF More
  <2>3. Cardinality(Held(owner, x) \ {m}) = Cardinality(Held(owner, x)) - 1
    BY <2>1, <1>2, FS_RemoveElement
  <2>4. Cardinality(Held(owner', x)) = Cardinality(Held(owner, x)) - 1
    BY <2>1, <2>3
  <2> QED BY <2>2, <2>4, <1>2
<1> QED BY <1>3, <1>4, <1>5

LEMMA HandOverRight ==
  ASSUME WaitsTyped, ListsMatchWaits, ObjectsTyped, OwnersRight,
         NEW m \in Mutex, NEW t \in Thread, owner[m] = t, status[t] = "running", HandOver(m, t)
  PROVE  /\ ObjectsTyped'
         /\ OwnersRight'
         /\ Thinned(Reached(m, 1))
         /\ Spared(Reached(m, 1))
         /\ \E y \in Thread \cup {Null} :
              /\ owner' = [owner EXCEPT ![m] = y]
              /\ y # Null => y \in Reached(m, 1) /\ status'[y] = "running"
              /\ \A x \in Thread : x \in AnyFirst(m, 1) <=> x = y
              /\ signaled' = [signaled EXCEPT ![m] = IF y = Null THEN 1 ELSE 0]
              /\ y = Null <=> AnyWaiters(m) = {}
<1>0. m \in Object /\ Null \notin Thread
  BY MutexIsObject, WaitAssumption
<1>1. /\ KiThreadWakeup(Reached(m, 1), WaitStatus(m))
      /\ apcDisable' = [u \in Thread |-> apcDisable[u] + DisabledMore(m, t, u)]
      /\ \/ /\ AnyWaiters(m) = {}
            /\ owner' = [owner EXCEPT ![m] = Null]
            /\ signaled' = [signaled EXCEPT ![m] = 1]
         \/ \E u \in AnyFirst(m, 1) :
              /\ owner' = [owner EXCEPT ![m] = u]
              /\ signaled' = [signaled EXCEPT ![m] = 0]
  BY DEF HandOver, Grant
<1>2. /\ AnyFirst(m, 1) \subseteq Reached(m, 1)
      /\ AnyFirst(m, 1) \subseteq AnyWaiters(m)
      /\ Reached(m, 1) \subseteq waiters[m]
  BY <1>0, Served
<1>3. /\ AnyWaiters(m) = {} => AnyFirst(m, 1) = {} /\ Reached(m, 1) = waiters[m]
      /\ \A u \in AnyFirst(m, 1) : AnyFirst(m, 1) = {u}
  BY <1>0, ServedOne
<1>4. waiters[m] \subseteq Thread /\ \A u \in waiters[m] : status[u] # "running"
  BY <1>0, WaitersSleep
<1>5. status' = [u \in Thread |-> IF u \in Reached(m, 1) THEN "running" ELSE status[u]]
  BY <1>1 DEF KiThreadWakeup
<1>6. PICK y \in Thread \cup {Null} :
        /\ owner' = [owner EXCEPT ![m] = y]
        /\ y # Null => y \in AnyFirst(m, 1)
        /\ signaled' = [signaled EXCEPT ![m] = IF y = Null THEN 1 ELSE 0]
        /\ y = Null <=> AnyWaiters(m) = {}
  BY <1>0, <1>1, <1>2, <1>4
<1>7. \A x \in Thread : x \in AnyFirst(m, 1) <=> x = y
  BY <1>0, <1>3, <1>6
<1>8. y # t
  BY <1>0, <1>2, <1>4, <1>6
<1>9. y # Null => y \in Reached(m, 1) /\ status'[y] = "running"
  BY <1>2, <1>5, <1>6
<1>10. Reached(m, 1) \in SUBSET Thread
  BY <1>2, <1>4
<1>11. Thinned(Reached(m, 1))
  BY <1>1, <1>10, WakeupThins
<1>12. \A o \in Object : signaled'[o] = IF o = m THEN IF y = Null THEN 1 ELSE 0 ELSE signaled[o]
  BY <1>6 DEF ObjectsTyped, Counters
<1>13. \A k \in Mutex : owner'[k] = IF k = m THEN y ELSE owner[k]
  BY <1>6 DEF ObjectsTyped
<1>14. Spared(Reached(m, 1))
  <2> SUFFICES ASSUME NEW o \in Object, NEW u \in waiters[o] \ Reached(m, 1), Available(u, o)'
               PROVE  Available(u, o)
    BY DEF Spared
  <2>1. CASE o = m
    <3>1. y # Null
      BY <2>1, <1>3, <1>6
    <3>2. signaled'[m] = 0 /\ owner'[m] = y
      BY <3>1, <1>0, <1>12, <1>13
    <3>3. u = y
      BY <3>2, <2>1 DEF Available, Owns
    <3> QED BY <3>1, <3>3, <1>9
  <2>2. CASE o # m
    BY <2>2, <1>12, <1>13 DEF Available, Owns
  <2> QED BY <2>1, <2>2
<1>15. ObjectsTyped'
  <2>1. InRange(m, 1) /\ InRange(m, 0)
    BY WaitAssumption DEF InRange
  <2>2. Counters'
    <3> DEFINE n == IF y = Null THEN 1 ELSE 0
    <3>1. n \in Int /\ signaled' = [signaled EXCEPT ![m] = n]
      BY <1>6
    <3> HIDE DEF n
    <3> QED BY <3>1 DEF ObjectsTyped, Counters
  <2>3. \A o \in Object : InRange(o, signaled'[o])
    BY <2>1, <1>12 DEF ObjectsTyped
  <2>4. owner' \in [Mutex -> Thread \cup {Null}]
    BY <1>6 DEF ObjectsTyped
  <2>5. apcDisable' \in [Thread -> Int]
    <3>1. \A u \in Thread : apcDisable[u] + DisabledMore(m, t, u) \in Int
      BY DEF ObjectsTyped, DisabledMore, DisabledBy
    <3> QED BY <1>1, <3>1
  <2> QED BY <2>2, <2>3, <2>4, <2>5 DEF ObjectsTyped
<1>16. \A k \in Mutex : owner'[k] = Null <=> signaled'[k] = 1
  BY <1>12, <1>13, MutexIsObject DEF OwnersRight
<1>17. \A x \in Thread : apcDisable'[x] = Cardinality(Held(owner', x))
  <2> TAKE x \in Thread
  <2>1. DisabledMore(m, t, x) = More(m, x, y, t)
    <3>1. x \in AnyFirst(m, 1) <=> x = y
      BY <1>7
    <3> QED BY <3>1, <1>8 DEF DisabledMore, DisabledBy, More
  <2>2. apcDisable[x] = Cardinality(Held(owner, x))
    BY DEF OwnersRight, Held
  <2>3. Cardinality(Held(owner', x)) = Cardinality(Held(owner, x)) + More(m, x, y, t)
    BY <1>6, <1>8, HeldChanges
  <2> QED BY <1>1, <2>1, <2>2, <2>3
<1>18. OwnersRight'
  BY <1>16, <1>17 DEF OwnersRight, Held
<1> QED BY <1>6, <1>7, <1>9, <1>11, <1>14, <1>15, <1>18

\* An event or a semaphore is signaled.
LEMMA SignalRight ==
  ASSUME ObjectsTyped, OwnersRight, NEW o \in Object \ Mutex, NEW n \in Int, InRange(o, n),
         signaled' = [signaled EXCEPT ![o] = n], UNCHANGED <<owner, apcDisable>>
  PROVE  ObjectsTyped' /\ OwnersRight'
<1>1. \A x \in Object : signaled'[x] = IF x = o THEN n ELSE signaled[x]
  BY DEF ObjectsTyped, Counters
<1>2. Counters'
  BY DEF ObjectsTyped, Counters
<1>3. ObjectsTyped'
  BY <1>1, <1>2 DEF ObjectsTyped
<1>4. OwnersRight'
  BY <1>1, MutexIsObject DEF OwnersRight
<1> QED BY <1>3, <1>4

-----------------------------------------------------------------------------
(***************************************************************************)
(* Types and statuses of waits.                                            *)
(***************************************************************************)

\* A thread keeps its status and, unless it returns, its wait, or it wakes.
Calm == \A t \in Thread : \/ status'[t] = "running"
                          \/ status'[t] = status[t] /\ call'[t] \in {call[t], Null}

Relaxed(W) == W \subseteq Thread /\ Thinned(W) /\ Calm /\ WaitsTyped'

LEMMA WakeupRelaxed ==
  ASSUME WaitsTyped, NEW W \in SUBSET Thread, NEW waitstatus, KiThreadWakeup(W, waitstatus),
         \A t \in W : waitstatus[t] \in Object \cup {"none", "all", Again} \cup Failures
  PROVE  Relaxed(W)
<1>1. Thinned(W)
  BY WakeupThins
<1>2. Calm
  BY DEF WaitsTyped, KiThreadWakeup, Calm
<1>3. waiters' \in [Object -> SUBSET Thread] /\ ahead' \in [Object -> SUBSET (Thread \X Thread)]
  BY DEF WaitsTyped, KiThreadWakeup
<1>4. status' \in [Thread -> Asleep \cup {"running", "exited"}]
  BY DEF WaitsTyped, KiThreadWakeup
<1>5. call' \in [Thread -> Waits \cup {Null}] /\ priority' \in [Thread -> Priority]
  BY WaitAssumption DEF WaitsTyped, KiThreadWakeup
<1>6. outcome' \in [Thread -> Object \cup {"none", "all", Again} \cup Failures]
  BY DEF WaitsTyped, KiThreadWakeup
<1> QED BY <1>1, <1>2, <1>3, <1>4, <1>5, <1>6 DEF Relaxed, WaitsTyped

LEMMA WakeRelaxed ==
  ASSUME WaitsTyped, NEW t \in Thread, NEW result \in {"none", Again} \cup Failures,
         Wake(t, result)
  PROVE  Relaxed({t}) /\ status'[t] = "running"
<1> DEFINE ws == [u \in {t} |-> result]
<1>1. KiThreadWakeup({t}, ws)
  BY DEF Wake
<1>2. \A u \in {t} : ws[u] \in Object \cup {"none", "all", Again} \cup Failures
  OBVIOUS
<1> HIDE DEF ws
<1>3. Relaxed({t})
  BY <1>1, <1>2, WakeupRelaxed
<1> QED BY <1>1, <1>3 DEF KiThreadWakeup

LEMMA GrantRelaxed ==
  ASSUME WaitsTyped, ListsMatchWaits, NEW o \in Object, NEW W \in SUBSET waiters[o],
         KiThreadWakeup(W, WaitStatus(o))
  PROVE  Relaxed(W)
<1>1. W \in SUBSET Thread
  BY WaitersSleep
<1>2. \A t \in W : WaitStatus(o)[t] \in Object \cup {"none", "all", Again} \cup Failures
  BY DEF WaitStatus
<1> QED BY <1>1, <1>2, WakeupRelaxed

LEMMA SameWaitsRelaxed ==
  ASSUME WaitsTyped, UNCHANGED waits
  PROVE  Relaxed({})
BY SameWaitsThin DEF waits, WaitsTyped, Calm, Relaxed

LEMMA ReturnRelaxed ==
  ASSUME WaitsTyped, NEW t \in Thread, status[t] = "running",
         NEW result \in Object \cup {"none", "all", Again} \cup Failures, Return(t, result)
  PROVE  Relaxed({})
<1>1. Thinned({})
  BY ReturnThins
<1>2. Calm
  BY DEF WaitsTyped, Return, Calm
<1>3. WaitsTyped'
  BY DEF WaitsTyped, Return
<1> QED BY <1>1, <1>2, <1>3 DEF Relaxed

LEMMA BoostRelaxed ==
  ASSUME WaitsTyped, NEW t \in Thread, NEW p \in Priority, KeThreadBoost(t, p)
  PROVE  Relaxed({})
<1>1. Thinned({})
  BY DEF WaitsTyped, KeThreadBoost, Thinned, InWait, Asleep
<1>2. Calm
  BY DEF WaitsTyped, KeThreadBoost, Calm
<1>3. WaitsTyped'
  BY DEF WaitsTyped, KeThreadBoost
<1> QED BY <1>1, <1>2, <1>3 DEF Relaxed

\* A thread joins the lists of the objects of w.
LEMMA WaitLists ==
  ASSUME WaitsTyped, ListsMatchWaits, NEW t \in Thread, NEW w \in Waits, NEW p \in Priority,
         status[t] = "running", KiThreadWait(t, w, p)
  PROVE  WaitsTyped' /\ ListsMatchWaits'
<1>0. p \in Int /\ \A u \in Thread : priority[u] \in Int
  <2>1. Priority \subseteq Nat
    BY WaitAssumption
  <2>2. \A u \in Thread : priority[u] \in Priority
    BY DEF WaitsTyped
  <2>3. \A q \in Priority : q \in Int
    BY <2>1
  <2> QED BY <2>2, <2>3
<1>1. /\ \A o \in Object : waiters'[o] = IF o \in Objects(w) THEN waiters[o] \cup {t} ELSE waiters[o]
      /\ \A o \in Object : ahead'[o] = IF o \in Objects(w) THEN Enqueued(o, t, p) ELSE ahead[o]
      /\ priority' = [priority EXCEPT ![t] = p]
      /\ status' = [status EXCEPT ![t] = IF w.alertable THEN "waitingalertable"
                                         ELSE "waitingunalertable"]
      /\ call' = [call EXCEPT ![t] = w]
      /\ outcome' = [outcome EXCEPT ![t] = "none"]
  BY DEF KiThreadWait
<1>2. InWait(t)' /\ ~InWait(t) /\ call'[t] = w
  BY <1>1, WaitAssumption DEF WaitsTyped, InWait, Asleep
<1>3. \A u \in Thread \ {t} : (InWait(u)' <=> InWait(u)) /\ call'[u] = call[u]
                              /\ priority'[u] = priority[u]
  BY <1>1 DEF WaitsTyped, InWait
<1>4. \A o \in Object : waiters[o] \subseteq Thread /\ t \notin waiters[o]
  BY WaitersSleep
<1>5. \A o \in Object : Enqueued(o, t, p) \subseteq Thread \X Thread
  <2> TAKE o \in Object
  <2>1. ahead[o] \subseteq Thread \X Thread /\ waiters[o] \subseteq Thread
    BY DEF WaitsTyped
  <2>2. InFront(o, p) \subseteq Thread
    BY <2>1 DEF InFront
  <2> QED BY <2>1, <2>2 DEF Enqueued
<1>6. WaitsTyped'
  <2>1. waiters' \in [Object -> SUBSET Thread]
    BY DEF WaitsTyped, KiThreadWait
  <2>2. ahead' \in [Object -> SUBSET (Thread \X Thread)]
    BY <1>5 DEF WaitsTyped, KiThreadWait
  <2>3. status' \in [Thread -> Asleep \cup {"running", "exited"}]
    BY <1>1 DEF WaitsTyped, Asleep
  <2>4. call' \in [Thread -> Waits \cup {Null}] /\ priority' \in [Thread -> Priority]
    BY <1>1 DEF WaitsTyped
  <2>5. outcome' \in [Thread -> Object \cup {"none", "all", Again} \cup Failures]
    BY <1>1 DEF WaitsTyped
  <2> QED BY <2>1, <2>2, <2>3, <2>4, <2>5 DEF WaitsTyped
<1>7. ASSUME NEW o \in Object
      PROVE  /\ waiters'[o] = {u \in Thread : InWait(u)' /\ o \in Objects(call'[u])}
             /\ ahead'[o] \subseteq waiters'[o] \X waiters'[o]
             /\ \A x, y \in waiters'[o] :
                  /\ x # y => (<<x, y>> \in ahead'[o]) # (<<y, x>> \in ahead'[o])
                  /\ \A v \in waiters'[o] :
                       <<x, y>> \in ahead'[o] /\ <<y, v>> \in ahead'[o] => <<x, v>> \in ahead'[o]
                  /\ <<x, y>> \in ahead'[o] =>
                       x # y /\ (PrioritiesKept => priority'[x] >= priority'[y])
  <2> DEFINE L == waiters[o]
             R == ahead[o]
             F == InFront(o, p)
  <2>1. /\ L = {u \in Thread : InWait(u) /\ o \in Objects(call[u])}
        /\ R \subseteq L \X L
        /\ \A x, y \in L : x # y => (<<x, y>> \in R) # (<<y, x>> \in R)
        /\ \A x, y, v \in L : <<x, y>> \in R /\ <<y, v>> \in R => <<x, v>> \in R
        /\ \A x, y \in L : <<x, y>> \in R => x # y /\ (PrioritiesKept => priority[x] >= priority[y])
    BY DEF ListsMatchWaits
  <2>2. waiters'[o] = {u \in Thread : InWait(u)' /\ o \in Objects(call'[u])}
    <3>1. waiters'[o] = IF o \in Objects(w) THEN L \cup {t} ELSE L
      BY <1>1
    <3>2. ASSUME NEW u \in Thread
          PROVE  u \in waiters'[o] <=> InWait(u)' /\ o \in Objects(call'[u])
      <4>1. u \in L <=> InWait(u) /\ o \in Objects(call[u])
        BY <2>1
      <4> HIDE DEF L
      <4>2. CASE u = t
        BY <4>1, <4>2, <3>1, <1>2
      <4>3. CASE u # t
        BY <4>1, <4>3, <3>1, <1>3
      <4> QED BY <4>2, <4>3
    <3>3. waiters'[o] \subseteq Thread
      BY <3>1, <2>1
    <3> QED BY <3>2, <3>3
  <2>3. \A u \in L : u \in Thread /\ u # t /\ priority'[u] = priority[u] /\ priority[u] \in Int
    BY <1>0, <1>3, <1>4
  <2>4. F \subseteq L /\ \A u \in L : u \in F <=> \E v \in L : priority[v] >= p /\ (u = v \/ <<u, v>> \in R)
    <3>1. F \subseteq L
      BY DEF InFront
    <3>2. \A u \in L : u \in F <=> \E v \in L : priority[v] >= p /\ (u = v \/ <<u, v>> \in R)
      BY DEF InFront, NotBelow
    <3> QED BY <3>1, <3>2
  <2>5. CASE o \notin Objects(w)
    <3>1. waiters'[o] = L /\ ahead'[o] = R
      BY <2>5, <1>1
    <3> HIDE DEF L, R
    <3> QED BY <2>1, <2>2, <2>3, <3>1
  <2>6. CASE o \in Objects(w)
    <3>1. /\ waiters'[o] = L \cup {t}
          /\ ahead'[o] = R \cup (F \X {t}) \cup ({t} \X (L \ F))
      BY <2>6, <1>1 DEF Enqueued
    <3>2. priority'[t] = p /\ p \in Int /\ t \notin L
      BY <1>0, <1>1, <1>4 DEF WaitsTyped
    <3> HIDE DEF L, R, F
    <3>3. ahead'[o] \subseteq waiters'[o] \X waiters'[o]
      BY <2>1, <2>4, <3>1
    <3>4. /\ \A x, y \in L : <<x, y>> \in ahead'[o] <=> <<x, y>> \in R
          /\ \A x \in L : <<x, t>> \in ahead'[o] <=> x \in F
          /\ \A x \in L : <<t, x>> \in ahead'[o] <=> x \notin F
          /\ <<t, t>> \notin ahead'[o]
      BY <2>1, <2>4, <3>1, <3>2
    <3>5. \A x, y \in L : <<x, y>> \in R /\ y \in F => x \in F
      BY <2>1, <2>4
    <3>6. \A x \in F : PrioritiesKept => priority[x] >= p
      <4> TAKE x \in F
      <4>1. PICK v \in L : priority[v] >= p /\ (x = v \/ <<x, v>> \in R)
        BY <2>4
      <4> QED BY <4>1, <2>1, <2>3, <2>4, <3>2
    <3>7. \A x \in L \ F : p >= priority[x]
      BY <2>4, <2>3, <3>2
    <3>8. ASSUME NEW x \in waiters'[o], NEW y \in waiters'[o]
          PROVE  /\ x # y => (<<x, y>> \in ahead'[o]) # (<<y, x>> \in ahead'[o])
                 /\ <<x, y>> \in ahead'[o] =>
                      x # y /\ (PrioritiesKept => priority'[x] >= priority'[y])
      <4>1. CASE x \in L /\ y \in L
        BY <4>1, <2>1, <2>3, <3>4
      <4>2. CASE x = t /\ y \in L
        BY <4>2, <3>2, <3>4, <3>7, <2>3
      <4>3. CASE x \in L /\ y = t
        BY <4>3, <3>2, <3>4, <3>6, <2>3
      <4>4. CASE x = t /\ y = t
        BY <4>4, <3>4
      <4> QED BY <3>1, <4>1, <4>2, <4>3, <4>4
    <3>9. ASSUME NEW x \in waiters'[o], NEW y \in waiters'[o], NEW v \in waiters'[o],
                 <<x, y>> \in ahead'[o], <<y, v>> \in ahead'[o]
          PROVE  <<x, v>> \in ahead'[o]
      <4>1. x \in L \cup {t} /\ y \in L \cup {t} /\ v \in L \cup {t}
        BY <3>1
      <4>2. \A a, b \in L : <<a, b>> \in R /\ a \notin F => b \notin F
        BY <3>5
      <4>3. \A a, b \in L : a \in F /\ b \notin F => <<a, b>> \in R
        BY <2>1, <2>4, <3>5
      <4>4. CASE x \in L /\ y \in L /\ v \in L
        BY <4>4, <3>9, <2>1, <3>4
      <4>5. CASE x = t
        BY <4>5, <4>1, <4>2, <3>9, <3>4
      <4>6. CASE y = t /\ x \in L
        BY <4>6, <4>1, <4>3, <3>9, <3>4
      <4>7. CASE v = t /\ x \in L /\ y \in L
        BY <4>7, <3>5, <3>9, <3>4
      <4> QED BY <4>1, <4>4, <4>5, <4>6, <4>7
    <3> QED BY <2>2, <3>3, <3>8, <3>9
  <2> QED BY <2>5, <2>6
<1>8. ListsMatchWaits'
  BY <1>7 DEF ListsMatchWaits
<1> QED BY <1>6, <1>8

-----------------------------------------------------------------------------
(***************************************************************************)
(* The steps of a waiting thread.                                          *)
(***************************************************************************)
LEMMA InvTypes == Inv => WaitsTyped /\ ObjectsTyped /\ AlertsTyped /\ ListsMatchWaits /\ OwnersRight
BY DEF Inv

LEMMA CalmStatuses ==
  ASSUME StatusesRight, NEW W, Relaxed(W)
  PROVE  StatusesRight'
<1> SUFFICES ASSUME NEW t \in Thread PROVE StatusRight(t)'
  BY DEF StatusesRight
<1>1. StatusRight(t)
  BY DEF StatusesRight
<1>2. \/ status'[t] = "running"
      \/ status'[t] = status[t] /\ call'[t] \in {call[t], Null}
  BY DEF Relaxed, Calm
<1> QED BY <1>1, <1>2 DEF StatusRight, InWait, Asleep

LEMMA CalmAlerts ==
  ASSUME AlertsEndWaits, NEW W, Relaxed(W), UNCHANGED <<pending, suspended>>
  PROVE  AlertsEndWaits'
<1> SUFFICES ASSUME NEW t \in Thread
             PROVE  /\ InWait(t)' =>
                         /\ (call'[t].mode = "user") # call'[t].alertable => "kill" \notin pending'[t]
                         /\ call'[t].mode = "user" /\ call'[t].alertable => "apc" \notin pending'[t]
                    /\ suspended'[t] \/ status'[t] = "suspended" => "kill" \notin pending'[t]
  BY DEF AlertsEndWaits
<1>1. /\ InWait(t) =>
           /\ (call[t].mode = "user") # call[t].alertable => "kill" \notin pending[t]
           /\ call[t].mode = "user" /\ call[t].alertable => "apc" \notin pending[t]
      /\ suspended[t] \/ status[t] = "suspended" => "kill" \notin pending[t]
  BY DEF AlertsEndWaits
<1>2. InWait(t)' => InWait(t) /\ call'[t] = call[t]
  BY DEF Relaxed, Thinned
<1>3. status'[t] = "suspended" => status[t] = "suspended"
  BY DEF Relaxed, Calm
<1> QED BY <1>1, <1>2, <1>3

LEMMA CalmOwners ==
  ASSUME OwnersLive, ObjectsTyped, NEW W, Relaxed(W),
         \A m \in Mutex : owner'[m] # Null => owner'[m] = owner[m] \/ status'[owner'[m]] = "running"
  PROVE  OwnersLive'
<1> SUFFICES ASSUME NEW m \in Mutex, owner'[m] # Null PROVE status'[owner'[m]] # "exited"
  BY DEF OwnersLive
<1>1. CASE owner'[m] = owner[m]
  <2>1. owner[m] \in Thread /\ status[owner[m]] # "exited"
    BY <1>1 DEF ObjectsTyped, OwnersLive
  <2> QED BY <2>1, <1>1 DEF Relaxed, Calm
<1>2. CASE status'[owner'[m]] = "running"
  BY <1>2
<1> QED BY <1>1, <1>2

\* A step that takes the threads of W off the lists keeps the invariant if it
\* keeps the objects right and misses nobody.
LEMMA RelaxedInv ==
  ASSUME Inv, NEW W, Relaxed(W), Spared(W), ObjectsTyped', OwnersRight',
         \A m \in Mutex : owner'[m] # Null => owner'[m] = owner[m] \/ status'[owner'[m]] = "running",
         AlertsTyped', AlertsEndWaits', ExitingRight'
  PROVE  Inv'
<1>1. ListsMatchWaits' /\ NoLostWakeup'
  BY ThinnedLists, SparedNotMissed DEF Inv, Relaxed
<1>2. StatusesRight' /\ OwnersLive'
  BY CalmStatuses, CalmOwners DEF Inv
<1> QED BY <1>1, <1>2 DEF Inv, Relaxed

LEMMA QuietInv ==
  ASSUME Inv, exiting = Null, UNCHANGED exiting, NEW W, Relaxed(W), Spared(W),
         ObjectsTyped', OwnersRight',
         \A m \in Mutex : owner'[m] # Null => owner'[m] = owner[m] \/ status'[owner'[m]] = "running",
         AlertsTyped', UNCHANGED <<pending, suspended>>
  PROVE  Inv'
<1>1. AlertsEndWaits'
  BY CalmAlerts DEF Inv
<1>2. ExitingRight'
  BY DEF ExitingRight
<1> QED BY <1>1, <1>2, RelaxedInv

\* The same for one that leaves all objects alone.
LEMMA SameObjectsInv ==
  ASSUME Inv, NEW W, Relaxed(W), UNCHANGED objects, AlertsTyped', AlertsEndWaits', ExitingRight'
  PROVE  Inv'
<1>1. Spared(W) /\ ObjectsTyped' /\ OwnersRight'
  BY SameObjectsSpare, SameObjectsRight, InvTypes
<1>2. UNCHANGED owner
  BY DEF objects
<1> QED BY <1>1, <1>2, RelaxedInv

LEMMA SameAlertsTyped ==
  ASSUME AlertsTyped, UNCHANGED alerts
  PROVE  AlertsTyped' /\ UNCHANGED <<pending, suspended>>
BY DEF AlertsTyped, alerts

LEMMA TakeUpTyped ==
  ASSUME AlertsTyped, NEW t \in Thread, NEW event, TakeUp(t, event)
  PROVE  triggered' \in [Thread -> BOOLEAN] /\ onWait' \in [Thread -> BOOLEAN]
BY DEF AlertsTyped, TakeUp

LEMMA InterruptionIs ==
  ASSUME NEW t, NEW w
  PROVE  Interruption(t, w) \in {"none"} \cup Failures
         /\ KiCheckWaitInterruptingEvents(t) \in {"none"} \cup Failures
BY DEF Interruption, KiCheckWaitInterruptingEvents, Failures

LEMMA InterruptedInv ==
  ASSUME Inv, exiting = Null, UNCHANGED exiting, NEW t \in Thread, status[t] = "running",
         NEW w \in Waits, Interrupted(t, w)
  PROVE  Inv'
<1>1. Relaxed({})
  <2>1. Interruption(t, w) \in Object \cup {"none", "all", Again} \cup Failures
    BY InterruptionIs
  <2> QED BY <2>1, ReturnRelaxed, InvTypes DEF Interrupted
<1>2. UNCHANGED objects /\ UNCHANGED <<pending, accepts, suspended>>
  BY DEF Interrupted
<1>3. AlertsTyped'
  BY <1>2, TakeUpTyped, InvTypes DEF Interrupted, AlertsTyped
<1>4. AlertsEndWaits'
  BY <1>1, <1>2, CalmAlerts DEF Inv
<1>5. ExitingRight'
  BY DEF ExitingRight
<1> QED BY <1>1, <1>2, <1>3, <1>4, <1>5, SameObjectsInv

LEMMA ReturnInv ==
  ASSUME Inv, exiting = Null, UNCHANGED <<exiting, objects, alerts>>, NEW t \in Thread,
         status[t] = "running", NEW result \in Failures, Return(t, result)
  PROVE  Inv'
<1>1. Relaxed({})
  BY ReturnRelaxed, InvTypes
<1>2. AlertsTyped' /\ UNCHANGED <<pending, suspended>>
  BY SameAlertsTyped, InvTypes
<1>3. AlertsEndWaits'
  BY <1>1, <1>2, CalmAlerts DEF Inv
<1>4. ExitingRight'
  BY DEF ExitingRight
<1> QED BY <1>1, <1>2, <1>3, <1>4, SameObjectsInv

LEMMA ConsumeInv ==
  ASSUME Inv, exiting = Null, UNCHANGED <<exiting, alerts>>, NEW t \in Thread, status[t] = "running",
         NEW S \in SUBSET Object, \A o \in S : Available(t, o) /\ ~Overflows(t, o), Consume(t, S),
         NEW result \in Object \cup {"all"}, Return(t, result)
  PROVE  Inv'
<1>1. Relaxed({})
  BY ReturnRelaxed, InvTypes
<1>2. AlertsTyped' /\ UNCHANGED <<pending, suspended>>
  BY SameAlertsTyped, InvTypes
<1>3. /\ ObjectsTyped'
      /\ OwnersRight'
      /\ \A m \in Mutex : owner'[m] = owner[m] \/ owner'[m] = t
      /\ \A o \in Object : signaled'[o] > 0 => signaled[o] > 0
  BY ConsumeRight, InvTypes
<1>4. Spared({})
  <2>1. \A o \in Object : t \notin waiters[o]
    BY WaitersSleep, InvTypes
  <2> QED BY <1>3, <2>1 DEF Spared, Available, Owns
<1>5. status'[t] = "running"
  BY DEF Return
<1> QED BY <1>1, <1>2, <1>3, <1>4, <1>5, QuietInv

LEMMA ObjectsOf ==
  ASSUME NEW w \in Waits
  PROVE  /\ Objects(w) \subseteq Object
         /\ w # Null
         /\ \A i \in DOMAIN w.objects : w.objects[i] \in Object
         /\ w.alertable \in BOOLEAN
         /\ w.type = "sleep" <=> w.objects = <<>>
         /\ w.type = "sleep" => Objects(w) = {}
         /\ w.type \in {"any", "all", "sleep"}
<1>1. /\ w.objects \in Seq(Object)
      /\ w # Null
      /\ w.alertable \in BOOLEAN
      /\ w.type = "sleep" <=> w.objects = <<>>
      /\ w.type \in {"any", "all", "sleep"}
  BY WaitAssumption
<1>2. \A i \in DOMAIN w.objects : w.objects[i] \in Object
  BY <1>1
<1> QED BY <1>1, <1>2 DEF Objects

\* A thread goes to sleep.
LEMMA SleepInv ==
  ASSUME Inv, exiting = Null, UNCHANGED <<exiting, alerts>>, NEW t \in Thread, status[t] = "running",
         NEW w \in Waits, NEW p \in Priority, KiThreadWait(t, w, p),
         Interruption(t, w) = "none", w.type = "sleep" \/ Unsatisfied(t, w)
  PROVE  Inv'
<1>1. WaitsTyped' /\ ListsMatchWaits'
  BY WaitLists, InvTypes
<1>2. AlertsTyped' /\ UNCHANGED <<pending, suspended>>
  BY SameAlertsTyped, InvTypes
<1>3. UNCHANGED objects
  BY DEF KiThreadWait
<1>4. ObjectsTyped' /\ OwnersRight' /\ ExitingRight'
  BY <1>3, SameObjectsRight, InvTypes DEF ExitingRight
<1>5. /\ status'[t] = IF w.alertable THEN "waitingalertable" ELSE "waitingunalertable"
      /\ call'[t] = w
      /\ \A u \in Thread \ {t} : status'[u] = status[u] /\ call'[u] = call[u]
  BY InvTypes DEF KiThreadWait, WaitsTyped
<1>6. \A u \in Thread \ {t} : InWait(u)' <=> InWait(u)
  BY <1>5 DEF InWait
<1>7. \A u \in Thread, o \in Object : Available(u, o)' <=> Available(u, o)
  BY <1>3 DEF objects, Available, Owns
<1>8. NoLostWakeup'
  <2> SUFFICES ASSUME NEW u \in Thread, InWait(u)'
               PROVE  /\ call'[u].type = "any" =>
                           \A o \in Objects(call'[u]) : ~Available(u, o)'
                      /\ call'[u].type = "all" =>
                           \E o \in Objects(call'[u]) : ~Available(u, o)'
    BY DEF NoLostWakeup, CanHaveAll
  <2>1. CASE u = t
    <3>1. Objects(w) \subseteq Object
      BY ObjectsOf
    <3>2. /\ w.type = "any" => \A o \in Objects(w) : ~Available(t, o)
          /\ w.type = "all" => \E o \in Objects(w) : ~Available(t, o)
      BY DEF Unsatisfied, CanHaveAll
    <3> QED BY <2>1, <3>1, <3>2, <1>5, <1>7
  <2>2. CASE u # t
    <3>1. InWait(u) /\ call'[u] = call[u]
      BY <2>2, <1>5, <1>6
    <3>2. call[u] \in Waits
      BY <3>1, InvTypes DEF WaitsTyped, InWait
    <3>3. Objects(call[u]) \subseteq Object
      BY <3>2, ObjectsOf
    <3>4. /\ call[u].type = "any" => \A o \in Objects(call[u]) : ~Available(u, o)
          /\ call[u].type = "all" => \E o \in Objects(call[u]) : ~Available(u, o)
      BY <3>1 DEF Inv, NoLostWakeup, CanHaveAll
    <3> QED BY <3>1, <3>3, <3>4, <1>7
  <2> QED BY <2>1, <2>2
<1>9. StatusesRight'
  <2> SUFFICES ASSUME NEW u \in Thread PROVE StatusRight(u)'
    BY DEF StatusesRight
  <2>1. CASE u = t
    <3>1. status'[t] # "suspended" /\ (status'[t] = "waitingalertable" <=> w.alertable)
      BY <1>5, ObjectsOf
    <3> QED BY <2>1, <3>1, <1>5 DEF StatusRight
  <2>2. CASE u # t
    BY <2>2, <1>5, <1>6 DEF Inv, StatusesRight, StatusRight
  <2> QED BY <2>1, <2>2
<1>10. OwnersLive'
  <2>1. status'[t] # "exited"
    BY <1>5
  <2> QED BY <2>1, <1>3, <1>5 DEF objects, Inv, OwnersLive, ObjectsTyped
<1>11. AlertsEndWaits'
  <2> SUFFICES ASSUME NEW u \in Thread
               PROVE  /\ InWait(u)' =>
                           /\ (call'[u].mode = "user") # call'[u].alertable => "kill" \notin pending[u]
                           /\ call'[u].mode = "user" /\ call'[u].alertable => "apc" \notin pending[u]
                      /\ suspended[u] \/ status'[u] = "suspended" => "kill" \notin pending[u]
    BY <1>2 DEF AlertsEndWaits
  <2>1. /\ InWait(u) =>
             /\ (call[u].mode = "user") # call[u].alertable => "kill" \notin pending[u]
             /\ call[u].mode = "user" /\ call[u].alertable => "apc" \notin pending[u]
        /\ suspended[u] \/ status[u] = "suspended" => "kill" \notin pending[u]
    BY DEF Inv, AlertsEndWaits
  <2>2. CASE u = t
    <3>1. status'[t] # "suspended"
      BY <1>5
    <3>2. w.alertable \in BOOLEAN
      BY ObjectsOf
    <3>3. (w.mode = "user") # w.alertable => "kill" \notin pending[t]
      BY <3>2 DEF Interruption
    <3>4. w.mode = "user" /\ w.alertable => "apc" \notin pending[t]
      BY DEF Interruption, KiCheckWaitInterruptingEvents
    <3> QED BY <2>1, <2>2, <3>1, <3>3, <3>4, <1>5
  <2>3. CASE u # t
    BY <2>1, <2>3, <1>5, <1>6
  <2> QED BY <2>2, <2>3
<1> QED BY <1>1, <1>2, <1>4, <1>8, <1>9, <1>10, <1>11 DEF Inv

LEMMA TakesInv ==
  ASSUME Inv, exiting = Null, UNCHANGED <<exiting, alerts>>, NEW t \in Thread, status[t] = "running",
         NEW w \in Waits, SatisfiedAny(t, w) \/ SatisfiedAll(t, w)
  PROVE  Inv'
<1>1. ASSUME SatisfiedAny(t, w) PROVE Inv'
  <2>1. PICK i \in DOMAIN w.objects :
          /\ Found(t, w, i)
          /\ ~Overflows(t, w.objects[i])
          /\ Consume(t, {w.objects[i]})
          /\ Return(t, w.objects[i])
    BY <1>1 DEF SatisfiedAny
  <2> DEFINE o == w.objects[i]
  <2>2. o \in Object
    BY ObjectsOf
  <2>3. Available(t, o) /\ ~Overflows(t, o) /\ Consume(t, {o}) /\ Return(t, o)
    BY <2>1 DEF Found
  <2> HIDE DEF o
  <2>4. {o} \in SUBSET Object /\ \A x \in {o} : Available(t, x) /\ ~Overflows(t, x)
    BY <2>2, <2>3
  <2> QED BY <2>2, <2>3, <2>4, ConsumeInv
<1>2. ASSUME SatisfiedAll(t, w) PROVE Inv'
  <2> DEFINE S == TakenTogether(t, w)
  <2>1. S \in SUBSET Object /\ S \subseteq Objects(w)
    BY ObjectsOf DEF TakenTogether
  <2>2. \A o \in S : Available(t, o) /\ ~Overflows(t, o)
    BY <1>2, <2>1 DEF SatisfiedAll, CanHaveAll
  <2>3. Consume(t, S) /\ Return(t, "all")
    BY <1>2 DEF SatisfiedAll
  <2>4. "all" \in Object \cup {"all"}
    OBVIOUS
  <2> HIDE DEF S
  <2> QED BY <2>1, <2>2, <2>3, <2>4, ConsumeInv
<1> QED BY <1>1, <1>2

LEMMA WaitInv ==
  ASSUME Inv, exiting = Null, UNCHANGED exiting, NEW t \in Thread, Wait(t)
  PROVE  Inv'
<1>1. status[t] = "running"
  BY DEF Wait
<1>2. PICK w \in Waits : KeThreadWaitForMultipleObjects(t, w) \/ KeThreadSleep(t, w)
  <2>1. call[t] \in Waits \cup {Null}
    BY InvTypes DEF WaitsTyped
  <2> QED BY <2>1 DEF Wait
<1>3. "no" \in Failures /\ "overflow" \in Failures
  BY DEF Failures
<1>4. 0 \in Priority
  BY WaitAssumption
<1>5. CASE Interrupted(t, w)
  BY <1>1, <1>5, InterruptedInv
<1>6. CASE Interruption(t, w) = "none" /\ UNCHANGED alerts /\ KeThreadSleep(t, w) /\ ~Interrupted(t, w)
  <2>1. w.type = "sleep" /\ IF w.timeout = "none"
                            THEN Return(t, "no") /\ UNCHANGED objects
                            ELSE KiThreadWait(t, w, 0)
    BY <1>6 DEF KeThreadSleep
  <2>2. CASE w.timeout = "none"
    BY <1>1, <1>3, <1>6, <2>1, <2>2, ReturnInv
  <2>3. CASE w.timeout # "none"
    BY <1>1, <1>4, <1>6, <2>1, <2>3, SleepInv
  <2> QED BY <2>2, <2>3
<1>7. CASE Interruption(t, w) = "none" /\ UNCHANGED alerts
           /\ KeThreadWaitForMultipleObjects(t, w) /\ ~Interrupted(t, w)
  <2>1. \/ SatisfiedAny(t, w)
        \/ SatisfiedAll(t, w)
        \/ HeldTooOften(t, w)
        \/ /\ Unsatisfied(t, w)
           /\ IF w.timeout = "none"
              THEN Return(t, "no") /\ UNCHANGED objects
              ELSE \E p \in Priority : KiThreadWait(t, w, p)
    BY <1>7 DEF KeThreadWaitForMultipleObjects
  <2>2. CASE SatisfiedAny(t, w) \/ SatisfiedAll(t, w)
    BY <1>1, <1>7, <2>2, TakesInv
  <2>3. CASE HeldTooOften(t, w)
    <3>1. Return(t, "overflow") /\ UNCHANGED objects
      BY <2>3 DEF HeldTooOften
    <3> QED BY <1>1, <1>3, <1>7, <3>1, ReturnInv
  <2>4. CASE Unsatisfied(t, w) /\ Return(t, "no") /\ UNCHANGED objects
    BY <1>1, <1>3, <1>7, <2>4, ReturnInv
  <2>5. CASE Unsatisfied(t, w) /\ \E p \in Priority : KiThreadWait(t, w, p)
    BY <1>1, <1>7, <2>5, SleepInv
  <2> QED BY <2>1, <2>2, <2>3, <2>4, <2>5
<1>8. Interrupted(t, w) \/ (Interruption(t, w) = "none" /\ UNCHANGED alerts)
  BY <1>2 DEF KeThreadWaitForMultipleObjects, KeThreadSleep
<1> QED BY <1>2, <1>5, <1>6, <1>7, <1>8

LEMMA TimeoutInv ==
  ASSUME Inv, exiting = Null, UNCHANGED exiting, NEW t \in Thread, KeTimerExpire(t)
  PROVE  Inv'
<1>1. Relaxed({t})
  BY WakeRelaxed, InvTypes DEF KeTimerExpire, Failures
<1>2. AlertsTyped' /\ UNCHANGED <<pending, suspended>> /\ UNCHANGED objects
  BY SameAlertsTyped, InvTypes DEF KeTimerExpire
<1>3. AlertsEndWaits' /\ ExitingRight'
  BY <1>1, <1>2, CalmAlerts DEF Inv, ExitingRight
<1> QED BY <1>1, <1>2, <1>3, SameObjectsInv

LEMMA BoostInv ==
  ASSUME Inv, exiting = Null, UNCHANGED exiting, NEW t \in Thread, NEW p \in Priority,
         KeThreadBoost(t, p)
  PROVE  Inv'
<1>1. Relaxed({})
  BY BoostRelaxed, InvTypes
<1>2. AlertsTyped' /\ UNCHANGED <<pending, suspended>> /\ UNCHANGED objects
  BY SameAlertsTyped, InvTypes DEF KeThreadBoost
<1>3. AlertsEndWaits' /\ ExitingRight'
  BY <1>1, <1>2, CalmAlerts DEF Inv, ExitingRight
<1> QED BY <1>1, <1>2, <1>3, SameObjectsInv

-----------------------------------------------------------------------------
(***************************************************************************)
(* The steps that signal objects.                                          *)
(***************************************************************************)

\* Signaling an event or a semaphore, waking the threads of W.
LEMMA SignalInv ==
  ASSUME Inv, exiting = Null, UNCHANGED <<exiting, owner, apcDisable, alerts>>,
         NEW o \in Object, o \notin Mutex, NEW n \in Int, InRange(o, n),
         signaled' = [signaled EXCEPT ![o] = n],
         NEW W \in SUBSET waiters[o], KiThreadWakeup(W, WaitStatus(o)),
         n > 0 => signaled[o] > 0 \/ W = waiters[o]
  PROVE  Inv'
<1>1. Relaxed(W)
  BY GrantRelaxed, InvTypes
<1>2. Spared(W)
  BY SignalSpares, InvTypes
<1>3. ObjectsTyped' /\ OwnersRight'
  BY SignalRight, InvTypes
<1>4. AlertsTyped' /\ UNCHANGED <<pending, suspended>>
  BY SameAlertsTyped, InvTypes
<1>5. \A m \in Mutex : owner'[m] = owner[m]
  OBVIOUS
<1> QED BY <1>1, <1>2, <1>3, <1>4, <1>5, QuietInv

LEMMA EventRange ==
  ASSUME NEW e \in Object, Kind[e] \in {"notification", "synchronization"}
  PROVE  e \notin Mutex /\ InRange(e, 0) /\ InRange(e, 1)
BY DEF Mutex, InRange

LEMMA ReachedIs ==
  ASSUME Inv, NEW o \in Object
  PROVE  Reached(o, 1) \in SUBSET waiters[o]
         /\ (AnyWaiters(o) = {} => Reached(o, 1) = waiters[o])
BY Served, ServedOne, InvTypes

\* Who waits for any object keeps it from being signaled.
LEMMA NobodyMissed ==
  ASSUME Inv, NEW o \in Object, AnyWaiters(o) # {}
  PROVE  ~(signaled[o] > 0)
<1>1. PICK t \in waiters[o] : call[t].type = "any"
  BY DEF AnyWaiters
<1>2. t \in Thread /\ InWait(t) /\ o \in Objects(call[t])
  BY <1>1, WaitersSleep, InvTypes
<1>3. ~Available(t, o)
  BY <1>1, <1>2 DEF Inv, NoLostWakeup
<1> QED BY <1>3 DEF Available

LEMMA EventSignalInv ==
  ASSUME Inv, exiting = Null, UNCHANGED exiting, NEW e \in Object, KeEventSignal(e)
  PROVE  Inv'
<1>1. UNCHANGED <<owner, apcDisable, alerts>>
  BY DEF KeEventSignal
<1>2. CASE Kind[e] = "notification" /\ signaled' = [signaled EXCEPT ![e] = 1]
           /\ KiThreadWakeup(waiters[e], WaitStatus(e))
  <2> DEFINE n == 1
             W == waiters[e]
  <2>1. e \notin Mutex /\ n \in Int /\ InRange(e, n)
    BY <1>2, EventRange
  <2>2. signaled' = [signaled EXCEPT ![e] = n] /\ W \in SUBSET waiters[e]
        /\ KiThreadWakeup(W, WaitStatus(e)) /\ W = waiters[e]
    BY <1>2
  <2> HIDE DEF n, W
  <2> QED BY <1>1, <2>1, <2>2, SignalInv
<1>3. CASE Kind[e] = "synchronization" /\ signaled' = [signaled EXCEPT ![e] = SignalLeft(e)]
           /\ Grant(e, 1)
  <2>1. e \notin Mutex /\ InRange(e, 0) /\ InRange(e, 1)
    BY <1>3, EventRange
  <2> DEFINE n == SignalLeft(e)
  <2>2. n \in Int /\ InRange(e, n) /\ (n > 0 => AnyWaiters(e) = {})
    BY <2>1 DEF SignalLeft
  <2>3. signaled' = [signaled EXCEPT ![e] = n] /\ KiThreadWakeup(Reached(e, 1), WaitStatus(e))
    BY <1>3 DEF Grant
  <2> HIDE DEF n
  <2> QED BY <1>1, <2>1, <2>2, <2>3, ReachedIs, SignalInv
<1> QED BY <1>2, <1>3 DEF KeEventSignal

LEMMA EventSignalGetWaiterInv ==
  ASSUME Inv, exiting = Null, UNCHANGED exiting, NEW e \in Object, KeEventSignalGetWaiter(e)
  PROVE  Inv'
<1>1. e \notin Mutex /\ InRange(e, 1)
  BY EventRange DEF KeEventSignalGetWaiter
<1> DEFINE n == IF AnyWaiters(e) = {} THEN 1 ELSE signaled[e]
<1>2. n \in Int /\ InRange(e, n) /\ (n > 0 => signaled[e] > 0 \/ AnyWaiters(e) = {})
  BY <1>1, InvTypes DEF ObjectsTyped, Counters
<1>3. /\ signaled' = [signaled EXCEPT ![e] = n]
      /\ KiThreadWakeup(Reached(e, 1), WaitStatus(e))
      /\ UNCHANGED <<owner, apcDisable, alerts>>
  BY InvTypes DEF KeEventSignalGetWaiter, Grant, ObjectsTyped, Counters
<1> HIDE DEF n
<1> QED BY <1>1, <1>2, <1>3, ReachedIs, SignalInv

LEMMA EventPulseInv ==
  ASSUME Inv, exiting = Null, UNCHANGED exiting, NEW e \in Object, KeEventPulse(e)
  PROVE  Inv'
<1>1. UNCHANGED <<owner, apcDisable, alerts>>
  BY DEF KeEventPulse
<1>2. CASE Kind[e] = "notification" /\ signaled' = [signaled EXCEPT ![e] = 0]
           /\ KiThreadWakeup(waiters[e], WaitStatus(e))
  <2> DEFINE n == 0
             W == waiters[e]
  <2>1. e \notin Mutex /\ n \in Int /\ InRange(e, n)
    BY <1>2, EventRange
  <2>2. signaled' = [signaled EXCEPT ![e] = n] /\ W \in SUBSET waiters[e]
        /\ KiThreadWakeup(W, WaitStatus(e)) /\ W = waiters[e]
    BY <1>2
  <2> HIDE DEF n, W
  <2> QED BY <1>1, <2>1, <2>2, SignalInv
<1>3. CASE Kind[e] = "synchronization" /\ UNCHANGED signaled /\ Grant(e, 1)
  <2>1. e \notin Mutex
    BY <1>3, EventRange
  <2> DEFINE n == signaled[e]
  <2>2. n \in Int /\ InRange(e, n) /\ signaled' = [signaled EXCEPT ![e] = n]
    BY <1>3, InvTypes DEF ObjectsTyped, Counters
  <2>3. KiThreadWakeup(Reached(e, 1), WaitStatus(e)) /\ (n > 0 => signaled[e] > 0)
    BY <1>3 DEF Grant
  <2> HIDE DEF n
  <2> QED BY <1>1, <2>1, <2>2, <2>3, ReachedIs, SignalInv
<1> QED BY <1>2, <1>3 DEF KeEventPulse

\* A count changes and nobody wakes.
LEMMA CountInv ==
  ASSUME Inv, exiting = Null, UNCHANGED <<exiting, owner, apcDisable, waits, alerts>>,
         NEW o \in Object, o \notin Mutex, NEW n \in Int, InRange(o, n),
         signaled' = [signaled EXCEPT ![o] = n], n > 0 => signaled[o] > 0
  PROVE  Inv'
<1>1. Relaxed({})
  BY SameWaitsRelaxed, InvTypes
<1>2. Spared({})
  BY SignalSpares, InvTypes
<1>3. ObjectsTyped' /\ OwnersRight'
  BY SignalRight, InvTypes
<1>4. AlertsTyped' /\ UNCHANGED <<pending, suspended>>
  BY SameAlertsTyped, InvTypes
<1>5. \A m \in Mutex : owner'[m] = owner[m]
  OBVIOUS
<1> QED BY <1>1, <1>2, <1>3, <1>4, <1>5, QuietInv

LEMMA EventResetInv ==
  ASSUME Inv, exiting = Null, UNCHANGED exiting, NEW e \in Object, KeEventReset(e)
  PROVE  Inv'
<1> DEFINE n == 0
<1>1. e \notin Mutex /\ n \in Int /\ InRange(e, n) /\ ~(n > 0)
  BY EventRange DEF KeEventReset
<1>2. signaled' = [signaled EXCEPT ![e] = n] /\ UNCHANGED <<owner, apcDisable, waits, alerts>>
  BY DEF KeEventReset
<1> HIDE DEF n
<1> QED BY <1>1, <1>2, CountInv

LEMMA SemaphoreInv ==
  ASSUME Inv, exiting = Null, UNCHANGED exiting, NEW s \in Object, NEW n \in Releases,
         KeSemaphoreRelease(s, n)
  PROVE  Inv'
<1>0. n \in Nat /\ n # 0 /\ MaxCount \in Nat
  BY WaitAssumption
<1>1. /\ s \notin Mutex
      /\ \A k \in 0 .. MaxCount : InRange(s, k)
      /\ signaled[s] \in 0 .. MaxCount
  BY InvTypes DEF KeSemaphoreRelease, Mutex, InRange, ObjectsTyped
<1>2. signaled[s] + n <= MaxCount /\ UNCHANGED <<owner, apcDisable, alerts>>
  BY DEF KeSemaphoreRelease
<1>3. CASE signaled[s] = 0
  <2> DEFINE k == n - Cardinality(AnyFirst(s, n))
             W == Reached(s, n)
  <2>1. /\ Cardinality(AnyFirst(s, n)) \in 0 .. n
        /\ W \subseteq waiters[s]
        /\ Cardinality(AnyFirst(s, n)) < n => W = waiters[s]
    BY <1>0, Served, InvTypes
  <2>2. k \in 0 .. MaxCount /\ k \in Int /\ (k > 0 => W = waiters[s])
    BY <1>0, <1>1, <1>2, <1>3, <2>1
  <2>3. signaled' = [signaled EXCEPT ![s] = k] /\ KiThreadWakeup(W, WaitStatus(s))
    BY <1>3 DEF KeSemaphoreRelease, Grant
  <2>4. InRange(s, k) /\ W \in SUBSET waiters[s]
    BY <1>1, <2>1, <2>2
  <2> HIDE DEF k, W
  <2> QED BY <1>1, <1>2, <2>2, <2>3, <2>4, SignalInv
<1>4. CASE signaled[s] # 0
  <2> DEFINE k == signaled[s] + n
  <2>1. k \in 0 .. MaxCount /\ k \in Int /\ signaled[s] > 0
    BY <1>0, <1>1, <1>2, <1>4
  <2>2. signaled' = [signaled EXCEPT ![s] = k] /\ UNCHANGED waits
    BY <1>4 DEF KeSemaphoreRelease
  <2>3. InRange(s, k)
    BY <1>1, <2>1
  <2> HIDE DEF k
  <2> QED BY <1>1, <1>2, <2>1, <2>2, <2>3, CountInv
<1> QED BY <1>3, <1>4

\* A mutex that is held more than once is released.
LEMMA ReleaseOnceInv ==
  ASSUME Inv, exiting = Null, UNCHANGED <<exiting, owner, apcDisable, waits, alerts>>,
         NEW m \in Mutex, owner[m] # Null, signaled[m] < 0,
         signaled' = [signaled EXCEPT ![m] = @ + 1]
  PROVE  Inv'
<1>1. m \in Object /\ signaled[m] \in Int /\ InRange(m, signaled[m])
  BY MutexIsObject, InvTypes DEF ObjectsTyped, Counters
<1> DEFINE n == signaled[m] + 1
<1>2. signaled' = [signaled EXCEPT ![m] = n] /\ n \in Int /\ n <= 0 /\ n # 1
  BY <1>1, InvTypes DEF ObjectsTyped, Counters
<1>3. InRange(m, n)
  BY <1>1, WaitAssumption DEF InRange
<1> HIDE DEF n
<1>4. \A x \in Object : signaled'[x] = IF x = m THEN n ELSE signaled[x]
  BY <1>2, InvTypes DEF ObjectsTyped, Counters
<1>5. Counters'
  BY <1>2, InvTypes DEF ObjectsTyped, Counters
<1>6. ObjectsTyped'
  BY <1>3, <1>4, <1>5, InvTypes DEF ObjectsTyped
<1>7. OwnersRight'
  BY <1>2, <1>4, MutexIsObject, InvTypes DEF OwnersRight
<1>8. Relaxed({})
  BY SameWaitsRelaxed, InvTypes
<1>9. ~(n > 0)
  BY <1>2
<1>10. Spared({})
  BY <1>1, <1>2, <1>9, SignalSpares, InvTypes
<1>11. AlertsTyped' /\ UNCHANGED <<pending, suspended>>
  BY SameAlertsTyped, InvTypes
<1>12. \A x \in Mutex : owner'[x] = owner[x]
  OBVIOUS
<1> QED BY <1>6, <1>7, <1>8, <1>10, <1>11, <1>12, QuietInv

\* A mutex is let go.
LEMMA HandOverInv ==
  ASSUME Inv, NEW m \in Mutex, NEW t \in Thread, owner[m] = t, InUserMode(t), HandOver(m, t),
         UNCHANGED <<exiting, alerts>>, exiting \in {Null, t}
  PROVE  Inv'
<1>1. status[t] = "running" /\ call[t] = Null
  BY DEF InUserMode
<1>2. /\ ObjectsTyped'
      /\ OwnersRight'
      /\ Spared(Reached(m, 1))
      /\ \E y \in Thread \cup {Null} :
           /\ owner' = [owner EXCEPT ![m] = y]
           /\ y # Null => status'[y] = "running"
  BY <1>1, HandOverRight, InvTypes
<1>3. \A x \in Mutex : owner'[x] # Null => owner'[x] = owner[x] \/ status'[owner'[x]] = "running"
  BY <1>2, InvTypes DEF ObjectsTyped
<1>4. m \in Object
  BY MutexIsObject
<1>5. Reached(m, 1) \in SUBSET waiters[m]
  BY <1>4, ReachedIs
<1>6. KiThreadWakeup(Reached(m, 1), WaitStatus(m))
  BY DEF HandOver, Grant
<1>7. Relaxed(Reached(m, 1))
  BY <1>4, <1>5, <1>6, GrantRelaxed, InvTypes
<1>8. t \notin Reached(m, 1)
  BY <1>1, <1>4, <1>5, WaitersSleep, InvTypes
<1>9. ExitingRight'
  <2>1. status'[t] = "running" /\ call'[t] = Null
    BY <1>1, <1>6, <1>8 DEF KiThreadWakeup
  <2> QED BY <2>1 DEF ExitingRight, InUserMode
<1>10. AlertsTyped' /\ UNCHANGED <<pending, suspended>>
  BY SameAlertsTyped, InvTypes
<1>11. AlertsEndWaits'
  BY <1>7, <1>10, CalmAlerts DEF Inv
<1> QED BY <1>2, <1>3, <1>7, <1>9, <1>10, <1>11, RelaxedInv

LEMMA MutexReleaseInv ==
  ASSUME Inv, exiting = Null, UNCHANGED exiting, NEW m \in Mutex, KeMutexRelease(m)
  PROVE  Inv'
<1>1. owner[m] \in Thread /\ InUserMode(owner[m]) /\ UNCHANGED alerts
  BY InvTypes DEF KeMutexRelease, ObjectsTyped, InUserMode
<1>2. CASE signaled[m] < 0
  BY <1>1, <1>2, ReleaseOnceInv DEF KeMutexRelease
<1>3. CASE ~(signaled[m] < 0)
  <2>1. HandOver(m, owner[m])
    BY <1>3 DEF KeMutexRelease
  <2> QED BY <1>1, <2>1, HandOverInv
<1> QED BY <1>2, <1>3

LEMMA AbandonInv ==
  ASSUME Inv, exiting # Null, NEW m \in Mutex, Abandon(m)
  PROVE  Inv'
<1>1. exiting \in Thread /\ InUserMode(exiting)
  BY DEF Inv, ExitingRight
<1>2. owner[m] = exiting /\ HandOver(m, exiting) /\ UNCHANGED <<exiting, alerts>>
  BY DEF Abandon
<1> QED BY <1>1, <1>2, HandOverInv

-----------------------------------------------------------------------------
(***************************************************************************)
(* APCs, signals, termination and suspension.                              *)
(***************************************************************************)

\* AlertsEndWaits of one thread.
AlertRight(t) ==
  /\ InWait(t) =>
       /\ (call[t].mode = "user") # call[t].alertable => "kill" \notin pending[t]
       /\ call[t].mode = "user" /\ call[t].alertable => "apc" \notin pending[t]
  /\ suspended[t] \/ status[t] = "suspended" => "kill" \notin pending[t]

LEMMA OneAlerted ==
  ASSUME AlertsEndWaits, NEW W, Relaxed(W), NEW t \in Thread, AlertRight(t)',
         \A u \in Thread \ {t} : pending'[u] = pending[u] /\ suspended'[u] = suspended[u]
  PROVE  AlertsEndWaits'
<1>1. ASSUME NEW u \in Thread \ {t} PROVE AlertRight(u)'
  <2>1. AlertRight(u)
    BY DEF AlertsEndWaits, AlertRight
  <2>2. InWait(u)' => InWait(u) /\ call'[u] = call[u]
    BY DEF Relaxed, Thinned
  <2>3. status'[u] = "suspended" => status[u] = "suspended"
    BY DEF Relaxed, Calm
  <2> QED BY <2>1, <2>2, <2>3 DEF AlertRight
<1> QED BY <1>1 DEF AlertsEndWaits, AlertRight

LEMMA AlertInv ==
  ASSUME Inv, exiting = Null, UNCHANGED <<exiting, objects>>, NEW W, Relaxed(W), NEW t \in Thread,
         AlertsTyped', AlertRight(t)',
         \A u \in Thread \ {t} : pending'[u] = pending[u] /\ suspended'[u] = suspended[u]
  PROVE  Inv'
<1>1. AlertsEndWaits'
  BY OneAlerted DEF Inv
<1>2. ExitingRight'
  BY DEF ExitingRight
<1> QED BY <1>1, <1>2, SameObjectsInv

LEMMA AlertRightNow == ASSUME Inv, NEW t \in Thread PROVE AlertRight(t) /\ StatusRight(t)
BY DEF Inv, AlertsEndWaits, AlertRight, StatusesRight

LEMMA KernelAPCInv ==
  ASSUME Inv, exiting = Null, UNCHANGED exiting, NEW t \in Thread, KeAPCEnqueue(t)
  PROVE  Inv'
<1>1. Relaxed({t})
  BY WakeRelaxed, InvTypes DEF KeAPCEnqueue
<1>2. AlertsTyped' /\ UNCHANGED <<pending, suspended>> /\ UNCHANGED objects
  BY SameAlertsTyped, InvTypes DEF KeAPCEnqueue
<1>3. AlertsEndWaits' /\ ExitingRight'
  BY <1>1, <1>2, CalmAlerts DEF Inv, ExitingRight
<1> QED BY <1>1, <1>2, <1>3, SameObjectsInv

LEMMA UserAPCInv ==
  ASSUME Inv, exiting = Null, UNCHANGED exiting, NEW t \in Thread, KeAPCEnqueueUser(t)
  PROVE  Inv'
<1>1. /\ pending' = [pending EXCEPT ![t] = @ \cup {"apc"}]
      /\ UNCHANGED <<accepts, onWait, suspended>> /\ UNCHANGED objects
  BY DEF KeAPCEnqueueUser
<1>2. /\ pending'[t] = pending[t] \cup {"apc"}
      /\ \A u \in Thread \ {t} : pending'[u] = pending[u] /\ suspended'[u] = suspended[u]
  BY <1>1, InvTypes DEF AlertsTyped
<1>3. AlertRight(t) /\ StatusRight(t)
  BY AlertRightNow
<1>4. CASE status[t] = "waitingalertable" /\ call[t].mode = "user"
  <2>1. triggered' = [triggered EXCEPT ![t] = TRUE] /\ Wake(t, "userapc")
    BY <1>4 DEF KeAPCEnqueueUser
  <2>2. Relaxed({t}) /\ status'[t] = "running"
    BY <2>1, WakeRelaxed, InvTypes DEF Failures
  <2>3. AlertsTyped'
    BY <1>1, <2>1, InvTypes DEF AlertsTyped
  <2>4. AlertRight(t)'
    BY <1>1, <1>2, <1>3, <2>2 DEF AlertRight, InWait, Asleep
  <2> QED BY <1>1, <1>2, <2>2, <2>3, <2>4, AlertInv
<1>5. CASE ~(status[t] = "waitingalertable" /\ call[t].mode = "user")
  <2>1. UNCHANGED triggered /\ UNCHANGED waits
    BY <1>5 DEF KeAPCEnqueueUser
  <2>2. Relaxed({})
    BY <2>1, SameWaitsRelaxed, InvTypes
  <2>3. AlertsTyped'
    BY <1>1, <2>1, InvTypes DEF AlertsTyped
  <2>4. AlertRight(t)'
    BY <1>1, <1>2, <1>3, <1>5, <2>1 DEF AlertRight, StatusRight, InWait, waits
  <2> QED BY <1>1, <1>2, <2>2, <2>3, <2>4, AlertInv
<1> QED BY <1>4, <1>5

\* Steps of APCs and signals that leave waits alone and make none pending.
LEMMA FewerAlertsInv ==
  ASSUME Inv, exiting = Null, UNCHANGED <<exiting, objects, waits>>, NEW t \in Thread, AlertsTyped',
         \A u \in Thread : pending'[u] \subseteq pending[u],
         \A u \in Thread \ {t} : pending'[u] = pending[u] /\ suspended'[u] = suspended[u],
         suspended'[t] => suspended[t] \/ "kill" \notin pending[t]
  PROVE  Inv'
<1>1. Relaxed({})
  BY SameWaitsRelaxed, InvTypes
<1>2. AlertRight(t)
  BY AlertRightNow
<1>3. InWait(t)' = InWait(t) /\ call'[t] = call[t] /\ status'[t] = status[t]
  BY DEF waits, InWait
<1>4. AlertRight(t)'
  BY <1>2, <1>3 DEF AlertRight
<1> QED BY <1>1, <1>4, AlertInv

LEMMA DispatchUserAPCInv ==
  ASSUME Inv, exiting = Null, UNCHANGED exiting, NEW t \in Thread, KeAPCDispatchQueueUser(t)
  PROVE  Inv'
<1>1. /\ AlertsTyped'
      /\ \A u \in Thread : pending'[u] \subseteq pending[u]
      /\ \A u \in Thread \ {t} : pending'[u] = pending[u] /\ suspended'[u] = suspended[u]
      /\ suspended'[t] = suspended[t]
  BY InvTypes DEF KeAPCDispatchQueueUser, AlertsTyped
<1>2. UNCHANGED <<objects, waits>>
  BY DEF KeAPCDispatchQueueUser
<1> QED BY <1>1, <1>2, FewerAlertsInv

LEMMA MaskSignalInv ==
  ASSUME Inv, exiting = Null, UNCHANGED exiting, NEW t \in Thread,
         KeThreadMaskSignal(t) \/ KeThreadDeliverOnWaitSignal(t)
  PROVE  Inv'
<1>1. /\ AlertsTyped'
      /\ UNCHANGED <<pending, suspended>>
  BY InvTypes DEF KeThreadMaskSignal, KeThreadDeliverOnWaitSignal, AlertsTyped
<1>2. UNCHANGED <<objects, waits>>
  BY DEF KeThreadMaskSignal, KeThreadDeliverOnWaitSignal
<1> QED BY <1>1, <1>2, FewerAlertsInv

LEMMA DispatchSignalInv ==
  ASSUME Inv, exiting = Null, UNCHANGED exiting, NEW t \in Thread, KeThreadDispatchSignal(t)
  PROVE  Inv'
<1>1. /\ AlertsTyped'
      /\ \A u \in Thread : pending'[u] \subseteq pending[u]
      /\ \A u \in Thread \ {t} : pending'[u] = pending[u] /\ suspended'[u] = suspended[u]
      /\ suspended'[t] = suspended[t]
  BY InvTypes DEF KeThreadDispatchSignal, AlertsTyped
<1>2. UNCHANGED <<objects, waits>>
  BY DEF KeThreadDispatchSignal
<1> QED BY <1>1, <1>2, FewerAlertsInv

LEMMA SuspendInv ==
  ASSUME Inv, exiting = Null, UNCHANGED exiting, NEW t \in Thread, KeThreadSuspend(t)
  PROVE  Inv'
<1>1. /\ AlertsTyped'
      /\ UNCHANGED pending
      /\ \A u \in Thread \ {t} : suspended'[u] = suspended[u]
      /\ "kill" \notin pending[t]
  BY InvTypes DEF KeThreadSuspend, AlertsTyped
<1>2. UNCHANGED <<objects, waits>>
  BY DEF KeThreadSuspend
<1> QED BY <1>1, <1>2, FewerAlertsInv

LEMMA ResumeInv ==
  ASSUME Inv, exiting = Null, UNCHANGED exiting, NEW t \in Thread, KeThreadResume(t)
  PROVE  Inv'
<1>1. /\ AlertsTyped'
      /\ UNCHANGED pending /\ UNCHANGED objects
      /\ \A u \in Thread \ {t} : suspended'[u] = suspended[u]
      /\ ~suspended'[t]
  BY InvTypes DEF KeThreadResume, AlertsTyped
<1>2. CASE status[t] = "suspended"
  <2>1. Wake(t, "none")
    BY <1>2 DEF KeThreadResume
  <2>2. Relaxed({t}) /\ status'[t] = "running"
    BY <2>1, WakeRelaxed, InvTypes
  <2>3. AlertRight(t)'
    BY <1>1, <2>2 DEF AlertRight, InWait, Asleep
  <2> QED BY <1>1, <2>2, <2>3, AlertInv
<1>3. CASE status[t] # "suspended"
  <2>1. UNCHANGED waits
    BY <1>3 DEF KeThreadResume
  <2> QED BY <1>1, <2>1, FewerAlertsInv
<1> QED BY <1>2, <1>3

\* Signals that are pending end a wait, or leave it and its thread alone.
LEMMA SignalsEndWait ==
  ASSUME Inv, NEW t \in Thread, NEW sig, NEW acc, NEW susp \in BOOLEAN,
         KiThreadWakeForSignal(t, sig, acc, susp)
  PROVE  /\ onWait' \in [Thread -> BOOLEAN] /\ suspended' \in [Thread -> BOOLEAN]
         /\ suspended'[t] => susp
         /\ \A u \in Thread \ {t} : suspended'[u] = suspended[u]
         /\ \/ Relaxed({t}) /\ status'[t] = "running"
            \/ Relaxed({}) /\ UNCHANGED waits /\ ~(status[t] \in Asleep /\ KilledIn(t, sig))
<1> DEFINE end == IF status[t] \notin Asleep THEN "none"
                  ELSE IF KilledIn(t, sig) THEN "killed"
                  ELSE IF SignalledIn(t, sig, acc) THEN "signalled"
                  ELSE "none"
<1>1. /\ IF end = "none" THEN UNCHANGED waits ELSE Wake(t, end)
      /\ onWait' = [onWait EXCEPT ![t] = @ /\ end # "signalled"]
      /\ suspended' = [suspended EXCEPT ![t] = susp /\ ~(end # "none" /\ status[t] # "waitingunalertable")]
  BY DEF KiThreadWakeForSignal
<1>2. end \in {"none"} \cup Failures
      /\ (end = "none" => ~(status[t] \in Asleep /\ KilledIn(t, sig)))
  BY DEF Failures
<1> HIDE DEF end
<1>3. onWait' \in [Thread -> BOOLEAN]
  BY <1>1, InvTypes DEF AlertsTyped
<1>4. suspended' \in [Thread -> BOOLEAN] /\ (suspended'[t] => susp)
      /\ \A u \in Thread \ {t} : suspended'[u] = suspended[u]
  BY <1>1, InvTypes DEF AlertsTyped
<1>5. CASE end = "none"
  <2>1. UNCHANGED waits
    BY <1>1, <1>5
  <2> QED BY <2>1, <1>2, <1>3, <1>4, <1>5, SameWaitsRelaxed, InvTypes
<1>6. CASE end # "none"
  <2>1. Wake(t, end)
    BY <1>1, <1>6
  <2> QED BY <2>1, <1>2, <1>3, <1>4, WakeRelaxed, InvTypes
<1> QED BY <1>5, <1>6

LEMMA SignalThreadInv ==
  ASSUME Inv, exiting = Null, UNCHANGED exiting, NEW t \in Thread, NEW signal \in {"kill", "signal"},
         KeThreadSignal(t, signal)
  PROVE  Inv'
<1> DEFINE sig == pending[t] \cup {signal}
           susp == suspended[t] /\ signal # "kill"
<1>1. /\ pending' = [pending EXCEPT ![t] = sig]
      /\ KiThreadWakeForSignal(t, sig, accepts[t], susp)
      /\ UNCHANGED objects /\ UNCHANGED <<accepts, triggered>>
  BY DEF KeThreadSignal
<1>2. susp \in BOOLEAN /\ (susp => suspended[t] /\ signal # "kill")
  OBVIOUS
<1>3. sig = pending[t] \cup {signal} /\ sig \subseteq {"kill", "signal", "apc"}
  BY InvTypes DEF AlertsTyped
<1> HIDE DEF sig, susp
<1>4. /\ onWait' \in [Thread -> BOOLEAN] /\ suspended' \in [Thread -> BOOLEAN]
      /\ suspended'[t] => susp
      /\ \A u \in Thread \ {t} : suspended'[u] = suspended[u]
      /\ \/ Relaxed({t}) /\ status'[t] = "running"
         \/ Relaxed({}) /\ UNCHANGED waits /\ ~(status[t] \in Asleep /\ KilledIn(t, sig))
  BY <1>1, <1>2, SignalsEndWait
<1>5. pending'[t] = sig /\ \A u \in Thread \ {t} : pending'[u] = pending[u]
  BY <1>1, InvTypes DEF AlertsTyped
<1>6. AlertsTyped'
  BY <1>1, <1>3, <1>4, InvTypes DEF AlertsTyped
<1>7. AlertRight(t) /\ StatusRight(t)
  BY AlertRightNow
<1>8. suspended'[t] => "kill" \notin sig
  BY <1>2, <1>3, <1>4, <1>7 DEF AlertRight
<1>9. CASE Relaxed({t}) /\ status'[t] = "running"
  <2>1. AlertRight(t)'
    BY <1>5, <1>8, <1>9 DEF AlertRight, InWait, Asleep
  <2> QED BY <1>1, <1>4, <1>5, <1>6, <1>9, <2>1, AlertInv
<1>10. CASE Relaxed({}) /\ UNCHANGED waits /\ ~(status[t] \in Asleep /\ KilledIn(t, sig))
  <2>1. InWait(t)' = InWait(t) /\ call'[t] = call[t] /\ status'[t] = status[t]
    BY <1>10 DEF waits, InWait
  <2>2. status[t] = "suspended" => "kill" \notin sig
    BY <1>7, <1>10 DEF StatusRight, KilledIn, InWait, Asleep
  <2>3. ASSUME InWait(t), (call[t].mode = "user") # call[t].alertable PROVE "kill" \notin sig
    <3>1. call[t] \in Waits /\ status[t] \in Asleep
      BY <2>3, InvTypes DEF InWait, WaitsTyped
    <3>2. call[t].alertable \in BOOLEAN
      BY <3>1, ObjectsOf
    <3>3. status[t] = "waitingalertable" <=> call[t].alertable
      BY <2>3, <1>7 DEF StatusRight
    <3>4. ~KilledIn(t, sig)
      BY <3>1, <1>10
    <3> QED BY <2>3, <3>2, <3>3, <3>4 DEF KilledIn
  <2>4. AlertRight(t)'
    BY <1>3, <1>5, <1>7, <1>8, <2>1, <2>2, <2>3 DEF AlertRight
  <2> QED BY <1>1, <1>4, <1>5, <1>6, <1>10, <2>4, AlertInv
<1> QED BY <1>4, <1>9, <1>10

LEMMA UnmaskSignalInv ==
  ASSUME Inv, exiting = Null, UNCHANGED exiting, NEW t \in Thread, KeThreadUnmaskSignal(t)
  PROVE  Inv'
<1> DEFINE sig == pending[t]
           acc == TRUE
           susp == suspended[t]
<1>1. /\ accepts' = [accepts EXCEPT ![t] = acc]
      /\ KiThreadWakeForSignal(t, sig, acc, susp)
      /\ UNCHANGED objects /\ UNCHANGED <<pending, triggered>>
  BY DEF KeThreadUnmaskSignal
<1>2. susp \in BOOLEAN /\ susp = suspended[t] /\ acc \in BOOLEAN
  BY InvTypes DEF AlertsTyped
<1> HIDE DEF sig, acc, susp
<1>3. /\ onWait' \in [Thread -> BOOLEAN] /\ suspended' \in [Thread -> BOOLEAN]
      /\ suspended'[t] => susp
      /\ \A u \in Thread \ {t} : suspended'[u] = suspended[u]
      /\ \/ Relaxed({t}) /\ status'[t] = "running"
         \/ Relaxed({}) /\ UNCHANGED waits
  BY <1>1, <1>2, SignalsEndWait
<1>4. AlertsTyped'
  BY <1>1, <1>2, <1>3, InvTypes DEF AlertsTyped
<1>5. AlertRight(t)
  BY AlertRightNow
<1>6. CASE Relaxed({t}) /\ status'[t] = "running"
  <2>1. AlertRight(t)'
    BY <1>1, <1>2, <1>3, <1>5, <1>6 DEF AlertRight, InWait, Asleep
  <2> QED BY <1>1, <1>3, <1>4, <1>6, <2>1, AlertInv
<1>7. CASE Relaxed({}) /\ UNCHANGED waits
  <2>1. UNCHANGED <<objects, waits>>
    BY <1>1, <1>7
  <2>2. suspended'[t] => suspended[t]
    BY <1>2, <1>3
  <2> QED BY <1>1, <1>3, <1>4, <2>1, <2>2, FewerAlertsInv
<1> QED BY <1>3, <1>6, <1>7

\* A thread that is in no wait changes its status.
LEMMA StatusOnlyInv ==
  ASSUME Inv, NEW t \in Thread, InUserMode(t), NEW s \in {"suspended", "exited"},
         status' = [status EXCEPT ![t] = s],
         UNCHANGED <<objects, waiters, ahead, call, outcome, priority>>,
         s = "exited" => \A m \in Mutex : owner[m] # t,
         AlertsTyped', ExitingRight',
         \A u \in Thread : pending'[u] \subseteq pending[u] /\ (suspended'[u] => suspended[u]),
         s = "suspended" => "kill" \notin pending[t]
  PROVE  Inv'
<1>1. status'[t] = s /\ \A u \in Thread \ {t} : status'[u] = status[u]
  BY InvTypes DEF WaitsTyped
<1>2. status[t] = "running" /\ call[t] = Null
  BY DEF InUserMode
<1>3. \A u \in Thread : InWait(u)' <=> InWait(u)
  BY <1>1, <1>2 DEF InWait, Asleep
<1>4. Thinned({})
  <2>1. \A o \in Object : ahead[o] \subseteq Thread \X Thread
    BY InvTypes DEF WaitsTyped
  <2>2. \A u \in Thread : call'[u] = call[u] /\ priority'[u] = priority[u]
    OBVIOUS
  <2> QED BY <1>3, <2>1, <2>2 DEF Thinned
<1>5. Spared({}) /\ ObjectsTyped' /\ OwnersRight'
  BY SameObjectsSpare, SameObjectsRight, InvTypes
<1>6. WaitsTyped'
  <2>1. status' \in [Thread -> Asleep \cup {"running", "exited"}]
    BY InvTypes DEF WaitsTyped, Asleep
  <2> QED BY <2>1, InvTypes DEF WaitsTyped
<1>7. ListsMatchWaits' /\ NoLostWakeup'
  BY <1>4, <1>5, ThinnedLists, SparedNotMissed DEF Inv
<1>8. StatusesRight'
  <2> SUFFICES ASSUME NEW u \in Thread PROVE StatusRight(u)'
    BY DEF StatusesRight
  <2>1. StatusRight(u)
    BY AlertRightNow
  <2>2. CASE u = t
    BY <2>2, <1>2, <1>3 DEF StatusRight, InWait
  <2>3. CASE u # t
    BY <2>1, <2>3, <1>1, <1>3 DEF StatusRight
  <2> QED BY <2>2, <2>3
<1>9. OwnersLive'
  <2>1. \A m \in Mutex : owner'[m] = owner[m]
    BY DEF objects
  <2>2. \A m \in Mutex : owner[m] # Null => owner[m] \in Thread /\ status[owner[m]] # "exited"
    BY DEF Inv, OwnersLive, ObjectsTyped
  <2> QED BY <2>1, <2>2, <1>1 DEF OwnersLive
<1>10. AlertsEndWaits'
  <2>1. ASSUME NEW u \in Thread PROVE AlertRight(u)'
    <3>1. AlertRight(u)
      BY AlertRightNow
    <3>2. call'[u] = call[u]
      OBVIOUS
    <3>3. CASE u = t
      <4>1. ~InWait(u)'
        BY <3>3, <1>2, <1>3 DEF InWait
      <4> QED BY <3>1, <3>3, <4>1, <1>1 DEF AlertRight
    <3>4. CASE u # t
      BY <3>1, <3>2, <3>4, <1>1, <1>3 DEF AlertRight
    <3> QED BY <3>3, <3>4
  <2> QED BY <2>1 DEF AlertsEndWaits, AlertRight
<1> QED BY <1>5, <1>6, <1>7, <1>8, <1>9, <1>10 DEF Inv

LEMMA WaitSuspendedInv ==
  ASSUME Inv, exiting = Null, UNCHANGED exiting, NEW t \in Thread, KeThreadWaitSuspended(t)
  PROVE  Inv'
<1> DEFINE event == KiCheckWaitInterruptingEvents(t)
<1>1. /\ InUserMode(t) /\ suspended[t]
      /\ TakeUp(t, event)
      /\ suspended' = [suspended EXCEPT ![t] = event = "none"]
      /\ status' = [status EXCEPT ![t] = IF event = "none" THEN "suspended" ELSE @]
      /\ UNCHANGED <<objects, waiters, ahead, call, outcome, priority, pending, accepts>>
  BY DEF KeThreadWaitSuspended
<1> HIDE DEF event
<1>2. "kill" \notin pending[t]
  BY <1>1, AlertRightNow DEF AlertRight
<1>3. \A u \in Thread : pending'[u] \subseteq pending[u] /\ (suspended'[u] => suspended[u])
      /\ (u # t => suspended'[u] = suspended[u] /\ pending'[u] = pending[u])
  BY <1>1, InvTypes DEF AlertsTyped
<1>4. AlertsTyped' /\ ExitingRight'
  <2>1. triggered' \in [Thread -> BOOLEAN] /\ onWait' \in [Thread -> BOOLEAN]
    BY <1>1, TakeUpTyped, InvTypes
  <2>2. suspended' \in [Thread -> BOOLEAN]
    BY <1>1, InvTypes DEF AlertsTyped
  <2> QED BY <1>1, <2>1, <2>2, InvTypes DEF AlertsTyped, ExitingRight
<1>5. CASE event = "none"
  <2> DEFINE s == "suspended"
  <2>1. status' = [status EXCEPT ![t] = s] /\ s \in {"suspended", "exited"} /\ s # "exited"
    BY <1>1, <1>5
  <2> HIDE DEF s
  <2> QED BY <1>1, <1>2, <1>3, <1>4, <2>1, StatusOnlyInv
<1>6. CASE event # "none"
  <2>1. UNCHANGED status
    BY <1>1, <1>6, InvTypes DEF WaitsTyped
  <2>2. UNCHANGED <<objects, waits>>
    BY <1>1, <2>1 DEF waits
  <2> QED BY <1>3, <1>4, <2>2, FewerAlertsInv
<1> QED BY <1>5, <1>6

LEMMA RundownInv ==
  ASSUME Inv, exiting = Null, NEW t \in Thread, KeThreadRundown(t)
  PROVE  Inv'
<1>1. InUserMode(t) /\ exiting' = t /\ UNCHANGED <<objects, waits, alerts>>
  BY DEF KeThreadRundown
<1>2. Relaxed({})
  BY <1>1, SameWaitsRelaxed, InvTypes
<1>3. AlertsTyped' /\ UNCHANGED <<pending, suspended>>
  BY <1>1, SameAlertsTyped, InvTypes
<1>4. AlertsEndWaits'
  BY <1>2, <1>3, CalmAlerts DEF Inv
<1>5. ExitingRight'
  BY <1>1 DEF ExitingRight, InUserMode, waits
<1> QED BY <1>1, <1>2, <1>3, <1>4, <1>5, SameObjectsInv

LEMMA RundownEndsInv ==
  ASSUME Inv, exiting # Null, RundownEnds
  PROVE  Inv'
<1>1. exiting \in Thread /\ InUserMode(exiting)
  BY DEF Inv, ExitingRight
<1> DEFINE t == exiting
           s == "exited"
<1>2. /\ status' = [status EXCEPT ![t] = s]
      /\ UNCHANGED <<objects, waiters, ahead, call, outcome, priority>>
      /\ \A m \in Mutex : owner[m] # t
      /\ s \in {"suspended", "exited"} /\ s # "suspended"
  BY DEF RundownEnds
<1>3. /\ pending' = [pending EXCEPT ![t] = @ \ {"apc"}]
      /\ UNCHANGED <<accepts, onWait, triggered, suspended>> /\ exiting' = Null
  BY DEF RundownEnds
<1>4. AlertsTyped' /\ ExitingRight'
  BY <1>3, InvTypes DEF AlertsTyped, ExitingRight
<1>5. \A u \in Thread : pending'[u] \subseteq pending[u] /\ suspended'[u] = suspended[u]
  BY <1>3, InvTypes DEF AlertsTyped
<1>6. t \in Thread /\ InUserMode(t)
  BY <1>1
<1> HIDE DEF t, s
<1> QED BY <1>2, <1>4, <1>5, <1>6, StatusOnlyInv

-----------------------------------------------------------------------------
(***************************************************************************)
(* The invariant holds.                                                    *)
(***************************************************************************)
LEMMA InitInv == Init => Inv
<1> SUFFICES ASSUME Init PROVE Inv
  OBVIOUS
<1>1. /\ signaled \in [Object -> {0, 1}] /\ \A m \in Mutex : signaled[m] = 1
      /\ owner = [m \in Mutex |-> Null] /\ apcDisable = [t \in Thread |-> 0]
      /\ waiters = [o \in Object |-> {}] /\ ahead = [o \in Object |-> {}]
      /\ status = [t \in Thread |-> "running"] /\ call = [t \in Thread |-> Null]
      /\ outcome = [t \in Thread |-> "none"] /\ priority = [t \in Thread |-> 0]
      /\ pending = [t \in Thread |-> {}] /\ accepts = [t \in Thread |-> FALSE]
      /\ onWait = [t \in Thread |-> FALSE] /\ triggered = [t \in Thread |-> FALSE]
      /\ suspended = [t \in Thread |-> FALSE] /\ exiting = Null
  BY DEF Init
<1>2. \A o \in Object : InRange(o, signaled[o])
  <2> TAKE o \in Object
  <2>1. signaled[o] \in {0, 1} /\ (o \in Mutex => signaled[o] = 1)
    BY <1>1
  <2>2. MaxCount \in Nat \ {0} /\ LowestCount \in Int /\ LowestCount <= 0
    BY WaitAssumption
  <2> QED BY <2>1, <2>2 DEF InRange
<1>3. ObjectsTyped
  BY <1>1, <1>2 DEF ObjectsTyped, Counters
<1>4. 0 \in Priority
  BY WaitAssumption
<1>5. WaitsTyped
  BY <1>1, <1>4 DEF WaitsTyped, Asleep
<1>6. AlertsTyped
  BY <1>1 DEF AlertsTyped
<1>7. OwnersRight
  <2>1. ASSUME NEW t \in Thread PROVE apcDisable[t] = Cardinality(Held(owner, t))
    <3>1. Held(owner, t) = {}
      BY <1>1, MutexIsObject, WaitAssumption DEF Held
    <3>2. Cardinality(Held(owner, t)) = 0
      BY <3>1, FS_EmptySet
    <3> QED BY <3>2, <1>1
  <2>2. \A m \in Mutex : owner[m] = Null <=> signaled[m] = 1
    BY <1>1
  <2> QED BY <2>1, <2>2 DEF OwnersRight, Held
<1>8. \A t \in Thread : status[t] = "running" /\ ~InWait(t)
  BY <1>1 DEF InWait, Asleep
<1>9. OwnersLive /\ StatusesRight
  BY <1>1, <1>8 DEF OwnersLive, StatusesRight, StatusRight
<1>10. ExitingRight /\ NoLostWakeup
  BY <1>1, <1>8 DEF ExitingRight, NoLostWakeup
<1>11. ListsMatchWaits
  BY <1>1, <1>8 DEF ListsMatchWaits
<1>12. AlertsEndWaits
  BY <1>1, <1>8 DEF AlertsEndWaits
<1> QED BY <1>3, <1>5, <1>6, <1>7, <1>9, <1>10, <1>11, <1>12 DEF Inv

LEMMA StutterInv == ASSUME Inv, UNCHANGED vars PROVE Inv'
<1>1. UNCHANGED <<objects, waits, alerts, exiting>>
  BY DEF vars, objects, waits, alerts
<1>2. Relaxed({}) /\ AlertsTyped' /\ UNCHANGED <<pending, suspended>>
  BY <1>1, SameWaitsRelaxed, SameAlertsTyped, InvTypes
<1>3. AlertsEndWaits'
  BY <1>2, CalmAlerts DEF Inv
<1>4. ExitingRight'
  BY <1>1 DEF Inv, ExitingRight, InUserMode, waits
<1> QED BY <1>1, <1>2, <1>3, <1>4, SameObjectsInv

LEMMA AlertedInv ==
  ASSUME Inv, exiting = Null, UNCHANGED exiting, NEW t \in Thread, Alert(t)
  PROVE  Inv'
<1>1. CASE KeAPCEnqueue(t)
  BY <1>1, KernelAPCInv
<1>2. CASE KeAPCEnqueueUser(t)
  BY <1>2, UserAPCInv
<1>3. CASE KeAPCDispatchQueueUser(t)
  BY <1>3, DispatchUserAPCInv
<1>4. ASSUME NEW signal \in {"kill", "signal"}, KeThreadSignal(t, signal)
      PROVE  Inv'
  BY <1>4, SignalThreadInv
<1>5. CASE KeThreadMaskSignal(t) \/ KeThreadDeliverOnWaitSignal(t)
  BY <1>5, MaskSignalInv
<1>6. CASE KeThreadUnmaskSignal(t)
  BY <1>6, UnmaskSignalInv
<1>7. CASE KeThreadDispatchSignal(t)
  BY <1>7, DispatchSignalInv
<1>8. CASE KeThreadSuspend(t)
  BY <1>8, SuspendInv
<1>9. CASE KeThreadResume(t)
  BY <1>9, ResumeInv
<1>10. CASE KeThreadWaitSuspended(t)
  BY <1>10, WaitSuspendedInv
<1> QED BY <1>1, <1>2, <1>3, <1>4, <1>5, <1>6, <1>7, <1>8, <1>9, <1>10 DEF Alert

LEMMA StepInv == ASSUME Inv, exiting = Null, Step, UNCHANGED exiting PROVE Inv'
<1>1. ASSUME NEW t \in Thread, Wait(t) PROVE Inv'
  BY <1>1, WaitInv
<1>2. ASSUME NEW t \in Thread, KeTimerExpire(t) PROVE Inv'
  BY <1>2, TimeoutInv
<1>3. ASSUME NEW t \in Thread, NEW p \in Priority, KeThreadBoost(t, p) PROVE Inv'
  BY <1>3, BoostInv
<1>4. ASSUME NEW o \in Object, KeEventSignal(o) PROVE Inv'
  BY <1>4, EventSignalInv
<1>5. ASSUME NEW o \in Object, KeEventSignalGetWaiter(o) PROVE Inv'
  BY <1>5, EventSignalGetWaiterInv
<1>6. ASSUME NEW o \in Object, KeEventPulse(o) PROVE Inv'
  BY <1>6, EventPulseInv
<1>7. ASSUME NEW o \in Object, KeEventReset(o) PROVE Inv'
  BY <1>7, EventResetInv
<1>8. ASSUME NEW o \in Object, NEW n \in Releases, KeSemaphoreRelease(o, n) PROVE Inv'
  BY <1>8, SemaphoreInv
<1>9. ASSUME NEW m \in Mutex, KeMutexRelease(m) PROVE Inv'
  BY <1>9, MutexReleaseInv
<1>10. ASSUME NEW t \in Alerted, Alert(t) PROVE Inv'
  <2>1. t \in Thread
    BY WaitAssumption
  <2> QED BY <1>10, <2>1, AlertedInv
<1> QED BY <1>1, <1>2, <1>3, <1>4, <1>5, <1>6, <1>7, <1>8, <1>9, <1>10 DEF Step

LEMMA NextInv == Inv /\ [Next]_vars => Inv'
<1> SUFFICES ASSUME Inv, [Next]_vars PROVE Inv'
  OBVIOUS
<1>1. CASE exiting = Null /\ Step /\ UNCHANGED exiting
  BY <1>1, StepInv
<1>2. ASSUME exiting = Null, NEW t \in Alerted, KeThreadRundown(t) PROVE Inv'
  <2>1. t \in Thread
    BY WaitAssumption
  <2> QED BY <1>2, <2>1, RundownInv
<1>3. ASSUME exiting # Null, NEW m \in Mutex, Abandon(m) PROVE Inv'
  BY <1>3, AbandonInv
<1>4. CASE exiting # Null /\ RundownEnds
  BY <1>4, RundownEndsInv
<1>5. CASE UNCHANGED vars
  BY <1>5, StutterInv
<1> QED BY <1>1, <1>2, <1>3, <1>4, <1>5 DEF Next

LEMMA InvHolds == Spec => []Inv
BY InitInv, NextInv, PTL DEF Spec

\* Every variable keeps its type: no count of an object leaves the range of its
\* kind, whatever is signalled, released, taken or abandoned.
THEOREM TypeCorrect == Spec => []TypeOK
BY InvHolds, InvProperties, PTL

\* A thread is on the wait lists of exactly the objects it sleeps for, in a
\* strict total order that is that of the priorities while they are kept:
\* KiDispatchWaitBlockEnqueue puts it there, and whatever ends its wait
\* (KiThreadWaitBlocksDequeue) takes all its wait blocks off.
THEOREM ListsStayMatched == Spec => []ListsMatchWaits
<1>1. Inv => ListsMatchWaits
  BY DEF Inv
<1> QED BY <1>1, InvHolds, PTL

\* Nobody sleeps for an object that is to be had, nor for all of several that
\* are: not when KiDispatchSatisfyFirst serves the n first of a list only, not
\* when mutexes are handed over or abandoned, and not when a wait for all, or
\* one a kernel APC interrupted, starts over.
THEOREM NobodyIsMissed == Spec => []NoLostWakeup
<1>1. Inv => NoLostWakeup
  BY DEF Inv
<1> QED BY <1>1, InvHolds, PTL

\* A mutex is held exactly while it has an owner, who has not exited, and APCs
\* are disabled for a thread as often as it holds kernel mutexes: through
\* KiMutexOwnerSet, recursion, hand-over to a sleeping thread and rundown.
THEOREM MutexesStayAccounted == Spec => []MutexesAccounted
BY InvHolds, InvProperties, PTL

\* No thread sleeps through a kill or a user APC that ends the kind of wait it
\* is in, and none stays suspended when it is killed: what KiThreadWait looks at
\* before it sleeps, and what KeAPCEnqueue and KeThreadSignal wake, leave no gap.
THEOREM AlertsAlwaysEndWaits == Spec => []AlertsEndWaits
<1>1. Inv => AlertsEndWaits
  BY DEF Inv
<1> QED BY <1>1, InvHolds, PTL

-----------------------------------------------------------------------------
(***************************************************************************)
(* What a step tells the threads that wait.                                *)
(***************************************************************************)

\* Nobody is told that a wait succeeded.
Unserved == \A t \in Thread :
  \/ outcome'[t] \in {"none", Again} \cup Failures
  \/ outcome'[t] = outcome[t] /\ (status'[t] = "running" => status[t] = "running")

\* The ways in which somebody is: a thread takes what is there, or an event is
\* signalled, a semaphore released, or a mutex handed over.
Taken(t, w) == /\ status[t] = "running" /\ w \in Waits
               /\ SatisfiedAny(t, w) \/ SatisfiedAll(t, w)
Noticed(o) == Kind[o] = "notification" /\ KiThreadWakeup(waiters[o], WaitStatus(o))
Signalled(o) == /\ Kind[o] = "synchronization" /\ Grant(o, 1)
                /\ AnyWaiters(o) # {} => signaled'[o] <= 0
Released(o, n) == /\ Kind[o] = "semaphore" /\ Grant(o, n)
                  /\ signaled'[o] = signaled[o] + n - Cardinality(AnyFirst(o, n))
Passed(m, t) == owner[m] = t /\ status[t] = "running" /\ HandOver(m, t)

LEMMA WakeUnserved ==
  ASSUME WaitsTyped, NEW t \in Thread, NEW s \in {"none", Again} \cup Failures, Wake(t, s)
  PROVE  Unserved
BY DEF WaitsTyped, Wake, KiThreadWakeup, Unserved

LEMMA SameUnserved ==
  ASSUME UNCHANGED <<status, outcome>>
  PROVE  Unserved
BY DEF Unserved

LEMMA ReturnUnserved ==
  ASSUME WaitsTyped, NEW t \in Thread, NEW s \in {"none", Again} \cup Failures, Return(t, s)
  PROVE  Unserved
BY DEF WaitsTyped, Return, Unserved

LEMMA WaitUnserved ==
  ASSUME WaitsTyped, NEW t \in Thread, NEW w, NEW p, KiThreadWait(t, w, p)
  PROVE  Unserved
<1>1. /\ outcome' = [outcome EXCEPT ![t] = "none"]
      /\ status' = [status EXCEPT ![t] = IF w.alertable THEN "waitingalertable"
                                         ELSE "waitingunalertable"]
  BY DEF KiThreadWait
<1> QED BY <1>1 DEF WaitsTyped, Unserved

LEMMA WaitTells ==
  ASSUME Inv, NEW t \in Thread, Wait(t)
  PROVE  Unserved \/ \E w \in Waits : Taken(t, w)
<1>1. status[t] = "running" /\ WaitsTyped
  BY InvTypes DEF Wait
<1>2. PICK w \in Waits : KeThreadWaitForMultipleObjects(t, w) \/ KeThreadSleep(t, w)
  BY <1>1 DEF Wait, WaitsTyped
<1>3. CASE Interrupted(t, w)
  <2>1. Interruption(t, w) \in {"none", Again} \cup Failures
    BY InterruptionIs
  <2> QED BY <1>1, <1>3, <2>1, ReturnUnserved DEF Interrupted
<1>4. CASE SatisfiedAny(t, w) \/ SatisfiedAll(t, w)
  BY <1>1, <1>4 DEF Taken
<1>5. ASSUME NEW s \in {"overflow", "no"}, Return(t, s) PROVE Unserved
  <2>1. s \in {"none", Again} \cup Failures
    BY DEF Failures
  <2> QED BY <1>1, <1>5, <2>1, ReturnUnserved
<1>6. CASE HeldTooOften(t, w)
  BY <1>5, <1>6 DEF HeldTooOften
<1>7. ASSUME NEW p, KiThreadWait(t, w, p) PROVE Unserved
  BY <1>1, <1>7, WaitUnserved
<1> QED BY <1>2, <1>3, <1>4, <1>5, <1>6, <1>7
        DEF KeThreadWaitForMultipleObjects, KeThreadSleep

LEMMA EventTells ==
  ASSUME Inv, NEW e \in Object,
         KeEventSignal(e) \/ KeEventSignalGetWaiter(e) \/ KeEventPulse(e) \/ KeEventReset(e)
  PROVE  Unserved \/ Noticed(e) \/ Signalled(e)
<1>1. signaled[e] \in Int
  BY InvTypes DEF ObjectsTyped, Counters
<1>2. AnyWaiters(e) # {} => signaled[e] <= 0
  BY <1>1, NobodyMissed
<1>3. CASE Kind[e] = "notification" /\ KiThreadWakeup(waiters[e], WaitStatus(e))
  BY <1>3 DEF Noticed
<1>4. CASE Kind[e] = "synchronization" /\ Grant(e, 1) /\ UNCHANGED signaled
  BY <1>2, <1>4 DEF Signalled
<1>5. CASE /\ Kind[e] = "synchronization" /\ Grant(e, 1)
           /\ signaled' = [signaled EXCEPT ![e] = SignalLeft(e)]
  <2>1. AnyWaiters(e) # {} => signaled'[e] = 0
    BY <1>5, InvTypes DEF ObjectsTyped, Counters, SignalLeft
  <2> QED BY <1>5, <2>1 DEF Signalled
<1>6. CASE /\ Kind[e] = "synchronization" /\ Grant(e, 1)
           /\ signaled' = [signaled EXCEPT ![e] = IF AnyWaiters(e) = {} THEN 1 ELSE @]
  <2>1. AnyWaiters(e) # {} => signaled'[e] = signaled[e]
    BY <1>6, InvTypes DEF ObjectsTyped, Counters
  <2> QED BY <1>2, <1>6, <2>1 DEF Signalled
<1>7. CASE UNCHANGED waits
  BY <1>7, SameUnserved DEF waits
<1> QED BY <1>3, <1>4, <1>5, <1>6, <1>7
        DEF KeEventSignal, KeEventSignalGetWaiter, KeEventPulse, KeEventReset

LEMMA SemaphoreTells ==
  ASSUME Inv, NEW s \in Object, NEW n \in Releases, KeSemaphoreRelease(s, n)
  PROVE  Unserved \/ Released(s, n)
<1>1. CASE signaled[s] = 0
  <2>1. /\ Kind[s] = "semaphore" /\ Grant(s, n)
        /\ signaled' = [signaled EXCEPT ![s] = n - Cardinality(AnyFirst(s, n))]
    BY <1>1 DEF KeSemaphoreRelease
  <2>2. n \in Nat
    BY WaitAssumption
  <2>3. Cardinality(AnyFirst(s, n)) \in 0 .. n
    BY <2>2, Served, InvTypes
  <2>4. signaled'[s] = n - Cardinality(AnyFirst(s, n))
    BY <2>1, InvTypes DEF ObjectsTyped, Counters
  <2>5. signaled'[s] = signaled[s] + n - Cardinality(AnyFirst(s, n))
    BY <1>1, <2>2, <2>3, <2>4
  <2> QED BY <2>1, <2>5 DEF Released
<1>2. CASE signaled[s] # 0
  BY <1>2, SameUnserved DEF KeSemaphoreRelease, waits
<1> QED BY <1>1, <1>2

LEMMA ReleaseTells ==
  ASSUME Inv, NEW m \in Mutex, KeMutexRelease(m)
  PROVE  Unserved \/ \E t \in Thread : Passed(m, t)
<1>1. owner[m] \in Thread /\ status[owner[m]] = "running"
  BY InvTypes DEF KeMutexRelease, ObjectsTyped
<1>2. CASE UNCHANGED waits
  BY <1>2, SameUnserved DEF waits
<1>3. CASE HandOver(m, owner[m])
  BY <1>1, <1>3 DEF Passed
<1> QED BY <1>2, <1>3 DEF KeMutexRelease

LEMMA SignalTells ==
  ASSUME Inv, NEW t \in Thread, NEW sig, NEW acc, NEW susp, KiThreadWakeForSignal(t, sig, acc, susp)
  PROVE  Unserved
<1> DEFINE end == IF status[t] \notin Asleep THEN "none"
                  ELSE IF KilledIn(t, sig) THEN "killed"
                  ELSE IF SignalledIn(t, sig, acc) THEN "signalled"
                  ELSE "none"
<1>1. IF end = "none" THEN UNCHANGED waits ELSE Wake(t, end)
  BY DEF KiThreadWakeForSignal
<1>2. end \in {"none", Again} \cup Failures
  BY DEF Failures
<1> HIDE DEF end
<1> QED BY <1>1, <1>2, WakeUnserved, SameUnserved, InvTypes DEF waits

LEMMA AlertTells ==
  ASSUME Inv, NEW t \in Thread, Alert(t)
  PROVE  Unserved
<1>1. CASE UNCHANGED waits
  BY <1>1, SameUnserved DEF waits
<1>2. ASSUME NEW s \in {"none", Again, "userapc"}, Wake(t, s) PROVE Unserved
  <2>1. s \in {"none", Again} \cup Failures
    BY DEF Failures
  <2> QED BY <1>2, <2>1, WakeUnserved, InvTypes
<1>3. CASE KeAPCEnqueue(t) \/ KeAPCEnqueueUser(t) \/ KeThreadResume(t)
  BY <1>1, <1>2, <1>3 DEF KeAPCEnqueue, KeAPCEnqueueUser, KeThreadResume
<1>4. ASSUME NEW signal \in {"kill", "signal"}, KeThreadSignal(t, signal) PROVE Unserved
  BY <1>4, SignalTells DEF KeThreadSignal
<1>5. CASE KeThreadUnmaskSignal(t)
  BY <1>5, SignalTells DEF KeThreadUnmaskSignal
<1>6. CASE KeThreadWaitSuspended(t)
  <2> DEFINE end == KiCheckWaitInterruptingEvents(t)
  <2>1. /\ status[t] = "running" /\ UNCHANGED outcome
        /\ status' = [status EXCEPT ![t] = IF end = "none" THEN "suspended" ELSE @]
    BY <1>6 DEF KeThreadWaitSuspended, InUserMode
  <2> HIDE DEF end
  <2>2. \A u \in Thread : status'[u] = "running" => status[u] = "running"
    BY <2>1, InvTypes DEF WaitsTyped
  <2> QED BY <2>1, <2>2 DEF Unserved
<1>7. CASE \/ KeAPCDispatchQueueUser(t) \/ KeThreadMaskSignal(t)
           \/ KeThreadDeliverOnWaitSignal(t) \/ KeThreadDispatchSignal(t) \/ KeThreadSuspend(t)
  BY <1>1, <1>7 DEF KeAPCDispatchQueueUser, KeThreadMaskSignal,
       KeThreadDeliverOnWaitSignal, KeThreadDispatchSignal, KeThreadSuspend
<1> QED BY <1>3, <1>4, <1>5, <1>6, <1>7 DEF Alert

LEMMA NextTells ==
  ASSUME Inv, [Next]_vars
  PROVE  \/ Unserved
         \/ \E t \in Thread, w \in Waits : Taken(t, w)
         \/ \E o \in Object : Noticed(o) \/ Signalled(o)
         \/ \E o \in Object, n \in Releases : Released(o, n)
         \/ \E m \in Mutex, t \in Thread : Passed(m, t)
<1>1. ASSUME NEW t \in Thread, Wait(t) PROVE Unserved \/ \E w \in Waits : Taken(t, w)
  BY <1>1, WaitTells
<1>2. ASSUME NEW t \in Thread, KeTimerExpire(t) PROVE Unserved
  BY <1>2, WakeUnserved, InvTypes DEF KeTimerExpire, Failures
<1>3. ASSUME NEW t \in Alerted, Alert(t) PROVE Unserved
  BY <1>3, AlertTells, WaitAssumption
<1>4. ASSUME NEW m \in Mutex, exiting # Null, Abandon(m)
      PROVE  \E t \in Thread : Passed(m, t)
  <2>1. exiting \in Thread /\ status[exiting] = "running"
    BY <1>4 DEF Inv, ExitingRight, InUserMode
  <2> QED BY <1>4, <2>1 DEF Abandon, Passed
<1>5. CASE RundownEnds
  <2>1. UNCHANGED outcome /\ status' = [status EXCEPT ![exiting] = "exited"]
    BY <1>5 DEF RundownEnds
  <2> QED BY <2>1, InvTypes DEF WaitsTyped, Unserved
<1>6. CASE Step
  <2>1. ASSUME NEW t \in Thread, NEW p \in Priority, KeThreadBoost(t, p) PROVE Unserved
    BY <2>1, SameUnserved DEF KeThreadBoost
  <2> QED BY <1>1, <1>2, <1>3, <1>6, <2>1, EventTells, SemaphoreTells, ReleaseTells DEF Step
<1>7. ASSUME NEW t \in Alerted, KeThreadRundown(t) PROVE Unserved
  BY <1>7, SameUnserved DEF KeThreadRundown, waits
<1>8. CASE UNCHANGED vars
  BY <1>8, SameUnserved DEF vars
<1> QED BY <1>4, <1>5, <1>6, <1>7, <1>8 DEF Next

-----------------------------------------------------------------------------
(***************************************************************************)
(* Who gets an object.                                                     *)
(***************************************************************************)
LEMMA UnservedGetNothing ==
  ASSUME Inv, Unserved, NEW o \in Object
  PROVE  Got(o) = {}
<1> SUFFICES ASSUME NEW t \in Got(o) PROVE FALSE
  OBVIOUS
<1>1. t \in waiters[o] /\ status'[t] = "running" /\ outcome'[t] = o
  BY DEF Got
<1>2. t \in Thread /\ status[t] # "running"
  BY <1>1, WaitersSleep, InvTypes
<1>3. o \notin {"none", Again} \cup Failures
  BY OutcomeAssumption
<1> QED BY <1>1, <1>2, <1>3 DEF Unserved

LEMMA TakersWaitNot ==
  ASSUME Inv, NEW t \in Thread, NEW w, Taken(t, w), NEW o \in Object
  PROVE  Got(o) = {}
<1>1. UNCHANGED status
  BY DEF Taken, SatisfiedAny, SatisfiedAll, Return
<1> QED BY <1>1, WaitersSleep, InvTypes DEF Got

\* Of those a grant takes off the list, those that wait for any object get this
\* one, and nobody gets another.
LEMMA GrantedGet ==
  ASSUME Inv, NEW x \in Object, NEW W \in SUBSET waiters[x], KiThreadWakeup(W, WaitStatus(x)),
         NEW o \in Object
  PROVE  /\ o = x => Got(o) = W \cap AnyWaiters(x)
         /\ o # x => Got(o) = {}
<1>1. /\ status'  = [t \in Thread |-> IF t \in W THEN "running" ELSE status[t]]
      /\ call'    = [t \in Thread |-> IF t \in W /\ WaitStatus(x)[t] # Again THEN Null
                                      ELSE call[t]]
      /\ outcome' = [t \in Thread |-> IF t \in W THEN WaitStatus(x)[t] ELSE outcome[t]]
  BY DEF KiThreadWakeup
<1>2. \A t \in waiters[x] : WaitStatus(x)[t] = IF call[t].type = "any" THEN x ELSE Again
  BY DEF WaitStatus
<1>3. x # Again /\ o # Again
  BY OutcomeAssumption
<1>4. waiters[x] \subseteq Thread /\ waiters[o] \subseteq Thread
  BY WaitersSleep, InvTypes
<1>5. \A t \in Got(o) : t \in W /\ o = x /\ t \in AnyWaiters(x)
  <2> TAKE t \in Got(o)
  <2>1. t \in waiters[o] /\ call[t].type = "any" /\ status'[t] = "running" /\ outcome'[t] = o
    BY DEF Got
  <2>2. t \in Thread /\ status[t] # "running"
    BY <2>1, WaitersSleep, InvTypes
  <2>3. t \in W
    BY <1>1, <2>1, <2>2
  <2>4. outcome'[t] = IF call[t].type = "any" THEN x ELSE Again
    BY <1>1, <1>2, <2>2, <2>3
  <2> QED BY <1>3, <2>1, <2>3, <2>4 DEF AnyWaiters
<1>6. ASSUME NEW t \in W \cap AnyWaiters(x) PROVE t \in Got(x)
  <2>1. t \in waiters[x] /\ call[t].type = "any" /\ t \in Thread
    BY <1>4 DEF AnyWaiters
  <2> QED BY <1>1, <1>2, <1>3, <2>1 DEF Got
<1> QED BY <1>5, <1>6

\* ... of the n first of its list,
LEMMA FirstGet ==
  ASSUME Inv, NEW x \in Object, NEW n \in Nat, Grant(x, n), NEW o \in Object
  PROVE  /\ o = x => Got(o) = AnyFirst(x, n) /\ waiters'[x] = waiters[x] \ Reached(x, n)
         /\ o # x => Got(o) = {}
<1> DEFINE W == Reached(x, n)
<1>1. W \in SUBSET waiters[x] /\ W \cap AnyWaiters(x) = AnyFirst(x, n)
  BY Served, InvTypes
<1>2. KiThreadWakeup(W, WaitStatus(x))
  BY DEF Grant
<1>3. waiters'[x] = waiters[x] \ W
  BY <1>2 DEF KiThreadWakeup
<1> HIDE DEF W
<1>4. /\ o = x => Got(o) = W \cap AnyWaiters(x)
      /\ o # x => Got(o) = {}
  BY <1>1, <1>2, GrantedGet
<1> QED BY <1>1, <1>3, <1>4 DEF W

\* ... or of all of it.
LEMMA AllGet ==
  ASSUME Inv, NEW x \in Object, Noticed(x), NEW o \in Object
  PROVE  /\ o = x => Got(o) = AnyWaiters(x) /\ waiters'[x] = {}
         /\ o # x => Got(o) = {}
<1> DEFINE W == waiters[x]
<1>1. W \in SUBSET waiters[x] /\ W \cap AnyWaiters(x) = AnyWaiters(x)
  BY DEF AnyWaiters
<1>2. KiThreadWakeup(W, WaitStatus(x))
  BY DEF Noticed
<1>3. waiters'[x] = {}
  BY <1>2 DEF KiThreadWakeup
<1> HIDE DEF W
<1>4. /\ o = x => Got(o) = W \cap AnyWaiters(x)
      /\ o # x => Got(o) = {}
  BY <1>1, <1>2, GrantedGet
<1> QED BY <1>1, <1>3, <1>4

\* Some object is granted to the n first of those that wait for it.
Granted(o, n) == \/ n = 1 /\ Signalled(o)
                 \/ n \in Releases /\ Released(o, n)
                 \/ n = 1 /\ o \in Mutex /\ \E t \in Thread : Passed(o, t)

LEMMA NextGets ==
  ASSUME Inv, [Next]_vars, NEW o \in Object, Got(o) # {}
  PROVE  Noticed(o) \/ \E n \in Nat : Granted(o, n) /\ Grant(o, n)
<1>1. ~Unserved /\ \A t \in Thread, w \in Waits : ~Taken(t, w)
  BY UnservedGetNothing, TakersWaitNot
<1>2. ASSUME NEW x \in Object, Noticed(x) PROVE x = o
  BY <1>2, AllGet
<1>3. ASSUME NEW x \in Object, NEW n \in Nat, Grant(x, n) PROVE x = o
  BY <1>3, FirstGet
<1>4. ASSUME NEW x \in Object, Signalled(x) PROVE x = o /\ Granted(o, 1) /\ Grant(o, 1)
  BY <1>3, <1>4 DEF Signalled, Granted
<1>5. ASSUME NEW x \in Object, NEW n \in Releases, Released(x, n)
      PROVE  x = o /\ n \in Nat /\ Granted(o, n) /\ Grant(o, n)
  <2>1. n \in Nat
    BY WaitAssumption
  <2> QED BY <1>3, <1>5, <2>1 DEF Released, Granted
<1>6. ASSUME NEW x \in Mutex, NEW t \in Thread, Passed(x, t)
      PROVE  x = o /\ Granted(o, 1) /\ Grant(o, 1)
  <2>1. x \in Object /\ Grant(x, 1)
    BY <1>6, MutexIsObject DEF Passed, HandOver
  <2>2. x = o
    BY <1>3, <2>1
  <2> QED BY <1>6, <2>1, <2>2 DEF Granted
<1>7. \/ \E x \in Object : Noticed(x) \/ Signalled(x)
      \/ \E x \in Object, n \in Releases : Released(x, n)
      \/ \E m \in Mutex, t \in Thread : Passed(m, t)
  BY <1>1, NextTells
<1>8. 1 \in Nat
  OBVIOUS
<1> QED BY <1>2, <1>4, <1>5, <1>6, <1>7, <1>8

\* Whoever of those that wait for any object gets it is ahead of who does not.
LEMMA FirstAhead ==
  ASSUME Inv, NEW o \in Object, NEW n \in Nat, NEW t \in AnyFirst(o, n),
         NEW u \in AnyWaiters(o) \ Reached(o, n)
  PROVE  <<t, u>> \in ahead[o]
<1> DEFINE W == AnyWaiters(o)
           R == ahead[o]
<1>1. W \subseteq waiters[o] /\ IsFiniteSet(W) /\ Orders(R, W)
  BY AnyWaitersOrdered, InvTypes
<1>2. \A v : Before(o, v) = Preceding(R, W, v)
  BY DEF Before, Preceding
<1>3. t \in W /\ u \in W
      /\ Cardinality(Preceding(R, W, t)) < n /\ ~(Cardinality(Preceding(R, W, u)) < n)
  BY <1>1, <1>2 DEF AnyFirst, Reached
<1> HIDE DEF W, R
<1>4. Cardinality(Preceding(R, W, t)) \in Nat /\ Cardinality(Preceding(R, W, u)) \in Nat
  BY <1>1, PrecedingFinite
<1>5. <<u, t>> \in R => Cardinality(Preceding(R, W, u)) < Cardinality(Preceding(R, W, t))
  BY <1>1, <1>3, PrecedingGrows
<1>6. t # u /\ <<u, t>> \notin R
  BY <1>3, <1>4, <1>5
<1>7. <<t, u>> \in R
  BY <1>1, <1>3, <1>6 DEF Orders
<1> QED BY <1>7 DEF R

\* KiDispatchSatisfyFirst serves the highest priority, earliest wait: as long
\* as the priorities of sleeping threads are kept, whoever gets an object is
\* ahead of, and not below, all that go on waiting for it.
THEOREM BestWaiterAlwaysFirst ==
  ASSUME PrioritiesKept
  PROVE  Spec => BestWaiterFirst
<1>1. ASSUME Inv, [Next]_vars, NEW o \in Object, NEW t \in Got(o), NEW u \in waiters[o],
             u \in waiters'[o], call[u].type = "any"
      PROVE  <<t, u>> \in ahead[o] /\ priority[t] >= priority[u]
  <2>1. t \in waiters[o] /\ u \in AnyWaiters(o)
    BY <1>1 DEF Got, AnyWaiters
  <2>2. <<t, u>> \in ahead[o] => priority[t] >= priority[u]
    BY <1>1, <2>1, InvTypes DEF ListsMatchWaits
  <2>3. ~Noticed(o)
    BY <1>1, AllGet
  <2>4. PICK n \in Nat : Grant(o, n)
    BY <1>1, <2>3, NextGets
  <2>5. Got(o) = AnyFirst(o, n) /\ waiters'[o] = waiters[o] \ Reached(o, n)
    BY <1>1, <2>4, FirstGet
  <2> QED BY <1>1, <2>1, <2>2, <2>5, FirstAhead
<1>2. Inv /\ [Next]_vars =>
        [\A o \in Object : \A t \in Got(o), u \in waiters[o] :
           u \in waiters'[o] /\ call[u].type = "any" =>
             <<t, u>> \in ahead[o] /\ priority[t] >= priority[u]]_vars
  BY <1>1
<1> QED BY <1>2, InvHolds, PTL DEF Spec, BestWaiterFirst

\* A signal of a synchronization event, or a mutex let go, satisfies exactly
\* one waiter and is used up; KeSemaphoreRelease satisfies as many as it has
\* units and keeps the rest.
THEOREM UnitsGoOnce == Spec => EachUnitOnce
<1>1. ASSUME Inv, [Next]_vars, NEW o \in Object, Got(o) # {}
      PROVE  /\ Kind[o] \in {"synchronization", "mutex"} =>
                  Cardinality(Got(o)) = 1 /\ signaled'[o] <= 0
             /\ Kind[o] = "semaphore" =>
                  \E n \in Releases : /\ Cardinality(Got(o)) <= n
                                     /\ signaled'[o] = signaled[o] + n - Cardinality(Got(o))
  <2>1. CASE Noticed(o)
    BY <2>1 DEF Noticed
  <2>2. ASSUME NEW n \in Nat, Granted(o, n), Grant(o, n)
        PROVE  /\ Kind[o] \in {"synchronization", "mutex"} =>
                    Cardinality(Got(o)) = 1 /\ signaled'[o] <= 0
               /\ Kind[o] = "semaphore" =>
                    \E k \in Releases : /\ Cardinality(Got(o)) <= k
                                       /\ signaled'[o] = signaled[o] + k - Cardinality(Got(o))
    <3>1. Got(o) = AnyFirst(o, n)
      BY <1>1, <2>2, FirstGet
    <3>2. Cardinality(AnyFirst(o, n)) \in 0 .. n /\ AnyFirst(o, n) \subseteq AnyWaiters(o)
      BY <1>1, Served, InvTypes
    <3>3. AnyWaiters(o) # {}
      BY <1>1, <3>1, <3>2
    <3>4. n = 1 => Cardinality(Got(o)) = 1
      BY <1>1, <3>1, <3>3, ServedOne, InvTypes
    <3>5. CASE n = 1 /\ Signalled(o)
      BY <3>3, <3>4, <3>5 DEF Signalled
    <3>6. CASE n \in Releases /\ Released(o, n)
      BY <3>1, <3>2, <3>6 DEF Released
    <3>7. ASSUME n = 1, o \in Mutex, NEW t \in Thread, Passed(o, t)
          PROVE  Kind[o] = "mutex" /\ signaled'[o] = 0
      <4>1. \E y \in Thread \cup {Null} :
              /\ signaled' = [signaled EXCEPT ![o] = IF y = Null THEN 1 ELSE 0]
              /\ y = Null <=> AnyWaiters(o) = {}
        BY <1>1, <3>7, HandOverRight, InvTypes DEF Passed
      <4>2. signaled' = [signaled EXCEPT ![o] = 0]
        BY <4>1, <3>3
      <4> QED BY <1>1, <3>7, <4>2, InvTypes DEF ObjectsTyped, Counters, Mutex
    <3> QED BY <2>2, <3>4, <3>5, <3>6, <3>7 DEF Granted
  <2> QED BY <1>1, <2>1, <2>2, NextGets
<1>2. Inv /\ [Next]_vars =>
        [\A o \in Object : Got(o) # {} =>
           /\ Kind[o] \in {"synchronization", "mutex"} =>
                Cardinality(Got(o)) = 1 /\ signaled'[o] <= 0
           /\ Kind[o] = "semaphore" =>
                \E n \in Releases : /\ Cardinality(Got(o)) <= n
                                   /\ signaled'[o] = signaled[o] + n - Cardinality(Got(o))]_vars
  BY <1>1
<1> QED BY <1>2, InvHolds, PTL DEF Spec, EachUnitOnce

-----------------------------------------------------------------------------
(***************************************************************************)
(* What a wait that succeeded has.                                         *)
(***************************************************************************)

\* t is told nothing new, or what it is told of a mutex, or of all objects of
\* a wait, is true.
ToldTruth(t) ==
  /\ outcome'[t] \in Mutex /\ outcome[t] # outcome'[t] => owner'[outcome'[t]] = t
  /\ outcome'[t] = "all" /\ outcome[t] # "all" =>
       \E w \in Waits : /\ w.type = "all"
                        /\ \A m \in Objects(w) \cap Mutex : owner'[m] = t

LEMMA CodesDiffer ==
  /\ \A o \in Object : o \notin {"none", "all", Again} \cup Failures
  /\ "all" \notin {"none", Again} \cup Failures
  /\ Mutex \subseteq Object
BY OutcomeAssumption, MutexIsObject DEF Again, Failures

LEMMA UnservedToldTruth ==
  ASSUME Unserved, NEW t \in Thread
  PROVE  ToldTruth(t)
BY CodesDiffer DEF Unserved, ToldTruth

\* A thread that takes mutexes has them, unless it only looked.
LEMMA TakersToldTruth ==
  ASSUME Inv, \A v \in Waits : v.type = "all" => v.timeout # "none",
         NEW u \in Thread, NEW w \in Waits, Taken(u, w), NEW t \in Thread
  PROVE  ToldTruth(t)
<1>1. Objects(w) \subseteq Object /\ \A i \in DOMAIN w.objects : w.objects[i] \in Object
  BY ObjectsOf
<1>2. \A x : Return(u, x) => outcome'[u] = x /\ (t # u => outcome'[t] = outcome[t])
  BY InvTypes DEF Return, WaitsTyped
<1>3. CASE SatisfiedAny(u, w)
  <2>1. PICK i \in DOMAIN w.objects :
          /\ Found(u, w, i) /\ ~Overflows(u, w.objects[i])
          /\ Consume(u, {w.objects[i]}) /\ Return(u, w.objects[i])
    BY <1>3 DEF SatisfiedAny
  <2> DEFINE o == w.objects[i]
             S == {o}
  <2>2. S \in SUBSET Object /\ o \in S /\ Consume(u, S) /\ Return(u, o)
        /\ (\A x \in S : Available(u, x) /\ ~Overflows(u, x))
    BY <1>1, <2>1 DEF Found
  <2> HIDE DEF o, S
  <2>3. \A m \in S \cap Mutex : owner'[m] = u
    BY <2>2, ConsumeRight, InvTypes
  <2> QED BY <1>2, <2>2, <2>3, CodesDiffer DEF ToldTruth
<1>4. CASE SatisfiedAll(u, w)
  <2> DEFINE S == Objects(w)
  <2>1. Return(u, "all") /\ w.type = "all" /\ Consume(u, S)
        /\ (\A o \in S : Available(u, o) /\ ~Overflows(u, o))
    BY <1>4 DEF SatisfiedAll, CanHaveAll, TakenTogether
  <2>2. S \in SUBSET Object
    BY <1>1
  <2> HIDE DEF S
  <2>3. \A m \in S \cap Mutex : owner'[m] = u
    BY <2>1, <2>2, ConsumeRight, InvTypes
  <2>4. outcome'[u] = "all" /\ (t # u => outcome'[t] = outcome[t])
    BY <1>2, <2>1
  <2>5. \E v \in Waits : v.type = "all" /\ \A m \in Objects(v) \cap Mutex : owner'[m] = u
    BY <2>1, <2>3 DEF S
  <2> QED BY <2>4, <2>5, CodesDiffer DEF ToldTruth
<1> QED BY <1>3, <1>4 DEF Taken

\* Who is woken is told of the object that was granted.
LEMMA GrantTells ==
  ASSUME Inv, NEW o \in Object, NEW W \in SUBSET waiters[o], KiThreadWakeup(W, WaitStatus(o)),
         NEW t \in Thread
  PROVE  /\ t \notin W => outcome'[t] = outcome[t]
         /\ t \in W => outcome'[t] = IF t \in AnyWaiters(o) THEN o ELSE Again
<1>1. outcome' = [u \in Thread |-> IF u \in W THEN WaitStatus(o)[u] ELSE outcome[u]]
  BY DEF KiThreadWakeup
<1>2. \A u \in waiters[o] : WaitStatus(o)[u] = IF call[u].type = "any" THEN o ELSE Again
  BY DEF WaitStatus
<1> QED BY <1>1, <1>2 DEF AnyWaiters

LEMMA GrantToldTruth ==
  ASSUME Inv, NEW o \in Object, NEW W \in SUBSET waiters[o], KiThreadWakeup(W, WaitStatus(o)),
         NEW t \in Thread, o \in Mutex /\ t \in W \cap AnyWaiters(o) => owner'[o] = t
  PROVE  ToldTruth(t)
<1>1. /\ t \notin W => outcome'[t] = outcome[t]
      /\ t \in W => outcome'[t] = IF t \in AnyWaiters(o) THEN o ELSE Again
  BY GrantTells
<1> QED BY <1>1, CodesDiffer DEF ToldTruth

\* A wait that says it succeeded has the mutex, or all the mutexes, it was for,
\* whether KiMutexOwnerSet or another thread's release gave them to it.  This is
\* so unless a wait for all objects polls: with a timeout of zero it says only
\* that they were available.
THEOREM SuccessAlwaysHeld ==
  ASSUME \A w \in Waits : w.type = "all" => w.timeout # "none"
  PROVE  Spec => SuccessMeansHeld
<1>1. ASSUME Inv, [Next]_vars, NEW t \in Thread PROVE ToldTruth(t)
  <2>1. CASE Unserved
    BY <2>1, UnservedToldTruth
  <2>2. ASSUME NEW u \in Thread, NEW w \in Waits, Taken(u, w) PROVE ToldTruth(t)
    BY <1>1, <2>2, TakersToldTruth
  <2>3. ASSUME NEW o \in Object, o \notin Mutex, NEW n \in Nat, Grant(o, n) PROVE ToldTruth(t)
    <3> DEFINE W == Reached(o, n)
    <3>1. W \in SUBSET waiters[o] /\ KiThreadWakeup(W, WaitStatus(o))
      BY <1>1, <2>3, Served, InvTypes DEF Grant
    <3> HIDE DEF W
    <3> QED BY <1>1, <2>3, <3>1, GrantToldTruth
  <2>4. ASSUME NEW o \in Object, Noticed(o) PROVE ToldTruth(t)
    <3> DEFINE W == waiters[o]
    <3>1. W \in SUBSET waiters[o] /\ KiThreadWakeup(W, WaitStatus(o)) /\ o \notin Mutex
      BY <2>4 DEF Noticed, Mutex
    <3> HIDE DEF W
    <3> QED BY <1>1, <3>1, GrantToldTruth
  <2>5. ASSUME NEW o \in Object, Signalled(o) PROVE ToldTruth(t)
    BY <2>3, <2>5 DEF Signalled, Mutex
  <2>6. ASSUME NEW o \in Object, NEW n \in Releases, Released(o, n) PROVE ToldTruth(t)
    <3>1. n \in Nat
      BY WaitAssumption
    <3> QED BY <2>3, <2>6, <3>1 DEF Released, Mutex
  <2>7. ASSUME NEW m \in Mutex, NEW u \in Thread, Passed(m, u) PROVE ToldTruth(t)
    <3> DEFINE W == Reached(m, 1)
    <3>1. m \in Object /\ KiThreadWakeup(W, WaitStatus(m))
      BY <2>7, MutexIsObject DEF Passed, HandOver, Grant
    <3>2. W \in SUBSET waiters[m] /\ W \cap AnyWaiters(m) = AnyFirst(m, 1)
      BY <1>1, <3>1, Served, InvTypes
    <3>3. PICK y \in Thread \cup {Null} :
            /\ owner' = [owner EXCEPT ![m] = y]
            /\ \A x \in Thread : x \in AnyFirst(m, 1) <=> x = y
      BY <1>1, <2>7, HandOverRight, InvTypes DEF Passed
    <3>4. t \in W \cap AnyWaiters(m) => owner'[m] = t
      BY <1>1, <3>2, <3>3, InvTypes DEF ObjectsTyped
    <3> HIDE DEF W
    <3> QED BY <1>1, <3>1, <3>2, <3>4, GrantToldTruth
  <2> QED BY <1>1, <2>1, <2>2, <2>4, <2>5, <2>6, <2>7, NextTells
<1>2. Inv /\ [Next]_vars =>
        [\A t \in Thread :
           /\ outcome'[t] \in Mutex /\ outcome[t] # outcome'[t] =>
                owner'[outcome'[t]] = t
           /\ outcome'[t] = "all" /\ outcome[t] # "all" =>
                \E w \in Waits : /\ w.type = "all"
                                 /\ \A m \in Objects(w) \cap Mutex : owner'[m] = t]_vars
  BY <1>1 DEF ToldTruth
<1> QED BY <1>2, InvHolds, PTL DEF Spec, SuccessMeansHeld

=============================================================================
