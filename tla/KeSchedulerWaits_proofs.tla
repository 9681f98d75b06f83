------------------------ MODULE KeSchedulerWaits_proofs ------------------------
(***************************************************************************)
(* Two more results about the scheduler, for every finite set of threads   *)
(* and every range of priorities: the wait list that MiSwapOutStacks scans *)
(* is exact, and no boost makes a time-sharing thread a real-time one.     *)
(* Both rest on KeScheduler_proofs for the consistency of the database.    *)
(***************************************************************************)
EXTENDS KeScheduler_proofs

-----------------------------------------------------------------------------
(***************************************************************************)
(* What the routines do to sleeping threads.                               *)
(***************************************************************************)

\* Whether a thread sleeps; an operator, so that the provers see one fact.
Sleeps(db, u) == db.status[u] \in Asleep

\* No thread falls asleep or wakes up, and the waits stay as they are.
SameSleep(db, r) ==
  /\ r.waitList = db.waitList
  /\ r.waitMode = db.waitMode
  /\ \A u \in Thread : Sleeps(r, u) <=> Sleeps(db, u)

\* The same, but for t, which does not sleep afterwards.
AwakeAfter(db, r, t) ==
  /\ r.waitList = db.waitList
  /\ r.waitMode = db.waitMode
  /\ ~Sleeps(r, t)
  /\ \A u \in Thread \ {t} : Sleeps(r, u) <=> Sleeps(db, u)

LEMMA SameSleepChain ==
  ASSUME NEW a, NEW b, NEW c, SameSleep(a, b), SameSleep(b, c)
  PROVE  SameSleep(a, c)
  BY DEF SameSleep

LEMMA AwakeStaysSame ==
  ASSUME NEW a, NEW b, NEW t \in Thread, AwakeAfter(a, b, t), ~Sleeps(a, t)
  PROVE  SameSleep(a, b)
  BY DEF SameSleep, AwakeAfter

\* One thread's status changes to one that is no sleep.
LEMMA AwakeByStatus ==
  ASSUME NEW db \in Database, NEW t \in Thread, NEW status, status \notin Asleep,
         NEW r, r.status = [db.status EXCEPT ![t] = status],
         r.waitList = db.waitList, r.waitMode = db.waitMode
  PROVE  AwakeAfter(db, r, t)
<1>1. /\ r.status[t] = status
      /\ \A u \in Thread \ {t} : r.status[u] = db.status[u]
  BY DEF Database
<1> QED BY <1>1 DEF AwakeAfter, Sleeps

\* KiThreadReady: its thread does not sleep, and nobody else changes.
LEMMA ReadyAwake ==
  ASSUME NEW db \in Database, NEW moving, NEW t \in Thread \cap moving,
         AllResident(db), QueuesInPlace(db, moving),
         db.next \notin moving,
         db.next # NoThread => db.status[db.next] = "STANDBY"
  PROVE  AwakeAfter(db, KiThreadReady(db, t), t)
<1> DEFINE r == KiThreadReady(db, t)
<1>1. Frame(db, r) /\ Readied(db, r, t)
  BY ReadyEffect
<1>2. /\ db.status \in [Thread -> Status]
      /\ db.next \in Thread \cup {NoThread} /\ NoThread \notin Thread
  BY ThreadAssumption DEF Database
<1> HIDE DEF r
<1>3. \/ r.status = [db.status EXCEPT ![t] = "STANDBY", ![db.next] = "READY"]
         /\ db.next \in Thread
      \/ r.status = [db.status EXCEPT ![t] = "STANDBY"]
      \/ r.status = [db.status EXCEPT ![t] = "READY"]
  BY <1>1 DEF Readied
<1>4. /\ r.status[t] \notin Asleep
      /\ \A u \in Thread \ {t} : r.status[u] \in Asleep <=> db.status[u] \in Asleep
  <2>1. CASE /\ r.status = [db.status EXCEPT ![t] = "STANDBY", ![db.next] = "READY"]
             /\ db.next \in Thread
    <3>1. db.status[db.next] = "STANDBY"
      BY <1>2, <2>1
    <3>2. /\ r.status[t] \in {"STANDBY", "READY"}
          /\ r.status[db.next] = "READY"
          /\ \A u \in Thread \ {t, db.next} : r.status[u] = db.status[u]
      BY <1>2, <2>1
    <3> QED BY <3>1, <3>2 DEF Asleep
  <2>2. CASE \/ r.status = [db.status EXCEPT ![t] = "STANDBY"]
             \/ r.status = [db.status EXCEPT ![t] = "READY"]
    <3>1. /\ r.status[t] \in {"STANDBY", "READY"}
          /\ \A u \in Thread \ {t} : r.status[u] = db.status[u]
      BY <1>2, <2>2
    <3> QED BY <3>1 DEF Asleep
  <2> QED BY <1>3, <2>1, <2>2
<1> QED BY <1>1, <1>4 DEF AwakeAfter, Sleeps, Frame, r

LEMMA ReadyOnItsWayAwake ==
  ASSUME NEW db, NEW t \in Thread, ConsistentBut(db, t)
  PROVE  AwakeAfter(db, KiThreadReady(db, t), t)
<1>1. /\ db \in Database /\ AllResident(db) /\ QueuesInPlace(db, {t})
      /\ db.next \notin {t} /\ t \in Thread \cap {t}
  BY DEF ConsistentBut
<1>2. db.next # NoThread => db.status[db.next] = "STANDBY"
  BY <1>1 DEF ConsistentBut, Database
<1> QED BY <1>1, <1>2, ReadyAwake

LEMMA SwitchAwake ==
  ASSUME NEW db \in Database, NEW t \in Thread
  PROVE  AwakeAfter(db, KiThreadSwitch(db, t), t)
<1>1. LET r == KiThreadSwitch(db, t)
      IN  /\ r.status = [db.status EXCEPT ![t] = "RUNNING"]
          /\ r.waitMode = db.waitMode /\ r.waitList = db.waitList
  BY SwitchEffect
<1>2. "RUNNING" \notin Asleep
  BY DEF Asleep
<1> QED BY <1>1, <1>2, AwakeByStatus

\* The threads of a consistent database that cannot be asleep.
LEMMA AwakePlaces ==
  ASSUME NEW db, Consistent(db)
  PROVE  /\ ~Sleeps(db, db.current)
         /\ db.next # NoThread => ~Sleeps(db, db.next)
         /\ \A u \in Thread : db.status[u] = "READY" => ~Sleeps(db, u)
<1>1. db.current \in Thread /\ db.next \in Thread \cup {NoThread}
  BY DEF Consistent, Database
<1>2. /\ db.status[db.current] = "RUNNING"
      /\ db.next # NoThread => db.status[db.next] = "STANDBY"
  BY <1>1 DEF Consistent, ProcessorInPlace
<1> QED BY <1>2 DEF Sleeps, Asleep

\* KiThreadFind and the new next thread: both were awake.
LEMMA PromoteSame ==
  ASSUME NEW db \in Database, QueuesInPlace(db, {}),
         NEW low \in Priority, NEW high \in Int, high <= PRIORITY_HIGHREALTIME
  PROVE  SameSleep(db, Promote(db, low, high))
<1> DEFINE r == Promote(db, low, high)
<1>1. /\ Frame(db, r)
      /\ \/ r = db
         \/ /\ r.next \in Thread /\ db.status[r.next] = "READY"
            /\ r.status = [db.status EXCEPT ![r.next] = "STANDBY"]
  <2> HIDE DEF r
  <2> QED BY PromoteEffect DEF r
<1> HIDE DEF r
<1>2. CASE r = db
  BY <1>2 DEF SameSleep, r
<1>3. CASE /\ r.next \in Thread /\ db.status[r.next] = "READY"
           /\ r.status = [db.status EXCEPT ![r.next] = "STANDBY"]
  <2>1. AwakeAfter(db, r, r.next)
    <3>1. "STANDBY" \notin Asleep
      BY DEF Asleep
    <3> QED BY <1>1, <1>3, <3>1, AwakeByStatus DEF Frame
  <2>2. ~Sleeps(db, r.next)
    BY <1>3 DEF Sleeps, Asleep
  <2> QED BY <1>3, <2>1, <2>2, AwakeStaysSame DEF r
<1> QED BY <1>1, <1>2, <1>3

\* A thread's priority changes in place.
LEMMA RepriorityQuiet ==
  ASSUME NEW db, Consistent(db), NEW t \in Thread \ {IdleThread},
         NEW prio \in Priority
  PROVE  LET c == [db EXCEPT !.priority[t] = prio]
         IN  /\ c \in Database
             /\ c.status = db.status /\ c.queue = db.queue
             /\ c.next = db.next
             /\ c.inSwapList = db.inSwapList
             /\ SameSleep(db, c)
             /\ db.status[t] # "READY" => Consistent(c)
  BY RepriorityEffect DEF SameSleep, Sleeps

\* A queued thread stays awake when it changes queues.
LEMMA RequeueSame ==
  ASSUME NEW db, Consistent(db), NEW t \in Thread \ {IdleThread},
         NEW prio \in Priority, db.status[t] = "READY"
  PROVE  SameSleep(db, Requeued(db, t, prio))
<1> DEFINE b == Unlinked(db, t, prio)
<1>1. /\ ConsistentBut(b, t) /\ b.status = db.status
      /\ b.waitMode = db.waitMode /\ b.waitList = db.waitList
  BY UnlinkedOnItsWay
<1> HIDE DEF b
<1>2. SameSleep(db, b) /\ ~Sleeps(b, t)
  BY <1>1 DEF SameSleep, Sleeps, Asleep
<1>3. SameSleep(b, KiThreadReady(b, t))
  BY <1>1, <1>2, ReadyOnItsWayAwake, AwakeStaysSame
<1> QED BY <1>2, <1>3, SameSleepChain DEF Requeued, b

\* A better thread takes the place of the next one, which is readied.
LEMMA DemoteSame ==
  ASSUME NEW db, Consistent(db), NEW t \in Thread \ {IdleThread}, db.next = t,
         NEW low \in Priority, NEW high \in Int, high <= PRIORITY_HIGHREALTIME,
         Occupied(db, low, high) # {}
  PROVE  SameSleep(db, KiThreadReady(Promote(db, low, high), t))
<1> DEFINE c == Promote(db, low, high)
<1>1. ConsistentBut(c, t)
  BY DemotedOnItsWay
<1>2. SameSleep(db, c)
  BY PromoteSame DEF Consistent
<1> HIDE DEF c
<1>3. ~Sleeps(c, t)
  <2>1. t # NoThread
    BY ThreadAssumption
  <2> QED BY <1>2, <2>1, AwakePlaces DEF SameSleep
<1>4. SameSleep(c, KiThreadReady(c, t))
  BY <1>1, <1>3, ReadyOnItsWayAwake, AwakeStaysSame
<1> QED BY <1>2, <1>4, SameSleepChain DEF c

\* No change of priority puts a thread to sleep or wakes one.
LEMMA PrioritySetSame ==
  ASSUME NEW db, Consistent(db), NEW t \in Thread \ {IdleThread},
         NEW prio \in Priority
  PROVE  SameSleep(db, KiThreadPrioritySet(db, t, prio))
<1> DEFINE old == db.priority[t]
           c == [db EXCEPT !.priority[t] = prio]
           chosen == Promote(c, prio + 1, old)
           r == KiThreadPrioritySet(db, t, prio)
<1>1. /\ db \in Database /\ old \in Int /\ prio \in Int
      /\ old <= PRIORITY_HIGHREALTIME
      /\ db.inSwapList[t] = FALSE
      /\ prio < old => prio + 1 \in Priority
  <2>1. db \in Database /\ db.inSwapList \in [Thread -> BOOLEAN]
        /\ ~ db.inSwapList[t]
    BY DEF Consistent, AllResident, Database
  <2> QED BY <2>1, NumbersTyped
<1>2. /\ c \in Database /\ c.status = db.status
      /\ c.queue = db.queue /\ c.next = db.next
      /\ SameSleep(db, c)
      /\ db.status[t] # "READY" => Consistent(c)
  BY RepriorityQuiet
<1>3. CASE prio = old
  <2>1. r = db
    BY <1>1, <1>3 DEF KiThreadPrioritySet
  <2> HIDE DEF r
  <2> QED BY <2>1 DEF SameSleep, r
<1>4. CASE prio # old /\ db.status[t] = "READY"
  <2>1. r = Requeued(db, t, prio)
    BY <1>1, <1>4 DEF KiThreadPrioritySet, Requeued, Unlinked
  <2> HIDE DEF r
  <2>2. SameSleep(db, r)
    BY <1>4, <2>1, RequeueSame
  <2> QED BY <2>2 DEF r
<1>5. CASE r = c
  <2> HIDE DEF r, c
  <2> QED BY <1>2, <1>5 DEF r
<1>6. CASE /\ prio < old /\ db.status[t] = "STANDBY"
           /\ Occupied(db, prio + 1, old) # {}
  <2>1. r = KiThreadReady(chosen, t)
    BY <1>1, <1>6 DEF KiThreadPrioritySet
  <2>2. Occupied(c, prio + 1, old) = Occupied(db, prio + 1, old)
    BY <1>2 DEF Occupied
  <2>3. c.next = t /\ Consistent(c)
    BY <1>2, <1>6 DEF Consistent, ProcessorInPlace
  <2> HIDE DEF c, old, r
  <2>4. SameSleep(c, KiThreadReady(chosen, t))
    BY <1>1, <1>6, <2>2, <2>3, DemoteSame
  <2> HIDE DEF chosen
  <2>5. SameSleep(db, r)
    BY <1>2, <2>1, <2>4, SameSleepChain
  <2> QED BY <2>5 DEF r
<1>7. CASE /\ prio < old /\ db.status[t] = "RUNNING"
           /\ Occupied(db, prio + 1, old) # {}
           /\ r = KiSoftwareInterruptRequest(chosen)
  <2>1. Consistent(c)
    BY <1>2, <1>7
  <2>2. c \in Database /\ QueuesInPlace(c, {})
    BY <2>1 DEF Consistent
  <2> HIDE DEF c, old, r
  <2>3. SameSleep(c, chosen) /\ chosen \in Database
    BY <1>1, <1>7, <2>2, PromoteSame, PromoteEffect
  <2> HIDE DEF chosen
  <2>4. SameSleep(chosen, r)
    BY <1>7, <2>3 DEF Database, KiSoftwareInterruptRequest, SameSleep, Sleeps
  <2>5. SameSleep(db, r)
    BY <1>2, <2>3, <2>4, SameSleepChain
  <2> QED BY <2>5 DEF r
<1>8. \/ r = c
      \/ prio = old
      \/ prio # old /\ db.status[t] = "READY"
      \/ /\ prio < old /\ db.status[t] = "STANDBY"
         /\ Occupied(db, prio + 1, old) # {}
      \/ /\ prio < old /\ db.status[t] = "RUNNING"
         /\ Occupied(db, prio + 1, old) # {}
         /\ r = KiSoftwareInterruptRequest(chosen)
  BY DEF KiThreadPrioritySet
<1> QED BY <1>3, <1>4, <1>5, <1>6, <1>7, <1>8

LEMMA BasePrioritySetSame ==
  ASSUME NEW db, Consistent(db), NEW t \in Thread \ {IdleThread},
         NEW prio \in Priority
  PROVE  SameSleep(db, KiThreadBasePrioritySet(db, t, prio))
<1> DEFINE c == IF prio > db.priority[t]
                THEN KiThreadPrioritySet(db, t, prio) ELSE db
           r == KiThreadBasePrioritySet(db, t, prio)
<1>1. SameSleep(db, c) /\ c \in Database
  <2>1. SameSleep(db, db) /\ db \in Database
    BY DEF SameSleep, Consistent
  <2>2. /\ SameSleep(db, KiThreadPrioritySet(db, t, prio))
        /\ KiThreadPrioritySet(db, t, prio) \in Database
    BY PrioritySetSame, PrioritySetConsistent DEF Consistent
  <2> QED BY <2>1, <2>2
<1>2. r = db \/ r = [c EXCEPT !.base[t] = prio]
  BY DEF KiThreadBasePrioritySet
<1> HIDE DEF c, r
<1>3. r = db \/ (/\ r.status = c.status /\ r.waitList = c.waitList
                 /\ r.waitMode = c.waitMode)
  BY <1>1, <1>2 DEF Database
<1>4. SameSleep(db, r)
  BY <1>1, <1>3 DEF SameSleep, Sleeps
<1> QED BY <1>4 DEF r

LEMMA BoostSame ==
  ASSUME NEW db, Consistent(db), NEW t \in Thread \ {IdleThread},
         NEW boost \in Nat
  PROVE  SameSleep(db, KiThreadPriorityBoost(db, t, boost))
<1> DEFINE boosted == Capped(db.base[t] + boost)
           c == [db EXCEPT !.quantum[t] = BaseQuantum]
           r == KiThreadPriorityBoost(db, t, boost)
<1>1. r = db \/ r = KiThreadPrioritySet(c, t, boosted)
  BY DEF KiThreadPriorityBoost
<1>2. boosted \in Priority /\ BaseQuantum \in Byte
  <2>1. db \in Database
    BY DEF Consistent
  <2> QED BY <2>1, NumbersTyped DEF Capped
<1>3. c = [db EXCEPT !.quantum[t] = BaseQuantum]
  OBVIOUS
<1> HIDE DEF c
<1>4. Consistent(c)
  BY <1>2, <1>3, RequantumAlone
<1>5. SameSleep(db, c)
  BY <1>3 DEF Consistent, Database, SameSleep, Sleeps
<1> HIDE DEF boosted, r
<1>6. SameSleep(c, KiThreadPrioritySet(c, t, boosted))
  BY <1>2, <1>4, PrioritySetSame
<1>7. SameSleep(db, db)
  BY DEF SameSleep
<1>8. SameSleep(db, r)
  BY <1>1, <1>5, <1>6, <1>7, SameSleepChain
<1> QED BY <1>8 DEF r

LEMMA BoostReadySame ==
  ASSUME NEW db, Consistent(db), NEW t \in Thread \ {IdleThread}
  PROVE  SameSleep(db, BoostReadyThread(db, t))
<1> DEFINE q == (BaseQuantum * 2) % ByteRange
           i == TRUE
           c == [db EXCEPT !.quantum[t] = q, !.instantDecay[t] = i]
<1>1. q \in Byte /\ i \in BOOLEAN /\ PRIORITY_HIGHUSER \in Priority
  <2>1. BaseQuantum * 2 \in Int /\ ByteRange \in Int /\ 0 < ByteRange
    BY QuantumAssumption
  <2>2. q \in 0 .. ByteRange - 1
    BY <2>1
  <2>3. db \in Database
    BY DEF Consistent
  <2> QED BY <2>2, <2>3, NumbersTyped DEF Byte
<1>2. BoostReadyThread(db, t) = KiThreadPrioritySet(c, t, PRIORITY_HIGHUSER)
  BY DEF BoostReadyThread
<1>3. c = Requantum(db, t, q, i)
  BY DEF Requantum
<1> HIDE DEF c, q, i
<1>4. Consistent(c)
  BY <1>1, <1>3, RequantumEffect
<1>5. SameSleep(db, c)
  BY <1>3 DEF Consistent, Database, Requantum, SameSleep, Sleeps
<1>6. SameSleep(c, KiThreadPrioritySet(c, t, PRIORITY_HIGHUSER))
  BY <1>1, <1>4, PrioritySetSame
<1> QED BY <1>2, <1>5, <1>6, SameSleepChain

\* A quantum end changes bytes and flags of the current thread, and then its
\* priority or the next thread.
LEMMA QuantumEndEffect ==
  ASSUME NEW db, Consistent(db)
  PROVE  LET r == KiThreadQuantumEnd(db)
             t == db.current
         IN  /\ SameSleep(db, r)
             /\ r.base = db.base
             /\ \/ r.priority = db.priority
                \/ r.priority = [db.priority EXCEPT ![t] = Decayed(db, t)]
<1> DEFINE t     == db.current
           old   == db.priority[t]
           ends  == db.quantumEnds[t]
           user  == old < PRIORITY_LOWREALTIME
           prio  == Decayed(db, t)
           fresh == IF ~user THEN BaseQuantum
                    ELSE IF ends >= BaseQuantum THEN 1 ELSE BaseQuantum - ends
           i     == db.instantDecay[t] /\ ~user
           n     == (ends + 1) % ByteRange
           c     == [db EXCEPT !.quantumEnds[t] = n, !.quantum[t] = fresh,
                               !.instantDecay[t] = i]
           alone == [c EXCEPT !.quantumEnds[t] = 0]
           calm  == [c EXCEPT !.wasPreempted[t] = FALSE]
           idle  == [db EXCEPT !.quantum[t] = ByteRange - 1]
           r     == KiThreadQuantumEnd(db)
<1>1. /\ db \in Database /\ t \in Thread
      /\ old \in Priority /\ old \in Int /\ old <= PRIORITY_HIGHREALTIME
      /\ ends \in Byte
  <2>1. db \in Database /\ t \in Thread
    BY DEF Consistent, Database
  <2> HIDE DEF t
  <2> QED BY <2>1, NumbersTyped
<1>2. prio \in Priority /\ fresh \in Byte /\ i \in BOOLEAN /\ n \in Byte /\ 0 \in Byte
  <2>1. prio \in Priority
    BY <1>1, NumbersTyped DEF Decayed, Larger
  <2>2. fresh \in Byte
    BY <1>1, QuantumAssumption DEF Byte
  <2>3. n \in Byte /\ 0 \in Byte
    <3>1. ends + 1 \in Int /\ ByteRange \in Int /\ 0 < ByteRange
      BY <1>1, QuantumAssumption DEF Byte
    <3>2. (ends + 1) % ByteRange \in 0 .. ByteRange - 1
      BY <3>1
    <3> QED BY <3>1, <3>2 DEF Byte
  <2>4. i \in BOOLEAN
    OBVIOUS
  <2> QED BY <2>1, <2>2, <2>3, <2>4
<1>3. \/ r = idle \/ r = alone \/ r = calm
      \/ r = KiThreadPrioritySet(alone, t, prio) /\ old # PRIORITY_IDLE
      \/ r = Promote(c, old, old)
  BY DEF KiThreadQuantumEnd
<1> HIDE DEF prio, fresh, i, n
<1> DEFINE Quiet(x) == /\ SameSleep(db, x)
                       /\ x.base = db.base /\ x.priority = db.priority
<1>4. Quiet(idle) /\ Quiet(c) /\ Quiet(alone) /\ Quiet(calm)
  BY <1>1 DEF Database, SameSleep, Sleeps
<1>5. Consistent(alone) /\ Consistent(c)
  <2> DEFINE ns == [db.quantumEnds EXCEPT ![t] = n]
             zs == [db.quantumEnds EXCEPT ![t] = 0]
             qs == [db.quantum EXCEPT ![t] = fresh]
             is == [db.instantDecay EXCEPT ![t] = i]
  <2>1. /\ ns \in [Thread -> Byte] /\ zs \in [Thread -> Byte]
        /\ qs \in [Thread -> Byte] /\ is \in [Thread -> BOOLEAN]
    BY <1>1, <1>2 DEF Database
  <2>2. /\ c = [db EXCEPT !.quantumEnds = ns, !.quantum = qs, !.instantDecay = is]
        /\ alone = [db EXCEPT !.quantumEnds = zs, !.quantum = qs, !.instantDecay = is]
    BY <1>1 DEF Database
  <2> HIDE DEF ns, zs, qs, is, c, alone
  <2>3. /\ c \in Database
        /\ c.status = db.status /\ c.queue = db.queue /\ c.next = db.next
        /\ c.current = db.current /\ c.priority = db.priority
        /\ c.stackResident = db.stackResident /\ c.inSwapList = db.inSwapList
        /\ c.memoryState = db.memoryState
    BY <1>1, <2>1, <2>2 DEF Database
  <2>4. /\ alone \in Database
        /\ alone.status = db.status /\ alone.queue = db.queue
        /\ alone.next = db.next /\ alone.current = db.current
        /\ alone.priority = db.priority
        /\ alone.stackResident = db.stackResident
        /\ alone.inSwapList = db.inSwapList
        /\ alone.memoryState = db.memoryState
    BY <1>1, <2>1, <2>2 DEF Database
  <2> QED BY <2>3, <2>4, QuietConsistent
<1> HIDE DEF c, alone, calm, idle
<1>6. old # PRIORITY_IDLE => t # IdleThread
  BY DEF Consistent, IdleReady
<1> HIDE DEF old, r, t
<1>7. ASSUME old # PRIORITY_IDLE, NEW x, x = KiThreadPrioritySet(alone, t, prio)
      PROVE  /\ SameSleep(db, x) /\ x.base = db.base
             /\ x.priority = [db.priority EXCEPT ![t] = prio]
  <2>1. SameSleep(alone, x)
    BY <1>1, <1>2, <1>5, <1>6, <1>7, PrioritySetSame
  <2>2. x.base = alone.base /\ x.priority = [alone.priority EXCEPT ![t] = prio]
    BY <1>1, <1>2, <1>5, <1>6, <1>7, PrioritySetConsistent
  <2> QED BY <1>4, <2>1, <2>2, SameSleepChain
<1>8. Quiet(Promote(c, old, old))
  <2> DEFINE x == Promote(c, old, old)
  <2>1. SameSleep(c, x) /\ Frame(c, x)
    BY <1>1, <1>5, PromoteSame, PromoteEffect DEF Consistent
  <2> HIDE DEF x
  <2>2. SameSleep(db, x)
    BY <1>4, <2>1, SameSleepChain
  <2>3. Quiet(x)
    BY <1>4, <2>1, <2>2 DEF Frame
  <2> QED BY <2>3 DEF x
<1>9. \/ Quiet(r)
      \/ /\ SameSleep(db, r) /\ r.base = db.base
         /\ r.priority = [db.priority EXCEPT ![t] = prio]
  <2> HIDE DEF Quiet
  <2> QED BY <1>3, <1>4, <1>7, <1>8
<1> QED BY <1>9 DEF r, t, prio

\* The current thread is readied, and x takes the processor.
LEMMA ExchangeSame ==
  ASSUME NEW db, Consistent(db), NEW x \in Thread, x # db.current,
         ~Sleeps(db, x),
         NEW c \in Database, QueuesInPlace(c, {x}), SameSleep(db, c),
         c.status = db.status, c.next = NoThread, AllResident(c)
  PROVE  SameSleep(db, KiThreadSwitch(KiThreadReady(c, db.current), x))
<1> DEFINE t == db.current
           b == KiThreadReady(c, t)
<1>1. t \in Thread /\ db.status[t] = "RUNNING" /\ ~Sleeps(db, t)
      /\ NoThread \notin Thread
  BY AwakePlaces, ThreadAssumption DEF Consistent, Database, ProcessorInPlace
<1>2. QueuesInPlace(c, {x, t})
  <2>1. {u \in Thread \ {x} : c.status[u] = "READY"}
        = {u \in Thread \ {x, t} : c.status[u] = "READY"}
    BY <1>1
  <2>2. \A u \in Thread \ {x} : c.status[u] = "READY" => c.priority[u] = c.priority[u]
    OBVIOUS
  <2> HIDE DEF t
  <2> QED BY <2>1, <2>2, SameQueues
<1>3. AwakeAfter(c, b, t) /\ b \in Database
  <2>1. t \in Thread \cap {x, t} /\ c.next \notin {x, t}
    BY <1>1
  <2> HIDE DEF b, t
  <2> QED BY <1>2, <2>1, ReadyAwake, ReadyEffect DEF b
<1> HIDE DEF b, t
<1>4. SameSleep(c, b)
  BY <1>1, <1>3, AwakeStaysSame DEF SameSleep
<1>5. SameSleep(db, b)
  BY <1>4, SameSleepChain
<1>6. SameSleep(b, KiThreadSwitch(b, x))
  BY <1>3, <1>5, SwitchAwake, AwakeStaysSame DEF SameSleep
<1> QED BY <1>5, <1>6, SameSleepChain DEF b, t

LEMMA YieldSame ==
  ASSUME NEW db, Consistent(db)
  PROVE  SameSleep(db, KiThreadYieldQuantum(db))
<1> DEFINE p == db.priority[db.current]
           x == Head(db.queue[p])
           c == Dequeue(db, p)
<1>1. CASE db.next # NoThread \/ db.queue[p] = << >>
  BY <1>1 DEF KiThreadYieldQuantum, SameSleep
<1>2. CASE db.next = NoThread /\ db.queue[p] # << >>
  <2>1. /\ db \in Database /\ QueuesInPlace(db, {}) /\ p \in Priority
        /\ db.queue[p] \in Seq(Thread)
    BY DEF Consistent, Database
  <2>2. x \in Thread /\ db.status[x] = "READY"
    <3>1. x \in Range(db.queue[p])
      BY <1>2, <2>1, TailOfQueue DEF QueuesInPlace
    <3> HIDE DEF x, p
    <3> QED BY <2>1, <3>1 DEF QueuesInPlace
  <2>3. KiThreadYieldQuantum(db) = KiThreadSwitch(KiThreadReady(c, db.current), x)
    BY <1>2 DEF KiThreadYieldQuantum
  <2> HIDE DEF p
  <2>4. /\ c \in Database /\ Frame(db, c) /\ c.status = db.status
        /\ c.next = db.next /\ c.inSwapList = db.inSwapList
        /\ QueuesInPlace(c, {x})
    BY <1>2, <2>1, DequeueEffect
  <2> HIDE DEF c, x
  <2>5. x # db.current /\ ~Sleeps(db, x)
    BY <2>2, AwakePlaces DEF Consistent, ProcessorInPlace
  <2>6. SameSleep(db, c) /\ AllResident(c)
    BY <2>4 DEF Frame, SameSleep, Sleeps, Consistent, AllResident
  <2> QED BY <1>2, <2>2, <2>3, <2>4, <2>5, <2>6, ExchangeSame
<1> QED BY <1>1, <1>2

LEMMA NextSwitchSame ==
  ASSUME NEW db, Consistent(db), db.next # NoThread
  PROVE  SameSleep(db, KiThreadNextSwitch(db))
<1> DEFINE x == db.next
           c == [db EXCEPT !.next = NoThread]
<1>1. /\ db \in Database /\ QueuesInPlace(db, {}) /\ x \in Thread
      /\ AllResident(db)
  BY DEF Consistent, Database
<1>2. db.status[x] = "STANDBY" /\ x # db.current /\ ~Sleeps(db, x)
  BY <1>1, AwakePlaces DEF Consistent, ProcessorInPlace
<1>3. /\ c \in Database /\ c.status = db.status /\ c.next = NoThread
      /\ c.queue = db.queue /\ c.priority = db.priority
      /\ c.stackResident = db.stackResident /\ c.inSwapList = db.inSwapList
      /\ c.memoryState = db.memoryState
      /\ c.waitList = db.waitList /\ c.waitMode = db.waitMode
  BY <1>1 DEF Database
<1>4. KiThreadNextSwitch(db) = KiThreadSwitch(KiThreadReady(c, db.current), x)
  BY DEF KiThreadNextSwitch
<1> HIDE DEF c, x
<1>5. QueuesInPlace(c, {x})
  <2>1. {u \in Thread \ {} : db.status[u] = "READY"}
        = {u \in Thread \ {x} : c.status[u] = "READY"}
    BY <1>2, <1>3
  <2>2. \A u \in Thread \ {} : db.status[u] = "READY" => c.priority[u] = db.priority[u]
    BY <1>3
  <2> QED BY <1>1, <1>3, <2>1, <2>2, SameQueues
<1>6. SameSleep(db, c) /\ AllResident(c)
  BY <1>1, <1>3 DEF SameSleep, Sleeps, AllResident
<1> QED BY <1>1, <1>2, <1>3, <1>4, <1>5, <1>6, ExchangeSame

\* The current thread leaves the processor with a new status, and the thread
\* that takes it was awake.
LEMMA BlockSleeps ==
  ASSUME NEW db, Consistent(db), db.current # IdleThread,
         NEW status \in Status \ {"READY", "STANDBY", "RUNNING"}
  PROVE  LET r == KiThreadBlock(db, status)
         IN  /\ r.waitList = db.waitList
             /\ r.waitMode = db.waitMode
             /\ r.status[db.current] = status
             /\ \A u \in Thread \ {db.current} : Sleeps(r, u) <=> Sleeps(db, u)
<1> DEFINE t == db.current
           s == [db.status EXCEPT ![t] = status]
           q == [db.quantumEnds EXCEPT ![t] = 0]
           c == [db EXCEPT !.quantumEnds = q, !.status = s]
           r == SwitchToSelected(c)
<1>1. /\ db \in Database /\ t \in Thread /\ t # IdleThread
      /\ AllResident(db) /\ QueuesInPlace(db, {}) /\ ProcessorInPlace(db)
      /\ IdleReady(db)
      /\ db.status \in [Thread -> Status]
      /\ IdleThread \in Thread
  BY ThreadAssumption DEF Consistent, Database
<1>2. s \in [Thread -> Status] /\ q \in [Thread -> Byte]
  <2>1. 0 \in Byte
    BY QuantumAssumption DEF Byte
  <2>2. status \in Status /\ db.quantumEnds \in [Thread -> Byte]
    BY <1>1 DEF Database
  <2> HIDE DEF t
  <2> QED BY <1>1, <2>1, <2>2
<1>3. KiThreadBlock(db, status) = r
  <2>1. c = [db EXCEPT !.quantumEnds[t] = 0, !.status[t] = status]
    BY <1>1 DEF Database
  <2> HIDE DEF c
  <2> QED BY <2>1 DEF KiThreadBlock
<1>4. /\ s[t] = status /\ \A u \in Thread \ {t} : s[u] = db.status[u]
  BY <1>1
<1> HIDE DEF s, q
<1>5. /\ c \in Database
      /\ c.status = s /\ c.queue = db.queue /\ c.next = db.next
      /\ c.current = t /\ c.priority = db.priority
      /\ c.stackResident = db.stackResident
      /\ c.inSwapList = db.inSwapList /\ c.memoryState = db.memoryState
      /\ c.waitList = db.waitList /\ c.waitMode = db.waitMode
  BY <1>1, <1>2 DEF Database
<1> HIDE DEF c
<1>6. db.status[t] = "RUNNING" /\ db.next # t
  BY <1>1 DEF ProcessorInPlace
<1>7. QueuesInPlace(c, {})
  <2>1. {u \in Thread \ {} : db.status[u] = "READY"}
        = {u \in Thread \ {} : c.status[u] = "READY"}
    BY <1>4, <1>5, <1>6
  <2>2. \A u \in Thread \ {} : db.status[u] = "READY" => c.priority[u] = db.priority[u]
    BY <1>5
  <2> QED BY <1>1, <1>5, <2>1, <2>2, SameQueues
<1>8. \A u \in Thread \ {t} : /\ c.status[u] = "STANDBY" <=> c.next = u
                              /\ c.status[u] # "RUNNING"
  BY <1>1, <1>4, <1>5 DEF ProcessorInPlace
<1>9. AllResident(c) /\ IdleReady(c)
  BY <1>1, <1>4, <1>5 DEF AllResident, IdleReady
<1>10. /\ r.current \in Thread /\ r.current # t
       /\ r.status = [c.status EXCEPT ![r.current] = "RUNNING"]
       /\ r.waitMode = c.waitMode /\ r.waitList = c.waitList
       /\ c.next # NoThread => r.current = c.next
       /\ c.next = NoThread => c.status[r.current] = "READY"
  <2>1. c.status[t] \notin {"READY", "STANDBY"} /\ c.next # t
    BY <1>4, <1>5, <1>6
  <2> HIDE DEF r
  <2> QED BY <1>1, <1>5, <1>7, <1>8, <1>9, <2>1, SelectedEffect DEF r
<1> HIDE DEF r, t
<1>11. c.status[r.current] \in {"READY", "STANDBY"}
  BY <1>8, <1>10
<1>12. AwakeAfter(c, r, r.current) /\ ~Sleeps(c, r.current)
  <2>1. "RUNNING" \notin Asleep /\ "READY" \notin Asleep /\ "STANDBY" \notin Asleep
    BY DEF Asleep
  <2> QED BY <1>5, <1>10, <1>11, <2>1, AwakeByStatus DEF Sleeps
<1>13. SameSleep(c, r)
  BY <1>10, <1>12, AwakeStaysSame
<1>14. r.status[t] = status
  BY <1>1, <1>2, <1>4, <1>5, <1>10
<1>15. \A u \in Thread \ {t} : Sleeps(r, u) <=> Sleeps(db, u)
  BY <1>4, <1>5, <1>13 DEF SameSleep, Sleeps
<1> QED BY <1>3, <1>5, <1>10, <1>14, <1>15 DEF t

-----------------------------------------------------------------------------
(***************************************************************************)
(* The wait list.                                                          *)
(***************************************************************************)

\* WaitListExact of any database.
Exact(db) ==
  \A u \in Thread : u \in db.waitList <=> Sleeps(db, u) /\ db.waitMode[u] = "USER"

LEMMA SameSleepExact ==
  ASSUME NEW db, NEW r, SameSleep(db, r), Exact(db)
  PROVE  Exact(r)
  BY DEF SameSleep, Exact

\* A thread that waits joins the list if its wait is a user-mode one.
LEMMA WaitExact ==
  ASSUME NEW db, Consistent(db), Exact(db), db.current # IdleThread,
         NEW mode \in WaitMode, NEW status \in Asleep
  PROVE  Exact(KiThreadWait(db, mode, status))
<1> DEFINE t == db.current
           m == [db.waitMode EXCEPT ![t] = mode]
           w == IF mode = "USER" THEN db.waitList \cup {t} ELSE db.waitList
           b == [db EXCEPT !.waitMode = m, !.waitList = w]
           r == KiThreadBlock(b, status)
<1>1. /\ db \in Database /\ t \in Thread
      /\ status \in Status \ {"READY", "STANDBY", "RUNNING"}
  BY DEF Consistent, Database, Asleep, Status
<1>2. m \in [Thread -> WaitMode] /\ w \in SUBSET Thread
  BY <1>1 DEF Database
<1>3. KiThreadWait(db, mode, status) = r
  <2>1. b = [db EXCEPT !.waitMode[t] = mode, !.waitList = w]
    BY <1>1 DEF Database
  <2> HIDE DEF b
  <2> QED BY <2>1 DEF KiThreadWait
<1>4. /\ m[t] = mode /\ \A u \in Thread \ {t} : m[u] = db.waitMode[u]
  BY <1>1 DEF Database
<1>5. /\ t \in w <=> mode = "USER"
      /\ \A u \in Thread \ {t} : u \in w <=> u \in db.waitList
  <2>1. ~Sleeps(db, t)
    BY AwakePlaces
  <2> QED BY <1>1, <2>1 DEF Exact
<1> HIDE DEF m, w
<1>6. /\ b \in Database
      /\ b.status = db.status /\ b.queue = db.queue /\ b.next = db.next
      /\ b.current = t /\ b.priority = db.priority
      /\ b.stackResident = db.stackResident
      /\ b.inSwapList = db.inSwapList /\ b.memoryState = db.memoryState
      /\ b.waitMode = m /\ b.waitList = w
  BY <1>1, <1>2 DEF Database
<1> HIDE DEF b, r
<1>7. Consistent(b)
  BY <1>6, QuietConsistent
<1>8. /\ r.waitList = w /\ r.waitMode = m /\ r.status[t] = status
      /\ \A u \in Thread \ {t} : Sleeps(r, u) <=> Sleeps(b, u)
  <2> HIDE DEF t
  <2> QED BY <1>1, <1>6, <1>7, BlockSleeps DEF r, t
<1>9. Sleeps(r, t) /\ \A u \in Thread \ {t} : Sleeps(r, u) <=> Sleeps(db, u)
  BY <1>6, <1>8 DEF Sleeps
<1>10. ASSUME NEW u \in Thread
       PROVE  u \in r.waitList <=> Sleeps(r, u) /\ r.waitMode[u] = "USER"
  <2>1. CASE u = t
    BY <1>4, <1>5, <1>8, <1>9, <2>1
  <2>2. CASE u # t
    BY <1>4, <1>5, <1>8, <1>9, <2>2 DEF Exact
  <2> QED BY <2>1, <2>2
<1> QED BY <1>3, <1>10 DEF Exact

\* A thread that exits was not on the list.
LEMMA TerminateExact ==
  ASSUME NEW db, Consistent(db), Exact(db), db.current # IdleThread
  PROVE  Exact(KiThreadBlock(db, "TERMINATED"))
<1> DEFINE r == KiThreadBlock(db, "TERMINATED")
<1>1. "TERMINATED" \in Status \ {"READY", "STANDBY", "RUNNING"}
      /\ "TERMINATED" \notin Asleep
  BY DEF Status, Asleep
<1>2. /\ r.waitList = db.waitList /\ r.waitMode = db.waitMode
      /\ r.status[db.current] = "TERMINATED"
      /\ \A u \in Thread \ {db.current} : Sleeps(r, u) <=> Sleeps(db, u)
  BY <1>1, BlockSleeps
<1> HIDE DEF r
<1>3. SameSleep(db, r)
  BY <1>1, <1>2, AwakePlaces DEF SameSleep, Sleeps
<1>4. Exact(r)
  BY <1>3, SameSleepExact
<1> QED BY <1>4 DEF r

\* A thread that wakes up leaves the list.
LEMMA WakeupExact ==
  ASSUME NEW db, Consistent(db), Exact(db), NEW t \in Thread, NEW boost \in Nat,
         Sleeps(db, t)
  PROVE  Exact(KiThreadWakeup(db, t, boost))
<1> DEFINE c == Roused(db, t, boost)
           r == KiThreadReady(c, t)
<1>1. /\ ConsistentBut(c, t) /\ c.status = db.status
      /\ c.waitMode = db.waitMode /\ c.waitList = LeaveWaitList(db, t)
  BY RousedOnItsWay, RousedEffect DEF Sleeps, Consistent
<1>2. \A u \in Thread : u \in c.waitList <=> u # t /\ u \in db.waitList
  <2>1. db.stackResident[t]
    BY DEF Consistent, AllResident
  <2>2. t \in db.waitList <=> db.waitMode[t] = "USER"
    BY DEF Exact
  <2> HIDE DEF c
  <2> QED BY <1>1, <2>1, <2>2 DEF LeaveWaitList
<1> HIDE DEF c
<1>3. AwakeAfter(c, r, t)
  BY <1>1, ReadyOnItsWayAwake
<1> HIDE DEF r
<1>4. Exact(r)
  BY <1>1, <1>2, <1>3 DEF Exact, AwakeAfter, Sleeps
<1> QED BY <1>4 DEF KiThreadWakeup, r, c

-----------------------------------------------------------------------------
(***************************************************************************)
(* Boosts and decay.                                                       *)
(***************************************************************************)
TimeSharing(db, u) == db.priority[u] < PRIORITY_LOWREALTIME
RealtimeBase(db, u) == db.base[u] >= PRIORITY_LOWREALTIME

\* A time-sharing thread stays one, unless its base priority is a real-time one.
StaysTimeSharing(db, r) ==
  \A u \in Thread : TimeSharing(db, u) => TimeSharing(r, u) \/ RealtimeBase(r, u)

LEMMA SameDecayStays ==
  ASSUME NEW db, NEW r, SameDecay(db, r)
  PROVE  StaysTimeSharing(db, r)
  BY DEF SameDecay, StaysTimeSharing, TimeSharing

\* One thread gets a new priority.
LEMMA NewPriorityStays ==
  ASSUME NEW db \in Database, NEW t \in Thread, NEW p, NEW r,
         r.priority = [db.priority EXCEPT ![t] = p], r.base = db.base,
         TimeSharing(db, t) => p < PRIORITY_LOWREALTIME \/ RealtimeBase(db, t)
  PROVE  StaysTimeSharing(db, r)
<1>1. /\ r.priority[t] = p
      /\ \A u \in Thread \ {t} : r.priority[u] = db.priority[u]
  BY DEF Database
<1> QED BY <1>1 DEF StaysTimeSharing, TimeSharing, RealtimeBase

LEMMA WakeupStays ==
  ASSUME NEW db, Consistent(db), NEW t \in Thread, NEW boost \in Nat,
         Sleeps(db, t)
  PROVE  StaysTimeSharing(db, KiThreadWakeup(db, t, boost))
<1> DEFINE c == Roused(db, t, boost)
           base == db.base[t]
           boosted == IF db.instantDecay[t] THEN db.priority[t]
                      ELSE Larger(db.priority[t], Capped(base + boost))
           spent == db.quantum[t] <= 1
           decayed == IF db.instantDecay[t] THEN base
                      ELSE IF boosted > base THEN boosted - 1 ELSE boosted
           realtime == db.priority[t] >= PRIORITY_LOWREALTIME
           p == IF realtime THEN db.priority[t]
                ELSE IF spent THEN decayed ELSE boosted
           r == KiThreadReady(c, t)
<1>1. db \in Database
  BY DEF Consistent
<1>2. c.priority = [db.priority EXCEPT ![t] = p] /\ c.base = db.base
  BY <1>1 DEF Roused, Database
<1>3. TimeSharing(db, t) => p < PRIORITY_LOWREALTIME \/ RealtimeBase(db, t)
  <2>1. /\ db.priority[t] \in Int /\ base \in Int /\ PRIORITY_HIGHUSER \in Int
        /\ PRIORITY_LOWREALTIME = PRIORITY_HIGHUSER + 1
    BY <1>1, NumbersTyped
  <2>2. ASSUME TimeSharing(db, t), base < PRIORITY_LOWREALTIME
        PROVE  p < PRIORITY_LOWREALTIME
    <3>1. boosted \in Int /\ boosted < PRIORITY_LOWREALTIME
      BY <2>1, <2>2 DEF Larger, Capped, TimeSharing
    <3> HIDE DEF boosted
    <3> QED BY <2>1, <2>2, <3>1 DEF TimeSharing
  <2> HIDE DEF p
  <2> QED BY <2>1, <2>2 DEF RealtimeBase
<1> HIDE DEF p, c
<1>4. Frame(c, r)
  <2>1. ConsistentBut(c, t)
    BY RousedOnItsWay DEF Sleeps, c
  <2> QED BY <2>1, ReadyConsistent
<1>5. r.priority = [db.priority EXCEPT ![t] = p] /\ r.base = db.base
  BY <1>2, <1>4 DEF Frame
<1> HIDE DEF r
<1>6. StaysTimeSharing(db, r)
  BY <1>1, <1>3, <1>5, NewPriorityStays
<1> QED BY <1>6 DEF KiThreadWakeup, r, c

\* Raising the base priority: into the real-time range only with the base.
LEMMA BasePrioritySetStays ==
  ASSUME NEW db, Consistent(db), NEW t \in Thread \ {IdleThread},
         NEW prio \in Priority
  PROVE  StaysTimeSharing(db, KiThreadBasePrioritySet(db, t, prio))
<1> DEFINE c == IF prio > db.priority[t]
                THEN KiThreadPrioritySet(db, t, prio) ELSE db
           b == [c.base EXCEPT ![t] = prio]
           r == KiThreadBasePrioritySet(db, t, prio)
<1>1. /\ db \in Database /\ c \in Database /\ prio \in Int
      /\ PRIORITY_LOWREALTIME \in Int
      /\ \/ c.priority = db.priority
         \/ c.priority = [db.priority EXCEPT ![t] = prio]
      /\ c.base = db.base
  <2>1. /\ KiThreadPrioritySet(db, t, prio) \in Database
        /\ KiThreadPrioritySet(db, t, prio).base = db.base
        /\ KiThreadPrioritySet(db, t, prio).priority
             = [db.priority EXCEPT ![t] = prio]
    BY PrioritySetConsistent DEF Consistent
  <2>2. db \in Database
    BY DEF Consistent
  <2>3. prio \in Int /\ PRIORITY_LOWREALTIME \in Int
    BY <2>2, NumbersTyped
  <2> QED BY <2>1, <2>2, <2>3
<1>2. CASE db.base[t] = prio
  <2>1. r = db
    BY <1>2 DEF KiThreadBasePrioritySet
  <2> HIDE DEF r
  <2> QED BY <2>1 DEF StaysTimeSharing, r
<1>3. CASE db.base[t] # prio
  <2>1. r = [c EXCEPT !.base[t] = prio]
    BY <1>3 DEF KiThreadBasePrioritySet
  <2> HIDE DEF c, r
  <2>2. r.priority = c.priority /\ r.base = [c.base EXCEPT ![t] = prio]
    BY <1>1, <2>1 DEF Database
  <2>3. /\ r.base[t] = prio
        /\ r.priority[t] = db.priority[t] \/ r.priority[t] = prio
        /\ \A u \in Thread \ {t} : r.priority[u] = db.priority[u]
    <3>1. /\ c.base \in [Thread -> Priority]
          /\ db.priority \in [Thread -> Priority]
      BY <1>1 DEF Database
    <3>2. r.base[t] = prio
      BY <2>2, <3>1
    <3>3. CASE c.priority = db.priority
      BY <2>2, <3>2, <3>3
    <3>4. CASE c.priority = [db.priority EXCEPT ![t] = prio]
      BY <2>2, <3>1, <3>2, <3>4
    <3> QED BY <1>1, <3>3, <3>4
  <2>4. StaysTimeSharing(db, r)
    BY <1>1, <2>3 DEF StaysTimeSharing, TimeSharing, RealtimeBase
  <2> QED BY <2>4 DEF r
<1> QED BY <1>2, <1>3

\* Boosts are capped at the highest time-sharing priority.
LEMMA BoostStays ==
  ASSUME NEW db, Consistent(db), NEW t \in Thread \ {IdleThread},
         NEW boost \in Nat
  PROVE  StaysTimeSharing(db, KiThreadPriorityBoost(db, t, boost))
<1> DEFINE boosted == Capped(db.base[t] + boost)
           c == [db EXCEPT !.quantum[t] = BaseQuantum]
           r == KiThreadPriorityBoost(db, t, boost)
<1>1. r = db \/ r = KiThreadPrioritySet(c, t, boosted)
  BY DEF KiThreadPriorityBoost
<1>2. /\ db \in Database /\ boosted \in Priority /\ BaseQuantum \in Byte
      /\ boosted < PRIORITY_LOWREALTIME
  <2>1. db \in Database
    BY DEF Consistent
  <2>2. /\ db.base[t] \in Int /\ PRIORITY_HIGHUSER \in Int
        /\ PRIORITY_LOWREALTIME = PRIORITY_HIGHUSER + 1
    BY <2>1, NumbersTyped
  <2>3. boosted \in Priority
    BY <2>1, NumbersTyped DEF Capped
  <2>4. BaseQuantum \in Byte
    BY <2>1, NumbersTyped
  <2> QED BY <2>1, <2>2, <2>3, <2>4 DEF Capped
<1>3. c = [db EXCEPT !.quantum[t] = BaseQuantum]
  OBVIOUS
<1> HIDE DEF c, r, boosted
<1>4. Consistent(c) /\ SameDecay(db, c)
  BY <1>2, <1>3, RequantumAlone
<1>5. ASSUME r = KiThreadPrioritySet(c, t, boosted)
      PROVE  StaysTimeSharing(db, r)
  <2>1. r.priority = [c.priority EXCEPT ![t] = boosted] /\ r.base = c.base
    BY <1>2, <1>4, <1>5, PrioritySetConsistent
  <2> QED BY <1>2, <1>4, <2>1, NewPriorityStays DEF SameDecay
<1>6. StaysTimeSharing(db, r)
  BY <1>1, <1>5, SameDecayStays DEF SameDecay
<1> QED BY <1>6 DEF r

LEMMA BoostReadyStays ==
  ASSUME NEW db, Consistent(db), NEW t \in Thread \ {IdleThread}
  PROVE  StaysTimeSharing(db, BoostReadyThread(db, t))
<1> DEFINE q == (BaseQuantum * 2) % ByteRange
           i == TRUE
           c == [db EXCEPT !.quantum[t] = q, !.instantDecay[t] = i]
           r == BoostReadyThread(db, t)
<1>1. /\ q \in Byte /\ i \in BOOLEAN /\ PRIORITY_HIGHUSER \in Priority
      /\ PRIORITY_HIGHUSER < PRIORITY_LOWREALTIME
      /\ db \in Database
  <2>1. BaseQuantum * 2 \in Int /\ ByteRange \in Int /\ 0 < ByteRange
    BY QuantumAssumption
  <2>2. q \in 0 .. ByteRange - 1
    BY <2>1
  <2>3. db \in Database
    BY DEF Consistent
  <2> QED BY <2>2, <2>3, NumbersTyped DEF Byte
<1>2. r = KiThreadPrioritySet(c, t, PRIORITY_HIGHUSER)
  BY DEF BoostReadyThread
<1>3. c = Requantum(db, t, q, i)
  BY DEF Requantum
<1> HIDE DEF c, q, i, r
<1>4. Consistent(c) /\ c.priority = db.priority /\ c.base = db.base
  BY <1>1, <1>3, RequantumEffect
<1>5. r.priority = [c.priority EXCEPT ![t] = PRIORITY_HIGHUSER] /\ r.base = c.base
  BY <1>1, <1>2, <1>4, PrioritySetConsistent
<1>6. StaysTimeSharing(db, r)
  BY <1>1, <1>4, <1>5, NewPriorityStays
<1> QED BY <1>6 DEF r

LEMMA QuantumEndStays ==
  ASSUME NEW db, Consistent(db)
  PROVE  StaysTimeSharing(db, KiThreadQuantumEnd(db))
<1> DEFINE t == db.current
           p == Decayed(db, t)
           r == KiThreadQuantumEnd(db)
<1>1. db \in Database /\ t \in Thread
  BY DEF Consistent, Database
<1>2. TimeSharing(db, t) => p < PRIORITY_LOWREALTIME \/ RealtimeBase(db, t)
  <2>1. /\ db.priority[t] \in Int /\ db.base[t] \in Int
        /\ PRIORITY_LOWREALTIME \in Int
    BY <1>1, NumbersTyped
  <2> QED BY <2>1 DEF Decayed, Larger, TimeSharing, RealtimeBase
<1>3. /\ r.base = db.base
      /\ \/ r.priority = db.priority
         \/ r.priority = [db.priority EXCEPT ![t] = p]
  BY QuantumEndEffect
<1> HIDE DEF r, p, t
<1>4. StaysTimeSharing(db, r)
  BY <1>1, <1>2, <1>3, NewPriorityStays DEF StaysTimeSharing, TimeSharing
<1> QED BY <1>4 DEF r

-----------------------------------------------------------------------------
(***************************************************************************)
(* The steps of the scheduler.                                             *)
(***************************************************************************)

\* The steps that call no Ki routine.
Bookkeeping ==
  \/ KeClockTick \/ KeDPCEnqueue \/ KiSoftwareInterruptDPC
  \/ DPCsDone \/ KeIPLLower
  \/ EnterWake \/ EnterBoost \/ EnterStarved
  \/ \E p \in Process, prio \in BaseTargets : EnterBase(p, prio)
  \/ UNCHANGED vars

LEMMA BookkeepingEffect ==
  ASSUME d \in Database, Bookkeeping
  PROVE  SameSleep(d, d') /\ SameDecay(d, d')
<1>1. CASE KeClockTick \/ KeDPCEnqueue \/ KiSoftwareInterruptDPC
  BY <1>1 DEF KeClockTick, KeDPCEnqueue, KiSoftwareInterruptDPC, Database,
              SameDecay, SameSleep, Sleeps
<1>2. CASE d' = d
  BY <1>2 DEF SameDecay, SameSleep
<1>3. \/ KeClockTick \/ KeDPCEnqueue \/ KiSoftwareInterruptDPC
      \/ d' = d
  BY DEF Bookkeeping, DPCsDone, KeIPLLower, EnterWake, EnterBoost,
         EnterStarved, EnterBase, KeIPLRaise, vars
<1> QED BY <1>1, <1>2, <1>3

LEMMA StepExact ==
  ASSUME Inv, Exact(d), [Next]_vars
  PROVE  Exact(d')
<1>1. /\ Consistent(d) /\ d \in Database
      /\ target \in [process : Process, priority : Priority]
      /\ Boosts \subseteq Nat
  BY CallerAssumption DEF Inv, TypeOK
<1>2. ASSUME SameSleep(d, d')
      PROVE  Exact(d')
  BY <1>2, SameSleepExact
<1>3. CASE Bookkeeping
  BY <1>1, <1>2, <1>3, BookkeepingEffect
<1>4. ASSUME NEW t \in Thread, NEW boost \in Boosts,
             DPCWake(t, boost) \/ Wake(t, boost)
      PROVE  Exact(d')
  <2>1. d' = KiThreadWakeup(d, t, boost) /\ Sleeps(d, t) /\ boost \in Nat
    BY <1>1, <1>4 DEF DPCWake, Wake, Sleeps
  <2> QED BY <1>1, <2>1, WakeupExact
<1>5. CASE QuantumEnd
  BY <1>1, <1>2, <1>5, QuantumEndEffect DEF QuantumEnd
<1>6. CASE NextSwitch
  <2>1. CASE d.next = NoThread
    BY <1>6, <2>1 DEF NextSwitch
  <2>2. CASE d.next # NoThread
    BY <1>1, <1>2, <1>6, <2>2, NextSwitchSame DEF NextSwitch
  <2> QED BY <2>1, <2>2
<1>7. ASSUME NEW t \in Thread, NEW boost \in Boosts, Boost(t, boost)
      PROVE  Exact(d')
  BY <1>1, <1>2, <1>7, BoostSame DEF Boost
<1>8. ASSUME NEW t \in Thread, KeThreadReady(t)
      PROVE  Exact(d')
  <2>1. /\ d' = KiThreadReady(d, t) /\ ~Sleeps(d, t)
        /\ d.status[t] = "INITIALIZED"
    BY <1>8 DEF KeThreadReady, Sleeps, Asleep
  <2>2. SameSleep(d, d')
    BY <1>1, <2>1, CreatedOnItsWay, ReadyOnItsWayAwake, AwakeStaysSame
  <2> QED BY <1>2, <2>2
<1>9. ASSUME NEW t \in Thread, RaiseBase(t)
      PROVE  Exact(d')
  <2>1. target.priority \in Priority
    BY <1>1
  <2> QED BY <1>1, <1>2, <1>9, <2>1, BasePrioritySetSame DEF RaiseBase
<1>10. ASSUME NEW t \in Thread, BoostStarved(t)
       PROVE  Exact(d')
  <2>1. t # IdleThread
    BY <1>1, <1>10, StarvedIsReady
  <2> QED BY <1>1, <1>2, <1>10, <2>1, BoostReadySame DEF BoostStarved
<1>11. ASSUME NEW kind \in WaitKinds, KeThreadWait(kind)
       PROVE  Exact(d')
  <2>1. kind[1] \in WaitMode /\ kind[2] \in Asleep
    BY CallerAssumption
  <2> QED BY <1>1, <1>11, <2>1, WaitExact DEF KeThreadWait
<1>12. CASE KeThreadTerminate
  BY <1>1, <1>12, TerminateExact DEF KeThreadTerminate
<1>13. CASE KeThreadYield
  BY <1>1, <1>2, <1>13, YieldSame DEF KeThreadYield
<1>14. ASSUME NEW t \in Thread, NEW prio \in SetTargets,
              KeThreadPrioritySet(t, prio)
       PROVE  Exact(d')
  <2>1. prio \in Priority
    BY CallerAssumption, PriorityAssumption
       DEF Priority, PRIORITY_LOWREALTIME, PRIORITY_IDLE
  <2> QED BY <1>1, <1>2, <1>14, <2>1, PrioritySetSame DEF KeThreadPrioritySet
<1> QED
  BY <1>3, <1>4, <1>5, <1>6, <1>7, <1>8, <1>9, <1>10, <1>11, <1>12, <1>13, <1>14
  DEF Next, Interrupt, SoftwareInterrupt, Call, Bookkeeping

LEMMA InitExact == Init => Exact(d)
<1> SUFFICES ASSUME Init PROVE Exact(d)
  OBVIOUS
<1>1. /\ d.waitList = {}
      /\ \A t \in Thread : d.status[t] \in {"RUNNING", "INITIALIZED"}
  BY DEF Init, InitialDatabase
<1> QED BY <1>1 DEF Exact, Sleeps, Asleep

LEMMA StepStays ==
  ASSUME Inv, [Next]_vars,
         ~ \E t \in Thread, prio \in SetTargets : KeThreadPrioritySet(t, prio)
  PROVE  StaysTimeSharing(d, d')
<1>1. /\ Consistent(d) /\ d \in Database
      /\ target \in [process : Process, priority : Priority]
      /\ Boosts \subseteq Nat
  BY CallerAssumption DEF Inv, TypeOK
<1>2. ASSUME SameDecay(d, d')
      PROVE  StaysTimeSharing(d, d')
  BY <1>2, SameDecayStays
<1>3. CASE Bookkeeping
  BY <1>1, <1>2, <1>3, BookkeepingEffect
<1>4. ASSUME NEW t \in Thread, NEW boost \in Boosts,
             DPCWake(t, boost) \/ Wake(t, boost)
      PROVE  StaysTimeSharing(d, d')
  <2>1. d' = KiThreadWakeup(d, t, boost) /\ Sleeps(d, t) /\ boost \in Nat
    BY <1>1, <1>4 DEF DPCWake, Wake, Sleeps
  <2> QED BY <1>1, <2>1, WakeupStays
<1>5. CASE QuantumEnd
  BY <1>1, <1>5, QuantumEndStays DEF QuantumEnd
<1>6. CASE NextSwitch
  <2>1. CASE d.next = NoThread
    BY <1>2, <1>6, <2>1 DEF NextSwitch, SameDecay
  <2>2. CASE d.next # NoThread
    BY <1>1, <1>2, <1>6, <2>2, NextSwitchConsistent DEF NextSwitch
  <2> QED BY <2>1, <2>2
<1>7. ASSUME NEW t \in Thread, NEW boost \in Boosts, Boost(t, boost)
      PROVE  StaysTimeSharing(d, d')
  BY <1>1, <1>7, BoostStays DEF Boost
<1>8. ASSUME NEW t \in Thread, KeThreadReady(t)
      PROVE  StaysTimeSharing(d, d')
  <2>1. ConsistentBut(d, t) /\ d' = KiThreadReady(d, t)
    BY <1>1, <1>8, CreatedOnItsWay DEF KeThreadReady
  <2>2. SameDecay(d, d')
    BY <2>1, ReadyConsistent DEF Frame, SameDecay
  <2> QED BY <1>2, <2>2
<1>9. ASSUME NEW t \in Thread, RaiseBase(t)
      PROVE  StaysTimeSharing(d, d')
  <2>1. target.priority \in Priority
    BY <1>1
  <2> QED BY <1>1, <1>9, <2>1, BasePrioritySetStays DEF RaiseBase
<1>10. ASSUME NEW t \in Thread, BoostStarved(t)
       PROVE  StaysTimeSharing(d, d')
  <2>1. t # IdleThread
    BY <1>1, <1>10, StarvedIsReady
  <2> QED BY <1>1, <1>10, <2>1, BoostReadyStays DEF BoostStarved
<1>11. ASSUME NEW kind \in WaitKinds, KeThreadWait(kind)
       PROVE  StaysTimeSharing(d, d')
  <2>1. kind[1] \in WaitMode /\ kind[2] \in Asleep
    BY CallerAssumption
  <2> QED BY <1>1, <1>2, <1>11, <2>1, WaitConsistent DEF KeThreadWait
<1>12. CASE KeThreadTerminate
  <2>1. "TERMINATED" \in Status \ {"READY", "STANDBY", "RUNNING"}
    BY DEF Status
  <2> QED BY <1>1, <1>2, <1>12, <2>1, BlockConsistent DEF KeThreadTerminate
<1>13. CASE KeThreadYield
  BY <1>1, <1>2, <1>13, YieldConsistent DEF KeThreadYield
<1> QED
  BY <1>3, <1>4, <1>5, <1>6, <1>7, <1>8, <1>9, <1>10, <1>11, <1>12, <1>13
  DEF Next, Interrupt, SoftwareInterrupt, Call, Bookkeeping

\* A thread that sets a priority leaves the others theirs.
LEMMA PrioritySetOthers ==
  ASSUME Inv, NEW t \in Thread, NEW prio \in SetTargets,
         KeThreadPrioritySet(t, prio), NEW u \in Thread \ {t}
  PROVE  d'.priority[u] = d.priority[u]
<1>1. Consistent(d) /\ d \in Database /\ t \in Thread \ {IdleThread}
  BY DEF Inv, TypeOK, KeThreadPrioritySet
<1>2. prio \in Priority
  BY CallerAssumption, PriorityAssumption
     DEF Priority, PRIORITY_LOWREALTIME, PRIORITY_IDLE
<1>3. d'.priority = [d.priority EXCEPT ![t] = prio]
  BY <1>1, <1>2, PrioritySetConsistent DEF KeThreadPrioritySet
<1> QED BY <1>1, <1>3 DEF Database

-----------------------------------------------------------------------------
(***************************************************************************)
(* What the swap worker and the time-sharing threads rely on.              *)
(***************************************************************************)

\* The list that MiSwapOutStacks scans for stacks to take never misses a
\* thread in a user-mode wait and never holds one that has been woken.
THEOREM WaitListStaysExact == Spec => []WaitListExact
<1>1. Init => Inv /\ Exact(d)
  BY InitInv, InitExact
<1>2. Inv /\ Exact(d) /\ [Next]_vars => (Inv /\ Exact(d))'
  BY StepInv, StepExact
<1>3. Inv /\ Exact(d) => WaitListExact
  <2> SUFFICES ASSUME Inv, Exact(d) PROVE WaitListExact
    OBVIOUS
  <2>1. d.waitList \subseteq Thread /\ \A t \in Thread : d.stackResident[t]
    BY DEF Inv, Consistent, AllResident, Database
  <2> QED BY <2>1 DEF Exact, Sleeps, WaitListExact
<1> QED BY <1>1, <1>2, <1>3, PTL DEF Spec

\* Neither a wakeup nor the boosts of starved threads and lock owners take a
\* thread into the real-time priorities, where it would never decay.
THEOREM BoostsAlwaysStayTimeSharing == Spec => BoostsStayTimeSharing
<1>1. ASSUME Inv, [Next]_vars, NEW t \in Thread,
             d.priority[t] < PRIORITY_LOWREALTIME
      PROVE  \/ d'.priority[t] < PRIORITY_LOWREALTIME
             \/ d'.base[t] >= PRIORITY_LOWREALTIME
             \/ \E prio \in SetTargets : KeThreadPrioritySet(t, prio)
  <2>1. CASE ~ \E u \in Thread, prio \in SetTargets : KeThreadPrioritySet(u, prio)
    BY <1>1, <2>1, StepStays DEF StaysTimeSharing, TimeSharing, RealtimeBase
  <2>2. ASSUME NEW u \in Thread, NEW prio \in SetTargets,
               KeThreadPrioritySet(u, prio)
        PROVE  \/ d'.priority[t] < PRIORITY_LOWREALTIME
               \/ \E x \in SetTargets : KeThreadPrioritySet(t, x)
    <3>1. CASE u = t
      BY <2>2, <3>1
    <3>2. CASE u # t
      <4>1. d'.priority[t] = d.priority[t]
        BY <1>1, <2>2, <3>2, PrioritySetOthers
      <4> QED BY <1>1, <4>1
    <3> QED BY <3>1, <3>2
  <2> QED BY <2>1, <2>2
<1> DEFINE A == \A t \in Thread :
                  d.priority[t] < PRIORITY_LOWREALTIME =>
                    \/ d'.priority[t] < PRIORITY_LOWREALTIME
                    \/ d'.base[t] >= PRIORITY_LOWREALTIME
                    \/ \E prio \in SetTargets : KeThreadPrioritySet(t, prio)
<1>2. Inv /\ [Next]_vars => [A]_vars
  BY <1>1
<1> QED BY InvHolds, <1>2, PTL DEF Spec, BoostsStayTimeSharing
=============================================================================
