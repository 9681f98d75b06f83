------------------------- MODULE KiDispatcher_proofs -------------------------
(***************************************************************************)
(* What the routines of KiDispatcher do to the ready queues and to the     *)
(* places of threads, for every number of threads and of priorities.       *)
(***************************************************************************)
EXTENDS KiDispatcher, SequenceTheorems, WellFoundedInduction, TLAPS

-----------------------------------------------------------------------------
(***************************************************************************)
(* Sequences without repetition: joining at either end, and leaving.       *)
(***************************************************************************)

\* Membership and absence of repetition, by index.
LEMMA ByIndex ==
  ASSUME NEW S, NEW s \in Seq(S)
  PROVE  /\ \A x : x \in Range(s) <=> \E i \in 1 .. Len(s) : s[i] = x
         /\ IsInjective(s) <=>
              \A i, j \in 1 .. Len(s) : s[i] = s[j] => i = j
<1>1. DOMAIN s = 1 .. Len(s)
  BY LenProperties
<1> QED BY <1>1 DEF Range, IsInjective

\* Joining a queue at its tail.
LEMMA AppendToQueue ==
  ASSUME NEW S, NEW q \in Seq(S), NEW t \in S, IsInjective(q), t \notin Range(q)
  PROVE  /\ Append(q, t) \in Seq(S)
         /\ IsInjective(Append(q, t))
         /\ Range(Append(q, t)) = Range(q) \cup {t}
  BY DEF IsInjective, Range

\* Joining a queue at its head.
LEMMA ConsToQueue ==
  ASSUME NEW S, NEW q \in Seq(S), NEW t \in S, IsInjective(q), t \notin Range(q)
  PROVE  /\ Cons(t, q) \in Seq(S)
         /\ IsInjective(Cons(t, q))
         /\ Range(Cons(t, q)) = Range(q) \cup {t}
<1> DEFINE u == Cons(t, q)
<1>1. u \in Seq(S) /\ Len(u) = Len(q) + 1
  BY DEF Cons
<1>2. \A i \in 1 .. Len(q) + 1 : u[i] = IF i = 1 THEN t ELSE q[i - 1]
  BY DEF Cons
<1> HIDE DEF u
<1>3. \A i \in 1 .. Len(q) : i + 1 \in 1 .. Len(u) /\ u[i + 1] = q[i]
  BY <1>1, <1>2
<1>4. 1 \in 1 .. Len(u) /\ u[1] = t
  BY <1>1, <1>2
<1>5. \A i \in 1 .. Len(u) : i # 1 => i - 1 \in 1 .. Len(q) /\ u[i] = q[i - 1]
  BY <1>1, <1>2
<1>6. \A x : x \in Range(u) <=> x \in Range(q) \/ x = t
  <2>1. \A x \in Range(q) \cup {t} : \E i \in 1 .. Len(u) : u[i] = x
    BY <1>3, <1>4, ByIndex
  <2>2. \A i \in 1 .. Len(u) : u[i] \in Range(q) \cup {t}
    BY <1>4, <1>5, ByIndex
  <2> QED BY <1>1, <2>1, <2>2, ByIndex
<1>7. \A i, j \in 1 .. Len(u) : u[i] = u[j] => i = j
  BY <1>1, <1>4, <1>5, ByIndex
<1>8. IsInjective(u)
  BY <1>1, <1>7, ByIndex
<1> QED BY <1>1, <1>6, <1>8 DEF u

\* Taking the thread at the head off its queue.
LEMMA TailOfQueue ==
  ASSUME NEW S, NEW q \in Seq(S), q # << >>, IsInjective(q)
  PROVE  /\ Tail(q) \in Seq(S)
         /\ Head(q) \in Range(q)
         /\ IsInjective(Tail(q))
         /\ Range(Tail(q)) = Range(q) \ {Head(q)}
<1> DEFINE u == Tail(q)
<1>1. /\ u \in Seq(S) /\ Len(q) \in Nat /\ Len(u) = Len(q) - 1
      /\ \A i \in 1 .. Len(u) : u[i] = q[i + 1]
      /\ Head(q) = q[1] /\ 1 \in 1 .. Len(q)
  BY HeadTailProperties, EmptySeq
<1> HIDE DEF u
<1>2. \A i \in 1 .. Len(q) : i # 1 => i - 1 \in 1 .. Len(u) /\ u[i - 1] = q[i]
  BY <1>1
<1>3. \A i \in 1 .. Len(u) : i + 1 \in 1 .. Len(q) /\ i + 1 # 1
  BY <1>1
<1>4. \A i, j \in 1 .. Len(q) : q[i] = q[j] => i = j
  BY ByIndex
<1>5. \A x : x \in Range(u) <=> x \in Range(q) /\ x # Head(q)
  <2>1. \A x \in Range(q) \ {Head(q)} : \E i \in 1 .. Len(u) : u[i] = x
    BY <1>1, <1>2, ByIndex
  <2>2. \A i \in 1 .. Len(u) : u[i] \in Range(q) \ {Head(q)}
    BY <1>1, <1>3, <1>4, ByIndex
  <2> QED BY <1>1, <2>1, <2>2, ByIndex
<1>6. IsInjective(u)
  BY <1>1, <1>3, <1>4, ByIndex
<1>7. Head(q) \in Range(q)
  BY <1>1, ByIndex
<1> QED BY <1>1, <1>5, <1>6, <1>7 DEF u

\* Unlinking a thread from anywhere in its queue.
LEMMA UnlinkFromQueue ==
  ASSUME NEW S, NEW q \in Seq(S), NEW t \in Range(q), IsInjective(q)
  PROVE  /\ Unlink(q, t) \in Seq(S)
         /\ IsInjective(Unlink(q, t))
         /\ Range(Unlink(q, t)) = Range(q) \ {t}
<1> DEFINE i == CHOOSE k \in DOMAIN q : q[k] = t
           u == Unlink(q, t)
           before == SubSeq(q, 1, i - 1)
           after  == SubSeq(q, i + 1, Len(q))
<1>0. Len(q) \in Nat /\ DOMAIN q = 1 .. Len(q)
  BY LenProperties
<1>1. i \in 1 .. Len(q) /\ q[i] = t
  BY <1>0 DEF Range
<1>2. u = before \o after
  BY DEF Unlink, RemoveAt
<1> HIDE DEF i, u
<1>3. \A k \in 1 .. Len(q) : q[k] \in S
  BY <1>0
<1>4. /\ before \in Seq(S) /\ Len(before) = i - 1
      /\ \A j \in 1 .. i - 1 : before[j] = q[j]
  BY <1>0, <1>1, <1>3, SubSeqProperties
<1>5. /\ after \in Seq(S) /\ Len(after) = Len(q) - i
      /\ \A j \in 1 .. Len(q) - i : after[j] = q[i + j]
  <2>1. \A k \in i + 1 .. Len(q) : q[k] \in S
    BY <1>0, <1>1, <1>3
  <2>2. /\ after \in Seq(S)
        /\ Len(after) = IF i + 1 <= Len(q) THEN Len(q) - (i + 1) + 1 ELSE 0
        /\ \A j \in 1 .. Len(q) - (i + 1) + 1 : after[j] = q[(i + 1) + j - 1]
    BY <1>0, <1>1, <2>1, SubSeqProperties
  <2> HIDE DEF after
  <2>3. i \in Int /\ Len(q) \in Int /\ i <= Len(q)
    BY <1>0, <1>1
  <2>5. Len(after) = Len(q) - i
    BY <2>2, <2>3
  <2>4. ASSUME NEW j \in 1 .. Len(q) - i PROVE after[j] = q[i + j]
    <3>1. (i + 1) + j - 1 = i + j /\ j \in 1 .. Len(q) - (i + 1) + 1
      BY <2>3
    <3> QED BY <2>2, <3>1
  <2> QED BY <2>2, <2>4, <2>5
<1> HIDE DEF before, after
<1>6. /\ u \in Seq(S) /\ Len(u) = Len(q) - 1
      /\ \A j \in 1 .. Len(u) : u[j] = IF j < i THEN q[j] ELSE q[j + 1]
  <2>1. /\ u \in Seq(S) /\ Len(u) = Len(before) + Len(after)
        /\ \A j \in 1 .. Len(before) + Len(after) :
             u[j] = IF j <= Len(before) THEN before[j] ELSE after[j - Len(before)]
    BY <1>2, <1>4, <1>5, ConcatProperties
  <2> QED BY <2>1, <1>0, <1>1, <1>4, <1>5
<1>7. \A j \in 1 .. Len(u) :
        /\ j < i => j \in 1 .. Len(q) /\ u[j] = q[j]
        /\ ~ (j < i) => j + 1 \in 1 .. Len(q) /\ u[j] = q[j + 1]
  <2>1. Len(u) \in Int /\ \A j \in 1 .. Len(u) : j \in 1 .. Len(q) /\ j + 1 \in 1 .. Len(q)
    BY <1>0, <1>6
  <2> QED BY <1>6, <2>1
<1>8. \A j \in 1 .. Len(q) :
        /\ j < i => j \in 1 .. Len(u) /\ u[j] = q[j]
        /\ j > i => j - 1 \in 1 .. Len(u) /\ u[j - 1] = q[j]
  BY <1>0, <1>1, <1>6
<1>9. \A j, k \in 1 .. Len(q) : q[j] = q[k] => j = k
  BY ByIndex
<1>10. \A x : x \in Range(u) <=> x \in Range(q) /\ x # t
  <2>1. \A x \in Range(u) : x \in Range(q) /\ x # t
    <3> SUFFICES ASSUME NEW j \in 1 .. Len(u)
                 PROVE  u[j] \in Range(q) /\ u[j] # t
      BY <1>6, ByIndex
    <3>1. CASE j < i
      BY <1>1, <1>7, <1>9, <3>1, ByIndex
    <3>2. CASE ~ (j < i)
      <4>1. j + 1 # i
        BY <1>1, <3>2
      <4> QED BY <1>1, <1>7, <1>9, <3>2, <4>1, ByIndex
    <3> QED BY <3>1, <3>2
  <2>2. \A x \in Range(q) : x # t => x \in Range(u)
    <3> SUFFICES ASSUME NEW j \in 1 .. Len(q), q[j] # t
                 PROVE  q[j] \in Range(u)
      BY ByIndex
    <3>1. j < i \/ j > i
      BY <1>1
    <3> QED BY <1>6, <1>8, <3>1, ByIndex
  <2> QED BY <2>1, <2>2
<1>11. IsInjective(u)
  <2> SUFFICES ASSUME NEW j \in 1 .. Len(u), NEW k \in 1 .. Len(u), u[j] = u[k]
               PROVE  j = k
    BY <1>6, ByIndex
  <2>1. /\ j < i /\ k < i => j = k
        /\ ~ (j < i) /\ ~ (k < i) => j + 1 = k + 1
        /\ j < i /\ ~ (k < i) => j = k + 1
        /\ ~ (j < i) /\ k < i => j + 1 = k
    BY <1>7, <1>9
  <2> QED BY <1>1, <1>6, <2>1
<1> QED BY <1>6, <1>10, <1>11 DEF u

-----------------------------------------------------------------------------
\* A nonempty set of integers with an upper bound has a maximum.
LEMMA MaxExists ==
  ASSUME NEW low \in Int, NEW high \in Int, NEW S \in SUBSET (low .. high), S # {}
  PROVE  Max(S) \in S /\ \A x \in S : x <= Max(S)
<1> DEFINE T == {high - x : x \in S}
           R == {ss \in Nat \X Nat : ss[1] < ss[2]}
<1>1. T \subseteq Nat /\ T # {}
  OBVIOUS
<1>2. IsWellFoundedOn(R, Nat)
  BY NatLessThanWellFounded DEF OpToRel
<1>3. PICK m \in T : \A y \in T : <<y, m>> \notin R
  <2> HIDE DEF R, T
  <2> QED BY <1>1, <1>2, WFMin
<1>4. \A y \in T : ~ (y < m)
  <2> SUFFICES ASSUME NEW y \in T, y < m PROVE FALSE
    OBVIOUS
  <2>1. y \in Nat /\ m \in Nat
    BY <1>1
  <2>2. <<y, m>> \in R
    BY <2>1
  <2> QED BY <1>3, <2>2
<1>5. PICK x \in S : m = high - x
  OBVIOUS
<1>6. \A y \in S : x >= y
  <2> SUFFICES ASSUME NEW y \in S, ~ (x >= y) PROVE FALSE
    OBVIOUS
  <2>1. high - y \in T /\ x \in Int /\ y \in Int
    OBVIOUS
  <2>2. high - y < m
    BY <1>5, <2>1
  <2> QED BY <1>4, <2>1, <2>2
<1>7. Max(S) \in S /\ \A y \in S : Max(S) >= y
  BY <1>6 DEF Max
<1> QED BY <1>7
-----------------------------------------------------------------------------
(***************************************************************************)
(* KiThreadReady.                                                          *)
(***************************************************************************)

\* The fields that KiThreadReady does not assign.
Frame(db, r) ==
  /\ r.priority = db.priority
  /\ r.base = db.base
  /\ r.quantum = db.quantum
  /\ r.instantDecay = db.instantDecay
  /\ r.current = db.current
  /\ r.process = db.process
  /\ r.memoryState = db.memoryState
  /\ r.stackResident = db.stackResident
  /\ r.waitList = db.waitList
  /\ r.waitMode = db.waitMode

LEMMA AtTailFields ==
  ASSUME NEW db \in Database, NEW t \in Thread
  PROVE  LET r == AtTail(db, t)
         IN  /\ r.status = [db.status EXCEPT ![t] = "READY"]
             /\ r.queue = [db.queue EXCEPT
                             ![db.priority[t]] = Append(db.queue[db.priority[t]], t)]
             /\ r.next = db.next
             /\ r.dpcPending = db.dpcPending
             /\ r.inSwapList = db.inSwapList
             /\ r.wasPreempted = db.wasPreempted
             /\ Frame(db, r)
             /\ r \in Database
<1> DEFINE s == [db.status EXCEPT ![t] = "READY"]
           q == [db.queue EXCEPT
                             ![db.priority[t]] = Append(db.queue[db.priority[t]], t)]
<1>1. s \in [Thread -> Status]
  BY DEF Database, Status
<1>2. q \in [Priority -> Seq(Thread)]
  BY DEF Database
<1>3. AtTail(db, t) = [db EXCEPT !.status = s, !.queue = q]
  BY DEF AtTail, Database
<1> HIDE DEF s, q
<1>4. [db EXCEPT !.status = s, !.queue = q] \in Database
  BY <1>1, <1>2 DEF Database
<1> QED BY <1>3, <1>4 DEF Database, Frame, s, q

LEMMA AtHeadFields ==
  ASSUME NEW db \in Database, NEW t \in Thread
  PROVE  LET r == AtHead(db, t)
         IN  /\ r.status = [db.status EXCEPT ![t] = "READY"]
             /\ r.queue = [db.queue EXCEPT
                             ![db.priority[t]] = Cons(t, db.queue[db.priority[t]])]
             /\ r.next = db.next
             /\ r.dpcPending = db.dpcPending
             /\ r.inSwapList = db.inSwapList
             /\ r.wasPreempted = db.wasPreempted
             /\ Frame(db, r)
             /\ r \in Database
<1> DEFINE s == [db.status EXCEPT ![t] = "READY"]
           q == [db.queue EXCEPT
                             ![db.priority[t]] = Cons(t, db.queue[db.priority[t]])]
<1>1. s \in [Thread -> Status]
  BY DEF Database, Status
<1>2. q \in [Priority -> Seq(Thread)]
  BY DEF Database, Cons
<1>3. AtHead(db, t) = [db EXCEPT !.status = s, !.queue = q]
  BY DEF AtHead, Database
<1> HIDE DEF s, q
<1>4. [db EXCEPT !.status = s, !.queue = q] \in Database
  BY <1>1, <1>2 DEF Database
<1> QED BY <1>3, <1>4 DEF Database, Frame, s, q

\* What joining a queue at either end has in common.
LEMMA JoinFields ==
  ASSUME NEW db \in Database, NEW t \in Thread,
         NEW r, r = AtHead(db, t) \/ r = AtTail(db, t)
  PROVE  /\ r \in Database
         /\ Frame(db, r)
         /\ r.status = [db.status EXCEPT ![t] = "READY"]
         /\ r.next = db.next
         /\ r.dpcPending = db.dpcPending
         /\ r.inSwapList = db.inSwapList
<1>1. CASE r = AtHead(db, t)
  BY <1>1, AtHeadFields
<1>2. CASE r = AtTail(db, t)
  BY <1>2, AtTailFields
<1> QED BY <1>1, <1>2

\* A thread on its way joins the queue of its priority, at either end.
LEMMA JoinQueue ==
  ASSUME NEW db \in Database, NEW moving, NEW t \in Thread \cap moving,
         QueuesInPlace(db, moving),
         NEW r, r = AtHead(db, t) \/ r = AtTail(db, t)
  PROVE  QueuesInPlace(r, moving \ {t})
<1> DEFINE p == db.priority[t]
<1>1. p \in Priority /\ db.queue \in [Priority -> Seq(Thread)]
  BY DEF Database
<1>2. /\ IsInjective(db.queue[p])
      /\ t \notin Range(db.queue[p])
  BY <1>1 DEF QueuesInPlace
<1>3. /\ r.status = [db.status EXCEPT ![t] = "READY"]
      /\ r.priority = db.priority
      /\ \E q \in Seq(Thread) :
           /\ r.queue = [db.queue EXCEPT ![p] = q]
           /\ IsInjective(q)
           /\ Range(q) = Range(db.queue[p]) \cup {t}
  <2>0. db.queue[p] \in Seq(Thread)
    BY <1>1
  <2>1. CASE r = AtTail(db, t)
    <3>1. /\ r.status = [db.status EXCEPT ![t] = "READY"]
          /\ r.priority = db.priority
          /\ r.queue = [db.queue EXCEPT ![p] = Append(db.queue[p], t)]
      BY <2>1, AtTailFields DEF Frame
    <3>2. /\ Append(db.queue[p], t) \in Seq(Thread)
          /\ IsInjective(Append(db.queue[p], t))
          /\ Range(Append(db.queue[p], t)) = Range(db.queue[p]) \cup {t}
      BY <2>0, <1>2, AppendToQueue
    <3> QED BY <3>1, <3>2
  <2>2. CASE r = AtHead(db, t)
    <3>1. /\ r.status = [db.status EXCEPT ![t] = "READY"]
          /\ r.priority = db.priority
          /\ r.queue = [db.queue EXCEPT ![p] = Cons(t, db.queue[p])]
      BY <2>2, AtHeadFields DEF Frame
    <3>2. /\ Cons(t, db.queue[p]) \in Seq(Thread)
          /\ IsInjective(Cons(t, db.queue[p]))
          /\ Range(Cons(t, db.queue[p])) = Range(db.queue[p]) \cup {t}
      BY <2>0, <1>2, ConsToQueue
    <3> QED BY <3>1, <3>2
  <2> QED BY <2>1, <2>2
<1>5. db.status \in [Thread -> Status]
  BY DEF Database
<1> SUFFICES ASSUME NEW x \in Priority
             PROVE  /\ IsInjective(r.queue[x])
                    /\ Range(r.queue[x]) = {u \in Thread \ (moving \ {t}) :
                         r.status[u] = "READY" /\ r.priority[u] = x}
  BY DEF QueuesInPlace
<1>6. /\ IsInjective(db.queue[x])
      /\ Range(db.queue[x]) = {u \in Thread \ moving :
                                 db.status[u] = "READY" /\ db.priority[u] = x}
  BY DEF QueuesInPlace
<1> QED BY <1>1, <1>3, <1>5, <1>6

\* Queues stay in place as long as the threads on them do.
LEMMA SameQueues ==
  ASSUME NEW db, NEW r, NEW moving, NEW moved,
         QueuesInPlace(db, moving),
         r.queue = db.queue,
         {u \in Thread \ moving : db.status[u] = "READY"}
           = {u \in Thread \ moved : r.status[u] = "READY"},
         \A u \in Thread \ moving :
           db.status[u] = "READY" => r.priority[u] = db.priority[u]
  PROVE  QueuesInPlace(r, moved)
<1>1. ASSUME NEW x \in Priority
      PROVE  /\ IsInjective(r.queue[x])
             /\ Range(r.queue[x]) = {u \in Thread \ moved :
                                       r.status[u] = "READY" /\ r.priority[u] = x}
  <2>1. /\ IsInjective(db.queue[x])
        /\ Range(db.queue[x]) = {u \in Thread \ moving :
                                   db.status[u] = "READY" /\ db.priority[u] = x}
    BY DEF QueuesInPlace
  <2>2. \A u : u \in {v \in Thread \ moving : db.status[v] = "READY"}
               <=> u \in {v \in Thread \ moved : r.status[v] = "READY"}
    OBVIOUS
  <2>3. \A u \in Thread :
          (u \notin moving /\ db.status[u] = "READY" /\ db.priority[u] = x)
          <=> (u \notin moved /\ r.status[u] = "READY" /\ r.priority[u] = x)
    BY <2>2
  <2> QED BY <2>1, <2>3
<1> QED BY <1>1 DEF QueuesInPlace

\* The three outcomes of KiThreadReady for a resident thread.
Readied(db, r, t) ==
  \/ /\ db.next \in Thread
     /\ db.priority[t] > db.priority[db.next]
     /\ r.next = t
     /\ r.status = [db.status EXCEPT ![t] = "STANDBY", ![db.next] = "READY"]
     /\ r.dpcPending = db.dpcPending
  \/ /\ db.next = NoThread
     /\ db.priority[t] > db.priority[db.current]
     /\ r.next = t
     /\ r.status = [db.status EXCEPT ![t] = "STANDBY"]
     /\ r.dpcPending = TRUE
  \/ /\ db.priority[t] <= db.priority[Chosen(db)]
     /\ r.next = db.next
     /\ r.status = [db.status EXCEPT ![t] = "READY"]
     /\ r.dpcPending = db.dpcPending

LEMMA ReadyEffect ==
  ASSUME NEW db \in Database, NEW moving, NEW t \in Thread \cap moving,
         AllResident(db), QueuesInPlace(db, moving),
         db.next \notin moving,
         db.next # NoThread => db.status[db.next] = "STANDBY"
  PROVE  LET r == KiThreadReady(db, t)
         IN  /\ r \in Database
             /\ Frame(db, r)
             /\ AllResident(r)
             /\ QueuesInPlace(r, moving \ {t})
             /\ Readied(db, r, t)
<1> DEFINE w == [db.wasPreempted EXCEPT ![t] = FALSE]
           x == [db.inSwapList EXCEPT ![t] = FALSE]
           c == [db EXCEPT !.wasPreempted = w, !.inSwapList = x]
           s == [db.status EXCEPT ![t] = "STANDBY"]
           r == KiThreadReady(db, t)
<1>1. /\ KiThreadReady(db, t) = ReadyResident(db, t)
      /\ db.priority \in [Thread -> Priority]
      /\ Priority \subseteq Int
      /\ db.next \in Thread \cup {NoThread}
      /\ db.current \in Thread
      /\ db.status \in [Thread -> Status]
  BY PriorityAssumption DEF KiThreadReady, AllResident, Database, Priority,
     PRIORITY_IDLE
<1>2. w \in [Thread -> BOOLEAN] /\ x \in [Thread -> BOOLEAN]
  BY DEF Database
<1>3. s \in [Thread -> Status]
  BY DEF Database, Status
<1>c. c = [db EXCEPT !.wasPreempted[t] = FALSE, !.inSwapList[t] = FALSE]
  BY DEF Database
<1>4. CASE db.next # NoThread /\ db.priority[t] > db.priority[db.next]
  <2> DEFINE y == [db EXCEPT !.wasPreempted = [w EXCEPT ![db.next] = FALSE],
                             !.inSwapList = x, !.status = s, !.next = t]
  <2>0. db.next \in Thread
    BY <1>1, <1>4
  <2>1. r = AtHead(y, db.next)
    BY <1>1, <1>4, <2>0 DEF ReadyResident, Database
  <2>2. /\ y \in Database
        /\ Frame(db, y) /\ y.status = s /\ y.queue = db.queue
        /\ y.next = t /\ y.dpcPending = db.dpcPending /\ y.inSwapList = x
    <3>1. [w EXCEPT ![db.next] = FALSE] \in [Thread -> BOOLEAN]
      BY <1>2
    <3> HIDE DEF w, x, s
    <3> QED BY <1>2, <1>3, <3>1 DEF Database, Frame
  <2>3. QueuesInPlace(y, (moving \ {t}) \cup {db.next})
    <3> HIDE DEF y
    <3>1. y.priority = db.priority
      BY <2>2 DEF Frame
    <3>2. {u \in Thread \ moving : db.status[u] = "READY"}
          = {u \in Thread \ ((moving \ {t}) \cup {db.next}) : y.status[u] = "READY"}
      <4>1. y.status = [db.status EXCEPT ![t] = "STANDBY"]
        BY <2>2
      <4> QED BY <1>1, <1>4, <2>0, <4>1
    <3> QED BY <2>2, <3>1, <3>2, SameQueues
  <2> HIDE DEF y
  <2>4. QueuesInPlace(r, moving \ {t})
    <3>1. ((moving \ {t}) \cup {db.next}) \ {db.next} = moving \ {t}
      OBVIOUS
    <3> HIDE DEF r
    <3> QED BY <2>0, <2>1, <2>2, <2>3, <3>1, JoinQueue
  <2>5. /\ r \in Database /\ Frame(y, r)
        /\ r.status = [s EXCEPT ![db.next] = "READY"]
        /\ r.next = t /\ r.dpcPending = db.dpcPending /\ r.inSwapList = x
    <3> HIDE DEF w, s, x, r
    <3>1. /\ r \in Database /\ Frame(y, r)
          /\ r.status = [y.status EXCEPT ![db.next] = "READY"]
          /\ r.next = y.next /\ r.dpcPending = y.dpcPending
          /\ r.inSwapList = y.inSwapList
      BY <2>0, <2>1, <2>2, JoinFields
    <3> QED BY <2>2, <3>1
  <2>6. Frame(db, r)
    BY <2>2, <2>5 DEF Frame
  <2>7. AllResident(r)
    BY <2>5, <2>6 DEF AllResident, Frame, Database
  <2>8. Readied(db, r, t)
    BY <1>4, <2>0, <2>5 DEF Readied
  <2> QED BY <2>4, <2>5, <2>6, <2>7, <2>8
<1>5. CASE db.next = NoThread /\ db.priority[t] > db.priority[db.current]
  <2> DEFINE p == [w EXCEPT ![db.current] = TRUE]
             y == [db EXCEPT !.wasPreempted = p, !.inSwapList = x,
                             !.status = s, !.next = t, !.dpcPending = TRUE]
  <2>1. r = y
    BY <1>1, <1>5 DEF ReadyResident, KiSoftwareInterruptRequest, Database
  <2>2. /\ y \in Database
        /\ Frame(db, y) /\ y.status = s /\ y.queue = db.queue
        /\ y.next = t /\ y.dpcPending = TRUE /\ y.inSwapList = x
    <3>1. p \in [Thread -> BOOLEAN]
      BY <1>2
    <3> HIDE DEF p, x, s
    <3> QED BY <1>2, <1>3, <3>1 DEF Database, Frame
  <2> HIDE DEF y
  <2>3. QueuesInPlace(y, moving \ {t})
    <3>1. y.priority = db.priority
      BY <2>2 DEF Frame
    <3>2. {u \in Thread \ moving : db.status[u] = "READY"}
          = {u \in Thread \ (moving \ {t}) : y.status[u] = "READY"}
      <4>1. y.status = [db.status EXCEPT ![t] = "STANDBY"]
        BY <2>2
      <4> QED BY <1>1, <4>1
    <3> QED BY <2>2, <3>1, <3>2, SameQueues
  <2>4. AllResident(y)
    BY <2>2 DEF AllResident, Frame, Database
  <2>5. Readied(db, y, t)
    BY <1>5, <2>2 DEF Readied
  <2> QED BY <2>1, <2>2, <2>3, <2>4, <2>5
<1>6. CASE /\ ~ (db.next # NoThread /\ db.priority[t] > db.priority[db.next])
           /\ ~ (db.next = NoThread /\ db.priority[t] > db.priority[db.current])
  <2>1. r = AtHead(c, t) \/ r = AtTail(c, t)
    BY <1>1, <1>6, <1>c DEF ReadyResident
  <2>2. /\ c \in Database
        /\ Frame(db, c) /\ c.status = db.status /\ c.queue = db.queue
        /\ c.next = db.next /\ c.dpcPending = db.dpcPending /\ c.inSwapList = x
    <3> HIDE DEF w, x
    <3> QED BY <1>2 DEF Database, Frame
  <2> HIDE DEF c
  <2>3. QueuesInPlace(c, moving)
    <3>1. c.priority = db.priority
      BY <2>2 DEF Frame
    <3> QED BY <2>2, <3>1, SameQueues
  <2>4. QueuesInPlace(r, moving \ {t})
    <3> HIDE DEF r
    <3> QED BY <2>1, <2>2, <2>3, JoinQueue
  <2>5. /\ r \in Database /\ Frame(c, r)
        /\ r.status = [db.status EXCEPT ![t] = "READY"]
        /\ r.next = db.next /\ r.dpcPending = db.dpcPending /\ r.inSwapList = x
    <3> HIDE DEF w, s, x, r
    <3>1. /\ r \in Database /\ Frame(c, r)
          /\ r.status = [c.status EXCEPT ![t] = "READY"]
          /\ r.next = c.next /\ r.dpcPending = c.dpcPending
          /\ r.inSwapList = c.inSwapList
      BY <2>1, <2>2, JoinFields
    <3> QED BY <2>2, <3>1
  <2>6. Frame(db, r)
    BY <2>2, <2>5 DEF Frame
  <2>7. AllResident(r)
    BY <2>5, <2>6 DEF AllResident, Frame, Database
  <2>8. db.priority[t] <= db.priority[Chosen(db)]
    BY <1>1, <1>6 DEF Chosen
  <2>9. Readied(db, r, t)
    BY <2>5, <2>8 DEF Readied
  <2> QED BY <2>4, <2>5, <2>6, <2>7, <2>9
<1> QED BY <1>4, <1>5, <1>6

-----------------------------------------------------------------------------
(***************************************************************************)
(* KiThreadWakeup.                                                         *)
(***************************************************************************)

\* The types of the numbers a thread is scheduled by.
LEMMA NumbersTyped ==
  ASSUME NEW db \in Database
  PROVE  /\ Priority = 0 .. PRIORITY_HIGHREALTIME
         /\ PRIORITY_HIGHREALTIME \in Int
         /\ PRIORITY_HIGHUSER \in Priority
         /\ PRIORITY_LOWREALTIME = PRIORITY_HIGHUSER + 1
         /\ 1 <= PRIORITY_HIGHUSER
         /\ BaseQuantum \in Byte
         /\ 1 \in Byte
         /\ \A t \in Thread :
              /\ db.priority[t] \in Priority /\ db.base[t] \in Priority
              /\ db.quantum[t] \in Byte
              /\ db.quantumEnds[t] \in Byte
              /\ db.instantDecay[t] \in BOOLEAN
              /\ db.status[t] \in Status
<1>1. /\ Priority = 0 .. PRIORITY_HIGHREALTIME
      /\ PRIORITY_HIGHREALTIME \in Int
      /\ PRIORITY_HIGHUSER \in Priority
      /\ PRIORITY_LOWREALTIME = PRIORITY_HIGHUSER + 1
      /\ 1 <= PRIORITY_HIGHUSER
  BY PriorityAssumption DEF Priority, PRIORITY_IDLE, PRIORITY_LOWUSER,
     PRIORITY_LOWREALTIME
<1>2. BaseQuantum \in Byte /\ 1 \in Byte
  BY QuantumAssumption DEF Byte
<1>3. \A t \in Thread :
        /\ db.priority[t] \in Priority /\ db.base[t] \in Priority
        /\ db.quantum[t] \in Byte
        /\ db.quantumEnds[t] \in Byte
        /\ db.instantDecay[t] \in BOOLEAN
        /\ db.status[t] \in Status
  BY DEF Database
<1> QED BY <1>1, <1>2, <1>3

LEMMA RousedEffect ==
  ASSUME NEW db \in Database, NEW t \in Thread, NEW boost \in Nat
  PROVE  LET r == Roused(db, t, boost)
         IN  /\ r \in Database
             /\ r.status = db.status
             /\ r.queue = db.queue
             /\ r.next = db.next
             /\ r.current = db.current
             /\ r.dpcPending = db.dpcPending
             /\ r.base = db.base
             /\ r.memoryState = db.memoryState
             /\ r.stackResident = db.stackResident
             /\ r.inSwapList = db.inSwapList
             /\ r.process = db.process
             /\ r.waitMode = db.waitMode
             /\ r.waitList = LeaveWaitList(db, t)
             /\ \E p \in Priority : r.priority = [db.priority EXCEPT ![t] = p]
<1> DEFINE r == Roused(db, t, boost)
           base == db.base[t]
           boosted == IF db.instantDecay[t] THEN db.priority[t]
                      ELSE Larger(db.priority[t], Capped(base + boost))
           spent == db.quantum[t] <= 1
           decayed == IF db.instantDecay[t] THEN base
                      ELSE IF boosted > base THEN boosted - 1 ELSE boosted
           realtime == db.priority[t] >= PRIORITY_LOWREALTIME
           w == LeaveWaitList(db, t)
           p == IF realtime THEN db.priority[t]
                ELSE IF spent THEN decayed ELSE boosted
           q == IF realtime \/ spent THEN BaseQuantum ELSE db.quantum[t] - 1
           i == db.instantDecay[t] /\ (realtime \/ ~spent)
           ps == [db.priority EXCEPT ![t] = p]
           qs == [db.quantum EXCEPT ![t] = q]
           is == [db.instantDecay EXCEPT ![t] = i]
<1>1. boosted \in Priority
  BY NumbersTyped DEF Larger, Capped
<1>2. decayed \in Priority
  <2> HIDE DEF boosted
  <2> QED BY <1>1, NumbersTyped
<1>3. p \in Priority
  <2> HIDE DEF boosted, decayed
  <2> QED BY <1>1, <1>2, NumbersTyped
<1>4. q \in Byte
  BY NumbersTyped, QuantumAssumption DEF Byte
<1>5. w \in SUBSET Thread
  BY DEF LeaveWaitList, Database
<1>6. r = [db EXCEPT !.waitList = w, !.priority = ps, !.quantum = qs,
                     !.instantDecay = is]
  BY DEF Roused, Database
<1> HIDE DEF p, q, w
<1>7. /\ ps \in [Thread -> Priority]
      /\ qs \in [Thread -> Byte]
      /\ is \in [Thread -> BOOLEAN]
  <2>1. i \in BOOLEAN
    OBVIOUS
  <2> HIDE DEF i
  <2> QED BY <1>3, <1>4, <2>1 DEF Database
<1> HIDE DEF ps, qs, is, r
<1>8. /\ r \in Database
      /\ r.status = db.status /\ r.queue = db.queue /\ r.next = db.next
      /\ r.current = db.current /\ r.dpcPending = db.dpcPending
      /\ r.base = db.base /\ r.memoryState = db.memoryState
      /\ r.stackResident = db.stackResident /\ r.inSwapList = db.inSwapList
      /\ r.process = db.process /\ r.waitMode = db.waitMode
      /\ r.waitList = w /\ r.priority = ps
  BY <1>5, <1>6, <1>7 DEF Database
<1> QED BY <1>3, <1>8 DEF r, w, ps

-----------------------------------------------------------------------------
(***************************************************************************)
(* KiThreadFind.                                                           *)
(***************************************************************************)

\* A queue is empty exactly when no thread of its priority is ready.
LEMMA OccupiedMeansReady ==
  ASSUME NEW db \in Database, QueuesInPlace(db, {}), NEW p \in Priority
  PROVE  db.queue[p] # << >>
         <=> \E t \in Thread : db.status[t] = "READY" /\ db.priority[t] = p
<1>1. db.queue[p] \in Seq(Thread)
  BY DEF Database
<1>2. db.queue[p] # << >> <=> Range(db.queue[p]) # {}
  <2>1. db.queue[p] # << >> => 1 \in 1 .. Len(db.queue[p])
    BY <1>1, EmptySeq
  <2>2. db.queue[p] = << >> => \A i \in 1 .. Len(db.queue[p]) : FALSE
    BY EmptySeq
  <2>3. \A x : x \in Range(db.queue[p])
               <=> \E i \in 1 .. Len(db.queue[p]) : db.queue[p][i] = x
    BY <1>1, ByIndex
  <2> QED BY <2>1, <2>2, <2>3
<1>3. Range(db.queue[p]) = {t \in Thread \ {} :
                             db.status[t] = "READY" /\ db.priority[t] = p}
  BY DEF QueuesInPlace
<1> QED BY <1>2, <1>3

\* What KiThreadFind finds: the best ready thread in a range of priorities.
LEMMA FindEffect ==
  ASSUME NEW db \in Database, QueuesInPlace(db, {}),
         NEW low \in Priority, NEW high \in Int, high <= PRIORITY_HIGHREALTIME
  PROVE  LET p == TopOf(db, low, high)
             t == Head(db.queue[p])
         IN  /\ Occupied(db, low, high) = {}
                => \A u \in Thread : db.status[u] = "READY"
                                     => ~ (db.priority[u] \in low .. high)
             /\ Occupied(db, low, high) # {}
                => /\ p \in low .. high /\ p \in Priority
                   /\ db.queue[p] # << >>
                   /\ t \in Thread
                   /\ db.status[t] = "READY" /\ db.priority[t] = p
                   /\ \A u \in Thread : db.status[u] = "READY"
                        => db.priority[u] <= p \/ db.priority[u] > high
<1> DEFINE p == TopOf(db, low, high)
           t == Head(db.queue[p])
<1>1. /\ low .. high \subseteq Priority /\ low \in Int
      /\ \A u \in Thread : db.priority[u] \in Int
  BY NumbersTyped, PriorityAssumption DEF Priority, PRIORITY_IDLE
<1>2. \A u \in Thread : db.status[u] = "READY" /\ db.priority[u] \in low .. high
                        => db.priority[u] \in Occupied(db, low, high)
  BY <1>1, OccupiedMeansReady DEF Occupied
<1>3. ASSUME Occupied(db, low, high) # {}
      PROVE  /\ p \in Occupied(db, low, high)
             /\ \A x \in Occupied(db, low, high) : x <= p
  BY <1>1, <1>3, MaxExists DEF TopOf, Occupied
<1>4. ASSUME Occupied(db, low, high) # {}
      PROVE  /\ p \in low .. high /\ p \in Priority
             /\ db.queue[p] # << >>
  BY <1>1, <1>3, <1>4 DEF Occupied
<1>5. ASSUME Occupied(db, low, high) # {}
      PROVE  t \in Thread /\ db.status[t] = "READY" /\ db.priority[t] = p
  <2>1. db.queue[p] \in Seq(Thread)
    BY <1>4, <1>5 DEF Database
  <2>2. t \in Range(db.queue[p])
    BY <1>4, <1>5, <2>1, TailOfQueue DEF QueuesInPlace
  <2> HIDE DEF t, p
  <2> QED BY <1>4, <1>5, <2>2 DEF QueuesInPlace
<1>6. ASSUME Occupied(db, low, high) # {}, NEW u \in Thread, db.status[u] = "READY"
      PROVE  db.priority[u] <= p \/ db.priority[u] > high
  <2>1. db.priority[u] \in Priority /\ p \in Int
    BY <1>1, <1>4, <1>6, NumbersTyped
  <2>2. CASE db.priority[u] \in low .. high
    BY <1>2, <1>3, <1>6, <2>2
  <2>3. CASE db.priority[u] < low
    BY <1>1, <1>4, <1>6, <2>1, <2>3
  <2> QED BY <1>1, <2>1, <2>2, <2>3
<1> QED BY <1>2, <1>4, <1>5, <1>6

\* KiThreadFind takes the thread it finds off its queue.
LEMMA DequeueEffect ==
  ASSUME NEW db \in Database, QueuesInPlace(db, {}),
         NEW p \in Priority, db.queue[p] # << >>
  PROVE  LET r == Dequeue(db, p)
             t == Head(db.queue[p])
         IN  /\ r \in Database
             /\ Frame(db, r)
             /\ r.status = db.status
             /\ r.next = db.next
             /\ r.dpcPending = db.dpcPending
             /\ r.inSwapList = db.inSwapList
             /\ QueuesInPlace(r, {t})
<1> DEFINE r == Dequeue(db, p)
           t == Head(db.queue[p])
           q == [db.queue EXCEPT ![p] = Tail(db.queue[p])]
<1>1. /\ db.queue[p] \in Seq(Thread)
      /\ db.queue \in [Priority -> Seq(Thread)]
      /\ IsInjective(db.queue[p])
  BY DEF Database, QueuesInPlace
<1>2. /\ Tail(db.queue[p]) \in Seq(Thread)
      /\ IsInjective(Tail(db.queue[p]))
      /\ Range(Tail(db.queue[p])) = Range(db.queue[p]) \ {t}
      /\ t \in Range(db.queue[p])
  BY <1>1, TailOfQueue
<1>3. q \in [Priority -> Seq(Thread)]
  BY <1>1, <1>2
<1>4. r = [db EXCEPT !.queue = q]
  BY DEF Dequeue, Database
<1>5. /\ r \in Database /\ Frame(db, r) /\ r.status = db.status
      /\ r.next = db.next /\ r.dpcPending = db.dpcPending
      /\ r.inSwapList = db.inSwapList /\ r.queue = q
      /\ r.priority = db.priority
  <2> HIDE DEF q, r
  <2> QED BY <1>3, <1>4 DEF Database, Frame
<1> HIDE DEF r, t
<1>6. ASSUME NEW x \in Priority
      PROVE  /\ IsInjective(r.queue[x])
             /\ Range(r.queue[x]) = {u \in Thread \ {t} :
                                       r.status[u] = "READY" /\ r.priority[u] = x}
  <2>1. \A y \in Priority :
          /\ IsInjective(db.queue[y])
          /\ Range(db.queue[y]) = {u \in Thread :
                                     db.status[u] = "READY" /\ db.priority[u] = y}
    BY DEF QueuesInPlace
  <2>2. CASE x = p
    <3>1. r.queue[x] = Tail(db.queue[p])
      BY <1>1, <1>5, <2>2
    <3> QED BY <1>2, <1>5, <2>1, <2>2, <3>1
  <2>3. CASE x # p
    <3>1. r.queue[x] = db.queue[x]
      BY <1>1, <1>5, <2>3
    <3>2. db.priority[t] = p
      BY <1>2, <2>1
    <3> QED BY <1>5, <2>1, <2>3, <3>1, <3>2
  <2> QED BY <2>2, <2>3
<1>7. QueuesInPlace(r, {t})
  BY <1>6 DEF QueuesInPlace
<1> QED BY <1>5, <1>7 DEF r, t

\* Promote: the thread found becomes the next thread.
LEMMA PromoteEffect ==
  ASSUME NEW db \in Database, QueuesInPlace(db, {}),
         NEW low \in Priority, NEW high \in Int, high <= PRIORITY_HIGHREALTIME
  PROVE  LET r == Promote(db, low, high)
         IN  /\ r \in Database
             /\ Frame(db, r)
             /\ r.dpcPending = db.dpcPending
             /\ r.inSwapList = db.inSwapList
             /\ QueuesInPlace(r, {})
             /\ \/ /\ Occupied(db, low, high) = {}
                   /\ r = db
                   /\ \A u \in Thread : db.status[u] = "READY"
                                        => ~ (db.priority[u] \in low .. high)
                \/ /\ Occupied(db, low, high) # {}
                   /\ r.next \in Thread
                   /\ db.status[r.next] = "READY"
                   /\ db.priority[r.next] \in low .. high
                   /\ r.status = [db.status EXCEPT ![r.next] = "STANDBY"]
                   /\ \A u \in Thread : db.status[u] = "READY"
                        => \/ db.priority[u] <= db.priority[r.next]
                           \/ db.priority[u] > high
<1> DEFINE r == Promote(db, low, high)
           p == TopOf(db, low, high)
           t == Head(db.queue[p])
           c == Dequeue(db, p)
           s == [db.status EXCEPT ![t] = "STANDBY"]
<1>1. CASE Occupied(db, low, high) = {}
  <2>1. r = db
    BY <1>1 DEF Promote
  <2>2. \A u \in Thread : db.status[u] = "READY"
                          => ~ (db.priority[u] \in low .. high)
    BY <1>1, FindEffect
  <2>3. Frame(db, db)
    BY DEF Frame
  <2> QED BY <1>1, <2>1, <2>2, <2>3
<1>2. CASE Occupied(db, low, high) # {}
  <2>1. /\ p \in low .. high /\ p \in Priority
        /\ db.queue[p] # << >>
        /\ t \in Thread
        /\ db.status[t] = "READY" /\ db.priority[t] = p
        /\ \A u \in Thread : db.status[u] = "READY"
             => db.priority[u] <= p \/ db.priority[u] > high
    BY <1>2, FindEffect
  <2>2. /\ c \in Database /\ Frame(db, c) /\ c.status = db.status
        /\ c.next = db.next /\ c.dpcPending = db.dpcPending
        /\ c.inSwapList = db.inSwapList
        /\ QueuesInPlace(c, {t})
    BY <2>1, DequeueEffect
  <2>3. r = [c EXCEPT !.status = s, !.next = t]
    <3>1. r = MakeNext(c, t)
      BY <1>2 DEF Promote
    <3> HIDE DEF c, t, r
    <3> QED BY <2>1, <2>2, <3>1 DEF Database, MakeNext
  <2>4. s \in [Thread -> Status]
    <3> HIDE DEF t
    <3> QED BY <2>1 DEF Database, Status
  <2> HIDE DEF r, p, t, c, s
  <2>5. /\ r \in Database /\ Frame(c, r) /\ r.dpcPending = c.dpcPending
        /\ r.inSwapList = c.inSwapList
        /\ r.status = s /\ r.next = t /\ r.queue = c.queue
        /\ r.priority = c.priority
    BY <2>1, <2>2, <2>3, <2>4 DEF Database, Frame
  <2>6. QueuesInPlace(r, {})
    <3>1. {u \in Thread \ {t} : c.status[u] = "READY"}
          = {u \in Thread \ {} : r.status[u] = "READY"}
      <4>1. /\ c.status = db.status
            /\ r.status = [db.status EXCEPT ![t] = "STANDBY"]
            /\ db.status \in [Thread -> Status]
        BY <2>2, <2>5 DEF s, Database
      <4>2. \A u \in Thread : u # t => r.status[u] = c.status[u]
        BY <4>1
      <4>3. r.status[t] # "READY"
        BY <2>1, <4>1
      <4> QED BY <4>2, <4>3
    <3> QED BY <2>2, <2>5, <3>1, SameQueues
  <2>7. Frame(db, r)
    BY <2>2, <2>5 DEF Frame
  <2> QED BY <1>2, <2>1, <2>2, <2>5, <2>6, <2>7 DEF r, s
<1> QED BY <1>1, <1>2

-----------------------------------------------------------------------------
(***************************************************************************)
(* Leaving the processor.                                                  *)
(***************************************************************************)
LEMMA SwitchEffect ==
  ASSUME NEW db \in Database, NEW t \in Thread
  PROVE  LET r == KiThreadSwitch(db, t)
         IN  /\ r \in Database
             /\ r.status = [db.status EXCEPT ![t] = "RUNNING"]
             /\ r.current = t
             /\ r.queue = db.queue
             /\ r.next = db.next
             /\ r.dpcPending = db.dpcPending
             /\ r.priority = db.priority
             /\ r.base = db.base
             /\ r.instantDecay = db.instantDecay
             /\ r.stackResident = db.stackResident
             /\ r.inSwapList = db.inSwapList
             /\ r.memoryState = db.memoryState
             /\ r.waitMode = db.waitMode
             /\ r.waitList = db.waitList
<1> DEFINE s == [db.status EXCEPT ![t] = "RUNNING"]
<1>1. s \in [Thread -> Status]
  BY DEF Database, Status
<1>2. KiThreadSwitch(db, t) = [db EXCEPT !.status = s, !.current = t]
  BY DEF KiThreadSwitch, Database
<1> HIDE DEF s
<1>3. [db EXCEPT !.status = s, !.current = t] \in Database
  BY <1>1 DEF Database
<1> QED BY <1>2, <1>3 DEF Database, s

-----------------------------------------------------------------------------
(***************************************************************************)
(* The routines preserve the consistency of the database, and none of them *)
(* loses the pending software interrupt or a next thread without one.      *)
(***************************************************************************)
Keeps(db, r) ==
  /\ db.dpcPending => r.dpcPending
  /\ r.next # NoThread => db.next # NoThread \/ r.dpcPending

\* What decides how priorities decay stays as it was.
SameDecay(db, r) ==
  /\ r.priority = db.priority
  /\ r.base = db.base
  /\ r.instantDecay = db.instantDecay

\* A time-sharing thread is at its base priority or above, and a starved one
\* keeps its boost.
AboveBase(db) ==
  \A t \in Thread \ {IdleThread} :
    /\ db.priority[t] < PRIORITY_LOWREALTIME => db.base[t] <= db.priority[t]
    /\ db.instantDecay[t] => PRIORITY_HIGHUSER <= db.priority[t]

\* BestChosen, said of threads instead of queues.
Best(db) ==
  /\ \A u \in Thread : db.status[u] = "READY"
                       => db.priority[u] <= db.priority[Chosen(db)]
  /\ db.priority[db.current] <= db.priority[Chosen(db)]

\* The same, while t is on its way to somewhere else.
BestBut(db, t) ==
  /\ \A u \in Thread \ {t} : db.status[u] = "READY"
                             => db.priority[u] <= db.priority[Chosen(db)]
  /\ db.priority[db.current] <= db.priority[Chosen(db)]

LEMMA SameDecayAboveBase ==
  ASSUME NEW db, NEW r, AboveBase(db), SameDecay(db, r)
  PROVE  AboveBase(r)
  BY DEF AboveBase, SameDecay

\* A thread that wakes up decays by one at most, and not below its base.
LEMMA RousedAboveBase ==
  ASSUME NEW db \in Database, AboveBase(db), NEW t \in Thread \ {IdleThread},
         NEW boost \in Nat
  PROVE  AboveBase(Roused(db, t, boost))
<1> DEFINE r == Roused(db, t, boost)
           base == db.base[t]
           boosted == IF db.instantDecay[t] THEN db.priority[t]
                      ELSE Larger(db.priority[t], Capped(base + boost))
           spent == db.quantum[t] <= 1
           decayed == IF db.instantDecay[t] THEN base
                      ELSE IF boosted > base THEN boosted - 1 ELSE boosted
           realtime == db.priority[t] >= PRIORITY_LOWREALTIME
           p == IF realtime THEN db.priority[t]
                ELSE IF spent THEN decayed ELSE boosted
           i == db.instantDecay[t] /\ (realtime \/ ~spent)
<1>1. /\ r.priority = [db.priority EXCEPT ![t] = p]
      /\ r.base = db.base
      /\ r.instantDecay = [db.instantDecay EXCEPT ![t] = i]
  BY DEF Roused, Database
<1>2. /\ db.priority[t] \in Int /\ base \in Int /\ PRIORITY_LOWREALTIME \in Int
      /\ PRIORITY_HIGHUSER \in Int
      /\ ~realtime => base <= db.priority[t]
      /\ db.instantDecay[t] => PRIORITY_HIGHUSER <= db.priority[t]
  BY NumbersTyped DEF AboveBase
<1>3. boosted \in Int /\ boosted >= db.priority[t]
  BY <1>2 DEF Larger, Capped
<1>4. /\ p < PRIORITY_LOWREALTIME => base <= p
      /\ i => PRIORITY_HIGHUSER <= p
  <2>1. i => db.instantDecay[t] /\ p = db.priority[t]
    OBVIOUS
  <2>2. ~realtime => base <= boosted /\ base <= decayed
    <3> HIDE DEF boosted
    <3> QED BY <1>2, <1>3
  <2> HIDE DEF i, boosted, decayed, spent
  <2> QED BY <1>2, <2>1, <2>2
<1> HIDE DEF r, p, i
<1>5. /\ r.priority[t] = p /\ r.base[t] = base /\ r.instantDecay[t] = i
      /\ \A u \in Thread \ {t} : /\ r.priority[u] = db.priority[u]
                                /\ r.base[u] = db.base[u]
                                /\ r.instantDecay[u] = db.instantDecay[u]
  BY <1>1 DEF Database
<1> HIDE DEF base
<1> QED BY <1>4, <1>5 DEF AboveBase, r

LEMMA BestMeansBestChosen ==
  ASSUME NEW db, Consistent(db), Best(db)
  PROVE  BestChosen(db)
<1>1. db \in Database /\ QueuesInPlace(db, {})
  BY DEF Consistent
<1>2. \A p \in Priority :
        db.queue[p] # << >>
          => \E u \in Thread : db.status[u] = "READY" /\ db.priority[u] = p
  BY <1>1, OccupiedMeansReady
<1> QED BY <1>2 DEF Best, BestChosen

\* A consistent database in which t is on its way to somewhere else.
ConsistentBut(db, t) ==
  /\ db \in Database
  /\ AllResident(db)
  /\ QueuesInPlace(db, {t})
  /\ \A u \in Thread \ {t} : /\ db.status[u] = "STANDBY" <=> db.next = u
                             /\ db.status[u] = "RUNNING" <=> db.current = u
  /\ db.next # t
  /\ db.current # t
  /\ db.priority[IdleThread] = PRIORITY_IDLE
  /\ t # IdleThread => db.status[IdleThread] \in {"READY", "STANDBY", "RUNNING"}

\* KiThreadReady selects the better one of the thread and the one chosen.
LEMMA ReadiedBest ==
  ASSUME NEW db \in Database, NEW t \in Thread, db.current # t, db.next # t,
         BestBut(db, t),
         NEW r, Frame(db, r), Readied(db, r, t)
  PROVE  Best(r)
<1>1. /\ NoThread \notin Thread
      /\ db.current \in Thread /\ db.next \in Thread \cup {NoThread}
      /\ db.status \in [Thread -> Status]
      /\ r.priority = db.priority /\ r.current = db.current
  BY ThreadAssumption DEF Database, Frame
<1>2. \A u \in Thread : db.priority[u] \in Int
  BY NumbersTyped
<1>3. CASE /\ db.next \in Thread
           /\ db.priority[t] > db.priority[db.next]
           /\ r.next = t
           /\ r.status = [db.status EXCEPT ![t] = "STANDBY", ![db.next] = "READY"]
  <2>1. Chosen(db) = db.next /\ Chosen(r) = t
    BY <1>1, <1>3 DEF Chosen
  <2>2. ASSUME NEW u \in Thread, r.status[u] = "READY"
        PROVE  r.priority[u] <= r.priority[t]
    <3>1. u # t /\ (u = db.next \/ db.status[u] = "READY")
      BY <1>1, <1>3, <2>2
    <3>2. db.priority[u] <= db.priority[db.next]
      BY <1>2, <1>3, <2>1, <3>1 DEF BestBut
    <3> QED BY <1>1, <1>2, <1>3, <3>2
  <2> QED BY <1>1, <1>2, <1>3, <2>1, <2>2 DEF Best, BestBut
<1>4. CASE /\ db.next = NoThread
           /\ db.priority[t] > db.priority[db.current]
           /\ r.next = t
           /\ r.status = [db.status EXCEPT ![t] = "STANDBY"]
  <2>1. Chosen(db) = db.current /\ Chosen(r) = t
    BY <1>1, <1>4 DEF Chosen
  <2>2. ASSUME NEW u \in Thread, r.status[u] = "READY"
        PROVE  r.priority[u] <= r.priority[t]
    <3>1. u # t /\ db.status[u] = "READY"
      BY <1>1, <1>4, <2>2
    <3> QED BY <1>1, <1>2, <1>4, <2>1, <3>1 DEF BestBut
  <2> QED BY <1>1, <1>2, <1>4, <2>1, <2>2 DEF Best
<1>5. CASE /\ db.priority[t] <= db.priority[Chosen(db)]
           /\ r.next = db.next
           /\ r.status = [db.status EXCEPT ![t] = "READY"]
  <2>1. Chosen(r) = Chosen(db)
    BY <1>1, <1>5 DEF Chosen
  <2>2. \A u \in Thread \ {t} : r.status[u] = db.status[u]
    BY <1>1, <1>5
  <2> QED BY <1>1, <1>5, <2>1, <2>2 DEF Best, BestBut
<1> QED BY <1>3, <1>4, <1>5 DEF Readied

LEMMA ReadyConsistent ==
  ASSUME NEW db, NEW t \in Thread, ConsistentBut(db, t)
  PROVE  /\ Consistent(KiThreadReady(db, t))
         /\ Keeps(db, KiThreadReady(db, t))
         /\ Frame(db, KiThreadReady(db, t))
         /\ KiThreadReady(db, t).next \in {db.next, t}
         /\ BestBut(db, t) => Best(KiThreadReady(db, t))
<1> DEFINE r == KiThreadReady(db, t)
<1>1. /\ db \in Database /\ db.next \in Thread \cup {NoThread}
      /\ db.current \in Thread
      /\ db.status \in [Thread -> Status]
      /\ t # NoThread
  BY ThreadAssumption DEF ConsistentBut, Database
<1>2. /\ r \in Database /\ Frame(db, r) /\ AllResident(r)
      /\ QueuesInPlace(r, {t} \ {t})
      /\ Readied(db, r, t)
  <2>1. db.next # NoThread => db.status[db.next] = "STANDBY"
    BY <1>1 DEF ConsistentBut
  <2> HIDE DEF r
  <2> QED BY <2>1, ReadyEffect DEF ConsistentBut, r
<1> HIDE DEF r
<1>3. QueuesInPlace(r, {})
  <2>1. {t} \ {t} = {}
    OBVIOUS
  <2> QED BY <1>2, <2>1
<1>4. r.current = db.current /\ r.priority = db.priority
  BY <1>2 DEF Frame
<1>5. ProcessorInPlace(r)
  <2> SUFFICES ASSUME NEW u \in Thread
               PROVE  /\ r.status[u] = "STANDBY" <=> r.next = u
                      /\ r.status[u] = "RUNNING" <=> r.current = u
    BY DEF ProcessorInPlace
  <2>1. u # t => /\ db.status[u] = "STANDBY" <=> db.next = u
                 /\ db.status[u] = "RUNNING" <=> db.current = u
    BY DEF ConsistentBut
  <2>2. db.next # t /\ db.current # t
    BY DEF ConsistentBut
  <2>3. CASE /\ db.next \in Thread /\ r.next = t
             /\ r.status = [db.status EXCEPT ![t] = "STANDBY", ![db.next] = "READY"]
    <3>1. /\ db.status[db.next] = "STANDBY" /\ db.status[db.next] # "RUNNING"
          /\ db.current # db.next
      BY <2>2, <2>3 DEF ConsistentBut
    <3>2. /\ r.status[t] = "STANDBY" /\ r.status[db.next] = "READY"
          /\ \A v \in Thread \ {t, db.next} : r.status[v] = db.status[v]
      BY <1>1, <2>2, <2>3
    <3>3. CASE u = t
      BY <1>4, <2>2, <2>3, <3>2, <3>3
    <3>4. CASE u = db.next
      BY <1>4, <2>2, <2>3, <3>1, <3>2, <3>4
    <3>5. CASE u \notin {t, db.next}
      BY <1>4, <2>1, <2>3, <3>2, <3>5
    <3> QED BY <3>3, <3>4, <3>5
  <2>4. CASE /\ db.next = NoThread /\ r.next = t
             /\ r.status = [db.status EXCEPT ![t] = "STANDBY"]
    BY <1>1, <1>4, <2>1, <2>2, <2>4, ThreadAssumption
  <2>5. CASE /\ r.next = db.next
             /\ r.status = [db.status EXCEPT ![t] = "READY"]
    BY <1>1, <1>4, <2>1, <2>2, <2>5
  <2> QED BY <1>2, <2>3, <2>4, <2>5 DEF Readied
<1>6. IdleReady(r)
  <2>1. /\ db.priority[IdleThread] = PRIORITY_IDLE
        /\ t # IdleThread => db.status[IdleThread] \in {"READY", "STANDBY", "RUNNING"}
        /\ IdleThread \in Thread
    BY ThreadAssumption DEF ConsistentBut
  <2>2. \A u \in Thread : r.status[u] = db.status[u]
                            \/ r.status[u] \in {"READY", "STANDBY"}
    BY <1>1, <1>2 DEF Readied
  <2>3. r.status[t] \in {"READY", "STANDBY"}
    BY <1>1, <1>2 DEF Readied
  <2>4. r.status[IdleThread] \in {"READY", "STANDBY", "RUNNING"}
    <3>1. CASE IdleThread = t
      BY <2>3, <3>1
    <3>2. CASE IdleThread # t
      BY <2>1, <2>2, <3>2
    <3> QED BY <3>1, <3>2
  <2> QED BY <1>4, <2>1, <2>4 DEF IdleReady
<1>7. Keeps(db, r)
  BY <1>2, ThreadAssumption DEF Readied, Keeps
<1>8. BestBut(db, t) => Best(r)
  BY <1>1, <1>2, ReadiedBest DEF ConsistentBut
<1>9. r.next \in {db.next, t}
  BY <1>2 DEF Readied
<1> QED BY <1>2, <1>3, <1>4, <1>5, <1>6, <1>7, <1>8, <1>9 DEF Consistent, r

\* A thread that is roused is on its way to the ready queues.
LEMMA RousedOnItsWay ==
  ASSUME NEW db, Consistent(db), NEW t \in Thread, NEW boost \in Nat,
         db.status[t] \in Asleep
  PROVE  LET c == Roused(db, t, boost)
         IN  /\ ConsistentBut(c, t)
             /\ c.status = db.status /\ c.next = db.next
             /\ c.current = db.current /\ c.dpcPending = db.dpcPending
             /\ t # IdleThread
             /\ \A u \in Thread : u # t => c.priority[u] = db.priority[u]
<1> DEFINE c == Roused(db, t, boost)
<1>1. /\ c \in Database
      /\ c.status = db.status /\ c.queue = db.queue /\ c.next = db.next
      /\ c.current = db.current /\ c.dpcPending = db.dpcPending
      /\ c.memoryState = db.memoryState
      /\ c.stackResident = db.stackResident /\ c.inSwapList = db.inSwapList
      /\ \E p \in Priority : c.priority = [db.priority EXCEPT ![t] = p]
  BY RousedEffect DEF Consistent
<1> HIDE DEF c
<1>2. /\ db.priority \in [Thread -> Priority]
      /\ db.status[t] \notin {"READY", "STANDBY", "RUNNING"}
      /\ t # IdleThread
  BY DEF Consistent, Database, Asleep, IdleReady
<1>3. \A u \in Thread : u # t => c.priority[u] = db.priority[u]
  BY <1>1, <1>2
<1>4. QueuesInPlace(c, {t})
  <2>1. {u \in Thread \ {} : db.status[u] = "READY"}
        = {u \in Thread \ {t} : c.status[u] = "READY"}
    BY <1>1, <1>2
  <2>2. \A u \in Thread \ {} : db.status[u] = "READY" => c.priority[u] = db.priority[u]
    BY <1>2, <1>3
  <2> QED BY <1>1, <2>1, <2>2, SameQueues DEF Consistent
<1>5. ConsistentBut(c, t)
  <2>1. AllResident(c)
    BY <1>1 DEF Consistent, AllResident
  <2>2. \A u \in Thread : /\ c.status[u] = "STANDBY" <=> c.next = u
                          /\ c.status[u] = "RUNNING" <=> c.current = u
    BY <1>1 DEF Consistent, ProcessorInPlace
  <2>3. c.next # t /\ c.current # t
    BY <1>1, <1>2, <2>2
  <2>4. /\ c.priority[IdleThread] = PRIORITY_IDLE
        /\ c.status[IdleThread] \in {"READY", "STANDBY", "RUNNING"}
    BY <1>1, <1>2, <1>3, ThreadAssumption DEF Consistent, IdleReady
  <2> QED BY <1>1, <1>4, <2>1, <2>2, <2>3, <2>4 DEF ConsistentBut
<1> QED BY <1>1, <1>2, <1>3, <1>5 DEF c

LEMMA WakeupConsistent ==
  ASSUME NEW db, Consistent(db), NEW t \in Thread, NEW boost \in Nat,
         db.status[t] \in Asleep
  PROVE  /\ Consistent(KiThreadWakeup(db, t, boost))
         /\ Keeps(db, KiThreadWakeup(db, t, boost))
         /\ Best(db) => Best(KiThreadWakeup(db, t, boost))
         /\ AboveBase(db) => AboveBase(KiThreadWakeup(db, t, boost))
<1> DEFINE c == Roused(db, t, boost)
<1>1. /\ ConsistentBut(c, t)
      /\ c.status = db.status /\ c.next = db.next
      /\ c.current = db.current /\ c.dpcPending = db.dpcPending
      /\ t # IdleThread
      /\ \A u \in Thread : u # t => c.priority[u] = db.priority[u]
  BY RousedOnItsWay
<1> HIDE DEF c
<1>2. /\ Consistent(KiThreadReady(c, t))
      /\ Keeps(c, KiThreadReady(c, t)) /\ Frame(c, KiThreadReady(c, t))
      /\ BestBut(c, t) => Best(KiThreadReady(c, t))
  BY <1>1, ReadyConsistent
<1>3. Best(db) => BestBut(c, t)
  <2>1. db.current \in Thread /\ db.next \in Thread \cup {NoThread}
    BY DEF Consistent, Database
  <2>2. /\ Chosen(db) \in Thread /\ Chosen(c) = Chosen(db)
        /\ Chosen(db) # t /\ db.current # t
    BY <1>1, <2>1 DEF Chosen, ConsistentBut
  <2> QED BY <1>1, <2>1, <2>2 DEF Best, BestBut
<1>4. AboveBase(db) => AboveBase(KiThreadReady(c, t))
  <2>1. SameDecay(c, KiThreadReady(c, t))
    BY <1>2 DEF SameDecay, Frame
  <2>2. AboveBase(db) => AboveBase(c)
    BY <1>1, RousedAboveBase DEF c, Consistent
  <2> QED BY <2>1, <2>2, SameDecayAboveBase
<1> QED BY <1>1, <1>2, <1>3, <1>4 DEF KiThreadWakeup, Keeps, c

\* KiThreadSelect and the switch.
LEMMA SelectedEffect ==
  ASSUME NEW db \in Database, AllResident(db), QueuesInPlace(db, {}),
         NEW t \in Thread, t = db.current,
         db.status[t] \notin {"READY", "STANDBY"}, t # IdleThread,
         \A u \in Thread \ {t} : /\ db.status[u] = "STANDBY" <=> db.next = u
                                 /\ db.status[u] # "RUNNING",
         db.next # t, IdleReady(db)
  PROVE  LET r == SwitchToSelected(db)
         IN  /\ r \in Database
             /\ QueuesInPlace(r, {})
             /\ r.current \in Thread
             /\ r.current # t
             /\ r.next = NoThread
             /\ r.status = [db.status EXCEPT ![r.current] = "RUNNING"]
             /\ SameDecay(db, r)
             /\ r.dpcPending = db.dpcPending
             /\ r.stackResident = db.stackResident
             /\ r.inSwapList = db.inSwapList
             /\ r.memoryState = db.memoryState
             /\ r.waitMode = db.waitMode
             /\ r.waitList = db.waitList
             /\ db.next # NoThread => r.current = db.next
             /\ db.next = NoThread
                  => /\ db.status[r.current] = "READY"
                     /\ \A u \in Thread : db.status[u] = "READY"
                          => \/ db.priority[u] <= db.priority[r.current]
                             \/ db.priority[u] > db.priority[t]
<1> DEFINE r == SwitchToSelected(db)
<1>1. /\ db.next \in Thread \cup {NoThread}
      /\ db.status \in [Thread -> Status]
      /\ IdleThread \in Thread /\ NoThread \notin Thread
      /\ \A u \in Thread : db.priority[u] \in Priority
  BY ThreadAssumption DEF Database
<1>2. CASE db.next # NoThread
  <2> DEFINE c == [db EXCEPT !.next = NoThread]
             x == db.next
  <2>1. r = KiThreadSwitch(c, x) /\ x \in Thread /\ x # t
    BY <1>1, <1>2 DEF SwitchToSelected
  <2>2. /\ c \in Database /\ c.next = NoThread /\ c.queue = db.queue
        /\ c.status = db.status /\ c.priority = db.priority
        /\ c.base = db.base /\ c.instantDecay = db.instantDecay
        /\ c.dpcPending = db.dpcPending /\ c.stackResident = db.stackResident
        /\ c.inSwapList = db.inSwapList /\ c.memoryState = db.memoryState
        /\ c.waitMode = db.waitMode /\ c.waitList = db.waitList
    BY DEF Database
  <2>3. db.status[x] = "STANDBY"
    BY <2>1
  <2> HIDE DEF c, x, r
  <2>4. /\ r \in Database /\ r.current = x /\ r.next = NoThread
        /\ r.queue = db.queue
        /\ r.status = [db.status EXCEPT ![x] = "RUNNING"]
        /\ SameDecay(db, r)
        /\ r.dpcPending = db.dpcPending /\ r.stackResident = db.stackResident
        /\ r.inSwapList = db.inSwapList /\ r.memoryState = db.memoryState
        /\ r.waitMode = db.waitMode /\ r.waitList = db.waitList
    <3>1. /\ r \in Database
          /\ r.status = [c.status EXCEPT ![x] = "RUNNING"]
          /\ r.current = x /\ r.queue = c.queue /\ r.next = c.next
          /\ r.dpcPending = c.dpcPending /\ r.priority = c.priority
          /\ r.base = c.base /\ r.instantDecay = c.instantDecay
          /\ r.stackResident = c.stackResident /\ r.inSwapList = c.inSwapList
          /\ r.memoryState = c.memoryState
          /\ r.waitMode = c.waitMode /\ r.waitList = c.waitList
      BY <2>1, <2>2, SwitchEffect
    <3> QED BY <2>2, <3>1 DEF SameDecay
  <2>5. QueuesInPlace(r, {})
    <3>1. {u \in Thread \ {} : db.status[u] = "READY"}
          = {u \in Thread \ {} : r.status[u] = "READY"}
      BY <1>1, <2>1, <2>3, <2>4
    <3>2. r.queue = db.queue /\ r.priority = db.priority
      BY <2>4 DEF SameDecay
    <3>3. \A u \in Thread \ {} : db.status[u] = "READY" => r.priority[u] = db.priority[u]
      BY <3>2
    <3> QED BY <3>1, <3>2, <3>3, SameQueues
  <2> QED BY <1>2, <2>1, <2>4, <2>5 DEF r, x
<1>3. CASE db.next = NoThread
  <2> DEFINE high == db.priority[t]
             p == TopOf(db, PRIORITY_IDLE, high)
             x == Head(db.queue[p])
             c == Dequeue(db, p)
  <2>1. r = KiThreadSwitch(c, x)
    BY <1>3 DEF SwitchToSelected
  <2>2. PRIORITY_IDLE \in Priority /\ high \in Priority /\ high \in Int
        /\ high <= PRIORITY_HIGHREALTIME
    BY <1>1, NumbersTyped DEF PRIORITY_IDLE
  <2>3. Occupied(db, PRIORITY_IDLE, high) # {}
    <3>1. db.status[IdleThread] = "READY"
      BY <1>1, <1>3 DEF IdleReady
    <3>2. db.priority[IdleThread] \in PRIORITY_IDLE .. high
      BY <2>2, NumbersTyped DEF IdleReady, PRIORITY_IDLE
    <3> HIDE DEF high
    <3> QED BY <1>1, <2>2, <3>1, <3>2, FindEffect
  <2>4. /\ p \in Priority /\ db.queue[p] # << >> /\ x \in Thread
        /\ db.status[x] = "READY" /\ db.priority[x] = p
        /\ \A u \in Thread : db.status[u] = "READY"
             => db.priority[u] <= p \/ db.priority[u] > high
    <3> HIDE DEF high
    <3> QED BY <2>2, <2>3, FindEffect
  <2>5. /\ c \in Database /\ Frame(db, c) /\ c.status = db.status
        /\ c.next = db.next /\ c.dpcPending = db.dpcPending
        /\ c.inSwapList = db.inSwapList /\ QueuesInPlace(c, {x})
    <3> HIDE DEF p
    <3> QED BY <2>4, DequeueEffect
  <2> HIDE DEF r, c, x, p
  <2>6. /\ r \in Database /\ r.current = x /\ r.next = NoThread
        /\ r.queue = c.queue
        /\ r.status = [db.status EXCEPT ![x] = "RUNNING"]
        /\ SameDecay(db, r)
        /\ r.dpcPending = db.dpcPending /\ r.stackResident = db.stackResident
        /\ r.inSwapList = db.inSwapList /\ r.memoryState = db.memoryState
        /\ r.waitMode = db.waitMode /\ r.waitList = db.waitList
    <3>1. /\ r \in Database
          /\ r.status = [c.status EXCEPT ![x] = "RUNNING"]
          /\ r.current = x /\ r.queue = c.queue /\ r.next = c.next
          /\ r.dpcPending = c.dpcPending /\ r.priority = c.priority
          /\ r.base = c.base /\ r.instantDecay = c.instantDecay
          /\ r.stackResident = c.stackResident /\ r.inSwapList = c.inSwapList
          /\ r.memoryState = c.memoryState
          /\ r.waitMode = c.waitMode /\ r.waitList = c.waitList
      BY <2>1, <2>4, <2>5, SwitchEffect
    <3> QED BY <1>3, <2>5, <3>1 DEF Frame, SameDecay
  <2>7. QueuesInPlace(r, {})
    <3>1. {u \in Thread \ {x} : c.status[u] = "READY"}
          = {u \in Thread \ {} : r.status[u] = "READY"}
      BY <1>1, <2>4, <2>5, <2>6
    <3>2. r.queue = c.queue /\ r.priority = c.priority /\ QueuesInPlace(c, {x})
      BY <2>5, <2>6 DEF Frame, SameDecay
    <3>3. \A u \in Thread \ {x} : c.status[u] = "READY" => r.priority[u] = c.priority[u]
      BY <3>2
    <3> QED BY <3>1, <3>2, <3>3, SameQueues
  <2>8. x # t
    BY <2>4
  <2> QED BY <1>3, <2>4, <2>6, <2>7, <2>8 DEF r
<1> QED BY <1>2, <1>3

\* What is no place, no priority and no residence is free to change.
LEMMA QuietConsistent ==
  ASSUME NEW db, Consistent(db), NEW c \in Database,
         c.status = db.status, c.queue = db.queue, c.next = db.next,
         c.current = db.current, c.priority = db.priority,
         c.stackResident = db.stackResident, c.inSwapList = db.inSwapList,
         c.memoryState = db.memoryState
  PROVE  Consistent(c)
<1>1. \A u \in Thread \ {} : db.status[u] = "READY" => c.priority[u] = db.priority[u]
  OBVIOUS
<1>2. QueuesInPlace(db, {})
  BY DEF Consistent
<1>3. {u \in Thread \ {} : db.status[u] = "READY"}
      = {u \in Thread \ {} : c.status[u] = "READY"}
  OBVIOUS
<1>4. QueuesInPlace(c, {})
  BY <1>1, <1>2, <1>3, SameQueues
<1> QED BY <1>4 DEF Consistent, AllResident, ProcessorInPlace, IdleReady

\* A thread that is not queued, not next and not running leaves the processor.
LEMMA LeaveConsistent ==
  ASSUME NEW db, Consistent(db), db.current # IdleThread,
         NEW status \in Status \ {"READY", "STANDBY", "RUNNING"},
         NEW c \in Database,
         c.status = [db.status EXCEPT ![db.current] = status],
         c.queue = db.queue, c.next = db.next, c.current = db.current,
         SameDecay(db, c), c.dpcPending = db.dpcPending,
         c.stackResident = db.stackResident, c.inSwapList = db.inSwapList,
         c.memoryState = db.memoryState
  PROVE  /\ Consistent(SwitchToSelected(c))
         /\ Keeps(db, SwitchToSelected(c))
         /\ SameDecay(db, SwitchToSelected(c))
         /\ SwitchToSelected(c).next = NoThread
         /\ Best(db) => Best(SwitchToSelected(c))
<1> DEFINE r == SwitchToSelected(c)
           t == c.current
<1>1. /\ db \in Database /\ AllResident(db) /\ QueuesInPlace(db, {})
      /\ ProcessorInPlace(db) /\ IdleReady(db)
      /\ t \in Thread /\ t # IdleThread /\ db.current = t
      /\ db.status \in [Thread -> Status]
      /\ IdleThread \in Thread /\ NoThread \notin Thread
      /\ c.priority = db.priority
  BY ThreadAssumption DEF Consistent, Database, SameDecay
<1>2. db.status[t] = "RUNNING" /\ db.next # t
  BY <1>1 DEF ProcessorInPlace
<1>3. /\ c.status[t] = status
      /\ \A u \in Thread \ {t} : c.status[u] = db.status[u]
  BY <1>1
<1>4. QueuesInPlace(c, {})
  <2>1. {u \in Thread \ {} : db.status[u] = "READY"}
        = {u \in Thread \ {} : c.status[u] = "READY"}
    BY <1>2, <1>3
  <2>2. \A u \in Thread \ {} : db.status[u] = "READY" => c.priority[u] = db.priority[u]
    BY <1>1
  <2> QED BY <1>1, <2>1, <2>2, SameQueues
<1>5. \A u \in Thread \ {t} : /\ c.status[u] = "STANDBY" <=> c.next = u
                              /\ c.status[u] # "RUNNING"
  BY <1>1, <1>3 DEF ProcessorInPlace
<1>6. AllResident(c)
  BY <1>1 DEF AllResident
<1>7. IdleReady(c)
  BY <1>1, <1>3 DEF IdleReady
<1>8. /\ r \in Database
      /\ QueuesInPlace(r, {})
      /\ r.current \in Thread /\ r.current # t
      /\ r.next = NoThread
      /\ r.status = [c.status EXCEPT ![r.current] = "RUNNING"]
      /\ SameDecay(c, r) /\ r.priority = c.priority
      /\ r.dpcPending = c.dpcPending
      /\ r.stackResident = c.stackResident /\ r.inSwapList = c.inSwapList
      /\ r.memoryState = c.memoryState
      /\ c.next # NoThread => r.current = c.next
      /\ c.next = NoThread
           => \A u \in Thread : c.status[u] = "READY"
                => \/ c.priority[u] <= c.priority[r.current]
                   \/ c.priority[u] > c.priority[t]
  <2>1. c.status[t] \notin {"READY", "STANDBY"} /\ c.next # t
    BY <1>2, <1>3
  <2> HIDE DEF r
  <2>2. /\ r \in Database
        /\ QueuesInPlace(r, {})
        /\ r.current \in Thread /\ r.current # t
        /\ r.next = NoThread
        /\ r.status = [c.status EXCEPT ![r.current] = "RUNNING"]
        /\ SameDecay(c, r) /\ r.dpcPending = c.dpcPending
        /\ r.stackResident = c.stackResident /\ r.inSwapList = c.inSwapList
        /\ r.memoryState = c.memoryState
        /\ c.next # NoThread => r.current = c.next
        /\ c.next = NoThread
             => \A u \in Thread : c.status[u] = "READY"
                  => \/ c.priority[u] <= c.priority[r.current]
                     \/ c.priority[u] > c.priority[t]
    BY <1>1, <1>4, <1>5, <1>6, <1>7, <2>1, SelectedEffect DEF r
  <2> QED BY <2>2 DEF SameDecay
<1> HIDE DEF r
<1>9. ProcessorInPlace(r)
  <2> SUFFICES ASSUME NEW u \in Thread
               PROVE  /\ r.status[u] = "STANDBY" <=> r.next = u
                      /\ r.status[u] = "RUNNING" <=> r.current = u
    BY DEF ProcessorInPlace
  <2>0. c.status \in [Thread -> Status] /\ u # NoThread
    BY <1>1 DEF Database
  <2>1. CASE u = r.current
    BY <1>8, <2>0, <2>1
  <2>2. CASE u # r.current /\ u = t
    BY <1>3, <1>8, <2>0, <2>2
  <2>3. CASE u # r.current /\ u # t
    BY <1>5, <1>8, <2>0, <2>3
  <2> QED BY <2>1, <2>2, <2>3
<1>10. AllResident(r)
  BY <1>6, <1>8 DEF AllResident
<1>11. IdleReady(r)
  <2>1. c.status \in [Thread -> Status]
    BY DEF Database
  <2> QED BY <1>1, <1>7, <1>8, <2>1 DEF IdleReady
<1>12. ASSUME Best(db)
       PROVE  Best(r)
  <2>1. /\ Chosen(r) = r.current /\ r.current \in Thread /\ r.priority = db.priority
        /\ \A u \in Thread : db.priority[u] \in Int
    BY <1>1, <1>8, NumbersTyped DEF Chosen
  <2>2. ASSUME NEW u \in Thread, r.status[u] = "READY"
        PROVE  /\ c.status[u] = "READY"
               /\ db.status[u] = "READY"
               /\ db.priority[u] <= db.priority[Chosen(db)]
    <3>1. c.status \in [Thread -> Status]
      BY DEF Database
    <3>2. c.status[u] = "READY"
      BY <1>8, <2>2, <3>1
    <3>3. db.status[u] = "READY"
      BY <1>3, <3>2
    <3> QED BY <1>12, <3>2, <3>3 DEF Best
  <2>3. \A u \in Thread : r.status[u] = "READY"
                          => db.priority[u] <= db.priority[r.current]
    BY <1>1, <1>8, <2>1, <2>2 DEF Chosen
  <2> QED BY <2>1, <2>3 DEF Best
<1>13. Consistent(r) /\ Keeps(db, r)
  BY <1>8, <1>9, <1>10, <1>11 DEF Consistent, Keeps
<1>14. SameDecay(db, r)
  BY <1>8 DEF SameDecay
<1> QED BY <1>8, <1>12, <1>13, <1>14 DEF r

LEMMA BlockConsistent ==
  ASSUME NEW db, Consistent(db), db.current # IdleThread,
         NEW status \in Status \ {"READY", "STANDBY", "RUNNING"}
  PROVE  /\ Consistent(KiThreadBlock(db, status))
         /\ Keeps(db, KiThreadBlock(db, status))
         /\ KiThreadBlock(db, status).next = NoThread
         /\ SameDecay(db, KiThreadBlock(db, status))
         /\ Best(db) => Best(KiThreadBlock(db, status))
<1> DEFINE s == [db.status EXCEPT ![db.current] = status]
           q == [db.quantumEnds EXCEPT ![db.current] = 0]
           c == [db EXCEPT !.quantumEnds = q, !.status = s]
<1>1. db \in Database /\ db.current \in Thread
  BY DEF Consistent, Database
<1>2. s \in [Thread -> Status] /\ q \in [Thread -> Byte]
  BY <1>1, QuantumAssumption DEF Database, Byte
<1>3. KiThreadBlock(db, status) = SwitchToSelected(c)
  <2>1. c = [db EXCEPT !.quantumEnds[db.current] = 0, !.status[db.current] = status]
    BY <1>1 DEF Database
  <2> HIDE DEF c
  <2> QED BY <2>1 DEF KiThreadBlock
<1> HIDE DEF s, q
<1>4. /\ c \in Database
      /\ c.status = s /\ c.queue = db.queue /\ c.next = db.next
      /\ c.current = db.current /\ SameDecay(db, c)
      /\ c.dpcPending = db.dpcPending /\ c.stackResident = db.stackResident
      /\ c.inSwapList = db.inSwapList /\ c.memoryState = db.memoryState
  BY <1>1, <1>2 DEF Database, SameDecay
<1> HIDE DEF c
<1> QED BY <1>3, <1>4, LeaveConsistent DEF s

LEMMA WaitConsistent ==
  ASSUME NEW db, Consistent(db), db.current # IdleThread,
         NEW mode \in WaitMode, NEW status \in Asleep
  PROVE  /\ Consistent(KiThreadWait(db, mode, status))
         /\ Keeps(db, KiThreadWait(db, mode, status))
         /\ KiThreadWait(db, mode, status).next = NoThread
         /\ SameDecay(db, KiThreadWait(db, mode, status))
         /\ Best(db) => Best(KiThreadWait(db, mode, status))
<1> DEFINE m == [db.waitMode EXCEPT ![db.current] = mode]
           w == IF mode = "USER" THEN db.waitList \cup {db.current}
                ELSE db.waitList
           b == [db EXCEPT !.waitMode = m, !.waitList = w]
<1>1. /\ db \in Database /\ db.current \in Thread
      /\ status \in Status \ {"READY", "STANDBY", "RUNNING"}
  BY DEF Consistent, Database, Asleep, Status
<1>2. m \in [Thread -> WaitMode] /\ w \in SUBSET Thread
  BY <1>1 DEF Database
<1>3. KiThreadWait(db, mode, status) = KiThreadBlock(b, status)
  <2>1. b = [db EXCEPT !.waitMode[db.current] = mode, !.waitList = w]
    BY <1>1 DEF Database
  <2> HIDE DEF b
  <2> QED BY <2>1 DEF KiThreadWait
<1> HIDE DEF m, w
<1>4. /\ b \in Database
      /\ b.status = db.status /\ b.queue = db.queue /\ b.next = db.next
      /\ b.current = db.current
      /\ b.priority = db.priority /\ SameDecay(db, b)
      /\ b.dpcPending = db.dpcPending /\ b.stackResident = db.stackResident
      /\ b.inSwapList = db.inSwapList /\ b.memoryState = db.memoryState
  BY <1>1, <1>2 DEF Database, SameDecay
<1> HIDE DEF b
<1>5. Consistent(b)
  BY <1>4, QuietConsistent
<1>6. /\ Consistent(KiThreadBlock(b, status))
      /\ Keeps(b, KiThreadBlock(b, status))
      /\ KiThreadBlock(b, status).next = NoThread
      /\ SameDecay(b, KiThreadBlock(b, status))
      /\ Best(b) => Best(KiThreadBlock(b, status))
  BY <1>1, <1>4, <1>5, BlockConsistent
<1>7. Best(db) => Best(b)
  BY <1>4 DEF Best, Chosen
<1> QED BY <1>3, <1>4, <1>6, <1>7 DEF Keeps, SameDecay

\* The current thread is readied and x, which is on its way from its queue or
\* from KiThreadNext, takes the processor.
LEMMA ExchangeConsistent ==
  ASSUME NEW db, Consistent(db), NEW x \in Thread, x # db.current,
         \A u \in Thread \ {x} : db.status[u] # "STANDBY",
         NEW c \in Database, QueuesInPlace(c, {x}),
         c.status = db.status, c.next = NoThread, c.current = db.current,
         c.priority = db.priority, SameDecay(db, c),
         c.dpcPending = db.dpcPending,
         c.stackResident = db.stackResident, c.inSwapList = db.inSwapList,
         c.memoryState = db.memoryState
  PROVE  LET r == KiThreadSwitch(KiThreadReady(c, db.current), x)
         IN  /\ Consistent(r)
             /\ Keeps(db, r)
             /\ r.next = NoThread
             /\ r.current = x
             /\ SameDecay(db, r)
             /\ Best(db) /\ db.priority[Chosen(db)] = db.priority[x] => Best(r)
<1> DEFINE t == db.current
           b == KiThreadReady(c, t)
           r == KiThreadSwitch(b, x)
<1>1. /\ AllResident(db) /\ ProcessorInPlace(db) /\ IdleReady(db)
      /\ t \in Thread /\ IdleThread \in Thread /\ NoThread \notin Thread
      /\ c.status \in [Thread -> Status]
      /\ c.priority[t] \in Int
  <2>1. db \in Database /\ t \in Thread
    BY DEF Consistent, Database
  <2>2. c.priority[t] \in Priority
    BY <2>1 DEF Database
  <2>3. Priority \subseteq Int
    BY NumbersTyped
  <2> QED BY <2>1, <2>2, <2>3, ThreadAssumption DEF Consistent, Database
<1>2. db.status[t] = "RUNNING" /\ \A u \in Thread \ {t} : db.status[u] # "RUNNING"
  BY <1>1 DEF ProcessorInPlace
<1>3. QueuesInPlace(c, {x, t})
  <2>1. {u \in Thread \ {x} : c.status[u] = "READY"}
        = {u \in Thread \ {x, t} : c.status[u] = "READY"}
    BY <1>2
  <2>2. \A u \in Thread \ {x} : c.status[u] = "READY" => c.priority[u] = c.priority[u]
    OBVIOUS
  <2> HIDE DEF t
  <2> QED BY <2>1, <2>2, SameQueues
<1>4. /\ b \in Database /\ Frame(c, b) /\ AllResident(b)
      /\ QueuesInPlace(b, {x, t} \ {t})
      /\ Readied(c, b, t)
  <2>1. AllResident(c)
    BY <1>1 DEF AllResident
  <2>2. t \in Thread \cap {x, t} /\ c.next \notin {x, t}
    BY <1>1
  <2> HIDE DEF b, t
  <2> QED BY <1>3, <2>1, <2>2, ReadyEffect DEF b
<1>5. /\ b.next = NoThread
      /\ b.status = [db.status EXCEPT ![t] = "READY"]
      /\ b.dpcPending = db.dpcPending
      /\ b.priority = db.priority /\ b.current = t
      /\ QueuesInPlace(b, {x})
  <2>1. {x, t} \ {t} = {x}
    OBVIOUS
  <2> HIDE DEF b
  <2>2. b.priority = db.priority /\ b.current = t
    BY <1>4 DEF Frame
  <2>3. QueuesInPlace(b, {x})
    BY <1>4, <2>1
  <2>4. /\ b.next = NoThread
        /\ b.status = [db.status EXCEPT ![t] = "READY"]
        /\ b.dpcPending = db.dpcPending
    BY <1>1, <1>4 DEF Readied
  <2> QED BY <2>2, <2>3, <2>4
<1> HIDE DEF b
<1>6. /\ r \in Database
      /\ r.status = [b.status EXCEPT ![x] = "RUNNING"]
      /\ r.current = x /\ r.queue = b.queue /\ r.next = b.next
      /\ r.dpcPending = b.dpcPending /\ r.priority = b.priority
      /\ r.base = b.base /\ r.instantDecay = b.instantDecay
      /\ r.stackResident = b.stackResident /\ r.inSwapList = b.inSwapList
      /\ r.memoryState = b.memoryState
  BY <1>4, SwitchEffect
<1> HIDE DEF r
<1>7. /\ r.status[x] = "RUNNING" /\ r.status[t] = "READY"
      /\ \A u \in Thread \ {x, t} : r.status[u] = db.status[u]
      /\ \A u \in Thread \ {x} : r.status[u] = b.status[u]
  BY <1>1, <1>5, <1>6
<1>8. QueuesInPlace(r, {})
  <2>1. {u \in Thread \ {x} : b.status[u] = "READY"}
        = {u \in Thread \ {} : r.status[u] = "READY"}
    BY <1>7
  <2>2. \A u \in Thread \ {x} : b.status[u] = "READY" => r.priority[u] = b.priority[u]
    BY <1>6
  <2>3. r.queue = b.queue /\ QueuesInPlace(b, {x})
    BY <1>5, <1>6
  <2> QED BY <2>1, <2>2, <2>3, SameQueues
<1>9. ProcessorInPlace(r)
  <2> SUFFICES ASSUME NEW u \in Thread
               PROVE  /\ r.status[u] = "STANDBY" <=> r.next = u
                      /\ r.status[u] = "RUNNING" <=> r.current = u
    BY DEF ProcessorInPlace
  <2>1. CASE u = x
    BY <1>1, <1>5, <1>6, <1>7, <2>1
  <2>2. CASE u = t
    BY <1>1, <1>5, <1>6, <1>7, <2>2
  <2>3. CASE u \notin {x, t}
    BY <1>1, <1>2, <1>5, <1>6, <1>7, <2>3
  <2> QED BY <2>1, <2>2, <2>3
<1>10. AllResident(r)
  BY <1>4, <1>6 DEF AllResident
<1>11. IdleReady(r)
  <2>1. r.status[IdleThread] \in {"READY", "STANDBY", "RUNNING"}
    <3>1. CASE IdleThread \in {x, t}
      BY <1>7, <3>1
    <3>2. CASE IdleThread \notin {x, t}
      BY <1>1, <1>7, <3>2 DEF IdleReady
    <3> QED BY <3>1, <3>2
  <2> QED BY <1>1, <1>5, <1>6, <2>1 DEF IdleReady
<1>12. Keeps(db, r)
  BY <1>5, <1>6 DEF Keeps
<1>13. ASSUME Best(db), db.priority[Chosen(db)] = db.priority[x]
       PROVE  Best(r)
  <2>1. Chosen(r) = x /\ r.priority = db.priority /\ db.priority[x] <= db.priority[x]
    <3>1. db.priority[x] \in Int
      BY NumbersTyped DEF Consistent
    <3> QED BY <1>5, <1>6, <3>1 DEF Chosen
  <2>2. \A u \in Thread : r.status[u] = "READY" => u = t \/ db.status[u] = "READY"
    BY <1>7
  <2> QED BY <1>6, <1>13, <2>1, <2>2 DEF Best
<1>14. SameDecay(db, r)
  BY <1>4, <1>6 DEF SameDecay, Frame
<1>15. Consistent(r)
  BY <1>6, <1>8, <1>9, <1>10, <1>11 DEF Consistent
<1>16. r.next = NoThread /\ r.current = x
  BY <1>5, <1>6
<1> QED BY <1>12, <1>13, <1>14, <1>15, <1>16 DEF r, b, t

LEMMA YieldConsistent ==
  ASSUME NEW db, Consistent(db)
  PROVE  /\ Consistent(KiThreadYieldQuantum(db))
         /\ Keeps(db, KiThreadYieldQuantum(db))
         /\ SameDecay(db, KiThreadYieldQuantum(db))
         /\ Best(db) => Best(KiThreadYieldQuantum(db))
<1> DEFINE p == db.priority[db.current]
           x == Head(db.queue[p])
           c == Dequeue(db, p)
<1>1. CASE db.next # NoThread \/ db.queue[p] = << >>
  BY <1>1 DEF KiThreadYieldQuantum, Keeps, SameDecay
<1>2. CASE db.next = NoThread /\ db.queue[p] # << >>
  <2>1. /\ db \in Database /\ QueuesInPlace(db, {}) /\ p \in Priority
        /\ db.queue[p] \in Seq(Thread)
        /\ NoThread \notin Thread
    BY ThreadAssumption DEF Consistent, Database
  <2>2. x \in Thread /\ db.status[x] = "READY" /\ db.priority[x] = p
    <3>1. x \in Range(db.queue[p])
      BY <1>2, <2>1, TailOfQueue DEF QueuesInPlace
    <3> HIDE DEF x, p
    <3> QED BY <2>1, <3>1 DEF QueuesInPlace
  <2>3. KiThreadYieldQuantum(db) = KiThreadSwitch(KiThreadReady(c, db.current), x)
    BY <1>2 DEF KiThreadYieldQuantum
  <2>6. db.priority[Chosen(db)] = db.priority[x]
    BY <1>2, <2>2 DEF Chosen
  <2> HIDE DEF p
  <2>4. /\ c \in Database /\ Frame(db, c) /\ c.status = db.status
        /\ c.next = db.next /\ c.dpcPending = db.dpcPending
        /\ c.inSwapList = db.inSwapList /\ QueuesInPlace(c, {x})
    BY <1>2, <2>1, DequeueEffect
  <2> HIDE DEF c, x
  <2>5. /\ x # db.current
        /\ \A u \in Thread \ {x} : db.status[u] # "STANDBY"
    BY <1>2, <2>1, <2>2 DEF Consistent, ProcessorInPlace
  <2>7. SameDecay(db, c)
    BY <2>4 DEF Frame, SameDecay
  <2> QED BY <1>2, <2>2, <2>3, <2>4, <2>5, <2>6, <2>7, ExchangeConsistent DEF Frame
<1> QED BY <1>1, <1>2

LEMMA NextSwitchConsistent ==
  ASSUME NEW db, Consistent(db), db.next # NoThread
  PROVE  /\ Consistent(KiThreadNextSwitch(db))
         /\ KiThreadNextSwitch(db).next = NoThread
         /\ KiThreadNextSwitch(db).current = db.next
         /\ SameDecay(db, KiThreadNextSwitch(db))
         /\ Best(db) => Best(KiThreadNextSwitch(db))
<1> DEFINE x == db.next
           c == [db EXCEPT !.next = NoThread]
<1>1. /\ db \in Database /\ QueuesInPlace(db, {}) /\ x \in Thread
  BY DEF Consistent, Database
<1>2. /\ db.status[x] = "STANDBY" /\ x # db.current
      /\ \A u \in Thread \ {x} : db.status[u] # "STANDBY"
  BY <1>1 DEF Consistent, ProcessorInPlace
<1>3. /\ c \in Database /\ c.status = db.status /\ c.next = NoThread
      /\ c.queue = db.queue
      /\ c.current = db.current
      /\ c.priority = db.priority /\ SameDecay(db, c)
      /\ c.dpcPending = db.dpcPending
      /\ c.stackResident = db.stackResident /\ c.inSwapList = db.inSwapList
      /\ c.memoryState = db.memoryState
  BY <1>1 DEF Database, SameDecay
<1>4. KiThreadNextSwitch(db) = KiThreadSwitch(KiThreadReady(c, db.current), x)
  BY DEF KiThreadNextSwitch
<1> HIDE DEF c, x
<1>5. QueuesInPlace(c, {x})
  <2>1. {u \in Thread \ {} : db.status[u] = "READY"}
        = {u \in Thread \ {x} : c.status[u] = "READY"}
    BY <1>2, <1>3
  <2>2. \A u \in Thread \ {} : db.status[u] = "READY" => c.priority[u] = db.priority[u]
    BY <1>3
  <2> QED BY <1>1, <1>3, <2>1, <2>2, SameQueues
<1>6. LET r == KiThreadSwitch(KiThreadReady(c, db.current), x)
      IN  /\ Consistent(r)
          /\ Keeps(db, r)
          /\ r.next = NoThread
          /\ r.current = x
          /\ SameDecay(db, r)
          /\ Best(db) => Best(r)
  <2>1. db.priority[Chosen(db)] = db.priority[x]
    BY DEF Chosen, x
  <2> QED BY <1>1, <1>2, <1>3, <1>5, <2>1, ExchangeConsistent
<1> QED BY <1>4, <1>6 DEF x

-----------------------------------------------------------------------------
(***************************************************************************)
(* Priorities.                                                             *)
(***************************************************************************)

\* A thread that is on no queue has its priority changed in place.
LEMMA RepriorityEffect ==
  ASSUME NEW db, Consistent(db), NEW t \in Thread \ {IdleThread},
         NEW prio \in Priority
  PROVE  LET c == [db EXCEPT !.priority[t] = prio]
         IN  /\ c \in Database
             /\ c.priority = [db.priority EXCEPT ![t] = prio]
             /\ c.status = db.status /\ c.queue = db.queue
             /\ c.next = db.next /\ c.current = db.current
             /\ c.dpcPending = db.dpcPending
             /\ c.base = db.base /\ c.instantDecay = db.instantDecay
             /\ c.stackResident = db.stackResident
             /\ c.inSwapList = db.inSwapList
             /\ c.memoryState = db.memoryState
             /\ c.waitMode = db.waitMode /\ c.waitList = db.waitList
             /\ c.priority[t] = prio
             /\ \A u \in Thread \ {t} : c.priority[u] = db.priority[u]
             /\ db.status[t] # "READY" => Consistent(c)
<1> DEFINE ps == [db.priority EXCEPT ![t] = prio]
           c == [db EXCEPT !.priority[t] = prio]
<1>1. db \in Database /\ QueuesInPlace(db, {})
  BY DEF Consistent
<1>2. /\ ps \in [Thread -> Priority]
      /\ ps[t] = prio
      /\ \A u \in Thread \ {t} : ps[u] = db.priority[u]
  BY <1>1 DEF Database
<1>3. c = [db EXCEPT !.priority = ps]
  BY <1>1 DEF Database
<1> HIDE DEF c
<1>4. /\ c \in Database
      /\ c.priority = ps
      /\ c.status = db.status /\ c.queue = db.queue
      /\ c.next = db.next /\ c.current = db.current
      /\ c.dpcPending = db.dpcPending
      /\ c.base = db.base /\ c.instantDecay = db.instantDecay
      /\ c.stackResident = db.stackResident /\ c.inSwapList = db.inSwapList
      /\ c.memoryState = db.memoryState
      /\ c.waitMode = db.waitMode /\ c.waitList = db.waitList
  <2> HIDE DEF ps
  <2> QED BY <1>1, <1>2, <1>3 DEF Database
<1>5. ASSUME db.status[t] # "READY"
      PROVE  Consistent(c)
  <2>1. {u \in Thread \ {} : db.status[u] = "READY"}
        = {u \in Thread \ {} : c.status[u] = "READY"}
    BY <1>4
  <2>2. \A u \in Thread \ {} : db.status[u] = "READY" => c.priority[u] = db.priority[u]
    BY <1>2, <1>4, <1>5
  <2>3. QueuesInPlace(c, {})
    BY <1>1, <1>4, <2>1, <2>2, SameQueues
  <2>4. IdleReady(c)
    BY <1>2, <1>4, ThreadAssumption DEF Consistent, IdleReady
  <2> QED BY <1>4, <2>3, <2>4 DEF Consistent, AllResident, ProcessorInPlace
<1> QED BY <1>2, <1>4, <1>5 DEF c

\* A queued thread is unlinked and given its new priority, and then readied.
Unlinked(db, t, prio) ==
  [[db EXCEPT !.priority[t] = prio] EXCEPT
     !.queue[db.priority[t]] = Unlink(@, t)]

Requeued(db, t, prio) == KiThreadReady(Unlinked(db, t, prio), t)

LEMMA UnlinkedOnItsWay ==
  ASSUME NEW db, Consistent(db), NEW t \in Thread \ {IdleThread},
         NEW prio \in Priority, db.status[t] = "READY"
  PROVE  LET b == Unlinked(db, t, prio)
         IN  /\ ConsistentBut(b, t)
             /\ b.priority = [db.priority EXCEPT ![t] = prio]
             /\ \A u \in Thread \ {t} : b.priority[u] = db.priority[u]
             /\ b.status = db.status
             /\ b.next = db.next /\ b.current = db.current
             /\ b.dpcPending = db.dpcPending
             /\ b.base = db.base /\ b.instantDecay = db.instantDecay
             /\ b.waitMode = db.waitMode /\ b.waitList = db.waitList
<1> DEFINE old == db.priority[t]
           c == [db EXCEPT !.priority[t] = prio]
           q == [db.queue EXCEPT ![old] = Unlink(db.queue[old], t)]
           b == [c EXCEPT !.queue[old] = Unlink(@, t)]
<1>1. /\ db \in Database /\ QueuesInPlace(db, {}) /\ old \in Priority
      /\ db.queue \in [Priority -> Seq(Thread)]
      /\ db.queue[old] \in Seq(Thread)
  BY DEF Consistent, Database
<1>2. /\ c \in Database
      /\ c.priority = [db.priority EXCEPT ![t] = prio]
      /\ c.status = db.status /\ c.queue = db.queue
      /\ c.next = db.next /\ c.current = db.current
      /\ c.dpcPending = db.dpcPending
      /\ c.base = db.base /\ c.instantDecay = db.instantDecay
      /\ c.stackResident = db.stackResident /\ c.inSwapList = db.inSwapList
      /\ c.memoryState = db.memoryState
      /\ c.waitMode = db.waitMode /\ c.waitList = db.waitList
      /\ \A u \in Thread \ {t} : c.priority[u] = db.priority[u]
  BY RepriorityEffect
<1> HIDE DEF c, old
<1>3. \A x \in Priority :
        /\ IsInjective(db.queue[x])
        /\ Range(db.queue[x]) = {u \in Thread :
                                   db.status[u] = "READY" /\ db.priority[u] = x}
  BY <1>1 DEF QueuesInPlace
<1>4. /\ Unlink(db.queue[old], t) \in Seq(Thread)
      /\ IsInjective(Unlink(db.queue[old], t))
      /\ Range(Unlink(db.queue[old], t)) = Range(db.queue[old]) \ {t}
  <2>1. t \in Range(db.queue[old])
    BY <1>1, <1>3 DEF old
  <2> QED BY <1>1, <1>3, <2>1, UnlinkFromQueue
<1>5. /\ q \in [Priority -> Seq(Thread)]
      /\ q[old] = Unlink(db.queue[old], t)
      /\ \A x \in Priority \ {old} : q[x] = db.queue[x]
  BY <1>1, <1>4
<1>6. b = [c EXCEPT !.queue = q]
  BY <1>2 DEF Database
<1> HIDE DEF q, b
<1>7. /\ b \in Database /\ b.queue = q
      /\ b.priority = c.priority /\ b.status = c.status
      /\ b.next = c.next /\ b.current = c.current
      /\ b.dpcPending = c.dpcPending
      /\ b.base = c.base /\ b.instantDecay = c.instantDecay
      /\ b.stackResident = c.stackResident /\ b.inSwapList = c.inSwapList
      /\ b.memoryState = c.memoryState
      /\ b.waitMode = c.waitMode /\ b.waitList = c.waitList
  BY <1>2, <1>5, <1>6 DEF Database
<1>8. ASSUME NEW x \in Priority
      PROVE  /\ IsInjective(b.queue[x])
             /\ Range(b.queue[x]) = {u \in Thread \ {t} :
                                       b.status[u] = "READY" /\ b.priority[u] = x}
  <2>1. {u \in Thread \ {t} : b.status[u] = "READY" /\ b.priority[u] = x}
        = {u \in Thread : db.status[u] = "READY" /\ db.priority[u] = x} \ {t}
    BY <1>2, <1>7
  <2>2. CASE x = old
    BY <1>3, <1>4, <1>5, <1>7, <2>1, <2>2
  <2>3. CASE x # old
    <3>1. t \notin Range(db.queue[x])
      BY <1>3, <2>3 DEF old
    <3> QED BY <1>3, <1>5, <1>7, <2>1, <2>3, <3>1
  <2> QED BY <2>2, <2>3
<1>9. ConsistentBut(b, t)
  <2>1. QueuesInPlace(b, {t})
    BY <1>8 DEF QueuesInPlace
  <2>2. AllResident(b)
    BY <1>2, <1>7 DEF Consistent, AllResident
  <2>3. \A u \in Thread : /\ b.status[u] = "STANDBY" <=> b.next = u
                          /\ b.status[u] = "RUNNING" <=> b.current = u
    BY <1>2, <1>7 DEF Consistent, ProcessorInPlace
  <2>4. b.next # t /\ b.current # t
    BY <1>2, <1>7, <2>3
  <2>5. /\ b.priority[IdleThread] = PRIORITY_IDLE
        /\ b.status[IdleThread] \in {"READY", "STANDBY", "RUNNING"}
    BY <1>2, <1>7, ThreadAssumption DEF Consistent, IdleReady
  <2> QED BY <1>7, <2>1, <2>2, <2>3, <2>4, <2>5 DEF ConsistentBut
<1> QED BY <1>2, <1>7, <1>9 DEF b, c, old, Unlinked

LEMMA RequeueConsistent ==
  ASSUME NEW db, Consistent(db), NEW t \in Thread \ {IdleThread},
         NEW prio \in Priority, db.status[t] = "READY"
  PROVE  LET r == Requeued(db, t, prio)
         IN  /\ Consistent(r)
             /\ Keeps(db, r)
             /\ r.priority = [db.priority EXCEPT ![t] = prio]
             /\ r.current = db.current
             /\ r.base = db.base /\ r.instantDecay = db.instantDecay
             /\ r.next \in {db.next, t}
             /\ Best(db) => Best(r)
<1> DEFINE b == Unlinked(db, t, prio)
           r == KiThreadReady(b, t)
<1>1. /\ ConsistentBut(b, t)
      /\ b.priority = [db.priority EXCEPT ![t] = prio]
      /\ \A u \in Thread \ {t} : b.priority[u] = db.priority[u]
      /\ b.status = db.status
      /\ b.next = db.next /\ b.current = db.current
      /\ b.dpcPending = db.dpcPending
      /\ b.base = db.base /\ b.instantDecay = db.instantDecay
  BY UnlinkedOnItsWay
<1> HIDE DEF b
<1>2. /\ Consistent(r) /\ Keeps(b, r) /\ Frame(b, r)
      /\ r.next \in {b.next, t}
      /\ BestBut(b, t) => Best(r)
  BY <1>1, ReadyConsistent
<1> HIDE DEF r
<1>3. /\ Keeps(db, r)
      /\ r.priority = [db.priority EXCEPT ![t] = prio]
      /\ r.current = db.current
      /\ r.base = db.base /\ r.instantDecay = db.instantDecay
      /\ r.next \in {db.next, t}
  BY <1>1, <1>2 DEF Keeps, Frame
<1>4. Best(db) => BestBut(b, t)
  <2>1. db.current \in Thread /\ db.next \in Thread \cup {NoThread}
    BY DEF Consistent, Database
  <2>2. /\ Chosen(db) \in Thread /\ Chosen(b) = Chosen(db)
        /\ Chosen(db) # t /\ db.current # t
    BY <1>1, <2>1 DEF Chosen, ConsistentBut
  <2> QED BY <1>1, <2>1, <2>2 DEF Best, BestBut
<1> QED BY <1>2, <1>3, <1>4 DEF r, b, Requeued

\* A better thread is found for KiThreadNext, which is empty.
LEMMA PromoteConsistent ==
  ASSUME NEW db, Consistent(db), db.next = NoThread,
         NEW low \in Priority, NEW high \in Int, high <= PRIORITY_HIGHREALTIME
  PROVE  /\ Consistent(Promote(db, low, high))
         /\ Frame(db, Promote(db, low, high))
         /\ Promote(db, low, high).dpcPending = db.dpcPending
<1> DEFINE r == Promote(db, low, high)
<1>1. /\ r \in Database /\ Frame(db, r) /\ r.dpcPending = db.dpcPending
      /\ r.inSwapList = db.inSwapList /\ QueuesInPlace(r, {})
      /\ \/ r = db
         \/ /\ r.next \in Thread /\ db.status[r.next] = "READY"
            /\ r.status = [db.status EXCEPT ![r.next] = "STANDBY"]
  <2>1. db \in Database /\ QueuesInPlace(db, {})
    BY DEF Consistent
  <2> HIDE DEF r
  <2> QED BY <2>1, PromoteEffect DEF r
<1> HIDE DEF r
<1>2. CASE r = db
  BY <1>1, <1>2 DEF r
<1>3. CASE /\ r.next \in Thread /\ db.status[r.next] = "READY"
           /\ r.status = [db.status EXCEPT ![r.next] = "STANDBY"]
  <2>1. db.status \in [Thread -> Status] /\ NoThread \notin Thread
    BY ThreadAssumption DEF Consistent, Database
  <2>2. /\ r.status[r.next] = "STANDBY"
        /\ \A u \in Thread \ {r.next} : r.status[u] = db.status[u]
    BY <1>3, <2>1
  <2>3. r.current = db.current /\ r.priority = db.priority
    BY <1>1 DEF Frame
  <2>4. ProcessorInPlace(r)
    <3> SUFFICES ASSUME NEW u \in Thread
                 PROVE  /\ r.status[u] = "STANDBY" <=> r.next = u
                        /\ r.status[u] = "RUNNING" <=> r.current = u
      BY DEF ProcessorInPlace
    <3>1. /\ db.status[u] = "STANDBY" <=> db.next = u
          /\ db.status[u] = "RUNNING" <=> db.current = u
      BY DEF Consistent, ProcessorInPlace
    <3>2. db.status[r.next] # "RUNNING" /\ db.current # r.next
      BY <1>3 DEF Consistent, ProcessorInPlace
    <3>3. CASE u = r.next
      BY <2>2, <2>3, <3>2, <3>3
    <3>4. CASE u # r.next
      BY <2>1, <2>2, <2>3, <3>1, <3>4
    <3> QED BY <3>3, <3>4
  <2>5. AllResident(r)
    BY <1>1 DEF Consistent, AllResident, Frame
  <2>6. IdleReady(r)
    <3>1. /\ db.status[IdleThread] \in {"READY", "STANDBY", "RUNNING"}
          /\ db.priority[IdleThread] = PRIORITY_IDLE
      BY DEF Consistent, IdleReady
    <3>2. r.status[IdleThread] \in {"READY", "STANDBY", "RUNNING"}
      <4>1. CASE IdleThread = r.next
        BY <2>2, <4>1
      <4>2. CASE IdleThread # r.next
        BY <2>2, <3>1, <4>2, ThreadAssumption
      <4> QED BY <4>1, <4>2
    <3> QED BY <2>3, <3>1, <3>2 DEF IdleReady
  <2> QED BY <1>1, <2>4, <2>5, <2>6 DEF Consistent, r
<1> QED BY <1>1, <1>2, <1>3

\* A better thread takes the place of t, which was next and is readied.
LEMMA DemotedOnItsWay ==
  ASSUME NEW db, Consistent(db), NEW t \in Thread \ {IdleThread}, db.next = t,
         NEW low \in Priority, NEW high \in Int, high <= PRIORITY_HIGHREALTIME,
         Occupied(db, low, high) # {}
  PROVE  LET c == Promote(db, low, high)
         IN  /\ ConsistentBut(c, t)
             /\ Frame(db, c)
             /\ c.dpcPending = db.dpcPending
<1> DEFINE c == Promote(db, low, high)
<1>1. /\ c \in Database /\ Frame(db, c) /\ c.dpcPending = db.dpcPending
      /\ c.inSwapList = db.inSwapList /\ QueuesInPlace(c, {})
      /\ c.next \in Thread /\ db.status[c.next] = "READY"
      /\ c.status = [db.status EXCEPT ![c.next] = "STANDBY"]
  <2>1. db \in Database /\ QueuesInPlace(db, {})
    BY DEF Consistent
  <2> HIDE DEF c
  <2> QED BY <2>1, PromoteEffect DEF c
<1> HIDE DEF c
<1>2. /\ db.status \in [Thread -> Status]
      /\ \A u \in Thread : /\ db.status[u] = "STANDBY" <=> db.next = u
                           /\ db.status[u] = "RUNNING" <=> db.current = u
  BY DEF Consistent, Database, ProcessorInPlace
<1>3. /\ c.status[c.next] = "STANDBY" /\ c.next # t
      /\ \A u \in Thread \ {c.next} : c.status[u] = db.status[u]
      /\ c.current = db.current /\ c.priority = db.priority
      /\ c.current # t /\ c.current # c.next
  BY <1>1, <1>2 DEF Frame
<1>4. ConsistentBut(c, t)
  <2>1. QueuesInPlace(c, {t})
    <3>1. {u \in Thread \ {} : c.status[u] = "READY"}
          = {u \in Thread \ {t} : c.status[u] = "READY"}
      BY <1>2, <1>3
    <3>2. \A u \in Thread \ {} : c.status[u] = "READY" => c.priority[u] = c.priority[u]
      OBVIOUS
    <3> QED BY <1>1, <3>1, <3>2, SameQueues
  <2>2. AllResident(c)
    BY <1>1 DEF Consistent, AllResident, Frame
  <2>3. \A u \in Thread \ {t} : /\ c.status[u] = "STANDBY" <=> c.next = u
                                /\ c.status[u] = "RUNNING" <=> c.current = u
    <3> SUFFICES ASSUME NEW u \in Thread \ {t}
                 PROVE  /\ c.status[u] = "STANDBY" <=> c.next = u
                        /\ c.status[u] = "RUNNING" <=> c.current = u
      OBVIOUS
    <3>1. CASE u = c.next
      BY <1>3, <3>1
    <3>2. CASE u # c.next
      BY <1>2, <1>3, <3>2
    <3> QED BY <3>1, <3>2
  <2>4. /\ c.priority[IdleThread] = PRIORITY_IDLE
        /\ c.status[IdleThread] \in {"READY", "STANDBY", "RUNNING"}
    <3>1. CASE IdleThread = c.next
      BY <1>3, <3>1 DEF Consistent, IdleReady
    <3>2. CASE IdleThread # c.next
      BY <1>3, <3>2, ThreadAssumption DEF Consistent, IdleReady
    <3> QED BY <3>1, <3>2
  <2> QED BY <1>1, <1>3, <2>1, <2>2, <2>3, <2>4 DEF ConsistentBut
<1> QED BY <1>1, <1>4 DEF c

LEMMA DemoteConsistent ==
  ASSUME NEW db, Consistent(db), NEW t \in Thread \ {IdleThread}, db.next = t,
         NEW low \in Priority, NEW high \in Int, high <= PRIORITY_HIGHREALTIME,
         Occupied(db, low, high) # {}
  PROVE  LET r == KiThreadReady(Promote(db, low, high), t)
         IN  /\ Consistent(r)
             /\ Keeps(db, r)
             /\ Frame(db, r)
<1> DEFINE c == Promote(db, low, high)
           r == KiThreadReady(c, t)
<1>1. ConsistentBut(c, t) /\ Frame(db, c) /\ c.dpcPending = db.dpcPending
  BY DemotedOnItsWay
<1> HIDE DEF c
<1>2. Consistent(r) /\ Keeps(c, r) /\ Frame(c, r)
  BY <1>1, ReadyConsistent
<1> HIDE DEF r
<1>3. db.next # NoThread
  BY ThreadAssumption
<1> QED BY <1>1, <1>2, <1>3 DEF Keeps, Frame, r, c

LEMMA PrioritySetConsistent ==
  ASSUME NEW db, Consistent(db), NEW t \in Thread \ {IdleThread},
         NEW prio \in Priority
  PROVE  LET r == KiThreadPrioritySet(db, t, prio)
         IN  /\ Consistent(r)
             /\ Keeps(db, r)
             /\ r.priority = [db.priority EXCEPT ![t] = prio]
             /\ r.current = db.current
             /\ r.base = db.base
             /\ r.instantDecay = db.instantDecay
<1> DEFINE old == db.priority[t]
           c == [db EXCEPT !.priority[t] = prio]
           chosen == Promote(c, prio + 1, old)
           r == KiThreadPrioritySet(db, t, prio)
           Goal == /\ Consistent(r)
                   /\ Keeps(db, r)
                   /\ r.priority = [db.priority EXCEPT ![t] = prio]
                   /\ r.current = db.current
                   /\ r.base = db.base
                   /\ r.instantDecay = db.instantDecay
<1>1. /\ db \in Database /\ old \in Priority /\ old \in Int /\ prio \in Int
      /\ old <= PRIORITY_HIGHREALTIME
      /\ db.inSwapList[t] = FALSE
      /\ prio < old => prio + 1 \in Priority
      /\ db.priority \in [Thread -> Priority]
  <2>1. db \in Database /\ db.inSwapList \in [Thread -> BOOLEAN]
        /\ ~ db.inSwapList[t]
        /\ db.priority \in [Thread -> Priority]
    BY DEF Consistent, AllResident, Database
  <2> QED BY <2>1, NumbersTyped
<1>2. /\ c \in Database
      /\ c.priority = [db.priority EXCEPT ![t] = prio]
      /\ c.status = db.status /\ c.queue = db.queue
      /\ c.next = db.next /\ c.current = db.current
      /\ c.dpcPending = db.dpcPending
      /\ c.base = db.base /\ c.instantDecay = db.instantDecay
      /\ db.status[t] # "READY" => Consistent(c)
  BY RepriorityEffect
<1>3. CASE prio = old
  <2>1. r = db
    BY <1>1, <1>3 DEF KiThreadPrioritySet
  <2>2. db.priority = [db.priority EXCEPT ![t] = prio]
    BY <1>1, <1>3
  <2> HIDE DEF r
  <2> QED BY <2>1, <2>2 DEF Keeps, r
<1>4. CASE prio # old /\ db.status[t] = "READY"
  <2>1. r = Requeued(db, t, prio)
    BY <1>1, <1>4 DEF KiThreadPrioritySet, Requeued, Unlinked
  <2> HIDE DEF r
  <2>2. /\ Consistent(r) /\ Keeps(db, r)
        /\ r.priority = [db.priority EXCEPT ![t] = prio]
        /\ r.current = db.current
        /\ r.base = db.base /\ r.instantDecay = db.instantDecay
    BY <1>4, <2>1, RequeueConsistent
  <2> QED BY <2>2 DEF r
<1>5. CASE r = c /\ db.status[t] # "READY"
  <2> HIDE DEF r, c
  <2> QED BY <1>2, <1>5 DEF Keeps, r
<1>6. CASE /\ prio < old /\ db.status[t] = "STANDBY"
           /\ Occupied(db, prio + 1, old) # {}
  <2>1. r = KiThreadReady(chosen, t)
    BY <1>1, <1>6 DEF KiThreadPrioritySet
  <2>2. Occupied(c, prio + 1, old) = Occupied(db, prio + 1, old)
    BY <1>2 DEF Occupied
  <2>3. c.next = t
    BY <1>2, <1>6 DEF Consistent, ProcessorInPlace
  <2>4. Consistent(c)
    BY <1>2, <1>6
  <2> HIDE DEF c, old, r
  <2>5. /\ Consistent(KiThreadReady(chosen, t))
        /\ Keeps(c, KiThreadReady(chosen, t))
        /\ Frame(c, KiThreadReady(chosen, t))
    BY <1>1, <1>6, <2>2, <2>3, <2>4, DemoteConsistent
  <2> HIDE DEF chosen
  <2>6. Consistent(r) /\ Keeps(c, r) /\ Frame(c, r)
    BY <2>1, <2>5
  <2>7. Goal
    BY <1>2, <2>6 DEF Keeps, Frame
  <2> QED BY <2>7 DEF r
<1>7. CASE /\ prio < old /\ db.status[t] = "RUNNING" /\ db.next = NoThread
           /\ Occupied(db, prio + 1, old) # {}
  <2>1. r = KiSoftwareInterruptRequest(chosen)
    BY <1>1, <1>7 DEF KiThreadPrioritySet
  <2>2. Consistent(c) /\ c.next = NoThread
    BY <1>2, <1>7
  <2> HIDE DEF c, old, r
  <2>3. /\ Consistent(chosen) /\ Frame(c, chosen)
        /\ chosen.dpcPending = c.dpcPending
    BY <1>1, <1>7, <2>2, PromoteConsistent
  <2> HIDE DEF chosen
  <2>4. /\ r \in Database /\ r.dpcPending = TRUE
        /\ r.status = chosen.status /\ r.queue = chosen.queue
        /\ r.next = chosen.next /\ r.current = chosen.current
        /\ r.priority = chosen.priority
        /\ r.stackResident = chosen.stackResident
        /\ r.inSwapList = chosen.inSwapList
        /\ r.memoryState = chosen.memoryState
        /\ r.base = chosen.base /\ r.instantDecay = chosen.instantDecay
    BY <2>1, <2>3 DEF Consistent, Database, KiSoftwareInterruptRequest
  <2>5. Consistent(r)
    BY <2>3, <2>4, QuietConsistent
  <2>6. Goal
    BY <1>2, <2>3, <2>4, <2>5 DEF Keeps, Frame
  <2> QED BY <2>6 DEF r
<1>8. \/ r = c /\ db.status[t] # "READY"
      \/ prio = old
      \/ prio # old /\ db.status[t] = "READY"
      \/ /\ prio < old /\ db.status[t] = "STANDBY"
         /\ Occupied(db, prio + 1, old) # {}
      \/ /\ prio < old /\ db.status[t] = "RUNNING" /\ db.next = NoThread
         /\ Occupied(db, prio + 1, old) # {}
  BY DEF KiThreadPrioritySet
<1> QED BY <1>3, <1>4, <1>5, <1>6, <1>7, <1>8

\* The new priority does not let a thread lose the place it was chosen for:
\* KiThreadNext is not lowered, and the current thread is not raised over it.
KeepsRank(db, t, prio) ==
  /\ t = db.next => db.priority[t] <= prio
  /\ t = db.current /\ db.next # NoThread => prio <= db.priority[db.next]

\* KiThreadPrioritySet looks for a better thread when it lowers the current
\* one, and requeues a ready one, so that the best thread stays chosen.
LEMMA PrioritySetBest ==
  ASSUME NEW db, Consistent(db), NEW t \in Thread \ {IdleThread},
         NEW prio \in Priority, Best(db), KeepsRank(db, t, prio)
  PROVE  LET r == KiThreadPrioritySet(db, t, prio)
         IN  /\ Best(r)
             /\ db.priority[t] <= prio => r.next \in {db.next, t}
<1> DEFINE old == db.priority[t]
           c == [db EXCEPT !.priority[t] = prio]
           chosen == Promote(c, prio + 1, old)
           r == KiThreadPrioritySet(db, t, prio)
           Goal(x) == Best(x) /\ (old <= prio => x.next \in {db.next, t})
<1>1. /\ db \in Database /\ old \in Priority /\ old \in Int /\ prio \in Int
      /\ old <= PRIORITY_HIGHREALTIME
      /\ db.inSwapList[t] = FALSE
      /\ prio < old => prio + 1 \in Priority
      /\ db.current \in Thread /\ db.next \in Thread \cup {NoThread}
      /\ Chosen(db) \in Thread /\ NoThread \notin Thread
      /\ QueuesInPlace(db, {})
  <2>1. /\ db \in Database /\ db.inSwapList \in [Thread -> BOOLEAN]
        /\ db.current \in Thread /\ db.next \in Thread \cup {NoThread}
    BY DEF Consistent, Database
  <2>2. db.inSwapList[t] = FALSE
    BY <2>1 DEF Consistent, AllResident
  <2> QED BY <2>1, <2>2, NumbersTyped, ThreadAssumption DEF Consistent, Chosen
<1>2. /\ c \in Database
      /\ c.status = db.status /\ c.queue = db.queue
      /\ c.next = db.next /\ c.current = db.current
      /\ c.priority[t] = prio
      /\ \A u \in Thread \ {t} : c.priority[u] = db.priority[u]
      /\ db.status[t] # "READY" => Consistent(c)
  BY RepriorityEffect
<1>3. /\ \A u \in Thread : db.priority[u] \in Int
      /\ \A u \in Thread : /\ db.status[u] = "STANDBY" <=> db.next = u
                          /\ db.status[u] = "RUNNING" <=> db.current = u
      /\ db.status[t] = "STANDBY" <=> db.next = t
      /\ db.status[t] = "RUNNING" <=> db.current = t
  BY <1>1, NumbersTyped DEF Consistent, ProcessorInPlace
<1>4. CASE prio # old /\ db.status[t] = "READY"
  <2>1. r = Requeued(db, t, prio)
    BY <1>1, <1>4 DEF KiThreadPrioritySet, Requeued, Unlinked
  <2> HIDE DEF r
  <2>2. r.next \in {db.next, t} /\ (Best(db) => Best(r))
    BY <1>4, <2>1, RequeueConsistent
  <2> QED BY <2>2 DEF r
<1> HIDE DEF c
\* The priority changes in place, and no thread that waits is better.
<1>5. ASSUME db.status[t] # "READY",
             prio < old /\ db.current = t /\ db.next = NoThread
               => Occupied(db, prio + 1, old) = {}
      PROVE  Goal(c)
  <2>1. Chosen(c) = Chosen(db)
    BY <1>2 DEF Chosen
  <2>2. \A u \in Thread : db.status[u] = "READY"
                          => u # t /\ db.priority[u] <= db.priority[Chosen(db)]
    BY <1>5 DEF Best
  <2>3. CASE t = Chosen(db)
    <3>1. ASSUME NEW u \in Thread, db.status[u] = "READY"
          PROVE  db.priority[u] <= prio
      <4>1. db.priority[u] <= old
        BY <2>2, <2>3, <3>1
      <4>2. CASE old <= prio
        BY <1>1, <1>3, <4>1, <4>2
      <4>3. CASE prio < old
        <5>1. t = db.current /\ db.next = NoThread
          BY <1>1, <2>3, <4>3 DEF Chosen, KeepsRank
        <5>2. ~ (db.priority[u] \in prio + 1 .. old)
          BY <1>1, <1>5, <3>1, <4>3, <5>1, FindEffect
        <5> QED BY <1>1, <1>3, <4>1, <5>2
      <4> QED BY <1>1, <4>2, <4>3
    <3>2. c.priority[db.current] <= prio
      <4>1. CASE t = db.current
        BY <1>1, <1>2, <4>1
      <4>2. CASE t # db.current
        <5>1. t = db.next /\ old <= prio
          BY <1>1, <2>3, <4>2 DEF Chosen, KeepsRank
        <5>2. db.priority[db.current] <= old
          BY <2>3 DEF Best
        <5> QED BY <1>1, <1>2, <1>3, <4>2, <5>1, <5>2
      <4> QED BY <4>1, <4>2
    <3> QED BY <1>2, <2>1, <2>2, <2>3, <3>1, <3>2 DEF Best
  <2>4. CASE t # Chosen(db)
    <3>1. c.priority[db.current] <= db.priority[Chosen(db)]
      <4>1. CASE t = db.current
        <5>1. db.next # NoThread
          BY <2>4, <4>1 DEF Chosen
        <5> QED BY <1>2, <4>1, <5>1 DEF Chosen, KeepsRank
      <4>2. CASE t # db.current
        BY <1>1, <1>2, <4>2 DEF Best
      <4> QED BY <4>1, <4>2
    <3> QED BY <1>1, <1>2, <2>1, <2>2, <2>4, <3>1 DEF Best
  <2> QED BY <2>3, <2>4
\* A better thread is chosen over the lowered one.
<1>6. CASE /\ prio < old /\ db.status[t] = "RUNNING" /\ db.next = NoThread
           /\ Occupied(db, prio + 1, old) # {}
  <2>1. r = KiSoftwareInterruptRequest(chosen)
    BY <1>1, <1>6 DEF KiThreadPrioritySet, c
  <2>2. Occupied(c, prio + 1, old) = Occupied(db, prio + 1, old)
    BY <1>2 DEF Occupied
  <2>3. Consistent(c)
    BY <1>2, <1>6
  <2> HIDE DEF old, r
  <2>4. /\ chosen \in Database /\ Frame(c, chosen)
        /\ chosen.next \in Thread
        /\ c.status[chosen.next] = "READY"
        /\ c.priority[chosen.next] \in prio + 1 .. old
        /\ chosen.status = [c.status EXCEPT ![chosen.next] = "STANDBY"]
        /\ \A u \in Thread : c.status[u] = "READY"
             => \/ c.priority[u] <= c.priority[chosen.next]
                \/ c.priority[u] > old
    BY <1>1, <1>6, <2>2, <2>3, PromoteEffect DEF Consistent
  <2> HIDE DEF chosen
  <2>5. /\ r.status = chosen.status /\ r.next = chosen.next
        /\ r.current = chosen.current /\ r.priority = chosen.priority
    BY <2>1, <2>4 DEF Database, KiSoftwareInterruptRequest
  <2>6. Chosen(r) = chosen.next /\ t = db.current
    BY <1>1, <1>3, <1>6, <2>4, <2>5 DEF Chosen
  <2>7. ASSUME NEW u \in Thread, r.status[u] = "READY"
        PROVE  r.priority[u] <= r.priority[chosen.next]
    <3>1. u # chosen.next /\ db.status[u] = "READY" /\ u # t
      BY <1>1, <1>2, <1>6, <2>4, <2>5, <2>7 DEF Database
    <3>2. db.priority[u] <= old
      BY <1>6, <2>6, <3>1 DEF Best, Chosen, old
    <3> QED BY <1>1, <1>2, <1>3, <2>4, <2>5, <3>1, <3>2 DEF Frame
  <2>8. r.priority[r.current] <= r.priority[chosen.next]
    BY <1>1, <1>2, <2>4, <2>5, <2>6 DEF Frame
  <2>9. Best(r)
    BY <2>6, <2>7, <2>8 DEF Best
  <2> QED BY <1>1, <1>6, <2>9 DEF r, old
<1>7. CASE prio = old
  <2>1. r = db
    BY <1>1, <1>7 DEF KiThreadPrioritySet, c
  <2> HIDE DEF r
  <2> QED BY <2>1 DEF r
<1>8. ~ (prio < old /\ db.status[t] = "STANDBY")
  BY <1>1, <1>3 DEF KeepsRank
<1>9. \/ prio = old
      \/ prio # old /\ db.status[t] = "READY"
      \/ /\ prio < old /\ db.status[t] = "RUNNING" /\ db.next = NoThread
         /\ Occupied(db, prio + 1, old) # {}
      \/ /\ r = c /\ db.status[t] # "READY"
         /\ prio < old /\ db.current = t /\ db.next = NoThread
              => Occupied(db, prio + 1, old) = {}
  BY <1>3, <1>8 DEF KiThreadPrioritySet, c
<1>10. CASE /\ r = c /\ db.status[t] # "READY"
            /\ prio < old /\ db.current = t /\ db.next = NoThread
                 => Occupied(db, prio + 1, old) = {}
  <2> HIDE DEF r
  <2> QED BY <1>5, <1>10 DEF r
<1> QED BY <1>4, <1>6, <1>7, <1>9, <1>10

LEMMA PrioritySetAboveBase ==
  ASSUME NEW db, Consistent(db), NEW t \in Thread \ {IdleThread},
         NEW prio \in Priority, AboveBase(db),
         prio < PRIORITY_LOWREALTIME => db.base[t] <= prio,
         db.instantDecay[t] => PRIORITY_HIGHUSER <= prio
  PROVE  AboveBase(KiThreadPrioritySet(db, t, prio))
<1> DEFINE r == KiThreadPrioritySet(db, t, prio)
<1>1. /\ r.priority = [db.priority EXCEPT ![t] = prio]
      /\ r.base = db.base /\ r.instantDecay = db.instantDecay
  BY PrioritySetConsistent
<1> HIDE DEF r
<1>2. /\ r.priority[t] = prio
      /\ \A u \in Thread \ {t} : r.priority[u] = db.priority[u]
  BY <1>1 DEF Consistent, Database
<1> QED BY <1>1, <1>2 DEF AboveBase, r

\* KiThreadNext, if there is one, is not below a priority.
NextReaches(db, prio) ==
  db.next # NoThread => prio <= db.priority[db.next]

LEMMA BasePrioritySetConsistent ==
  ASSUME NEW db, Consistent(db), NEW t \in Thread \ {IdleThread},
         NEW prio \in Priority
  PROVE  LET r == KiThreadBasePrioritySet(db, t, prio)
         IN  /\ Consistent(r)
             /\ Keeps(db, r)
             /\ r.current = db.current
             /\ Best(db) /\ NextReaches(db, prio) => Best(r) /\ NextReaches(r, prio)
             /\ AboveBase(db) => AboveBase(r)
<1> DEFINE c == IF prio > db.priority[t]
                THEN KiThreadPrioritySet(db, t, prio) ELSE db
           b == [c.base EXCEPT ![t] = prio]
           r == KiThreadBasePrioritySet(db, t, prio)
<1>1. CASE db.base[t] = prio
  <2>1. r = db
    BY <1>1 DEF KiThreadBasePrioritySet
  <2> HIDE DEF r
  <2> QED BY <2>1 DEF Keeps, r
<1>2. CASE db.base[t] # prio
  <2>0. /\ db \in Database /\ db.priority[t] \in Int /\ db.base[t] \in Int
        /\ prio \in Int /\ PRIORITY_HIGHUSER \in Int
        /\ PRIORITY_LOWREALTIME \in Int
        /\ db.next \in Thread \cup {NoThread}
    <3>1. db \in Database /\ db.next \in Thread \cup {NoThread}
      BY DEF Consistent, Database
    <3> QED BY <3>1, NumbersTyped
  <2>1. /\ Consistent(c) /\ Keeps(db, c) /\ c.current = db.current
        /\ Best(db) /\ NextReaches(db, prio) => Best(c) /\ NextReaches(c, prio)
        /\ c.base = db.base /\ prio <= c.priority[t]
        /\ AboveBase(db)
             => \A u \in Thread \ {IdleThread} :
                  /\ u # t /\ c.priority[u] < PRIORITY_LOWREALTIME
                       => c.base[u] <= c.priority[u]
                  /\ c.instantDecay[u] => PRIORITY_HIGHUSER <= c.priority[u]
    <3>1. CASE prio > db.priority[t]
      <4>1. c = KiThreadPrioritySet(db, t, prio)
        BY <3>1
      <4> HIDE DEF c
      <4>2. /\ Consistent(c) /\ Keeps(db, c) /\ c.current = db.current
            /\ c.priority = [db.priority EXCEPT ![t] = prio]
            /\ c.base = db.base /\ c.instantDecay = db.instantDecay
        BY <4>1, PrioritySetConsistent
      <4>3. /\ c.priority[t] = prio
            /\ \A u \in Thread \ {t} : c.priority[u] = db.priority[u]
        BY <2>0, <4>2 DEF Database
      <4>4. ASSUME Best(db), NextReaches(db, prio)
            PROVE  Best(c) /\ NextReaches(c, prio)
        <5>1. KeepsRank(db, t, prio) /\ db.priority[t] <= prio
          BY <2>0, <3>1, <4>4 DEF KeepsRank, NextReaches
        <5>2. Best(c) /\ c.next \in {db.next, t}
          BY <4>1, <4>4, <5>1, PrioritySetBest
        <5> QED BY <2>0, <4>3, <4>4, <5>2 DEF NextReaches
      <4>5. ASSUME AboveBase(db), NEW u \in Thread \ {IdleThread}
            PROVE  /\ u # t /\ c.priority[u] < PRIORITY_LOWREALTIME
                        => c.base[u] <= c.priority[u]
                   /\ c.instantDecay[u] => PRIORITY_HIGHUSER <= c.priority[u]
        BY <2>0, <3>1, <4>2, <4>3, <4>5 DEF AboveBase
      <4> QED BY <2>0, <4>2, <4>3, <4>4, <4>5
    <3>2. CASE ~ (prio > db.priority[t])
      <4>1. c = db /\ prio <= c.priority[t]
        BY <2>0, <3>2
      <4> HIDE DEF c
      <4> QED BY <4>1 DEF Keeps, AboveBase
    <3> QED BY <3>1, <3>2
  <2>2. r = [c EXCEPT !.base[t] = prio]
    BY <1>2 DEF KiThreadBasePrioritySet
  <2> HIDE DEF c, r
  <2>3. c \in Database /\ b \in [Thread -> Priority]
    BY <2>1 DEF Consistent, Database
  <2>4. r = [c EXCEPT !.base = b]
    BY <2>2, <2>3 DEF Database
  <2> HIDE DEF b
  <2>5. /\ r \in Database
        /\ r.status = c.status /\ r.queue = c.queue /\ r.next = c.next
        /\ r.current = c.current /\ r.priority = c.priority
        /\ r.dpcPending = c.dpcPending
        /\ r.stackResident = c.stackResident /\ r.inSwapList = c.inSwapList
        /\ r.memoryState = c.memoryState
        /\ r.base = b /\ r.instantDecay = c.instantDecay
    BY <2>3, <2>4 DEF Database
  <2>6. Consistent(r) /\ Keeps(db, r) /\ r.current = db.current
    BY <2>1, <2>5, QuietConsistent DEF Keeps
  <2>7. Best(db) /\ NextReaches(db, prio) => Best(r) /\ NextReaches(r, prio)
    BY <2>1, <2>5 DEF Best, Chosen, NextReaches
  <2>8. AboveBase(db) => AboveBase(r)
    <3>1. r.base[t] = prio /\ \A u \in Thread \ {t} : r.base[u] = c.base[u]
      BY <2>3, <2>5 DEF b, Database
    <3> QED BY <2>1, <2>5, <3>1 DEF AboveBase
  <2> QED BY <2>6, <2>7, <2>8 DEF r
<1> QED BY <1>1, <1>2

\* A new quantum, and a change of how the priority will decay.
Requantum(db, t, q, i) == [db EXCEPT !.quantum[t] = q, !.instantDecay[t] = i]

LEMMA RequantumEffect ==
  ASSUME NEW db, Consistent(db), NEW t \in Thread, NEW q \in Byte,
         NEW i \in BOOLEAN, NEW c, c = Requantum(db, t, q, i)
  PROVE  /\ Consistent(c)
         /\ c.status = db.status /\ c.queue = db.queue /\ c.next = db.next
         /\ c.current = db.current /\ c.dpcPending = db.dpcPending
         /\ c.priority = db.priority /\ c.base = db.base
         /\ \A u \in Thread \ {t} : c.instantDecay[u] = db.instantDecay[u]
<1> DEFINE qs == [db.quantum EXCEPT ![t] = q]
           is == [db.instantDecay EXCEPT ![t] = i]
<1>1. /\ db \in Database
      /\ qs \in [Thread -> Byte] /\ is \in [Thread -> BOOLEAN]
  BY DEF Consistent, Database
<1>2. c = [db EXCEPT !.quantum = qs, !.instantDecay = is]
  BY <1>1 DEF Database, Requantum
<1> HIDE DEF qs, is
<1>4. \A u \in Thread \ {t} : c.instantDecay[u] = db.instantDecay[u]
  <2>1. c.instantDecay = is
    BY <1>1, <1>2 DEF Database
  <2> QED BY <1>1, <2>1 DEF is, Database
<1>3. /\ c \in Database
      /\ c.status = db.status /\ c.queue = db.queue /\ c.next = db.next
      /\ c.current = db.current /\ c.dpcPending = db.dpcPending
      /\ c.priority = db.priority /\ c.base = db.base
      /\ c.stackResident = db.stackResident /\ c.inSwapList = db.inSwapList
      /\ c.memoryState = db.memoryState
  BY <1>1, <1>2 DEF Database
<1> QED BY <1>3, <1>4, QuietConsistent

\* A new quantum alone.
LEMMA RequantumAlone ==
  ASSUME NEW db, Consistent(db), NEW t \in Thread, NEW q \in Byte, NEW c,
         c = [db EXCEPT !.quantum[t] = q]
  PROVE  /\ Consistent(c)
         /\ c.status = db.status /\ c.queue = db.queue /\ c.next = db.next
         /\ c.current = db.current /\ c.dpcPending = db.dpcPending
         /\ SameDecay(db, c)
<1> DEFINE i == db.instantDecay[t]
<1>1. i \in BOOLEAN
  BY DEF Consistent, Database
<1>2. c = Requantum(db, t, q, i)
  BY DEF Consistent, Database, Requantum
<1>3. c.instantDecay = db.instantDecay
  BY DEF Consistent, Database
<1> HIDE DEF i
<1> QED BY <1>1, <1>2, <1>3, RequantumEffect DEF SameDecay

\* A boost raises the priority.
LEMMA BoostConsistent ==
  ASSUME NEW db, Consistent(db), NEW t \in Thread \ {IdleThread},
         NEW boost \in Nat
  PROVE  LET r == KiThreadPriorityBoost(db, t, boost)
         IN  /\ Consistent(r)
             /\ Keeps(db, r)
             /\ r.current = db.current
             /\ t # db.current /\ Best(db) => Best(r)
             /\ AboveBase(db) => AboveBase(r)
<1> DEFINE boosted == Capped(db.base[t] + boost)
           c == [db EXCEPT !.quantum[t] = BaseQuantum]
           r == KiThreadPriorityBoost(db, t, boost)
<1>1. CASE r = db
  <2> HIDE DEF r
  <2> QED BY <1>1 DEF Keeps, r
<1>2. CASE /\ r = KiThreadPrioritySet(c, t, boosted)
           /\ boosted > db.priority[t] /\ ~db.instantDecay[t]
  <2>1. /\ boosted \in Priority /\ BaseQuantum \in Byte
        /\ boosted \in Int /\ db.priority[t] \in Int /\ db.base[t] \in Int
        /\ PRIORITY_HIGHUSER \in Int /\ PRIORITY_LOWREALTIME = PRIORITY_HIGHUSER + 1
    <3>1. db \in Database
      BY DEF Consistent
    <3> QED BY <3>1, NumbersTyped DEF Capped
  <2>2. /\ AboveBase(db) => db.base[t] <= boosted \/ boosted >= PRIORITY_LOWREALTIME
    <3> HIDE DEF boosted
    <3> QED BY <1>2, <2>1 DEF AboveBase
  <2> HIDE DEF r, boosted
  <2>0. c = [db EXCEPT !.quantum[t] = BaseQuantum]
    OBVIOUS
  <2> HIDE DEF c
  <2>3. /\ Consistent(c) /\ c.next = db.next /\ c.current = db.current
        /\ c.dpcPending = db.dpcPending /\ c.status = db.status
        /\ SameDecay(db, c)
    BY <2>0, <2>1, RequantumAlone
  <2>4. /\ Consistent(r) /\ Keeps(c, r) /\ r.current = c.current
    BY <1>2, <2>1, <2>3, PrioritySetConsistent
  <2>5. ASSUME t # db.current, Best(db)
        PROVE  Best(r)
    <3>1. Best(c)
      BY <2>3, <2>5 DEF Best, Chosen, SameDecay
    <3>2. KeepsRank(c, t, boosted)
      BY <1>2, <2>1, <2>3, <2>5 DEF KeepsRank, SameDecay
    <3> QED BY <1>2, <2>1, <2>3, <3>1, <3>2, PrioritySetBest
  <2>6. ASSUME AboveBase(db)
        PROVE  AboveBase(r)
    <3>1. AboveBase(c)
      BY <2>3, <2>6, SameDecayAboveBase
    <3>2. /\ boosted < PRIORITY_LOWREALTIME => c.base[t] <= boosted
          /\ ~c.instantDecay[t]
      BY <1>2, <2>1, <2>2, <2>3, <2>6 DEF SameDecay
    <3> QED BY <1>2, <2>1, <2>3, <3>1, <3>2, PrioritySetAboveBase
  <2>7. Consistent(r) /\ Keeps(db, r) /\ r.current = db.current
    BY <2>3, <2>4 DEF Keeps
  <2> QED BY <2>5, <2>6, <2>7 DEF r
<1>3. \/ r = db
      \/ /\ r = KiThreadPrioritySet(c, t, boosted)
         /\ boosted > db.priority[t] /\ ~db.instantDecay[t]
  <2>1. boosted \in Int /\ db.priority[t] \in Int
    <3>1. db \in Database
      BY DEF Consistent
    <3> QED BY <3>1, NumbersTyped DEF Capped
  <2> HIDE DEF boosted, c
  <2> QED BY <2>1 DEF KiThreadPriorityBoost, boosted, c
<1> QED BY <1>1, <1>2, <1>3

\* A starved thread is raised to the highest time-sharing priority.
LEMMA BoostReadyConsistent ==
  ASSUME NEW db, Consistent(db), NEW t \in Thread \ {IdleThread},
         db.status[t] = "READY", db.priority[t] <= PRIORITY_HIGHUSER
  PROVE  LET r == BoostReadyThread(db, t)
         IN  /\ Consistent(r)
             /\ Keeps(db, r)
             /\ r.current = db.current
             /\ Best(db) => Best(r)
             /\ AboveBase(db) => AboveBase(r)
<1> DEFINE q == (BaseQuantum * 2) % ByteRange
           i == TRUE
           c == [db EXCEPT !.quantum[t] = q, !.instantDecay[t] = i]
           r == BoostReadyThread(db, t)
<1>1. /\ q \in Byte /\ PRIORITY_HIGHUSER \in Priority
      /\ PRIORITY_HIGHUSER \in Int /\ db.priority[t] \in Int /\ db.base[t] \in Int
      /\ PRIORITY_LOWREALTIME = PRIORITY_HIGHUSER + 1
  <2>1. BaseQuantum * 2 \in Int /\ ByteRange \in Int /\ 0 < ByteRange
    BY QuantumAssumption
  <2>2. q \in 0 .. ByteRange - 1
    BY <2>1
  <2>3. db \in Database
    BY DEF Consistent
  <2> QED BY <2>2, <2>3, NumbersTyped DEF Byte
<1>2. r = KiThreadPrioritySet(c, t, PRIORITY_HIGHUSER)
  BY DEF BoostReadyThread
<1> HIDE DEF q
<1>3. c = Requantum(db, t, q, i) /\ i \in BOOLEAN
  BY DEF Requantum
<1> HIDE DEF c, i, r
<1>4. /\ Consistent(c) /\ c.next = db.next /\ c.current = db.current
      /\ c.dpcPending = db.dpcPending /\ c.status = db.status
      /\ c.priority = db.priority /\ c.base = db.base
      /\ \A u \in Thread \ {t} : c.instantDecay[u] = db.instantDecay[u]
  <2>1. q \in Byte
    BY <1>1
  <2> QED BY <1>3, <2>1, RequantumEffect
<1>5. Consistent(r) /\ Keeps(c, r) /\ r.current = c.current
  BY <1>1, <1>2, <1>4, PrioritySetConsistent
<1>6. ASSUME Best(db)
      PROVE  Best(r)
  <2>1. Best(c)
    BY <1>4, <1>6 DEF Best, Chosen
  <2>2. t # db.current
    BY DEF Consistent, ProcessorInPlace
  <2>3. KeepsRank(c, t, PRIORITY_HIGHUSER)
    BY <1>4, <2>2 DEF KeepsRank
  <2> QED BY <1>1, <1>2, <1>4, <2>1, <2>3, PrioritySetBest
<1>7. ASSUME AboveBase(db)
      PROVE  AboveBase(r)
  <2>1. /\ r.priority = [db.priority EXCEPT ![t] = PRIORITY_HIGHUSER]
        /\ r.base = db.base /\ r.instantDecay = c.instantDecay
    BY <1>1, <1>2, <1>4, PrioritySetConsistent
  <2>2. /\ r.priority[t] = PRIORITY_HIGHUSER
        /\ \A u \in Thread \ {t} : /\ r.priority[u] = db.priority[u]
                                  /\ r.instantDecay[u] = db.instantDecay[u]
    BY <1>4, <2>1 DEF Consistent, Database
  <2>3. db.base[t] <= PRIORITY_HIGHUSER
    BY <1>1, <1>7 DEF AboveBase
  <2>4. PRIORITY_HIGHUSER <= PRIORITY_HIGHUSER
    BY <1>1
  <2> QED BY <1>7, <2>1, <2>2, <2>3, <2>4 DEF AboveBase
<1>8. Consistent(r) /\ Keeps(db, r) /\ r.current = db.current
  BY <1>4, <1>5 DEF Keeps
<1> QED BY <1>6, <1>7, <1>8 DEF r

\* The quantum end finds the next thread without requesting the switch, which
\* its only caller is about to do.
LEMMA QuantumEndConsistent ==
  ASSUME NEW db, Consistent(db)
  PROVE  LET r == KiThreadQuantumEnd(db)
         IN  /\ Consistent(r)
             /\ r.current = db.current
             /\ AboveBase(db) => AboveBase(r)
             /\ AboveBase(db) /\ Best(db) => Best(r)
<1> DEFINE t     == db.current
           old   == db.priority[t]
           ends  == db.quantumEnds[t]
           user  == old < PRIORITY_LOWREALTIME
           prio  == Decayed(db, t)
           fresh == IF ~user THEN BaseQuantum
                    ELSE IF ends >= BaseQuantum THEN 1 ELSE BaseQuantum - ends
           i     == db.instantDecay[t] /\ ~user
           n     == (ends + 1) % ByteRange
           c     == [db EXCEPT !.quantumEnds[t] = n, !.quantum[t] = fresh,
                               !.instantDecay[t] = i]
           alone == [c EXCEPT !.quantumEnds[t] = 0]
           calm  == [c EXCEPT !.wasPreempted[t] = FALSE]
           r     == KiThreadQuantumEnd(db)
           Goal(x) == /\ Consistent(x)
                      /\ x.current = db.current
                      /\ AboveBase(db) => AboveBase(x)
                      /\ AboveBase(db) /\ Best(db) => Best(x)
<1>1. /\ db \in Database /\ t \in Thread
      /\ old \in Priority /\ old \in Int /\ old <= PRIORITY_HIGHREALTIME
      /\ ends \in Byte
  <2>1. db \in Database /\ t \in Thread
    BY DEF Consistent, Database
  <2> HIDE DEF t
  <2> QED BY <2>1, NumbersTyped
<1>2. prio \in Priority /\ fresh \in Byte /\ i \in BOOLEAN /\ n \in Byte /\ 0 \in Byte
  <2>1. prio \in Priority
    BY <1>1, NumbersTyped DEF Decayed, Larger
  <2>2. fresh \in Byte
    BY <1>1, QuantumAssumption DEF Byte
  <2>3. n \in Byte /\ 0 \in Byte
    <3>1. ends + 1 \in Int /\ ByteRange \in Int /\ 0 < ByteRange
      BY <1>1, QuantumAssumption DEF Byte
    <3>2. (ends + 1) % ByteRange \in 0 .. ByteRange - 1
      BY <3>1
    <3> QED BY <3>1, <3>2 DEF Byte
  <2>4. i \in BOOLEAN
    OBVIOUS
  <2> QED BY <2>1, <2>2, <2>3, <2>4
<1>3. CASE r = [db EXCEPT !.quantum[t] = ByteRange - 1]
  <2>1. ByteRange - 1 \in Byte
    BY QuantumAssumption DEF Byte
  <2> DEFINE q == ByteRange - 1
  <2>2. q \in Byte /\ r = [db EXCEPT !.quantum[t] = q]
    BY <1>3, <2>1
  <2> HIDE DEF r, q, t
  <2>3. /\ Consistent(r) /\ r.status = db.status /\ r.next = db.next
        /\ r.current = db.current /\ SameDecay(db, r)
    BY <1>1, <2>2, RequantumAlone
  <2>4. Best(db) => Best(r)
    BY <2>3 DEF Best, Chosen, SameDecay
  <2>5. AboveBase(db) => AboveBase(r)
    BY <2>3, SameDecayAboveBase
  <2> QED BY <2>3, <2>4, <2>5 DEF r
\* What the priority decays to, and whether it will do so at once.
<1>9. /\ i => prio = old /\ db.instantDecay[t] /\ old >= PRIORITY_LOWREALTIME
      /\ AboveBase(db) /\ t # IdleThread
           => /\ prio <= old
              /\ prio < PRIORITY_LOWREALTIME => db.base[t] <= prio
  <2>1. PRIORITY_LOWREALTIME \in Int /\ db.base[t] \in Int
    BY <1>1, NumbersTyped
  <2>2. i => prio = old /\ db.instantDecay[t] /\ old >= PRIORITY_LOWREALTIME
    BY <1>1, <2>1 DEF Decayed
  <2>3. ASSUME AboveBase(db), t # IdleThread
        PROVE  /\ prio <= old
               /\ prio < PRIORITY_LOWREALTIME => db.base[t] <= prio
    <3>1. old < PRIORITY_LOWREALTIME => db.base[t] <= old
      BY <1>1, <2>3 DEF AboveBase
    <3> QED BY <1>1, <2>1, <3>1 DEF Decayed, Larger
  <2> QED BY <2>2, <2>3
<1> HIDE DEF prio, fresh, i, n
<1> DEFINE Quiet(x) == /\ Consistent(x)
                       /\ x.next = db.next /\ x.current = db.current
                       /\ x.status = db.status /\ x.priority = db.priority
                       /\ x.base = db.base
                       /\ x.instantDecay = [db.instantDecay EXCEPT ![t] = i]
<1>4. Quiet(c) /\ Quiet(alone) /\ Quiet(calm)
  <2> DEFINE ns == [db.quantumEnds EXCEPT ![t] = n]
             zs == [db.quantumEnds EXCEPT ![t] = 0]
             qs == [db.quantum EXCEPT ![t] = fresh]
             is == [db.instantDecay EXCEPT ![t] = i]
             ws == [db.wasPreempted EXCEPT ![t] = FALSE]
  <2>1. /\ ns \in [Thread -> Byte] /\ zs \in [Thread -> Byte]
        /\ qs \in [Thread -> Byte] /\ is \in [Thread -> BOOLEAN]
        /\ ws \in [Thread -> BOOLEAN]
    BY <1>1, <1>2 DEF Database
  <2>2. /\ c = [db EXCEPT !.quantumEnds = ns, !.quantum = qs, !.instantDecay = is]
        /\ alone = [db EXCEPT !.quantumEnds = zs, !.quantum = qs, !.instantDecay = is]
        /\ calm = [db EXCEPT !.quantumEnds = ns, !.quantum = qs,
                             !.instantDecay = is, !.wasPreempted = ws]
    BY <1>1 DEF Database
  <2> HIDE DEF ns, zs, qs, is, ws, c, alone, calm
  <2>3. /\ c \in Database
        /\ c.status = db.status /\ c.queue = db.queue /\ c.next = db.next
        /\ c.current = db.current /\ c.priority = db.priority
        /\ c.stackResident = db.stackResident /\ c.inSwapList = db.inSwapList
        /\ c.memoryState = db.memoryState
        /\ c.base = db.base /\ c.instantDecay = is
    BY <1>1, <2>1, <2>2 DEF Database
  <2>4. /\ alone \in Database
        /\ alone.status = db.status /\ alone.queue = db.queue
        /\ alone.next = db.next
        /\ alone.current = db.current /\ alone.priority = db.priority
        /\ alone.stackResident = db.stackResident
        /\ alone.inSwapList = db.inSwapList
        /\ alone.memoryState = db.memoryState
        /\ alone.base = db.base /\ alone.instantDecay = is
    BY <1>1, <2>1, <2>2 DEF Database
  <2>5. /\ calm \in Database
        /\ calm.status = db.status /\ calm.queue = db.queue
        /\ calm.next = db.next
        /\ calm.current = db.current /\ calm.priority = db.priority
        /\ calm.stackResident = db.stackResident
        /\ calm.inSwapList = db.inSwapList
        /\ calm.memoryState = db.memoryState
        /\ calm.base = db.base /\ calm.instantDecay = is
    BY <1>1, <2>1, <2>2 DEF Database
  <2>6. Consistent(c) /\ Consistent(alone) /\ Consistent(calm)
    BY <2>3, <2>4, <2>5, QuietConsistent
  <2> QED BY <2>3, <2>4, <2>5, <2>6 DEF is
<1> HIDE DEF c, alone, calm
<1>10. ASSUME NEW x, Quiet(x)
       PROVE  /\ Goal(x)
              /\ Best(db) => Best(x)
              /\ \A u \in Thread : x.instantDecay[u] => db.instantDecay[u]
              /\ x.instantDecay[t] => i
  <2>1. /\ \A u \in Thread : x.instantDecay[u] => db.instantDecay[u]
        /\ x.instantDecay[t] => i
    <3>1. \A u \in Thread : x.instantDecay[u] = IF u = t THEN i ELSE db.instantDecay[u]
      BY <1>1, <1>10 DEF Database
    <3> QED BY <1>1, <1>9, <3>1
  <2>2. Best(db) => Best(x)
    BY <1>10 DEF Best, Chosen
  <2>3. AboveBase(db) => AboveBase(x)
    BY <1>10, <2>1 DEF AboveBase
  <2> QED BY <1>10, <2>1, <2>2, <2>3
<1>5. CASE r = alone \/ r = calm
  <2> HIDE DEF r, Quiet
  <2>1. Goal(r)
    BY <1>4, <1>5, <1>10
  <2> QED BY <2>1 DEF r
<1>6. CASE r = KiThreadPrioritySet(alone, t, prio) /\ old # PRIORITY_IDLE
  <2>1. t \in Thread \ {IdleThread} /\ t # db.next
    <3>1. t # IdleThread
      BY <1>1, <1>6 DEF Consistent, IdleReady
    <3>2. db.status[t] = "RUNNING" /\ db.status[t] # "STANDBY"
      BY <1>1 DEF Consistent, ProcessorInPlace
    <3> QED BY <1>1, <3>1, <3>2 DEF Consistent, ProcessorInPlace
  <2>2. Goal(alone) /\ (Best(db) => Best(alone)) /\ (alone.instantDecay[t] => i)
    <3> HIDE DEF Goal, Quiet
    <3> QED BY <1>4, <1>10
  <2>3. /\ alone.next = db.next /\ alone.current = db.current
        /\ alone.priority = db.priority /\ alone.base = db.base
        /\ PRIORITY_HIGHUSER \in Int /\ PRIORITY_LOWREALTIME = PRIORITY_HIGHUSER + 1
        /\ prio \in Int
    BY <1>1, <1>2, <1>4, NumbersTyped
  <2> HIDE DEF r, t, Quiet
  <2>4. Consistent(r) /\ r.current = db.current
    <3>1. Consistent(alone)
      BY <2>2
    <3> HIDE DEF Goal
    <3>2. LET x == KiThreadPrioritySet(alone, t, prio)
          IN  Consistent(x) /\ x.current = alone.current
      BY <1>2, <2>1, <3>1, PrioritySetConsistent
    <3> QED BY <1>6, <2>3, <3>2
  <2>5. ASSUME AboveBase(db)
        PROVE  AboveBase(r)
    <3>1. /\ prio < PRIORITY_LOWREALTIME => alone.base[t] <= prio
          /\ alone.instantDecay[t] => PRIORITY_HIGHUSER <= prio
      BY <1>1, <1>9, <2>1, <2>2, <2>3, <2>5
    <3> QED BY <1>2, <1>6, <2>1, <2>2, <2>5, <3>1, PrioritySetAboveBase
  <2>6. ASSUME AboveBase(db), Best(db)
        PROVE  Best(r)
    <3>1. prio <= old
      BY <1>9, <2>1, <2>6
    <3>2. db.next # NoThread => old <= db.priority[db.next]
      BY <2>6 DEF Best, Chosen, t
    <3>3. db.next # NoThread => prio <= db.priority[db.next]
      <4>1. db.next # NoThread => db.priority[db.next] \in Int
        <5>1. db.next \in Thread \cup {NoThread}
          BY <1>1 DEF Database
        <5> QED BY <1>1, <5>1, NumbersTyped
      <4> QED BY <1>1, <2>3, <3>1, <3>2, <4>1
    <3>4. KeepsRank(alone, t, prio)
      BY <2>1, <2>3, <3>3 DEF KeepsRank
    <3> QED BY <1>2, <1>6, <2>1, <2>2, <2>6, <3>4, PrioritySetBest
  <2> QED BY <2>4, <2>5, <2>6 DEF r
<1>7. CASE r = Promote(c, old, old) /\ db.next = NoThread
  <2>1. Goal(c) /\ (Best(db) => Best(c))
    <3> HIDE DEF Goal, Quiet
    <3> QED BY <1>4, <1>10
  <2>2. c.next = NoThread /\ c.current = t /\ c.priority = db.priority
        /\ c.status = db.status
    BY <1>4, <1>7
  <2> HIDE DEF r, t, Quiet
  <2>3. Consistent(r) /\ Frame(c, r)
    BY <1>1, <1>7, <2>1, <2>2, PromoteConsistent
  <2>4. \/ r = c
        \/ /\ r.next \in Thread
           /\ c.priority[r.next] \in old .. old
           /\ r.status = [c.status EXCEPT ![r.next] = "STANDBY"]
    BY <1>1, <1>7, <2>1, PromoteEffect DEF Consistent
  <2>5. ASSUME Best(db)
        PROVE  Best(r)
    <3>1. CASE r = c
      BY <2>1, <2>5, <3>1
    <3>2. CASE /\ r.next \in Thread
               /\ c.priority[r.next] \in old .. old
               /\ r.status = [c.status EXCEPT ![r.next] = "STANDBY"]
      <4>1. /\ r.current = t /\ r.priority = db.priority
            /\ r.priority[r.next] = old /\ old = r.priority[t] /\ old <= old
            /\ Chosen(r) = r.next
        BY <1>1, <2>2, <2>3, <3>2, ThreadAssumption DEF Frame, Chosen
      <4>2. \A u \in Thread : r.status[u] = "READY" => db.status[u] = "READY"
        BY <1>1, <2>2, <3>2 DEF Database
      <4>3. \A u \in Thread : db.status[u] = "READY" => db.priority[u] <= old
        BY <1>7, <2>5 DEF Best, Chosen, t
      <4> QED BY <4>1, <4>2, <4>3 DEF Best
    <3> QED BY <2>4, <3>1, <3>2
  <2>6. AboveBase(db) => AboveBase(r)
    <3>1. SameDecay(c, r)
      BY <2>3 DEF SameDecay, Frame
    <3> QED BY <2>1, <3>1, SameDecayAboveBase
  <2>7. r.current = db.current
    BY <2>2, <2>3 DEF Frame, t
  <2> QED BY <2>3, <2>5, <2>6, <2>7 DEF r
<1>8. \/ r = [db EXCEPT !.quantum[t] = ByteRange - 1]
      \/ r = alone \/ r = calm
      \/ r = KiThreadPrioritySet(alone, t, prio) /\ old # PRIORITY_IDLE
      \/ r = Promote(c, old, old) /\ db.next = NoThread
  BY DEF KiThreadQuantumEnd, c, alone, calm, prio, fresh, i, n
<1> QED BY <1>3, <1>5, <1>6, <1>7, <1>8
=============================================================================
