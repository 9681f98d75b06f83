------------------------------ MODULE KeTimer ------------------------------
(***************************************************************************)
(* The kernel timers (KeTimer.df), the part of the clock interrupt that    *)
(* notices expired ones (KeIPL.df) and the DPC that expires them           *)
(* (KeDPC.df).                                                             *)
(*                                                                         *)
(* The started timers are in a calendar: bucket k of TIMERTABLESIZE holds, *)
(* sorted, the timers whose expiry tick is k modulo TIMERTABLESIZE, and    *)
(* next to the head of its list the earliest of their expiry ticks, the    *)
(* one word the clock interrupt reads.  Threads and DPCs exclude one       *)
(* another at IPLDPC; the interrupt is excluded by nobody.                 *)
(*                                                                         *)
(* `region' is what the code at IPLDPC is about to do:                     *)
(*   "low"       nothing of a timer: a thread runs, at whatever IPL, or    *)
(*               other DPCs;                                               *)
(*   "link"      KeTimerEnqueue has made `cursor' the head of its bucket   *)
(*               and must still write the bucket's earliest tick;          *)
(*   "start", "scan", "expire", "satisfy", "routines"   the expiration     *)
(*               DPC: read the clock, take the next bucket, expire         *)
(*               `cursor', wake its waiters, run the timers' own DPCs.     *)
(***************************************************************************)
EXTENDS Integers, Sequences, FiniteSets

CONSTANTS
  Timer,
  Client,         \* the threads that start timers
  Null,           \* the null pointer, and the absence of a request
  Intervals,      \* the intervals asked for, in milliseconds
  DpcTimers,      \* the timers that have a DPC of their own
  TIMERTABLESIZE,
  HALRTCInterval, \* the milliseconds between two clock ticks
  TickRange,      \* 2^32: a tick count is one word
  MaxTicks,       \* bound: the ticks that occur
  Prompt          \* no tick occurs while a timer operation is under way

\* KeTimerEnqueue rounds intervals up to whole ticks.
Rounded(ms) == (ms + HALRTCInterval - 1) \div HALRTCInterval

Delays == {Rounded(ms) : ms \in Intervals}

ASSUME TimerAssumption ==
  /\ Null \notin Timer \cup Nat
  /\ Null \notin [timer : Timer, due : Nat]
  /\ Null \notin [timer : Timer, expiry : Nat, due : Nat]
  /\ DpcTimers \subseteq Timer
  /\ HALRTCInterval \in Nat \ {0}
  /\ Intervals \subseteq Nat \ {0}
  /\ Delays \subseteq Nat \ {0}
  /\ TIMERTABLESIZE \in Nat \ {0}
  /\ TickRange \in Nat \ {0, 1}
  /\ MaxTicks \in Nat
  /\ Prompt \in BOOLEAN

VARIABLES
  ticks,    \* the ticks that have occurred
  table,    \* KiTimerTable and the timers it links
  request,  \* KeTimerEnqueue called by a client: expiry tick computed
  dpc,      \* KiTimerExpirationDPC
  region,   \* what the code at IPLDPC does next
  cursor,   \* the timer it works on
  scan,     \* the local variables of KiTimerExpiration
  due,      \* history: the true tick a started timer is to expire at
  noticed   \* history: the tick at which the clock noticed the timer, or 0

vars == <<ticks, table, request, dpc, region, cursor, scan, due, noticed>>

Bucket  == 0 .. TIMERTABLESIZE - 1
Pointer == Timer \cup {Null}
Word    == 0 .. TickRange - 1
Never   == TickRange - 1            \* the -1 of an empty bucket
Wrapped(n) == IF n < TickRange THEN n ELSE n - TickRange
KiClockTicks == Wrapped(ticks)
BucketOf(tick) == tick % TIMERTABLESIZE

Regions == {"low", "link", "start", "scan", "expire", "satisfy", "routines"}
Idling  == [now |-> 0, left |-> 0, index |-> 0, from |-> 0, routines |-> <<>>]

Table == [enqueued : [Timer -> BOOLEAN], signaled : [Timer -> BOOLEAN],
          expiry : [Timer -> Word],
          next : [Timer -> Pointer], prev : [Timer -> Pointer],
          head : [Bucket -> Pointer], earliest : [Bucket -> Word]]

Request == [timer : Timer, expiry : Word, due : Nat]

Init ==
  /\ ticks = 0
  /\ table = [enqueued |-> [t \in Timer |-> FALSE],
              signaled |-> [t \in Timer |-> FALSE],
              expiry   |-> [t \in Timer |-> 0],
              next     |-> [t \in Timer |-> Null],
              prev     |-> [t \in Timer |-> Null],
              head     |-> [b \in Bucket |-> Null],
              earliest |-> [b \in Bucket |-> Never]]
  /\ request = [c \in Client |-> Null]
  /\ dpc = [enqueued |-> FALSE, context1 |-> 0]
  /\ region = "low"
  /\ cursor = Null
  /\ scan = Idling
  /\ due = [t \in Timer |-> 0]
  /\ noticed = [t \in Timer |-> 0]

-----------------------------------------------------------------------------
(***************************************************************************)
(* The clock interrupt, between any two steps.                             *)
(***************************************************************************)

Settled ==
  /\ region = "low"
  /\ ~dpc.enqueued
  /\ \A c \in Client : request[c] = Null

\* KeDPCEnqueue writes the context before it looks whether the DPC is queued.
Enqueued(context) == [enqueued |-> TRUE, context1 |-> context]

\* The timers of bucket b that are due at tick now.
DueIn(b, now) == {t \in Timer : /\ table.enqueued[t]
                                /\ BucketOf(table.expiry[t]) = b
                                /\ table.expiry[t] <= now}

KeClockTick ==
  /\ ticks < MaxTicks
  /\ Prompt => Settled
  /\ ticks' = ticks + 1
  /\ LET now == Wrapped(ticks + 1)
         b   == BucketOf(now)
     IN  IF table.earliest[b] <= now
         THEN /\ dpc' = Enqueued(now)
              /\ noticed' = [t \in Timer |-> IF t \in DueIn(b, now)
                                             THEN ticks + 1 ELSE noticed[t]]
         ELSE UNCHANGED <<dpc, noticed>>
  /\ UNCHANGED <<table, request, region, cursor, scan, due>>

-----------------------------------------------------------------------------
(***************************************************************************)
(* Threads start, cancel and reset timers.                                 *)
(***************************************************************************)

\* KeTimerEnqueue computes the expiry tick, at whatever IPL it was called.
ComputeExpiry(c, t, ms) ==
  /\ region = "low"
  /\ request[c] = Null
  /\ request' = [request EXCEPT ![c] =
       [timer  |-> t,
        expiry |-> Wrapped(Rounded(ms) + KiClockTicks),
        due    |-> Rounded(ms) + ticks]]
  /\ UNCHANGED <<ticks, table, dpc, region, cursor, scan, due, noticed>>

\* The place of a timer that expires at e in bucket b is after p: at the head
\* (p = Null) if all others expire later, else after the last that does not.
PlacedAfter(tb, b, e, p) ==
  IF p = Null
  THEN tb.head[b] # Null => tb.expiry[tb.head[b]] > e
  ELSE /\ tb.enqueued[p] /\ BucketOf(tb.expiry[p]) = b
       /\ tb.expiry[p] <= e
       /\ tb.next[p] # Null => tb.expiry[tb.next[p]] > e

\* The back links after t was inserted between p and n.
ForwardOnly(prev, t, p, n) == [prev EXCEPT ![t] = p]
BackLinked(prev, t, p, n) ==
  [u \in Timer |-> IF u = t THEN p ELSE IF u = n THEN t ELSE prev[u]]

\* The table with t inserted after p.
Linked(tb, t, e, p) ==
  LET b == BucketOf(e)
      n == IF p = Null THEN tb.head[b] ELSE tb.next[p]
  IN  [tb EXCEPT
        !.enqueued[t] = TRUE,
        !.expiry[t]   = e,
        !.next = [u \in Timer |-> IF u = t THEN n ELSE IF u = p THEN t ELSE @[u]],
        !.prev = BackLinked(@, t, p, n),
        !.head[b] = IF p = Null THEN t ELSE @]

\* The rest of KeTimerEnqueue, at IPLDPC.  A new head needs one more step.
KeTimerEnqueue(c) ==
  /\ region = "low"
  /\ request[c] # Null
  /\ LET t == request[c].timer
         e == request[c].expiry
     IN  \/ /\ table.enqueued[t]
            /\ UNCHANGED <<table, region, cursor, due>>
         \/ /\ ~table.enqueued[t]
            /\ \E p \in Pointer :
                 /\ PlacedAfter(table, BucketOf(e), e, p)
                 /\ table' = Linked(table, t, e, p)
                 /\ region' = IF p = Null THEN "link" ELSE "low"
                 /\ cursor' = IF p = Null THEN t ELSE Null
            /\ due' = [due EXCEPT ![t] = request[c].due]
  /\ request' = [request EXCEPT ![c] = Null]
  /\ UNCHANGED <<ticks, dpc, scan, noticed>>

\* It writes the earliest tick of the bucket whose head it replaced.
NoteEarliest ==
  /\ region = "link"
  /\ table' = [table EXCEPT
       !.earliest[BucketOf(table.expiry[cursor])] = table.expiry[cursor]]
  /\ region' = "low"
  /\ cursor' = Null
  /\ UNCHANGED <<ticks, request, dpc, scan, due, noticed>>

\* The earliest tick of a bucket whose head is h.
EarliestOf(tb, h) == IF h = Null THEN Never ELSE tb.expiry[h]

\* ... and after the timer between p and n has left bucket b.
EarliestKept(tb, b, p, n) == tb.earliest[b]
EarliestLeft(tb, b, p, n) ==
  IF p = Null THEN EarliestOf(tb, n) ELSE tb.earliest[b]

\* KeTimerDequeue, with interrupts disabled.
Unlinked(tb, t) ==
  LET n == tb.next[t]
      p == tb.prev[t]
      b == BucketOf(tb.expiry[t])
  IN  [tb EXCEPT
        !.enqueued[t] = FALSE,
        !.prev = [u \in Timer |-> IF u = n THEN p ELSE @[u]],
        !.next = [u \in Timer |-> IF u = p THEN n ELSE @[u]],
        !.head[b]     = IF p = Null THEN n ELSE @,
        !.earliest[b] = EarliestLeft(tb, b, p, n)]

\* A thread cancels its timer, or a waiter woken by an expired timer or a
\* timer's DPC takes its timeout back (KiThreadWakeup).
KeTimerDequeue(t) ==
  /\ region \in {"low", "satisfy", "routines"}
  /\ table.enqueued[t]
  /\ table' = Unlinked(table, t)
  /\ due' = [due EXCEPT ![t] = 0]
  /\ noticed' = [noticed EXCEPT ![t] = 0]
  /\ UNCHANGED <<ticks, request, dpc, region, cursor, scan>>

KeTimerReset(t) ==
  /\ region = "low"
  /\ table.signaled[t]
  /\ table' = [table EXCEPT !.signaled[t] = FALSE]
  /\ UNCHANGED <<ticks, request, dpc, region, cursor, scan, due, noticed>>

\* A thread's timer is initialized before each of its waits.
KeTimerInitialize(t) ==
  /\ region = "low"
  /\ ~table.enqueued[t]
  /\ table' = [table EXCEPT !.signaled[t] = FALSE, !.next[t] = Null,
                            !.prev[t] = Null]
  /\ UNCHANGED <<ticks, request, dpc, region, cursor, scan, due, noticed>>

-----------------------------------------------------------------------------
(***************************************************************************)
(* The expiration DPC.                                                     *)
(***************************************************************************)

KiDPCDispatchQueue ==
  /\ region = "low"
  /\ dpc.enqueued
  /\ dpc' = [dpc EXCEPT !.enqueued = FALSE]
  /\ scan' = [scan EXCEPT !.from = dpc.context1]
  /\ region' = "start"
  /\ UNCHANGED <<ticks, table, request, cursor, due, noticed>>

\* The ticks from one to another, both included; a word wraps.
TicksFrom(from, now) ==
  IF now < from THEN now - from + 1 + TickRange ELSE now - from + 1

\* The buckets to look at: those of the ticks from context1 to now, but none
\* twice.
OneBucketShort(from, now) ==
  IF TicksFrom(from, now) > TIMERTABLESIZE THEN TIMERTABLESIZE
  ELSE TicksFrom(from, now) - 1
BucketsDue(from, now) ==
  IF TicksFrom(from, now) > TIMERTABLESIZE THEN TIMERTABLESIZE
  ELSE TicksFrom(from, now)

KiTimerExpiration ==
  /\ region = "start"
  /\ scan' = [scan EXCEPT !.now = KiClockTicks,
                          !.left = BucketsDue(scan.from, KiClockTicks),
                          !.index = BucketOf(scan.from)]
  /\ region' = "scan"
  /\ UNCHANGED <<ticks, table, request, dpc, cursor, due, noticed>>

\* Tick e has come when the scan started at tick now.
ComesNext(e, now) == e <= now + 1
HasCome(e, now)   == e <= now

NextBucket(s)   == [s EXCEPT !.left = @ - 1, !.index = BucketOf(@ + 1)]

ScanBucket ==
  /\ region = "scan"
  /\ scan.left > 0
  /\ IF HasCome(table.earliest[scan.index], scan.now)
     THEN /\ cursor' = table.head[scan.index]
          /\ region' = "expire"
          /\ UNCHANGED scan
     ELSE /\ scan' = NextBucket(scan)
          /\ UNCHANGED <<cursor, region>>
  /\ UNCHANGED <<ticks, table, request, dpc, due, noticed>>

\* The timer is off the calendar before its waiters are woken.
StillEnqueued(tb, t) == [tb EXCEPT !.signaled[t] = TRUE]
Expired(tb, t) == [tb EXCEPT !.enqueued[t] = FALSE, !.signaled[t] = TRUE]

ExpireTimer ==
  /\ region = "expire"
  /\ table' = Expired(table, cursor)
  /\ scan' = IF cursor \in DpcTimers
             THEN [scan EXCEPT !.routines = <<cursor>> \o @] ELSE scan
  /\ region' = "satisfy"
  /\ due' = [due EXCEPT ![cursor] = 0]
  /\ noticed' = [noticed EXCEPT ![cursor] = 0]
  /\ UNCHANGED <<ticks, request, dpc, cursor>>

\* The back links when n becomes the head.
NotFronted(prev, n) == prev
Fronted(prev, n) == [u \in Timer |-> IF u = n THEN Null ELSE prev[u]]

\* The expired timers at the front of the list are taken off together.
Advanced(tb, b, n) ==
  [tb EXCEPT !.head[b]     = n,
             !.prev        = Fronted(@, n),
             !.earliest[b] = EarliestOf(tb, n)]

AdvanceTimer ==
  /\ region = "satisfy"
  /\ LET n == table.next[cursor]
     IN  IF n # Null /\ HasCome(table.expiry[n], scan.now)
         THEN /\ cursor' = n
              /\ region' = "expire"
              /\ UNCHANGED <<table, scan>>
         ELSE /\ table' = Advanced(table, scan.index, n)
              /\ scan' = NextBucket(scan)
              /\ cursor' = Null
              /\ region' = "scan"
  /\ UNCHANGED <<ticks, request, dpc, due, noticed>>

ScanDone ==
  /\ region = "scan"
  /\ scan.left = 0
  /\ region' = "routines"
  /\ UNCHANGED <<ticks, table, request, dpc, cursor, scan, due, noticed>>

\* The timers' own DPC routines, last expired first.
RunRoutine ==
  /\ region = "routines"
  /\ scan.routines # <<>>
  /\ scan' = [scan EXCEPT !.routines = Tail(@)]
  /\ UNCHANGED <<ticks, table, request, dpc, region, cursor, due, noticed>>

ExpirationDone ==
  /\ region = "routines"
  /\ scan.routines = <<>>
  /\ scan' = Idling
  /\ region' = "low"
  /\ UNCHANGED <<ticks, table, request, dpc, cursor, due, noticed>>

-----------------------------------------------------------------------------
Expiration ==
  \/ KiDPCDispatchQueue
  \/ KiTimerExpiration
  \/ ScanBucket
  \/ ExpireTimer
  \/ AdvanceTimer
  \/ ScanDone
  \/ RunRoutine
  \/ ExpirationDone

Next ==
  \/ KeClockTick
  \/ \E c \in Client : \/ \E t \in Timer, ms \in Intervals : ComputeExpiry(c, t, ms)
                       \/ KeTimerEnqueue(c)
  \/ NoteEarliest
  \/ \E t \in Timer : \/ KeTimerDequeue(t)
                      \/ KeTimerReset(t)
                      \/ KeTimerInitialize(t)
  \/ Expiration

Spec == Init /\ [][Next]_vars

-----------------------------------------------------------------------------
(***************************************************************************)
(* Properties.                                                             *)
(***************************************************************************)

\* Tick counts stay within their word and pointers point to timers.
TypeOK ==
  /\ ticks \in 0 .. MaxTicks
  /\ table \in Table
  /\ request \in [Client -> Request \cup {Null}]
  /\ dpc \in [enqueued : BOOLEAN, context1 : Word]
  /\ region \in Regions
  /\ cursor \in Pointer
  /\ scan \in [now : Word, left : 0 .. TIMERTABLESIZE, index : Bucket,
               from : Word, routines : Seq(DpcTimers)]
  /\ due \in [Timer -> Nat]
  /\ noticed \in [Timer -> 0 .. MaxTicks]

\* Bucket b is between an expiration and the unlinking of the expired timers.
Scanned(b) == region \in {"expire", "satisfy"} /\ b = scan.index

\* The timers started in bucket b, and where its list begins.
StartedIn(b) == {t \in Timer : table.enqueued[t] /\ BucketOf(table.expiry[t]) = b}
ListHead(b)  == IF ~Scanned(b) THEN table.head[b]
                ELSE IF region = "expire" THEN cursor ELSE table.next[cursor]

\* The links of bucket b lead along list, to its end, and list is sorted.
LeadAlong(b, list, n) ==
  /\ ListHead(b) = IF n = 0 THEN Null ELSE list[1]
  /\ \A i \in 1 .. n : table.next[list[i]] = IF i = n THEN Null ELSE list[i + 1]
  /\ \A i, j \in 1 .. n : i < j => table.expiry[list[i]] <= table.expiry[list[j]]

\* The links of each bucket lead to each timer started in it, once and in
\* order, whatever was cancelled, inserted or expired before: the expiration
\* stops at the first timer that is not due, so one out of place would not
\* expire.
CalendarSorted ==
  \A b \in Bucket :
    LET n == Cardinality(StartedIn(b))
    IN  \E list \in [1 .. n -> StartedIn(b)] :
          /\ {list[i] : i \in 1 .. n} = StartedIn(b)
          /\ LeadAlong(b, list, n)

\* The tick the clock interrupt compares is the expiry of the head of the
\* bucket, except while the head is being replaced.
EarliestExact ==
  \A b \in Bucket :
    \/ Scanned(b)
    \/ region = "link" /\ b = BucketOf(table.expiry[cursor])
    \/ table.earliest[b] = EarliestOf(table, table.head[b])

\* The expiration only meets started timers, though waiters and routines it
\* wakes cancel timers of the list it is walking (asserted at KeTimer.df:262).
ExpiresStartedTimers == region = "expire" => cursor # Null /\ table.enqueued[cursor]

\* What the clock noticed last is served by the DPC it queued.
LastReportServed ==
  region = "low" /\ ~dpc.enqueued =>
    \A t \in Timer : table.enqueued[t] /\ noticed[t] # 0 =>
      Wrapped(noticed[t]) # dpc.context1

\* When ticks do not interrupt timer operations and their DPC, no started
\* timer is left behind by its tick.
Punctual ==
  Settled => \A t \in Timer : table.enqueued[t] => due[t] > ticks

\* No expiry tick runs over the word it is kept in.
NoWrap == MaxTicks < Never /\ \A n \in Delays : MaxTicks + n < Never

\* Started timers never expire early, twice or after they are cancelled.
TimerContract == INSTANCE TimerService WITH
  Idle     <- Null,
  Delay    <- Delays,
  wanted   <- [c \in Client |-> IF request[c] = Null THEN Null
                               ELSE [timer |-> request[c].timer,
                                     due   |-> request[c].due]],
  armed    <- [t \in Timer |-> IF table.enqueued[t] THEN due[t] ELSE Null],
  signaled <- table.signaled

ImplementsTimerService == TimerContract!Spec
=============================================================================
