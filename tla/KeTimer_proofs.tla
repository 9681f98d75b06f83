--------------------------- MODULE KeTimer_proofs ---------------------------
(***************************************************************************)
(* Proofs about the kernel timers: for every number of timers, buckets and *)
(* clients, as long as no tick count wraps, the calendar stays linked and  *)
(* sorted, what the clock reports is served, and the timers implement      *)
(* TimerService.                                                           *)
(*                                                                         *)
(* There are two inductive invariants.  Inv says of each started timer     *)
(* only what its two links and the head of its bucket say: that is enough  *)
(* to know that what the expiration meets is started and due, and it holds *)
(* step by step without following a list to its end.  That no timer is     *)
(* passed over needs the second, Listed: each bucket has a sequence of all *)
(* the timers started in it that its links lead along.                     *)
(***************************************************************************)
EXTENDS KeTimer, FiniteSetTheorems, TLAPS

None == 0 - 1    \* no bucket

\* The bucket an expiration is taking timers from, and the first timer left.
Open  == IF region \in {"expire", "satisfy"} THEN scan.index ELSE None
First == IF region = "expire" THEN cursor
         ELSE IF region = "satisfy" THEN table.next[cursor] ELSE Null

\* Each started timer agrees with its neighbours and its bucket.
ForwardLinks(tb) ==
  \A t \in Timer : tb.enqueued[t] /\ tb.next[t] # Null =>
    LET n == tb.next[t]
    IN  /\ tb.enqueued[n] /\ tb.prev[n] = t
        /\ BucketOf(tb.expiry[n]) = BucketOf(tb.expiry[t])
        /\ tb.expiry[t] <= tb.expiry[n]
BackLinks(tb, first) ==
  \A t \in Timer \ {first} : tb.enqueued[t] /\ tb.prev[t] # Null =>
    /\ tb.enqueued[tb.prev[t]]
    /\ tb.next[tb.prev[t]] = t
HeadsLeft(tb, open, first) ==
  \A t \in Timer \ {first} : tb.enqueued[t] /\ tb.prev[t] = Null =>
    /\ tb.head[BucketOf(tb.expiry[t])] = t
    /\ BucketOf(tb.expiry[t]) # open
HeadsStarted(tb, open) ==
  \A b \in Bucket \ {open} : tb.head[b] # Null =>
    /\ tb.enqueued[tb.head[b]]
    /\ tb.prev[tb.head[b]] = Null
    /\ BucketOf(tb.expiry[tb.head[b]]) = b
FirstStarted(tb, open, first) == first # Null =>
  /\ tb.enqueued[first]
  /\ BucketOf(tb.expiry[first]) = open
  /\ tb.prev[first] # Null => ~tb.enqueued[tb.prev[first]]

Chained(tb, open, first) ==
  /\ ForwardLinks(tb)
  /\ BackLinks(tb, first)
  /\ HeadsLeft(tb, open, first)
  /\ HeadsStarted(tb, open)
  /\ FirstStarted(tb, open, first)

\* The earliest ticks of all buckets but one are exact.
Noted(tb, except) ==
  \A b \in Bucket \ {except} : tb.earliest[b] = EarliestOf(tb, tb.head[b])

Unnoted == IF region = "link" THEN BucketOf(table.expiry[cursor]) ELSE Open

\* Stored expiry ticks are the true ones.
TrueTicks ==
  /\ \A t \in Timer : table.enqueued[t] => /\ table.expiry[t] = due[t]
                                           /\ table.expiry[t] < Never
  /\ \A c \in Client : request[c] # Null => /\ request[c].expiry = request[c].due
                                            /\ request[c].expiry < Never

\* Where the code at IPLDPC is.
CursorInv ==
  /\ region = "link" => /\ cursor # Null
                        /\ table.enqueued[cursor]
                        /\ table.head[BucketOf(table.expiry[cursor])] = cursor
  /\ region \in {"expire", "satisfy"} => scan.left > 0 /\ cursor # Null
  /\ region = "expire" => table.enqueued[cursor] /\ table.expiry[cursor] <= scan.now
  /\ region = "satisfy" =>
       /\ ~table.enqueued[cursor]
       /\ table.next[cursor] # Null => table.prev[table.next[cursor]] = cursor
  /\ region \in {"scan", "expire", "satisfy"} => scan.now <= ticks

Inv ==
  /\ TypeOK
  /\ Chained(table, Open, First)
  /\ Noted(table, Unnoted)
  /\ TrueTicks
  /\ CursorInv

-----------------------------------------------------------------------------
(***************************************************************************)
(* Ticks and buckets.                                                      *)
(***************************************************************************)

LEMMA BucketTyped == \A e \in Nat : BucketOf(e) \in Bucket
BY TimerAssumption DEF BucketOf, Bucket

LEMMA NeverTyped == Never \in Word /\ Word \subseteq Nat /\ None \notin Bucket
BY TimerAssumption DEF Never, Word, None, Bucket

LEMMA NullTyped == Null \notin Timer /\ Null \notin Nat
BY TimerAssumption

LEMMA ClockTyped ==
  ASSUME NoWrap, ticks \in 0 .. MaxTicks
  PROVE  KiClockTicks = ticks /\ ticks < Never /\ ticks \in Word
BY TimerAssumption DEF NoWrap, KiClockTicks, Wrapped, Never, Word

-----------------------------------------------------------------------------
(***************************************************************************)
(* The operations on the table, field by field.                            *)
(***************************************************************************)

LinkedAs(r, tb, t, e, p) ==
  LET b == BucketOf(e)
      n == IF p = Null THEN tb.head[b] ELSE tb.next[p]
  IN  /\ r \in Table
      /\ r.enqueued = [tb.enqueued EXCEPT ![t] = TRUE]
      /\ r.signaled = tb.signaled
      /\ r.expiry = [tb.expiry EXCEPT ![t] = e]
      /\ r.next = [u \in Timer |-> IF u = t THEN n ELSE
                   IF u = p THEN t ELSE tb.next[u]]
      /\ r.prev = BackLinked(tb.prev, t, p, n)
      /\ r.head = [tb.head EXCEPT ![b] = IF p = Null THEN t ELSE @]
      /\ r.earliest = tb.earliest

LEMMA LinkedFields ==
  ASSUME NEW tb \in Table, NEW t \in Timer, NEW e \in Word, NEW p \in Pointer
  PROVE  LinkedAs(Linked(tb, t, e, p), tb, t, e, p)
<1>1. BucketOf(e) \in Bucket
  BY BucketTyped, NeverTyped
<1>. QED
  BY <1>1, NullTyped DEF LinkedAs, Linked, Table, BackLinked, Pointer

UnlinkedAs(r, tb, t) ==
  LET n == tb.next[t]
      p == tb.prev[t]
      b == BucketOf(tb.expiry[t])
  IN  /\ r \in Table
      /\ r.enqueued = [tb.enqueued EXCEPT ![t] = FALSE]
      /\ r.signaled = tb.signaled
      /\ r.expiry = tb.expiry
      /\ r.next = [u \in Timer |-> IF u = p THEN n ELSE tb.next[u]]
      /\ r.prev = [u \in Timer |-> IF u = n THEN p ELSE tb.prev[u]]
      /\ r.head = [tb.head EXCEPT ![b] = IF p = Null THEN n ELSE @]
      /\ r.earliest = [tb.earliest EXCEPT ![b] =
                   IF p = Null THEN EarliestOf(tb, n) ELSE tb.earliest[b]]

LEMMA UnlinkedFields ==
  ASSUME NEW tb \in Table, NEW t \in Timer
  PROVE  UnlinkedAs(Unlinked(tb, t), tb, t)
<1>1. BucketOf(tb.expiry[t]) \in Bucket
  BY BucketTyped, NeverTyped DEF Table
<1>2. \A n \in Pointer : EarliestOf(tb, n) \in Word
  BY NeverTyped DEF EarliestOf, Table, Pointer
<1>. QED
  BY <1>1, <1>2, NullTyped DEF UnlinkedAs, Unlinked, Table, EarliestLeft, Pointer

AdvancedAs(r, tb, b, n) ==
  /\ r \in Table
  /\ r.enqueued = tb.enqueued
  /\ r.signaled = tb.signaled
  /\ r.expiry = tb.expiry
  /\ r.next = tb.next
  /\ r.prev = [u \in Timer |-> IF u = n THEN Null ELSE tb.prev[u]]
  /\ r.head = [tb.head EXCEPT ![b] = n]
  /\ r.earliest = [tb.earliest EXCEPT ![b] = EarliestOf(tb, n)]

LEMMA AdvancedFields ==
  ASSUME NEW tb \in Table, NEW b \in Bucket, NEW n \in Pointer
  PROVE  AdvancedAs(Advanced(tb, b, n), tb, b, n)
<1>2. EarliestOf(tb, n) \in Word
  BY NeverTyped DEF EarliestOf, Table, Pointer
<1>. QED
  BY <1>2, NullTyped DEF AdvancedAs, Advanced, Table, Fronted, Pointer

ExpiredAs(r, tb, t) ==
  /\ r \in Table
  /\ r.enqueued = [tb.enqueued EXCEPT ![t] = FALSE]
  /\ r.signaled = [tb.signaled EXCEPT ![t] = TRUE]
  /\ r.expiry = tb.expiry
  /\ r.next = tb.next
  /\ r.prev = tb.prev
  /\ r.head = tb.head
  /\ r.earliest = tb.earliest

LEMMA ExpiredFields ==
  ASSUME NEW tb \in Table, NEW t \in Timer
  PROVE  ExpiredAs(Expired(tb, t), tb, t)
BY DEF ExpiredAs, Expired, Table

-----------------------------------------------------------------------------
(***************************************************************************)
(* The operations keep the calendar linked.                                *)
(***************************************************************************)

LEMMA LinkedChained ==
  ASSUME NEW tb \in Table, NEW t \in Timer, NEW e \in Word, NEW p \in Pointer,
         Chained(tb, None, Null), ~tb.enqueued[t],
         PlacedAfter(tb, BucketOf(e), e, p)
  PROVE  Chained(Linked(tb, t, e, p), None, Null)
<1>. DEFINE r == Linked(tb, t, e, p)
            b == BucketOf(e)
            n == IF p = Null THEN tb.head[b] ELSE tb.next[p]
<1>1. /\ r \in Table
      /\ r.enqueued = [tb.enqueued EXCEPT ![t] = TRUE]
      /\ r.expiry = [tb.expiry EXCEPT ![t] = e]
      /\ r.next = [u \in Timer |-> IF u = t THEN n ELSE
                                  IF u = p THEN t ELSE tb.next[u]]
      /\ r.prev = [u \in Timer |-> IF u = t THEN p ELSE
                                  IF u = n THEN t ELSE tb.prev[u]]
      /\ r.head = [tb.head EXCEPT ![b] = IF p = Null THEN t ELSE @]
  BY LinkedFields DEF LinkedAs, BackLinked
<1>2. b \in Bucket /\ \A u \in Timer : BucketOf(tb.expiry[u]) \in Bucket
  BY BucketTyped, NeverTyped DEF Table
<1>. HIDE DEF r
<1>3. n \in Pointer /\ n # t /\ p # t /\ (p # Null => n # p)
  <2>1. CASE p = Null
    BY <2>1, <1>2, NullTyped, NeverTyped DEF Chained, HeadsStarted, Table, Pointer
  <2>2. CASE p # Null
    BY <2>2, <1>2, NullTyped, NeverTyped
       DEF Chained, ForwardLinks, PlacedAfter, Table, Pointer, Word
  <2>. QED
    BY <2>1, <2>2
<1>4. n # Null => /\ tb.enqueued[n] /\ BucketOf(tb.expiry[n]) = b
                  /\ e < tb.expiry[n] /\ tb.prev[n] = p
  <2>1. CASE p = Null
    BY <2>1, <1>2, NullTyped, NeverTyped
       DEF Chained, HeadsStarted, PlacedAfter, Table, Pointer, Word
  <2>2. CASE p # Null
    BY <2>2, <1>2, NullTyped, NeverTyped
       DEF Chained, ForwardLinks, PlacedAfter, Table, Pointer, Word
  <2>. QED
    BY <2>1, <2>2
<1>5. p # Null => /\ p \in Timer /\ tb.enqueued[p] /\ BucketOf(tb.expiry[p]) = b
                  /\ tb.expiry[p] <= e
  BY DEF PlacedAfter, Pointer
<1>. HIDE DEF n, b
<1>6. ForwardLinks(r)
  <2>. SUFFICES ASSUME NEW u \in Timer, r.enqueued[u], r.next[u] # Null
                PROVE  /\ r.enqueued[r.next[u]] /\ r.prev[r.next[u]] = u
                       /\ BucketOf(r.expiry[r.next[u]]) = BucketOf(r.expiry[u])
                       /\ r.expiry[u] <= r.expiry[r.next[u]]
    BY DEF ForwardLinks
  <2>1. CASE u = t
    BY <2>1, <1>1, <1>3, <1>4, NullTyped, NeverTyped DEF Table, Pointer, Word, b
  <2>2. CASE u # t /\ u = p
    BY <2>2, <1>1, <1>3, <1>5, NullTyped, NeverTyped DEF Table, Pointer, Word, b
  <2>3. CASE u # t /\ u # p
    <3>1. tb.enqueued[u] /\ r.next[u] = tb.next[u] /\ tb.next[u] \in Timer
      BY <2>3, <1>1, NullTyped DEF Table, Pointer
    <3>2. /\ tb.enqueued[tb.next[u]] /\ tb.prev[tb.next[u]] = u
          /\ BucketOf(tb.expiry[tb.next[u]]) = BucketOf(tb.expiry[u])
          /\ tb.expiry[u] <= tb.expiry[tb.next[u]]
      BY <3>1, NullTyped DEF Chained, ForwardLinks
    <3>3. tb.next[u] # t /\ tb.next[u] # n
      BY <3>1, <3>2, <1>3, <1>4, <2>3, NullTyped
    <3>. QED
      BY <2>3, <3>1, <3>2, <3>3, <1>1 DEF Table
  <2>. QED
    BY <2>1, <2>2, <2>3
<1>7. BackLinks(r, Null)
  <2>. SUFFICES ASSUME NEW u \in Timer, r.enqueued[u], r.prev[u] # Null
                PROVE  r.enqueued[r.prev[u]] /\ r.next[r.prev[u]] = u
    BY DEF BackLinks
  <2>1. CASE u = t
    BY <2>1, <1>1, <1>3, <1>5, NullTyped DEF Table, Pointer
  <2>2. CASE u # t /\ u = n
    BY <2>2, <1>1, <1>3, NullTyped DEF Table, Pointer
  <2>3. CASE u # t /\ u # n
    <3>1. tb.enqueued[u] /\ r.prev[u] = tb.prev[u] /\ tb.prev[u] \in Timer
      BY <2>3, <1>1, NullTyped DEF Table, Pointer
    <3>2. tb.enqueued[tb.prev[u]] /\ tb.next[tb.prev[u]] = u
      BY <3>1, NullTyped DEF Chained, BackLinks
    <3>3. tb.prev[u] # t /\ tb.prev[u] # p
      BY <3>1, <3>2, <2>3, NullTyped DEF n
    <3>. QED
      BY <2>3, <3>1, <3>2, <3>3, <1>1 DEF Table
  <2>. QED
    BY <2>1, <2>2, <2>3
<1>8. HeadsLeft(r, None, Null)
  <2>. SUFFICES ASSUME NEW u \in Timer, r.enqueued[u], r.prev[u] = Null
                PROVE  /\ r.head[BucketOf(r.expiry[u])] = u
                       /\ BucketOf(r.expiry[u]) # None
    BY DEF HeadsLeft
  <2>1. CASE u = t
    BY <2>1, <1>1, <1>2, NeverTyped DEF Table, b
  <2>2. CASE u # t
    <3>1. tb.enqueued[u] /\ tb.prev[u] = Null /\ u # n
      BY <2>2, <1>1, NullTyped DEF Table
    <3>2. tb.head[BucketOf(tb.expiry[u])] = u
      BY <3>1 , NullTyped DEF Chained, HeadsLeft
    <3>3. p = Null => BucketOf(tb.expiry[u]) # b
      BY <3>1, <3>2 DEF n
    <3>. QED
      BY <2>2, <3>2, <3>3, <1>1, <1>2, NeverTyped DEF Table
  <2>. QED
    BY <2>1, <2>2
<1>9. HeadsStarted(r, None)
  <2>. SUFFICES ASSUME NEW k \in Bucket, r.head[k] # Null
                PROVE  /\ r.enqueued[r.head[k]] /\ r.prev[r.head[k]] = Null
                       /\ BucketOf(r.expiry[r.head[k]]) = k
    BY DEF HeadsStarted
  <2>1. CASE p = Null /\ k = b
    BY <2>1, <1>1, <1>2 DEF Table, b
  <2>2. CASE ~(p = Null /\ k = b)
    <3>1. r.head[k] = tb.head[k] /\ tb.head[k] \in Timer
      BY <2>2, <1>1, <1>2 DEF Table, Pointer
    <3>2. /\ tb.enqueued[tb.head[k]] /\ tb.prev[tb.head[k]] = Null
          /\ BucketOf(tb.expiry[tb.head[k]]) = k
      BY <3>1, NullTyped, NeverTyped DEF Chained, HeadsStarted
    <3>3. tb.head[k] # t /\ tb.head[k] # n
      BY <3>1, <3>2, <2>2, <1>4, NullTyped
    <3>. QED
      BY <3>1, <3>2, <3>3, <1>1 DEF Table
  <2>. QED
    BY <2>1, <2>2
<1>10. FirstStarted(r, None, Null)
  BY DEF FirstStarted
<1>. QED
  BY <1>6, <1>7, <1>8, <1>9, <1>10 DEF Chained, r

\* A timer other than the first of an open bucket leaves the calendar.
LEMMA UnlinkedChained ==
  ASSUME NEW tb \in Table, NEW t \in Timer, NEW open \in Bucket \cup {None},
         NEW first \in Pointer, Chained(tb, open, first), tb.enqueued[t],
         t # first
  PROVE  Chained(Unlinked(tb, t), open, first)
<1>. DEFINE r == Unlinked(tb, t)
            n == tb.next[t]
            p == tb.prev[t]
            b == BucketOf(tb.expiry[t])
<1>1. /\ r \in Table
      /\ r.enqueued = [tb.enqueued EXCEPT ![t] = FALSE]
      /\ r.expiry = tb.expiry
      /\ r.next = [u \in Timer |-> IF u = p THEN n ELSE tb.next[u]]
      /\ r.prev = [u \in Timer |-> IF u = n THEN p ELSE tb.prev[u]]
      /\ r.head = [tb.head EXCEPT ![b] = IF p = Null THEN n ELSE @]
  BY UnlinkedFields DEF UnlinkedAs
<1>2. b \in Bucket /\ \A u \in Timer : BucketOf(tb.expiry[u]) \in Bucket
  BY BucketTyped, NeverTyped DEF Table
<1>. HIDE DEF r
<1>3. n \in Pointer /\ p \in Pointer
  BY DEF Table
<1>4. n # Null => /\ tb.enqueued[n] /\ BucketOf(tb.expiry[n]) = b
                  /\ tb.expiry[t] <= tb.expiry[n] /\ tb.prev[n] = t
                  /\ n # first
  <2>1. n # Null => /\ tb.enqueued[n] /\ BucketOf(tb.expiry[n]) = b
                    /\ tb.expiry[t] <= tb.expiry[n] /\ tb.prev[n] = t
    BY <1>3 DEF Chained, ForwardLinks
  <2>. QED
    BY <2>1, NullTyped DEF Chained, FirstStarted
<1>5. p # Null => /\ p \in Timer /\ tb.enqueued[p] /\ tb.next[p] = t
                  /\ BucketOf(tb.expiry[p]) = b
                  /\ tb.expiry[p] <= tb.expiry[t]
  <2>1. p # Null => p \in Timer /\ tb.enqueued[p] /\ tb.next[p] = t
    BY <1>3 DEF Chained, BackLinks, Pointer
  <2>. QED
    BY <2>1, NullTyped DEF Chained, ForwardLinks
<1>6. p = Null => tb.head[b] = t /\ b # open
  BY DEF Chained, HeadsLeft
<1>7. n = t <=> p = t
  BY <1>4, <1>5, NullTyped
<1>. HIDE DEF n, b, p
<1>8. ForwardLinks(r)
  <2>. SUFFICES ASSUME NEW u \in Timer, r.enqueued[u], r.next[u] # Null
                PROVE  /\ r.enqueued[r.next[u]] /\ r.prev[r.next[u]] = u
                       /\ BucketOf(r.expiry[r.next[u]]) = BucketOf(r.expiry[u])
                       /\ r.expiry[u] <= r.expiry[r.next[u]]
    BY DEF ForwardLinks
  <2>0. u # t /\ tb.enqueued[u]
    BY <1>1 DEF Table
  <2>1. CASE u = p
    <3>1. r.next[u] = n /\ n \in Timer
      BY <2>1, <1>1, <1>3 DEF Pointer
    <3>2. r.prev[n] = p /\ r.enqueued[n]
      BY <3>1, <1>1, <1>4, <1>7, <2>0, <2>1, NullTyped DEF Table
    <3>3. tb.expiry[p] <= tb.expiry[n]
      BY <3>1, <2>1, <1>4, <1>5, NullTyped, NeverTyped DEF Table
    <3>. QED
      BY <3>1, <3>2, <3>3, <2>1, <1>1, <1>4, <1>5, NullTyped
  <2>2. CASE u # p
    <3>1. r.next[u] = tb.next[u] /\ tb.next[u] \in Timer
      BY <2>2, <1>1 DEF Table, Pointer
    <3>2. /\ tb.enqueued[tb.next[u]] /\ tb.prev[tb.next[u]] = u
          /\ BucketOf(tb.expiry[tb.next[u]]) = BucketOf(tb.expiry[u])
          /\ tb.expiry[u] <= tb.expiry[tb.next[u]]
      BY <3>1, <2>0, NullTyped DEF Chained, ForwardLinks
    <3>3. tb.next[u] # t /\ tb.next[u] # n
      BY <3>1, <3>2, <1>4, <2>0, <2>2, NullTyped DEF p
    <3>. QED
      BY <3>1, <3>2, <3>3, <1>1 DEF Table
  <2>. QED
    BY <2>1, <2>2
<1>9. BackLinks(r, first)
  <2>. SUFFICES ASSUME NEW u \in Timer \ {first}, r.enqueued[u], r.prev[u] # Null
                PROVE  r.enqueued[r.prev[u]] /\ r.next[r.prev[u]] = u
    BY DEF BackLinks
  <2>0. u # t /\ tb.enqueued[u]
    BY <1>1 DEF Table
  <2>1. CASE u = n
    BY <2>0, <2>1, <1>1, <1>3, <1>5, <1>7 DEF Table, Pointer
  <2>2. CASE u # n
    <3>1. r.prev[u] = tb.prev[u] /\ tb.prev[u] \in Timer
      BY <2>2, <1>1 DEF Table, Pointer
    <3>2. tb.enqueued[tb.prev[u]] /\ tb.next[tb.prev[u]] = u
      BY <3>1, <2>0, NullTyped DEF Chained, BackLinks
    <3>3. tb.prev[u] # t /\ tb.prev[u] # p
      BY <3>1, <3>2, <1>5, <2>0, <2>2, NullTyped DEF n
    <3>. QED
      BY <3>1, <3>2, <3>3, <1>1 DEF Table
  <2>. QED
    BY <2>1, <2>2
<1>10. HeadsLeft(r, open, first)
  <2>. SUFFICES ASSUME NEW u \in Timer \ {first}, r.enqueued[u], r.prev[u] = Null
                PROVE  /\ r.head[BucketOf(r.expiry[u])] = u
                       /\ BucketOf(r.expiry[u]) # open
    BY DEF HeadsLeft
  <2>0. u # t /\ tb.enqueued[u]
    BY <1>1 DEF Table
  <2>1. CASE u = n
    <3>1. p = Null
      BY <2>1, <1>1
    <3>. QED
      BY <3>1, <2>1, <1>1, <1>2, <1>4, <1>6, NullTyped DEF Table
  <2>2. CASE u # n
    <3>1. tb.prev[u] = Null
      BY <2>2, <1>1
    <3>2. tb.head[BucketOf(tb.expiry[u])] = u /\ BucketOf(tb.expiry[u]) # open
      BY <3>1, <2>0 DEF Chained, HeadsLeft
    <3>3. p = Null => BucketOf(tb.expiry[u]) # b
      BY <3>2, <1>6, <2>0
    <3>. QED
      BY <3>2, <3>3, <1>1, <1>2 DEF Table
  <2>. QED
    BY <2>1, <2>2
<1>11. HeadsStarted(r, open)
  <2>. SUFFICES ASSUME NEW k \in Bucket \ {open}, r.head[k] # Null
                PROVE  /\ r.enqueued[r.head[k]] /\ r.prev[r.head[k]] = Null
                       /\ BucketOf(r.expiry[r.head[k]]) = k
    BY DEF HeadsStarted
  <2>1. CASE p = Null /\ k = b
    <3>1. r.head[k] = n /\ n \in Timer
      BY <2>1, <1>1, <1>2, <1>3 DEF Table, Pointer
    <3>. QED
      BY <3>1, <2>1, <1>1, <1>4, <1>7, NullTyped DEF Table
  <2>2. CASE ~(p = Null /\ k = b)
    <3>1. r.head[k] = tb.head[k] /\ tb.head[k] \in Timer
      BY <2>2, <1>1, <1>2 DEF Table, Pointer
    <3>2. /\ tb.enqueued[tb.head[k]] /\ tb.prev[tb.head[k]] = Null
          /\ BucketOf(tb.expiry[tb.head[k]]) = k
      BY <3>1, NullTyped DEF Chained, HeadsStarted
    <3>3. tb.head[k] # t /\ tb.head[k] # n
      BY <3>1, <3>2, <2>2, <1>4, NullTyped DEF p, b
    <3>. QED
      BY <3>1, <3>2, <3>3, <1>1 DEF Table
  <2>. QED
    BY <2>1, <2>2
<1>12. FirstStarted(r, open, first)
  <2>. SUFFICES ASSUME first # Null
                PROVE  /\ r.enqueued[first] /\ BucketOf(r.expiry[first]) = open
                       /\ r.prev[first] # Null => ~r.enqueued[r.prev[first]]
    BY DEF FirstStarted
  <2>1. /\ tb.enqueued[first] /\ BucketOf(tb.expiry[first]) = open
        /\ tb.prev[first] # Null => ~tb.enqueued[tb.prev[first]]
    BY DEF Chained, FirstStarted
  <2>2. first \in Timer /\ r.prev[first] = tb.prev[first] /\ tb.prev[first] \in Pointer
    BY <1>1, <1>4, NullTyped DEF Pointer, Table
  <2>. QED
    BY <2>1, <2>2, <1>1 DEF Table, Pointer
<1>. QED
  BY <1>8, <1>9, <1>10, <1>11, <1>12 DEF Chained, r

\* The first timer left of an open bucket is cancelled: its successor is first.
LEMMA FirstUnlinkedChained ==
  ASSUME NEW tb \in Table, NEW open \in Bucket, NEW first \in Timer,
         Chained(tb, open, first)
  PROVE  Chained(Unlinked(tb, first), open, tb.next[first])
<1>. DEFINE r == Unlinked(tb, first)
            n == tb.next[first]
            p == tb.prev[first]
<1>0. /\ tb.enqueued[first] /\ BucketOf(tb.expiry[first]) = open
      /\ p # Null => ~tb.enqueued[p]
  BY NullTyped DEF Chained, FirstStarted
<1>1. /\ r \in Table
      /\ r.enqueued = [tb.enqueued EXCEPT ![first] = FALSE]
      /\ r.expiry = tb.expiry
      /\ r.next = [u \in Timer |-> IF u = p THEN n ELSE tb.next[u]]
      /\ r.prev = [u \in Timer |-> IF u = n THEN p ELSE tb.prev[u]]
      /\ r.head = [tb.head EXCEPT ![open] = IF p = Null THEN n ELSE @]
  BY <1>0, UnlinkedFields DEF UnlinkedAs
<1>. HIDE DEF r
<1>2. n \in Pointer /\ p \in Pointer
  BY DEF Table
<1>3. n # Null => /\ tb.enqueued[n] /\ BucketOf(tb.expiry[n]) = open
                  /\ tb.prev[n] = first /\ n # first
  <2>1. n # Null => /\ tb.enqueued[n] /\ BucketOf(tb.expiry[n]) = open
                    /\ tb.prev[n] = first
    BY <1>0, <1>2 DEF Chained, ForwardLinks
  <2>. QED
    BY <2>1, <1>0, NullTyped
<1>. HIDE DEF n, p
<1>4. ForwardLinks(r)
  <2>. SUFFICES ASSUME NEW u \in Timer, r.enqueued[u], r.next[u] # Null
                PROVE  /\ r.enqueued[r.next[u]] /\ r.prev[r.next[u]] = u
                       /\ BucketOf(r.expiry[r.next[u]]) = BucketOf(r.expiry[u])
                       /\ r.expiry[u] <= r.expiry[r.next[u]]
    BY DEF ForwardLinks
  <2>1. u # first /\ tb.enqueued[u] /\ u # p
    BY <1>0, <1>1, NullTyped DEF Table
  <2>2. r.next[u] = tb.next[u] /\ tb.next[u] \in Timer
    BY <2>1, <1>1 DEF Table, Pointer
  <2>3. /\ tb.enqueued[tb.next[u]] /\ tb.prev[tb.next[u]] = u
        /\ BucketOf(tb.expiry[tb.next[u]]) = BucketOf(tb.expiry[u])
        /\ tb.expiry[u] <= tb.expiry[tb.next[u]]
    BY <2>1, <2>2, NullTyped DEF Chained, ForwardLinks
  <2>4. tb.next[u] # first /\ tb.next[u] # n
    BY <2>1, <2>2, <2>3, <1>0, <1>3, NullTyped DEF p
  <2>. QED
    BY <2>1, <2>2, <2>3, <2>4, <1>1 DEF Table
<1>5. BackLinks(r, n)
  <2>. SUFFICES ASSUME NEW u \in Timer \ {n}, r.enqueued[u], r.prev[u] # Null
                PROVE  r.enqueued[r.prev[u]] /\ r.next[r.prev[u]] = u
    BY DEF BackLinks
  <2>1. /\ u # first /\ tb.enqueued[u]
        /\ r.prev[u] = tb.prev[u] /\ tb.prev[u] \in Timer
    BY <1>1 DEF Table, Pointer
  <2>2. tb.enqueued[tb.prev[u]] /\ tb.next[tb.prev[u]] = u
    BY <2>1, NullTyped DEF Chained, BackLinks
  <2>3. tb.prev[u] # first /\ tb.prev[u] # p
    BY <2>1, <2>2, <1>0, NullTyped DEF n
  <2>. QED
    BY <2>1, <2>2, <2>3, <1>1 DEF Table
<1>6. HeadsLeft(r, open, n)
  <2>. SUFFICES ASSUME NEW u \in Timer \ {n}, r.enqueued[u], r.prev[u] = Null
                PROVE  /\ r.head[BucketOf(r.expiry[u])] = u
                       /\ BucketOf(r.expiry[u]) # open
    BY DEF HeadsLeft
  <2>1. u # first /\ tb.enqueued[u] /\ tb.prev[u] = Null
    BY <1>1 DEF Table
  <2>2. tb.head[BucketOf(tb.expiry[u])] = u /\ BucketOf(tb.expiry[u]) # open
    BY <2>1 DEF Chained, HeadsLeft
  <2>3. BucketOf(tb.expiry[u]) \in Bucket
    BY BucketTyped, NeverTyped DEF Table
  <2>. QED
    BY <2>2, <2>3, <1>1 DEF Table
<1>7. HeadsStarted(r, open)
  <2>. SUFFICES ASSUME NEW k \in Bucket \ {open}, r.head[k] # Null
                PROVE  /\ r.enqueued[r.head[k]] /\ r.prev[r.head[k]] = Null
                       /\ BucketOf(r.expiry[r.head[k]]) = k
    BY DEF HeadsStarted
  <2>1. r.head[k] = tb.head[k] /\ tb.head[k] \in Timer
    BY <1>1 DEF Table, Pointer
  <2>2. /\ tb.enqueued[tb.head[k]] /\ tb.prev[tb.head[k]] = Null
        /\ BucketOf(tb.expiry[tb.head[k]]) = k
    BY <2>1, NullTyped DEF Chained, HeadsStarted
  <2>3. tb.head[k] # first /\ tb.head[k] # n
    BY <2>1, <2>2, <1>0, <1>3, NullTyped
  <2>. QED
    BY <2>1, <2>2, <2>3, <1>1 DEF Table
<1>8. FirstStarted(r, open, n)
  <2>. SUFFICES ASSUME n # Null
                PROVE  /\ r.enqueued[n] /\ BucketOf(r.expiry[n]) = open
                       /\ r.prev[n] # Null => ~r.enqueued[r.prev[n]]
    BY DEF FirstStarted
  <2>. QED
    BY <1>0, <1>1, <1>2, <1>3, NullTyped DEF Table, Pointer
<1>. QED
  BY <1>4, <1>5, <1>6, <1>7, <1>8 DEF Chained, r, n

\* The scan opens a bucket at its head.
LEMMA OpenedChained ==
  ASSUME NEW tb \in Table, NEW b \in Bucket, Chained(tb, None, Null),
         tb.head[b] # Null
  PROVE  Chained(tb, b, tb.head[b])
<1>1. /\ tb.head[b] \in Timer /\ tb.enqueued[tb.head[b]]
      /\ tb.prev[tb.head[b]] = Null /\ BucketOf(tb.expiry[tb.head[b]]) = b
  BY NeverTyped DEF Chained, HeadsStarted, Table, Pointer
<1>2. FirstStarted(tb, b, tb.head[b])
  BY <1>1 DEF FirstStarted
<1>3. BackLinks(tb, tb.head[b]) /\ HeadsStarted(tb, b)
  BY NullTyped, NeverTyped DEF Chained, BackLinks, HeadsStarted
<1>4. HeadsLeft(tb, b, tb.head[b])
  BY NullTyped DEF Chained, HeadsLeft
<1>. QED
  BY <1>2, <1>3, <1>4 DEF Chained

\* The first timer left expires: its successor is first.
LEMMA ExpiredChained ==
  ASSUME NEW tb \in Table, NEW open \in Bucket, NEW first \in Timer,
         Chained(tb, open, first)
  PROVE  LET r == Expired(tb, first)
             n == tb.next[first]
         IN  /\ Chained(r, open, n)
             /\ ~r.enqueued[first]
             /\ n # Null => r.prev[n] = first
<1>. DEFINE r == Expired(tb, first)
            n == tb.next[first]
<1>1. /\ r \in Table
      /\ r.enqueued = [tb.enqueued EXCEPT ![first] = FALSE]
      /\ r.expiry = tb.expiry
      /\ r.next = tb.next
      /\ r.prev = tb.prev
      /\ r.head = tb.head
  BY ExpiredFields DEF ExpiredAs
<1>. HIDE DEF r
<1>2. /\ tb.enqueued[first] /\ BucketOf(tb.expiry[first]) = open
      /\ tb.prev[first] # Null => ~tb.enqueued[tb.prev[first]]
  BY NullTyped DEF Chained, FirstStarted
<1>3. n \in Pointer /\ n # first
  BY <1>2, NullTyped DEF Chained, ForwardLinks, Table, Pointer
<1>4. n # Null => /\ n \in Timer /\ tb.enqueued[n]
                  /\ BucketOf(tb.expiry[n]) = open /\ tb.prev[n] = first
  BY <1>2, <1>3 DEF Chained, ForwardLinks, Pointer
<1>5. ForwardLinks(r)
  <2>. SUFFICES ASSUME NEW u \in Timer, r.enqueued[u], r.next[u] # Null
                PROVE  /\ r.enqueued[r.next[u]] /\ r.prev[r.next[u]] = u
                       /\ BucketOf(r.expiry[r.next[u]]) = BucketOf(r.expiry[u])
                       /\ r.expiry[u] <= r.expiry[r.next[u]]
    BY DEF ForwardLinks
  <2>1. u # first /\ tb.enqueued[u] /\ tb.next[u] \in Timer
    BY <1>1 DEF Table, Pointer
  <2>2. /\ tb.enqueued[tb.next[u]] /\ tb.prev[tb.next[u]] = u
        /\ BucketOf(tb.expiry[tb.next[u]]) = BucketOf(tb.expiry[u])
        /\ tb.expiry[u] <= tb.expiry[tb.next[u]]
    BY <2>1, <1>1, NullTyped DEF Chained, ForwardLinks
  <2>3. tb.next[u] # first
    BY <2>1, <2>2, <1>2, NullTyped
  <2>. QED
    BY <2>1, <2>2, <2>3, <1>1 DEF Table
<1>6. BackLinks(r, n)
  <2>. SUFFICES ASSUME NEW u \in Timer \ {n}, r.enqueued[u], r.prev[u] # Null
                PROVE  r.enqueued[r.prev[u]] /\ r.next[r.prev[u]] = u
    BY DEF BackLinks
  <2>1. u # first /\ tb.enqueued[u] /\ tb.prev[u] \in Timer
    BY <1>1 DEF Table, Pointer
  <2>2. tb.enqueued[tb.prev[u]] /\ tb.next[tb.prev[u]] = u
    BY <2>1, <1>1, NullTyped DEF Chained, BackLinks
  <2>. QED
    BY <2>1, <2>2, <1>1 DEF Table
<1>7. HeadsLeft(r, open, n)
  BY <1>1 DEF Chained, HeadsLeft, Table
<1>8. HeadsStarted(r, open)
  BY <1>1, <1>2, NullTyped DEF Chained, HeadsStarted, Table, Pointer
<1>9. FirstStarted(r, open, n)
  BY <1>1, <1>2, <1>3, <1>4, NullTyped DEF FirstStarted, Table
<1>. QED
  BY <1>1, <1>4, <1>5, <1>6, <1>7, <1>8, <1>9 DEF Chained, r, Table

\* What is left of an open bucket becomes its list.
LEMMA AdvancedChained ==
  ASSUME NEW tb \in Table, NEW b \in Bucket, NEW n \in Pointer,
         Chained(tb, b, n)
  PROVE  Chained(Advanced(tb, b, n), None, Null)
<1>. DEFINE r == Advanced(tb, b, n)
<1>a. AdvancedAs(r, tb, b, n)
  BY AdvancedFields
<1>. HIDE DEF r
<1>1. /\ r \in Table
      /\ r.enqueued = tb.enqueued
      /\ r.expiry = tb.expiry
      /\ r.next = tb.next
      /\ r.prev = [u \in Timer |-> IF u = n THEN Null ELSE tb.prev[u]]
      /\ r.head = [tb.head EXCEPT ![b] = n]
  BY <1>a DEF AdvancedAs
<1>. HIDE DEF r
<1>2. n # Null => /\ n \in Timer /\ tb.enqueued[n]
                  /\ BucketOf(tb.expiry[n]) = b
                  /\ tb.prev[n] # Null => ~tb.enqueued[tb.prev[n]]
  BY DEF Chained, FirstStarted, Pointer
<1>3. \A u \in Timer : BucketOf(tb.expiry[u]) \in Bucket
  BY BucketTyped, NeverTyped DEF Table
<1>4. ForwardLinks(r)
  <2>. SUFFICES ASSUME NEW u \in Timer, r.enqueued[u], r.next[u] # Null
                PROVE  /\ r.enqueued[r.next[u]] /\ r.prev[r.next[u]] = u
                       /\ BucketOf(r.expiry[r.next[u]]) = BucketOf(r.expiry[u])
                       /\ r.expiry[u] <= r.expiry[r.next[u]]
    BY DEF ForwardLinks
  <2>1. tb.enqueued[u] /\ tb.next[u] \in Timer
    BY <1>1 DEF Table, Pointer
  <2>2. /\ tb.enqueued[tb.next[u]] /\ tb.prev[tb.next[u]] = u
        /\ BucketOf(tb.expiry[tb.next[u]]) = BucketOf(tb.expiry[u])
        /\ tb.expiry[u] <= tb.expiry[tb.next[u]]
    BY <2>1, <1>1, NullTyped DEF Chained, ForwardLinks
  <2>3. tb.next[u] # n
    BY <2>1, <2>2, <1>2, NullTyped
  <2>. QED
    BY <2>1, <2>2, <2>3, <1>1
<1>5. BackLinks(r, Null)
  BY <1>1, <1>2, NullTyped DEF Chained, BackLinks
<1>6. HeadsLeft(r, None, Null)
  <2>. SUFFICES ASSUME NEW u \in Timer, r.enqueued[u], r.prev[u] = Null
                PROVE  /\ r.head[BucketOf(r.expiry[u])] = u
                       /\ BucketOf(r.expiry[u]) # None
    BY DEF HeadsLeft
  <2>1. CASE u = n
    BY <2>1, <1>1, <1>2, <1>3, NullTyped, NeverTyped DEF Table
  <2>2. CASE u # n
    <3>1. tb.head[BucketOf(tb.expiry[u])] = u /\ BucketOf(tb.expiry[u]) # b
      BY <2>2, <1>1 DEF Chained, HeadsLeft
    <3>. QED
      BY <3>1, <1>1, <1>3, NeverTyped DEF Table
  <2>. QED
    BY <2>1, <2>2
<1>7. HeadsStarted(r, None)
  <2>. SUFFICES ASSUME NEW k \in Bucket, r.head[k] # Null
                PROVE  /\ r.enqueued[r.head[k]] /\ r.prev[r.head[k]] = Null
                       /\ BucketOf(r.expiry[r.head[k]]) = k
    BY DEF HeadsStarted
  <2>1. CASE k = b
    BY <2>1, <1>1, <1>2 DEF Table
  <2>2. CASE k # b
    <3>1. r.head[k] = tb.head[k] /\ tb.head[k] \in Timer
      BY <2>2, <1>1 DEF Table, Pointer
    <3>2. /\ tb.enqueued[tb.head[k]] /\ tb.prev[tb.head[k]] = Null
          /\ BucketOf(tb.expiry[tb.head[k]]) = k
      BY <2>2, <3>1, NullTyped DEF Chained, HeadsStarted
    <3>. QED
      BY <3>1, <3>2, <1>1
  <2>. QED
    BY <2>1, <2>2
<1>8. FirstStarted(r, None, Null)
  BY DEF FirstStarted
<1>. QED
  BY <1>4, <1>5, <1>6, <1>7, <1>8 DEF Chained, r

-----------------------------------------------------------------------------
(***************************************************************************)
(* The operations keep the earliest ticks exact.                           *)
(***************************************************************************)

LEMMA LinkedNoted ==
  ASSUME NEW tb \in Table, NEW t \in Timer, NEW e \in Word, NEW p \in Pointer,
         Chained(tb, None, Null), ~tb.enqueued[t], Noted(tb, None)
  PROVE  /\ p = Null => Noted(Linked(tb, t, e, p), BucketOf(e))
         /\ p # Null => Noted(Linked(tb, t, e, p), None)
<1>. DEFINE r == Linked(tb, t, e, p)
            b == BucketOf(e)
<1>a. LinkedAs(r, tb, t, e, p)
  BY LinkedFields
<1>. HIDE DEF r
<1>1. /\ r \in Table
      /\ r.expiry = [tb.expiry EXCEPT ![t] = e]
      /\ r.head = [tb.head EXCEPT ![b] = IF p = Null THEN t ELSE @]
      /\ r.earliest = tb.earliest
  BY <1>a DEF LinkedAs
<1>2. b \in Bucket
  BY BucketTyped, NeverTyped
<1>. HIDE DEF b
<1>3. ASSUME NEW k \in Bucket, r.head[k] = tb.head[k]
      PROVE  r.earliest[k] = EarliestOf(r, r.head[k])
  <2>1. tb.earliest[k] = EarliestOf(tb, tb.head[k])
    BY NeverTyped DEF Noted
  <2>2. tb.head[k] # t
    BY NullTyped, NeverTyped DEF Chained, HeadsStarted
  <2>. QED
    BY <1>1, <1>3, <2>1, <2>2 DEF EarliestOf, Table, Pointer
<1>4. \A k \in Bucket : p # Null \/ k # b => r.head[k] = tb.head[k]
  BY <1>1, <1>2 DEF Table
<1>. QED
  BY <1>3, <1>4 DEF Noted, r, b

LEMMA UnlinkedNoted ==
  ASSUME NEW tb \in Table, NEW t \in Timer, NEW except, Noted(tb, except)
  PROVE  Noted(Unlinked(tb, t), except)
<1>. DEFINE r == Unlinked(tb, t)
            n == tb.next[t]
            p == tb.prev[t]
            b == BucketOf(tb.expiry[t])
<1>1. /\ r \in Table
      /\ r.expiry = tb.expiry
      /\ r.head = [tb.head EXCEPT ![b] = IF p = Null THEN n ELSE @]
      /\ r.earliest = [tb.earliest EXCEPT ![b] =
           IF p = Null THEN EarliestOf(tb, n) ELSE tb.earliest[b]]
  BY UnlinkedFields DEF UnlinkedAs
<1>2. b \in Bucket
  BY BucketTyped, NeverTyped DEF Table
<1>. HIDE DEF b, n, p
<1>3. \A h : EarliestOf(r, h) = EarliestOf(tb, h)
  BY <1>1 DEF EarliestOf
<1>4. ASSUME NEW k \in Bucket \ {except}
      PROVE  r.earliest[k] = EarliestOf(r, r.head[k])
  <2>1. tb.earliest[k] = EarliestOf(tb, tb.head[k])
    BY DEF Noted
  <2>2. CASE k = b /\ p = Null
    BY <2>2, <1>1, <1>2, <1>3 DEF Table
  <2>3. CASE ~(k = b /\ p = Null)
    <3>1. r.head[k] = tb.head[k] /\ r.earliest[k] = tb.earliest[k]
      BY <2>3, <1>1, <1>2 DEF Table
    <3>. QED
      BY <3>1, <2>1, <1>3
  <2>. QED
    BY <2>2, <2>3
<1>. QED
  BY <1>4 DEF Noted, r

LEMMA AdvancedNoted ==
  ASSUME NEW tb \in Table, NEW b \in Bucket, NEW n \in Pointer, Noted(tb, b)
  PROVE  Noted(Advanced(tb, b, n), None)
<1>. DEFINE r == Advanced(tb, b, n)
<1>a. AdvancedAs(r, tb, b, n)
  BY AdvancedFields
<1>. HIDE DEF r
<1>1. /\ r \in Table
      /\ r.expiry = tb.expiry
      /\ r.head = [tb.head EXCEPT ![b] = n]
      /\ r.earliest = [tb.earliest EXCEPT ![b] = EarliestOf(tb, n)]
  BY <1>a DEF AdvancedAs
<1>. HIDE DEF r
<1>2. \A h : EarliestOf(r, h) = EarliestOf(tb, h)
  BY <1>1 DEF EarliestOf
<1>3. ASSUME NEW k \in Bucket
      PROVE  r.earliest[k] = EarliestOf(r, r.head[k])
  <2>1. CASE k = b
    BY <2>1, <1>1, <1>2 DEF Table
  <2>2. CASE k # b
    <3>1. r.head[k] = tb.head[k] /\ r.earliest[k] = tb.earliest[k]
      BY <2>2, <1>1 DEF Table
    <3>. QED
      BY <3>1, <2>2, <1>2 DEF Noted
  <2>. QED
    BY <2>1, <2>2
<1>. QED
  BY <1>3 DEF Noted, r

LEMMA ExpiredNoted ==
  ASSUME NEW tb \in Table, NEW t \in Timer, NEW except, Noted(tb, except)
  PROVE  Noted(Expired(tb, t), except)
<1>. DEFINE r == Expired(tb, t)
<1>1. r.expiry = tb.expiry /\ r.head = tb.head /\ r.earliest = tb.earliest
  BY ExpiredFields DEF ExpiredAs
<1>. QED
  BY <1>1 DEF Noted, EarliestOf, r

-----------------------------------------------------------------------------
(***************************************************************************)
(* The invariant holds initially.                                          *)
(***************************************************************************)

LEMMA InitInv == Init => Inv
<1>. SUFFICES ASSUME Init
              PROVE  Inv
  OBVIOUS
<1>1. table \in Table
  BY NeverTyped, TimerAssumption DEF Init, Table, Pointer, Word
<1>2. Idling \in [now : Word, left : 0 .. TIMERTABLESIZE, index : Bucket,
                  from : Word, routines : Seq(DpcTimers)]
  BY TimerAssumption DEF Idling, Word, Bucket
<1>3. TypeOK
  BY <1>1, <1>2, TimerAssumption DEF Init, TypeOK, Regions, Pointer, Word
<1>4. Open = None /\ First = Null /\ Unnoted = None
  BY DEF Init, Open, First, Unnoted
<1>5. Chained(table, None, Null)
  BY DEF Init, Chained, ForwardLinks, BackLinks, HeadsLeft, HeadsStarted,
         FirstStarted
<1>6. Noted(table, None)
  BY DEF Init, Noted, EarliestOf
<1>7. TrueTicks /\ CursorInv
  BY DEF Init, TrueTicks, CursorInv
<1>. QED
  BY <1>3, <1>4, <1>5, <1>6, <1>7 DEF Inv

-----------------------------------------------------------------------------
(***************************************************************************)
(* Every step keeps the invariant, as long as no tick count wraps.         *)
(***************************************************************************)

\* The calendar, for steps that change neither it nor what is open.
LEMMA CalendarStays ==
  ASSUME Inv, UNCHANGED <<table, due, request>>, Open' = Open, First' = First,
         Unnoted' = Unnoted
  PROVE  /\ Chained(table', Open', First')
         /\ Noted(table', Unnoted')
         /\ TrueTicks'
BY DEF Inv, TrueTicks

LEMMA TickInv ==
  ASSUME NoWrap, Inv, KeClockTick
  PROVE  Inv'
<1>1. /\ ticks \in Nat /\ ticks + 1 \in 0 .. MaxTicks
      /\ Wrapped(ticks + 1) = ticks + 1 /\ ticks + 1 \in Word
  BY TimerAssumption
     DEF NoWrap, Inv, TypeOK, KeClockTick, Wrapped, Never, Word
<1>2. TypeOK'
  <2>1. dpc' \in [enqueued : BOOLEAN, context1 : Word]
    <3>1. dpc' = dpc \/ dpc' = Enqueued(ticks + 1)
      BY <1>1 DEF KeClockTick
    <3>2. Enqueued(ticks + 1) \in [enqueued : BOOLEAN, context1 : Word]
      BY <1>1 DEF Enqueued
    <3>. QED
      BY <3>1, <3>2 DEF Inv, TypeOK
  <2>2. noticed' \in [Timer -> 0 .. MaxTicks]
    BY <1>1 DEF Inv, TypeOK, KeClockTick
  <2>3. ticks' \in 0 .. MaxTicks
    BY <1>1 DEF KeClockTick
  <2>. QED
    BY <2>1, <2>2, <2>3 DEF Inv, TypeOK, KeClockTick
<1>3. Open' = Open /\ First' = First /\ Unnoted' = Unnoted
  BY DEF KeClockTick, Open, First, Unnoted
<1>4. Chained(table', Open', First') /\ Noted(table', Unnoted') /\ TrueTicks'
  BY <1>3, CalendarStays DEF KeClockTick
<1>5. CursorInv'
  <2>1. scan.now \in Nat /\ ticks' = ticks + 1
    BY NeverTyped DEF Inv, TypeOK, KeClockTick
  <2>2. scan.now <= ticks => scan.now <= ticks'
    BY <1>1, <2>1
  <2>3. UNCHANGED <<region, cursor, table, scan>>
    BY DEF KeClockTick
  <2>. QED
    BY <2>2, <2>3 DEF Inv, CursorInv
<1>. QED
  BY <1>2, <1>4, <1>5 DEF Inv

LEMMA ComputeInv ==
  ASSUME NoWrap, Inv,
         NEW c \in Client, NEW t \in Timer, NEW ms \in Intervals,
         ComputeExpiry(c, t, ms)
  PROVE  Inv'
<1>1. /\ Rounded(ms) \in Delays
      /\ Rounded(ms) \in Nat /\ Rounded(ms) + ticks \in Nat
      /\ Rounded(ms) + ticks < Never
      /\ Rounded(ms) + ticks \in Word
      /\ Wrapped(Rounded(ms) + KiClockTicks) = Rounded(ms) + ticks
  <2>1. Rounded(ms) \in Delays
    BY DEF Delays
  <2>2. ticks \in 0 .. MaxTicks
    BY DEF Inv, TypeOK
  <2>3. KiClockTicks = ticks
    BY <2>2, ClockTyped
  <2>4. Rounded(ms) \in Nat /\ MaxTicks + Rounded(ms) < Never
    BY <2>1, TimerAssumption DEF NoWrap
  <2>. HIDE DEF Delays
  <2>. QED
    BY <2>1, <2>2, <2>3, <2>4, TimerAssumption DEF Wrapped, Never, Word
<1>. DEFINE q == [timer |-> t, expiry |-> Rounded(ms) + ticks,
                  due |-> Rounded(ms) + ticks]
<1>2. q \in Request
  BY <1>1 DEF Request
<1>3. request' = [request EXCEPT ![c] = q]
  BY <1>1 DEF ComputeExpiry
<1>4. request \in [Client -> Request \cup {Null}]
  BY DEF Inv, TypeOK
<1>5. q.expiry = q.due /\ q.expiry < Never
  BY <1>1
<1>. HIDE DEF q
<1>6. TypeOK'
  BY <1>2, <1>3, <1>4 DEF Inv, TypeOK, ComputeExpiry
<1>7. Open' = Open /\ First' = First /\ Unnoted' = Unnoted
  BY DEF ComputeExpiry, Open, First, Unnoted
<1>8. Chained(table', Open', First') /\ Noted(table', Unnoted')
  BY <1>7 DEF Inv, ComputeExpiry
<1>9. TrueTicks'
  BY <1>3, <1>4, <1>5 DEF Inv, TrueTicks, ComputeExpiry
<1>10. CursorInv'
  BY DEF Inv, CursorInv, ComputeExpiry
<1>. QED
  BY <1>6, <1>8, <1>9, <1>10 DEF Inv

LEMMA EnqueueInv ==
  ASSUME NoWrap, Inv, NEW c \in Client, KeTimerEnqueue(c)
  PROVE  Inv'
<1>. DEFINE t == request[c].timer
            e == request[c].expiry
<1>1. /\ request[c] \in Request
      /\ t \in Timer /\ e \in Word /\ e < Never /\ request[c].due = e
      /\ request[c].due \in Nat
  BY DEF Inv, TypeOK, TrueTicks, KeTimerEnqueue, Request
<1>2. /\ region = "low" /\ Open = None /\ First = Null /\ Unnoted = None
      /\ table \in Table /\ Chained(table, None, Null) /\ Noted(table, None)
      /\ due \in [Timer -> Nat]
      /\ request \in [Client -> Request \cup {Null}]
  BY DEF Inv, TypeOK, KeTimerEnqueue, Open, First, Unnoted
<1>3. CASE table.enqueued[t] /\ UNCHANGED <<table, region, cursor, due>>
  <2>1. TypeOK'
    BY <1>3 DEF Inv, TypeOK, KeTimerEnqueue
  <2>2. Open' = Open /\ First' = First /\ Unnoted' = Unnoted
    BY <1>3 DEF KeTimerEnqueue, Open, First, Unnoted
  <2>3. Chained(table', Open', First') /\ Noted(table', Unnoted')
    BY <1>3, <2>2 DEF Inv
  <2>4. TrueTicks'
    BY <1>2, <1>3 DEF Inv, TrueTicks, KeTimerEnqueue
  <2>5. CursorInv'
    BY <1>2, <1>3 DEF Inv, CursorInv, KeTimerEnqueue
  <2>. QED
    BY <2>1, <2>3, <2>4, <2>5 DEF Inv
<1>4. CASE /\ ~table.enqueued[t]
           /\ due' = [due EXCEPT ![t] = e]
           /\ \E p \in Pointer :
                /\ PlacedAfter(table, BucketOf(e), e, p)
                /\ table' = Linked(table, t, e, p)
                /\ region' = IF p = Null THEN "link" ELSE "low"
                /\ cursor' = IF p = Null THEN t ELSE Null
  <2>. PICK p \in Pointer :
         /\ PlacedAfter(table, BucketOf(e), e, p)
         /\ table' = Linked(table, t, e, p)
         /\ region' = IF p = Null THEN "link" ELSE "low"
         /\ cursor' = IF p = Null THEN t ELSE Null
    BY <1>4
  <2>0. UNCHANGED <<ticks, dpc, scan, noticed>>
        /\ request' = [request EXCEPT ![c] = Null]
    BY DEF KeTimerEnqueue
  <2>. HIDE DEF t, e
  <2>1. LinkedAs(table', table, t, e, p)
    BY <1>1, <1>2, LinkedFields
  <2>2. /\ table' \in Table
        /\ table'.enqueued = [table.enqueued EXCEPT ![t] = TRUE]
        /\ table'.expiry = [table.expiry EXCEPT ![t] = e]
        /\ p = Null => table'.head = [table.head EXCEPT ![BucketOf(e)] = t]
    BY <2>1 DEF LinkedAs
  <2>3. TypeOK'
    BY <2>0, <2>2, <1>1, <1>2, <1>4 DEF Inv, TypeOK, Regions, Pointer
  <2>4. Open' = None /\ First' = Null
    BY DEF Open, First
  <2>5. Chained(table', None, Null)
    BY <1>1, <1>2, <1>4, LinkedChained
  <2>6. Unnoted' = IF p = Null THEN BucketOf(e) ELSE None
    BY <2>2, <2>4, <1>1, <1>2 DEF Unnoted, Table
  <2>7. Noted(table', Unnoted')
    BY <2>6, <1>1, <1>2, <1>4, LinkedNoted
  <2>8. TrueTicks'
    <3>1. ASSUME NEW u \in Timer, table'.enqueued[u]
          PROVE  table'.expiry[u] = due'[u] /\ table'.expiry[u] < Never
      BY <3>1, <2>2, <1>1, <1>2, <1>4 DEF Inv, TrueTicks, Table
    <3>2. ASSUME NEW k \in Client, request'[k] # Null
          PROVE  request'[k].expiry = request'[k].due /\ request'[k].expiry < Never
      BY <3>2, <2>0, <1>2 DEF Inv, TrueTicks
    <3>. QED
      BY <3>1, <3>2 DEF TrueTicks
  <2>9. CursorInv'
    <3>1. BucketOf(e) \in Bucket
      BY <1>1, BucketTyped, NeverTyped
    <3>. QED
      BY <3>1, <2>2, <1>1, <1>2, NullTyped DEF CursorInv, Table
  <2>. QED
    BY <2>3, <2>4, <2>5, <2>7, <2>8, <2>9 DEF Inv
<1>. QED
  BY <1>1, <1>3, <1>4 DEF KeTimerEnqueue

LEMMA NoteInv ==
  ASSUME Inv, NoteEarliest
  PROVE  Inv'
<1>. DEFINE b == BucketOf(table.expiry[cursor])
            r == [table EXCEPT !.earliest[b] = table.expiry[cursor]]
<1>1. /\ region = "link" /\ cursor \in Timer
      /\ table \in Table /\ table.head[b] = cursor
      /\ table' = r
      /\ b \in Bucket /\ table.expiry[cursor] \in Word
      /\ Chained(table, None, Null) /\ Noted(table, b)
  BY BucketTyped, NeverTyped DEF Inv, TypeOK, NoteEarliest, CursorInv, Table,
     Pointer, Open, First, Unnoted
<1>2. /\ table' \in Table
      /\ table'.enqueued = table.enqueued /\ table'.expiry = table.expiry
      /\ table'.next = table.next /\ table'.prev = table.prev
      /\ table'.head = table.head
      /\ table'.earliest = [table.earliest EXCEPT ![b] = table.expiry[cursor]]
  BY <1>1 DEF Table
<1>. HIDE DEF r, b
<1>3. TypeOK'
  BY <1>2 DEF Inv, TypeOK, NoteEarliest, Regions, Pointer
<1>4. Open' = None /\ First' = Null /\ Unnoted' = None
  BY DEF NoteEarliest, Open, First, Unnoted
<1>5. Chained(table', None, Null)
  BY <1>1, <1>2 DEF Chained, ForwardLinks, BackLinks, HeadsLeft, HeadsStarted,
     FirstStarted
<1>6. Noted(table', None)
  BY <1>1, <1>2, NullTyped DEF Noted, EarliestOf, Table
<1>7. TrueTicks'
  BY <1>2 DEF Inv, TrueTicks, NoteEarliest
<1>8. CursorInv'
  BY DEF NoteEarliest, CursorInv
<1>. QED
  BY <1>3, <1>4, <1>5, <1>6, <1>7, <1>8 DEF Inv

\* What KeTimerDequeue leaves of an expiration under way.
LEMMA DequeueInv ==
  ASSUME Inv, NEW t \in Timer, KeTimerDequeue(t)
  PROVE  Inv'
<1>1. /\ table \in Table /\ table.enqueued[t]
      /\ region \in {"low", "satisfy", "routines"} /\ cursor \in Pointer
      /\ scan.index \in Bucket
      /\ Chained(table, Open, First) /\ Noted(table, Unnoted)
      /\ due' = [due EXCEPT ![t] = 0] /\ due \in [Timer -> Nat]
      /\ noticed' = [noticed EXCEPT ![t] = 0]
      /\ UNCHANGED <<ticks, request, dpc, region, cursor, scan>>
  BY DEF Inv, TypeOK, KeTimerDequeue
<1>2. table' = Unlinked(table, t)
  BY DEF KeTimerDequeue
<1>a. UnlinkedAs(table', table, t)
  BY <1>1, <1>2, UnlinkedFields
<1>3. /\ table' \in Table
      /\ table'.enqueued = [table.enqueued EXCEPT ![t] = FALSE]
      /\ table'.expiry = table.expiry
      /\ table'.next = [u \in Timer |-> IF u = table.prev[t] THEN table.next[t]
                                        ELSE table.next[u]]
      /\ table'.prev = [u \in Timer |-> IF u = table.next[t] THEN table.prev[t]
                                        ELSE table.prev[u]]
  BY <1>a DEF UnlinkedAs
<1>4. TypeOK'
  BY <1>1, <1>3, TimerAssumption DEF Inv, TypeOK
<1>5. Open' = Open /\ Unnoted' = Unnoted /\ Unnoted = Open
  BY <1>1 DEF Open, Unnoted
<1>6. Noted(table', Unnoted')
  BY <1>1, <1>2, <1>5, UnlinkedNoted
<1>7. TrueTicks'
  BY <1>1, <1>3 DEF Inv, TrueTicks, Table
<1>8. Chained(table', Open', First') /\ CursorInv'
  <2>1. CASE region # "satisfy"
    <3>1. Open = None /\ First = Null /\ First' = Null
      BY <2>1, <1>1 DEF Open, First
    <3>2. Chained(table', Open', First')
      BY <3>1, <1>1, <1>2, <1>5, NullTyped, UnlinkedChained DEF Pointer
    <3>3. CursorInv'
      BY <2>1, <1>1 DEF Inv, CursorInv
    <3>. QED
      BY <3>2, <3>3
  <2>2. CASE region = "satisfy"
    <3>1. /\ Open = scan.index /\ First = table.next[cursor]
          /\ cursor \in Timer /\ ~table.enqueued[cursor] /\ scan.left > 0
          /\ First # Null => First \in Timer /\ table.prev[First] = cursor
          /\ scan.now <= ticks
          /\ First' = table'.next[cursor]
      BY <2>2, <1>1 DEF Inv, CursorInv, Open, First, Pointer, Table
    <3>2. t # cursor
      BY <3>1, <1>1
    <3>3. CASE t = First
      <4>1. First' = table.next[First]
        BY <3>1, <3>3, <1>3, NullTyped
      <4>2. Chained(table', Open', First')
        BY <3>1, <3>3, <4>1, <1>1, <1>2, <1>5, FirstUnlinkedChained
      <4>3. First' # Null => table'.prev[First'] = cursor
        BY <3>1, <3>3, <4>1, <1>1, <1>3, NullTyped DEF Table, Pointer
      <4>4. CursorInv'
        BY <3>1, <3>2, <4>3, <2>2, <1>1, <1>3, NullTyped DEF CursorInv, Table
      <4>. QED
        BY <4>2, <4>4
    <3>4. CASE t # First
      <4>1. table.prev[t] # cursor
        BY <3>1, <3>4, <1>1, NullTyped DEF Chained, BackLinks
      <4>2. First' = First
        BY <3>1, <4>1, <1>3
      <4>3. Chained(table', Open', First')
        <5>1. First \in Pointer
          BY <3>1, <1>1 DEF Table
        <5>. QED
          BY <3>1, <3>4, <4>2, <5>1, <1>1, <1>2, <1>5, UnlinkedChained
      <4>4. First # Null => table.next[t] # First
        BY <3>1, <3>2, <1>1, NullTyped DEF Chained, ForwardLinks
      <4>5. First' # Null => table'.prev[First'] = cursor
        BY <3>1, <4>2, <4>4, <1>3
      <4>6. CursorInv'
        BY <3>1, <3>2, <4>5, <2>2, <1>1, <1>3, NullTyped DEF CursorInv, Table
      <4>. QED
        BY <4>3, <4>6
    <3>. QED
      BY <3>3, <3>4
  <2>. QED
    BY <2>1, <2>2
<1>. QED
  BY <1>4, <1>6, <1>7, <1>8 DEF Inv

\* Resetting and initializing a timer that is not started.
LEMMA ResetInv ==
  ASSUME Inv, NEW t \in Timer, KeTimerReset(t)
  PROVE  Inv'
<1>1. /\ table' \in Table
      /\ table'.enqueued = table.enqueued /\ table'.expiry = table.expiry
      /\ table'.next = table.next /\ table'.prev = table.prev
      /\ table'.head = table.head /\ table'.earliest = table.earliest
  BY DEF Inv, TypeOK, KeTimerReset, Table
<1>2. region = "low" /\ UNCHANGED <<ticks, request, dpc, region, cursor, scan,
                                    due, noticed>>
  BY DEF KeTimerReset
<1>3. TypeOK'
  BY <1>1, <1>2 DEF Inv, TypeOK
<1>4. /\ Open = None /\ First = Null /\ Unnoted = None
      /\ Open' = None /\ First' = Null /\ Unnoted' = None
  BY <1>2 DEF Open, First, Unnoted
<1>5. Chained(table', None, Null)
  BY <1>1, <1>4 DEF Inv, Chained, ForwardLinks, BackLinks, HeadsLeft,
     HeadsStarted, FirstStarted
<1>6. Noted(table', None)
  BY <1>1, <1>4 DEF Inv, Noted, EarliestOf
<1>7. TrueTicks' /\ CursorInv'
  BY <1>1, <1>2 DEF Inv, TrueTicks, CursorInv
<1>. QED
  BY <1>3, <1>4, <1>5, <1>6, <1>7 DEF Inv

LEMMA InitializeInv ==
  ASSUME Inv, NEW t \in Timer, KeTimerInitialize(t)
  PROVE  Inv'
<1>0. ~table.enqueued[t] /\ table \in Table
  BY DEF Inv, TypeOK, KeTimerInitialize
<1>1. /\ table' \in Table
      /\ table'.enqueued = table.enqueued /\ table'.expiry = table.expiry
      /\ table'.next = [table.next EXCEPT ![t] = Null]
      /\ table'.prev = [table.prev EXCEPT ![t] = Null]
      /\ table'.head = table.head /\ table'.earliest = table.earliest
  BY <1>0 DEF KeTimerInitialize, Table, Pointer
<1>2. region = "low" /\ UNCHANGED <<ticks, request, dpc, region, cursor, scan,
                                    due, noticed>>
  BY DEF KeTimerInitialize
<1>3. TypeOK'
  BY <1>1, <1>2 DEF Inv, TypeOK
<1>4. /\ Open = None /\ First = Null /\ Unnoted = None
      /\ Open' = None /\ First' = Null /\ Unnoted' = None
  BY <1>2 DEF Open, First, Unnoted
<1>5. Chained(table', None, Null)
  <2>0. Chained(table, None, Null)
    BY <1>4 DEF Inv
  <2>1. \A u \in Timer : table.enqueued[u] =>
          /\ table'.next[u] = table.next[u] /\ table'.prev[u] = table.prev[u]
    BY <1>0, <1>1 DEF Table
  <2>2. ForwardLinks(table')
    <3>. SUFFICES ASSUME NEW u \in Timer, table'.enqueued[u], table'.next[u] # Null
                  PROVE  LET n == table'.next[u]
                         IN  /\ table'.enqueued[n] /\ table'.prev[n] = u
                             /\ BucketOf(table'.expiry[n]) = BucketOf(table'.expiry[u])
                             /\ table'.expiry[u] <= table'.expiry[n]
      BY DEF ForwardLinks
    <3>. DEFINE n == table.next[u]
    <3>1. table'.next[u] = n /\ n \in Timer /\ table.enqueued[u]
      BY <1>0, <1>1, <2>1 DEF Table, Pointer
    <3>2. /\ table.enqueued[n] /\ table.prev[n] = u
          /\ BucketOf(table.expiry[n]) = BucketOf(table.expiry[u])
          /\ table.expiry[u] <= table.expiry[n]
      BY <2>0, <3>1, NullTyped DEF Chained, ForwardLinks
    <3>. QED
      BY <1>1, <2>1, <3>1, <3>2
  <2>3. BackLinks(table', Null)
    <3>. SUFFICES ASSUME NEW u \in Timer, table'.enqueued[u], table'.prev[u] # Null
                  PROVE  /\ table'.enqueued[table'.prev[u]]
                         /\ table'.next[table'.prev[u]] = u
      BY DEF BackLinks
    <3>. DEFINE p == table.prev[u]
    <3>1. table'.prev[u] = p /\ p \in Timer /\ table.enqueued[u]
      BY <1>0, <1>1, <2>1 DEF Table, Pointer
    <3>2. table.enqueued[p] /\ table.next[p] = u
      BY <2>0, <3>1, NullTyped DEF Chained, BackLinks
    <3>. QED
      BY <1>1, <2>1, <3>1, <3>2
  <2>4. HeadsLeft(table', None, Null)
    BY <2>0, <2>1, <1>1 DEF Chained, HeadsLeft
  <2>5. HeadsStarted(table', None)
    <3>. SUFFICES ASSUME NEW b \in Bucket, table'.head[b] # Null
                  PROVE  /\ table'.enqueued[table'.head[b]]
                         /\ table'.prev[table'.head[b]] = Null
                         /\ BucketOf(table'.expiry[table'.head[b]]) = b
      BY DEF HeadsStarted
    <3>1. table.head[b] \in Timer
      BY <1>0, <1>1 DEF Table, Pointer
    <3>. QED
      BY <3>1, <2>0, <2>1, <1>1, NeverTyped DEF Chained, HeadsStarted
  <2>. QED
    BY <2>2, <2>3, <2>4, <2>5 DEF Chained, FirstStarted
<1>6. Noted(table', None)
  BY <1>1, <1>4 DEF Inv, Noted, EarliestOf
<1>7. TrueTicks' /\ CursorInv'
  BY <1>1, <1>2 DEF Inv, TrueTicks, CursorInv
<1>. QED
  BY <1>3, <1>4, <1>5, <1>6, <1>7 DEF Inv

-----------------------------------------------------------------------------
(***************************************************************************)
(* The steps of the expiration DPC.                                        *)
(***************************************************************************)

LEMMA DispatchInv ==
  ASSUME NoWrap, Inv, KiDPCDispatchQueue
  PROVE  Inv'
<1>1. TypeOK'
  BY DEF Inv, TypeOK, KiDPCDispatchQueue, Regions
<1>2. Open' = Open /\ First' = First /\ Unnoted' = Unnoted
  BY DEF KiDPCDispatchQueue, Open, First, Unnoted
<1>3. Chained(table', Open', First') /\ Noted(table', Unnoted') /\ TrueTicks'
  BY <1>2, CalendarStays DEF KiDPCDispatchQueue
<1>4. CursorInv'
  BY DEF CursorInv, KiDPCDispatchQueue
<1>. QED
  BY <1>1, <1>3, <1>4 DEF Inv

LEMMA ExpirationInv ==
  ASSUME NoWrap, Inv, KiTimerExpiration
  PROVE  Inv'
<1>1. KiClockTicks = ticks /\ ticks \in Word /\ scan.from \in Word
  BY ClockTyped DEF Inv, TypeOK
<1>2. BucketOf(scan.from) \in Bucket
  BY <1>1, BucketTyped, NeverTyped
<1>3. BucketsDue(scan.from, ticks) \in 0 .. TIMERTABLESIZE
  BY <1>1, TimerAssumption DEF BucketsDue, TicksFrom, Word
<1>4. TypeOK'
  BY <1>1, <1>2, <1>3 DEF Inv, TypeOK, KiTimerExpiration, Regions
<1>5. Open' = Open /\ First' = First /\ Unnoted' = Unnoted
  BY DEF KiTimerExpiration, Open, First, Unnoted
<1>6. Chained(table', Open', First') /\ Noted(table', Unnoted') /\ TrueTicks'
  BY <1>5, CalendarStays DEF KiTimerExpiration
<1>7. CursorInv'
  <2>1. scan'.now = ticks /\ ticks' = ticks /\ region' = "scan"
    BY <1>1 DEF Inv, TypeOK, KiTimerExpiration
  <2>2. ticks <= ticks
    BY <1>1, NeverTyped
  <2>. QED
    BY <2>1, <2>2 DEF CursorInv
<1>. QED
  BY <1>4, <1>6, <1>7 DEF Inv

LEMMA NextBucketTyped ==
  ASSUME TypeOK, scan.left > 0
  PROVE  /\ NextBucket(scan) \in [now : Word, left : 0 .. TIMERTABLESIZE,
                                  index : Bucket, from : Word,
                                  routines : Seq(DpcTimers)]
         /\ NextBucket(scan).now = scan.now
<1>1. scan.index + 1 \in Nat /\ scan.left - 1 \in 0 .. TIMERTABLESIZE
  BY TimerAssumption DEF TypeOK, Bucket
<1>2. BucketOf(scan.index + 1) \in Bucket
  BY <1>1, BucketTyped
<1>. QED
  BY <1>1, <1>2 DEF TypeOK, NextBucket

LEMMA ScanInv ==
  ASSUME NoWrap, Inv, ScanBucket
  PROVE  Inv'
<1>1. /\ region = "scan" /\ scan.left > 0
      /\ table \in Table /\ scan.index \in Bucket /\ scan.now \in Nat
      /\ ticks \in Nat /\ ticks < Never /\ scan.now <= ticks
      /\ UNCHANGED <<ticks, table, request, dpc, due, noticed>>
  BY ClockTyped, NeverTyped DEF Inv, TypeOK, ScanBucket, CursorInv
<1>2. /\ Open = None /\ First = Null /\ Unnoted = None
      /\ Chained(table, None, Null) /\ Noted(table, None)
  BY <1>1 DEF Inv, Open, First, Unnoted
<1>3. TrueTicks'
  BY <1>1 DEF Inv, TrueTicks
<1>4. CASE HasCome(table.earliest[scan.index], scan.now)
  <2>. DEFINE h == table.head[scan.index]
  <2>1. cursor' = h /\ region' = "expire" /\ scan' = scan
    BY <1>4 DEF ScanBucket
  <2>2. table.earliest[scan.index] = EarliestOf(table, h) /\ h \in Pointer
    BY <1>1, <1>2, NeverTyped DEF Noted, Table
  <2>3. h # Null
    BY <2>2, <1>1, <1>4, NeverTyped DEF HasCome, EarliestOf
  <2>4. h \in Timer /\ table.expiry[h] <= scan.now
    BY <2>2, <2>3, <1>4 DEF HasCome, EarliestOf, Pointer
  <2>5. Chained(table, scan.index, h)
    BY <1>1, <1>2, <2>3, OpenedChained
  <2>6. table.enqueued[h]
    BY <2>3, <2>5 DEF Chained, FirstStarted
  <2>. HIDE DEF h
  <2>7. TypeOK'
    BY <2>1, <2>2, <1>1 DEF Inv, TypeOK, Regions
  <2>8. Open' = scan.index /\ First' = h /\ Unnoted' = scan.index
    BY <2>1 DEF Open, First, Unnoted
  <2>9. Chained(table', Open', First') /\ Noted(table', Unnoted')
    BY <2>5, <2>8, <1>1, <1>2, NeverTyped DEF Noted
  <2>10. CursorInv'
    BY <2>1, <2>3, <2>4, <2>6, <1>1 DEF CursorInv
  <2>. QED
    BY <2>7, <2>9, <2>10, <1>3 DEF Inv
<1>5. CASE ~HasCome(table.earliest[scan.index], scan.now)
  <2>1. scan' = NextBucket(scan) /\ UNCHANGED <<cursor, region>>
    BY <1>5 DEF ScanBucket
  <2>2. TypeOK'
    BY <2>1, <1>1, NextBucketTyped DEF Inv, TypeOK
  <2>3. Open' = None /\ First' = Null /\ Unnoted' = None
    BY <2>1, <1>1 DEF Open, First, Unnoted
  <2>4. CursorInv'
    BY <2>1, <1>1, NextBucketTyped DEF Inv, CursorInv
  <2>. QED
    BY <2>2, <2>3, <2>4, <1>1, <1>2, <1>3 DEF Inv
<1>. QED
  BY <1>4, <1>5

LEMMA ExpireInv ==
  ASSUME NoWrap, Inv, ExpireTimer
  PROVE  Inv'
<1>1. /\ region = "expire" /\ cursor \in Timer /\ table \in Table
      /\ scan.index \in Bucket /\ scan.left > 0 /\ scan.now <= ticks
      /\ Open = scan.index /\ First = cursor /\ Unnoted = scan.index
      /\ Chained(table, scan.index, cursor) /\ Noted(table, scan.index)
      /\ due \in [Timer -> Nat] /\ noticed \in [Timer -> 0 .. MaxTicks]
  BY DEF Inv, TypeOK, ExpireTimer, CursorInv, Pointer, Open, First, Unnoted
<1>2. /\ table' = Expired(table, cursor) /\ region' = "satisfy"
      /\ due' = [due EXCEPT ![cursor] = 0]
      /\ noticed' = [noticed EXCEPT ![cursor] = 0]
      /\ UNCHANGED <<ticks, request, dpc, cursor>>
  BY DEF ExpireTimer
<1>a. ExpiredAs(table', table, cursor)
  BY <1>1, <1>2, ExpiredFields
<1>3. /\ table' \in Table
      /\ table'.enqueued = [table.enqueued EXCEPT ![cursor] = FALSE]
      /\ table'.expiry = table.expiry
      /\ table'.next = table.next
  BY <1>a DEF ExpiredAs
<1>4. /\ scan' \in [now : Word, left : 0 .. TIMERTABLESIZE, index : Bucket,
                    from : Word, routines : Seq(DpcTimers)]
      /\ scan'.now = scan.now /\ scan'.left = scan.left /\ scan'.index = scan.index
  <2>1. CASE cursor \in DpcTimers
    <3>1. scan' = [scan EXCEPT !.routines = <<cursor>> \o @]
      BY <2>1 DEF ExpireTimer
    <3>2. <<cursor>> \o scan.routines \in Seq(DpcTimers)
      BY <2>1 DEF Inv, TypeOK
    <3>. QED
      BY <3>1, <3>2 DEF Inv, TypeOK
  <2>2. CASE cursor \notin DpcTimers
    BY <2>2 DEF Inv, TypeOK, ExpireTimer
  <2>. QED
    BY <2>1, <2>2
<1>5. TypeOK'
  BY <1>1, <1>2, <1>3, <1>4, TimerAssumption DEF Inv, TypeOK, Regions
<1>6. Open' = scan.index /\ First' = table.next[cursor] /\ Unnoted' = scan.index
  BY <1>2, <1>3, <1>4 DEF Open, First, Unnoted
<1>7. /\ Chained(table', scan.index, table.next[cursor])
      /\ ~table'.enqueued[cursor]
      /\ table.next[cursor] # Null => table'.prev[table.next[cursor]] = cursor
  BY <1>1, <1>2, ExpiredChained
<1>8. Noted(table', scan.index)
  BY <1>1, <1>2, ExpiredNoted
<1>9. TrueTicks'
  BY <1>1, <1>2, <1>3 DEF Inv, TrueTicks, Table
<1>10. CursorInv'
  BY <1>1, <1>2, <1>3, <1>4, <1>7, NullTyped DEF CursorInv
<1>. QED
  BY <1>5, <1>6, <1>7, <1>8, <1>9, <1>10 DEF Inv

LEMMA AdvanceInv ==
  ASSUME NoWrap, Inv, AdvanceTimer
  PROVE  Inv'
<1>. DEFINE n == table.next[cursor]
<1>1. /\ region = "satisfy" /\ cursor \in Timer /\ table \in Table
      /\ scan.index \in Bucket /\ scan.left > 0 /\ scan.now <= ticks
      /\ Open = scan.index /\ First = n /\ Unnoted = scan.index
      /\ Chained(table, scan.index, n) /\ Noted(table, scan.index)
      /\ n \in Pointer
      /\ n # Null => table.enqueued[n]
      /\ UNCHANGED <<ticks, request, dpc, due, noticed>>
  BY DEF Inv, TypeOK, AdvanceTimer, CursorInv, Pointer, Open, First, Unnoted,
     Table, Chained, FirstStarted
<1>2. CASE n # Null /\ HasCome(table.expiry[n], scan.now)
  <2>1. cursor' = n /\ region' = "expire" /\ UNCHANGED <<table, scan>>
    BY <1>2 DEF AdvanceTimer
  <2>. HIDE DEF n
  <2>2. TypeOK'
    BY <2>1, <1>1 DEF Inv, TypeOK, Regions
  <2>3. Open' = scan.index /\ First' = n /\ Unnoted' = scan.index
    BY <2>1 DEF Open, First, Unnoted
  <2>4. TrueTicks'
    BY <2>1, <1>1 DEF Inv, TrueTicks
  <2>5. CursorInv'
    BY <2>1, <1>1, <1>2 DEF CursorInv, HasCome
  <2>. QED
    BY <2>1, <2>2, <2>3, <2>4, <2>5, <1>1 DEF Inv
<1>3. CASE ~(n # Null /\ HasCome(table.expiry[n], scan.now))
  <2>1. /\ table' = Advanced(table, scan.index, n)
        /\ scan' = NextBucket(scan) /\ cursor' = Null /\ region' = "scan"
    BY <1>3 DEF AdvanceTimer
  <2>. HIDE DEF n
  <2>a. AdvancedAs(table', table, scan.index, n)
    BY <2>1, <1>1, AdvancedFields
  <2>2. /\ table' \in Table
        /\ table'.enqueued = table.enqueued /\ table'.expiry = table.expiry
    BY <2>a DEF AdvancedAs
  <2>3. TypeOK'
    BY <2>1, <2>2, <1>1, NextBucketTyped DEF Inv, TypeOK, Regions, Pointer
  <2>4. Open' = None /\ First' = Null /\ Unnoted' = None
    BY <2>1 DEF Open, First, Unnoted
  <2>5. Chained(table', None, Null) /\ Noted(table', None)
    BY <2>1, <1>1, AdvancedChained, AdvancedNoted
  <2>6. TrueTicks'
    BY <2>2, <1>1 DEF Inv, TrueTicks
  <2>7. CursorInv'
    BY <2>1, <1>1, NextBucketTyped DEF Inv, CursorInv
  <2>. QED
    BY <2>3, <2>4, <2>5, <2>6, <2>7 DEF Inv
<1>. QED
  BY <1>2, <1>3

LEMMA FinishInv ==
  ASSUME NoWrap, Inv, ScanDone \/ RunRoutine \/ ExpirationDone
  PROVE  Inv'
<1>1. Idling \in [now : Word, left : 0 .. TIMERTABLESIZE, index : Bucket,
                  from : Word, routines : Seq(DpcTimers)]
  BY TimerAssumption DEF Idling, Word, Bucket
<1>2. TypeOK'
  <2>1. CASE ScanDone
    BY <2>1 DEF Inv, TypeOK, ScanDone, Regions
  <2>2. CASE RunRoutine
    <3>1. Tail(scan.routines) \in Seq(DpcTimers)
      BY <2>2 DEF Inv, TypeOK, RunRoutine
    <3>. QED
      BY <2>2, <3>1 DEF Inv, TypeOK, RunRoutine
  <2>3. CASE ExpirationDone
    BY <2>3, <1>1 DEF Inv, TypeOK, ExpirationDone, Regions
  <2>. QED
    BY <2>1, <2>2, <2>3
<1>3. Open' = Open /\ First' = First /\ Unnoted' = Unnoted
  BY DEF ScanDone, RunRoutine, ExpirationDone, Open, First, Unnoted
<1>4. Chained(table', Open', First') /\ Noted(table', Unnoted') /\ TrueTicks'
  BY <1>3, CalendarStays DEF ScanDone, RunRoutine, ExpirationDone
<1>5. CursorInv'
  BY DEF CursorInv, ScanDone, RunRoutine, ExpirationDone
<1>. QED
  BY <1>2, <1>4, <1>5 DEF Inv

LEMMA StepInv ==
  ASSUME NoWrap, Inv, [Next]_vars
  PROVE  Inv'
<1>1. CASE UNCHANGED vars
  BY <1>1 DEF vars, Inv, TypeOK, Chained, ForwardLinks, BackLinks, HeadsLeft,
     HeadsStarted, FirstStarted, Noted, TrueTicks, CursorInv, Open, First,
     Unnoted, EarliestOf
<1>2. CASE Next
  BY <1>2, TickInv, ComputeInv, EnqueueInv, NoteInv, DequeueInv, ResetInv,
     InitializeInv, DispatchInv, ExpirationInv, ScanInv, ExpireInv, AdvanceInv,
     FinishInv
     DEF Next, Expiration
<1>. QED
  BY <1>1, <1>2

LEMMA InvHolds == NoWrap /\ Spec => []Inv
<1>1. NoWrap /\ Inv /\ [Next]_vars => Inv'
  BY StepInv
<1>2. NoWrap => NoWrap'
  BY DEF NoWrap
<1>. QED
  BY <1>1, <1>2, InitInv, PTL DEF Spec

-----------------------------------------------------------------------------
(***************************************************************************)
(* The theorems.                                                           *)
(***************************************************************************)

\* Every variable keeps its type: no tick count leaves its word, and the scan
\* covers at most one turn of the table (KeTimer.df:242).
THEOREM TypeCorrect == NoWrap /\ Spec => []TypeOK
<1>1. Inv => TypeOK
  BY DEF Inv
<1>. QED
  BY <1>1, InvHolds, PTL

\* The expiration only meets started timers (the assertion at KeTimer.df:262),
\* whatever timers the waiters it wakes cancel.
THEOREM OnlyStartedTimersExpire == NoWrap /\ Spec => []ExpiresStartedTimers
<1>1. Inv => ExpiresStartedTimers
  BY DEF Inv, CursorInv, ExpiresStartedTimers
<1>. QED
  BY <1>1, InvHolds, PTL

\* The tick that the clock interrupt reads of a bucket is the expiry of the
\* bucket's first timer.
THEOREM EarliestStaysExact == NoWrap /\ Spec => []EarliestExact
<1>1. ASSUME Inv PROVE EarliestExact
  <2>. SUFFICES ASSUME NEW b \in Bucket, ~Scanned(b),
                       ~(region = "link" /\ b = BucketOf(table.expiry[cursor]))
                PROVE  table.earliest[b] = EarliestOf(table, table.head[b])
    BY DEF EarliestExact
  <2>1. b # Unnoted
    BY NeverTyped DEF Unnoted, Open, Scanned
  <2>. QED
    BY <1>1, <2>1 DEF Inv, Noted
<1>. QED
  BY <1>1, InvHolds, PTL

-----------------------------------------------------------------------------
(***************************************************************************)
(* Each step is a step of TimerService or changes nothing there.           *)
(***************************************************************************)

\* What a client and a timer of TimerService are here.
WantedOf(r) == IF r = Null THEN Null ELSE [timer |-> r.timer, due |-> r.due]
Wanted == [c \in Client |-> WantedOf(request[c])]
Armed  == [t \in Timer |-> IF table.enqueued[t] THEN due[t] ELSE Null]

LEMMA WantedTyped == \A r \in Request : r # Null /\ WantedOf(r) # Null
<1>. SUFFICES ASSUME NEW r \in Request PROVE r # Null /\ WantedOf(r) # Null
  OBVIOUS
<1>1. r \in [timer : Timer, expiry : Nat, due : Nat]
  BY NeverTyped DEF Request
<1>2. r # Null
  BY <1>1, TimerAssumption
<1>3. [timer |-> r.timer, due |-> r.due] \in [timer : Timer, due : Nat]
  BY <1>1
<1>4. [timer |-> r.timer, due |-> r.due] # Null
  BY <1>3, TimerAssumption
<1>. QED
  BY <1>2, <1>4 DEF WantedOf

LEMMA TickStep ==
  ASSUME KeClockTick
  PROVE  TimerContract!Tick
BY DEF KeClockTick, TimerContract!Tick

LEMMA AskStep ==
  ASSUME NoWrap, Inv, NEW c \in Client, NEW t \in Timer, NEW ms \in Intervals,
         ComputeExpiry(c, t, ms)
  PROVE  TimerContract!Ask(c, t, Rounded(ms))
<1>. DEFINE n == Rounded(ms)
            q == [timer |-> t, expiry |-> n + ticks, due |-> n + ticks]
            w == [timer |-> t, due |-> ticks + n]
<1>1. n \in Nat /\ ticks \in Nat /\ n + ticks \in Word
      /\ Wrapped(n + KiClockTicks) = n + ticks
  <2>1. n \in Delays
    BY DEF Delays
  <2>2. ticks \in 0 .. MaxTicks
    BY DEF Inv, TypeOK
  <2>3. KiClockTicks = ticks
    BY <2>2, ClockTyped
  <2>4. n \in Nat /\ MaxTicks + n < Never
    BY <2>1, TimerAssumption DEF NoWrap
  <2>. HIDE DEF n, Delays
  <2>. QED
    BY <2>2, <2>3, <2>4, TimerAssumption DEF Wrapped, Never, Word
<1>2. q \in Request
  BY <1>1 DEF Request
<1>3. request[c] = Null /\ request' = [request EXCEPT ![c] = q]
  BY <1>1 DEF ComputeExpiry
<1>4. request \in [Client -> Request \cup {Null}]
  BY DEF Inv, TypeOK
<1>5. q # Null /\ WantedOf(q) = w
  <2>1. q.timer = t /\ q.due = ticks + n
    BY <1>1
  <2>2. q # Null
    BY <1>2, WantedTyped
  <2>. QED
    BY <2>1, <2>2 DEF WantedOf
<1>. HIDE DEF q, w
<1>6. Wanted[c] = Null /\ Wanted' = [Wanted EXCEPT ![c] = w]
  BY <1>3, <1>4, <1>5 DEF Wanted, WantedOf
<1>. QED
  BY <1>6 DEF ComputeExpiry, TimerContract!Ask, Wanted, WantedOf, w

\* A timer is armed when it is on the calendar.
LEMMA ArmedTyped ==
  ASSUME Inv, NEW t \in Timer
  PROVE  /\ Armed[t] # Null <=> table.enqueued[t]
         /\ table.enqueued[t] => Armed[t] = due[t]
<1>1. due[t] \in Nat /\ table.enqueued[t] \in BOOLEAN
  BY DEF Inv, TypeOK, Table
<1>. QED
  BY <1>1, NullTyped DEF Armed

LEMMA StartStep ==
  ASSUME Inv, NEW c \in Client, KeTimerEnqueue(c)
  PROVE  TimerContract!Start(c)
<1>. DEFINE t == request[c].timer
            e == request[c].expiry
            d == request[c].due
<1>1. /\ request \in [Client -> Request \cup {Null}]
      /\ table \in Table /\ due \in [Timer -> Nat]
  BY DEF Inv, TypeOK
<1>2. request[c] # Null /\ request[c] \in Request
  BY <1>1 DEF KeTimerEnqueue
<1>3. t \in Timer /\ e \in Word /\ d \in Nat
  BY <1>2 DEF Request
<1>4. Wanted[c] = [timer |-> t, due |-> d]
  BY <1>2 DEF Wanted, WantedOf
<1>5. Wanted[c] # Null
  BY <1>2, WantedTyped DEF Wanted
<1>6. Wanted' = [Wanted EXCEPT ![c] = Null]
  BY <1>1 DEF KeTimerEnqueue, Wanted, WantedOf
<1>7. Armed' = IF Armed[t] = Null THEN [Armed EXCEPT ![t] = d] ELSE Armed
  <2>1. CASE table.enqueued[t]
    BY <2>1, <1>3, ArmedTyped DEF KeTimerEnqueue, Armed
  <2>2. CASE ~table.enqueued[t]
    <3>1. PICK p \in Pointer : table' = Linked(table, t, e, p)
      BY <2>2 DEF KeTimerEnqueue
    <3>2. LinkedAs(table', table, t, e, p)
      BY <3>1, <1>1, <1>3, LinkedFields
    <3>3. /\ table'.enqueued = [table.enqueued EXCEPT ![t] = TRUE]
          /\ table.enqueued \in [Timer -> BOOLEAN]
      BY <3>2, <1>1 DEF LinkedAs, Table
    <3>4. due' = [due EXCEPT ![t] = d]
      BY <2>2 DEF KeTimerEnqueue
    <3>5. Armed[t] = Null
      BY <2>2, <1>3, ArmedTyped
    <3>. HIDE DEF t, d
    <3>. QED
      BY <3>3, <3>4, <3>5, <1>1, <1>3 DEF Armed
  <2>. QED
    BY <2>1, <2>2
<1>8. table'.signaled = table.signaled
  <2>1. CASE table.enqueued[t]
    BY <2>1 DEF KeTimerEnqueue
  <2>2. CASE ~table.enqueued[t]
    <3>1. PICK p \in Pointer : table' = Linked(table, t, e, p)
      BY <2>2 DEF KeTimerEnqueue
    <3>2. LinkedAs(table', table, t, e, p)
      BY <3>1, <1>1, <1>3, LinkedFields
    <3>. QED
      BY <3>2 DEF LinkedAs
  <2>. QED
    BY <2>1, <2>2
<1>9. Wanted[c].timer = t /\ Wanted[c].due = d
  BY <1>4
<1>. HIDE DEF t, d, e
<1>. QED
  BY <1>5, <1>6, <1>7, <1>8, <1>9
     DEF KeTimerEnqueue, TimerContract!Start, Wanted, WantedOf, Armed

\* A timer leaves the calendar.
LEMMA Disarmed ==
  ASSUME Inv, NEW t \in Timer, due' = [due EXCEPT ![t] = 0],
         table'.enqueued = [table.enqueued EXCEPT ![t] = FALSE]
  PROVE  Armed' = [Armed EXCEPT ![t] = Null]
<1>1. due \in [Timer -> Nat] /\ table.enqueued \in [Timer -> BOOLEAN]
  BY DEF Inv, TypeOK, Table
<1>. QED
  BY <1>1 DEF Armed

LEMMA CancelStep ==
  ASSUME Inv, NEW t \in Timer, KeTimerDequeue(t)
  PROVE  TimerContract!Cancel(t)
<1>1. UnlinkedAs(table', table, t)
  BY UnlinkedFields DEF KeTimerDequeue, Inv, TypeOK
<1>2. /\ table'.enqueued = [table.enqueued EXCEPT ![t] = FALSE]
      /\ table'.signaled = table.signaled
  BY <1>1 DEF UnlinkedAs
<1>3. Armed' = [Armed EXCEPT ![t] = Null]
  BY <1>2, Disarmed DEF KeTimerDequeue
<1>4. Armed[t] # Null
  BY ArmedTyped DEF KeTimerDequeue
<1>. QED
  BY <1>2, <1>3, <1>4 DEF KeTimerDequeue, TimerContract!Cancel, Armed

LEMMA ExpireStep ==
  ASSUME Inv, ExpireTimer
  PROVE  \E t \in Timer : TimerContract!Expire(t)
<1>. PICK t \in Pointer : t = cursor
  BY DEF Inv, TypeOK
<1>1. /\ t \in Timer /\ table.enqueued[t]
      /\ table.expiry[t] <= scan.now
      /\ table.expiry[t] = due[t] /\ scan.now <= ticks
  BY DEF Inv, CursorInv, TrueTicks, TypeOK, Pointer, ExpireTimer
<1>t. t \in Timer /\ due' = [due EXCEPT ![t] = 0]
  BY <1>1 DEF ExpireTimer
<1>2. ticks \in Nat /\ due[t] \in Nat /\ scan.now \in Nat
  <2>1. MaxTicks \in Nat
    BY TimerAssumption
  <2>2. ticks \in 0 .. MaxTicks /\ due \in [Timer -> Nat]
    BY DEF Inv, TypeOK
  <2>3. scan.now \in Word
    <3>1. scan \in [now : Word, left : 0 .. TIMERTABLESIZE, index : Bucket,
                    from : Word, routines : Seq(DpcTimers)]
      BY DEF Inv, TypeOK
    <3>. QED
      BY <3>1
  <2>4. scan.now \in Nat
    BY <2>3, NeverTyped
  <2>5. ticks \in Nat
    BY <2>1, <2>2
  <2>6. due[t] \in Nat
    BY <1>1, <2>2
  <2>. QED
    BY <2>4, <2>5, <2>6
<1>3. ExpiredAs(table', table, t)
  BY <1>1, ExpiredFields DEF ExpireTimer, Inv, TypeOK
<1>4. /\ table'.enqueued = [table.enqueued EXCEPT ![t] = FALSE]
      /\ table'.signaled = [table.signaled EXCEPT ![t] = TRUE]
  BY <1>3 DEF ExpiredAs
<1>5. Armed' = [Armed EXCEPT ![t] = Null]
  BY <1>t, <1>4, Disarmed
<1>6. Armed[t] # Null /\ Armed[t] <= ticks
  BY <1>1, <1>2, ArmedTyped
<1>7. TimerContract!Expire(t)
  BY <1>1, <1>4, <1>5, <1>6 DEF ExpireTimer, TimerContract!Expire, Armed
<1>. QED
  BY <1>1, <1>7

LEMMA ResetStep ==
  ASSUME Inv, NEW t \in Timer, KeTimerReset(t) \/ KeTimerInitialize(t)
  PROVE  TimerContract!Reset(t)
<1>1. table \in Table
  BY DEF Inv, TypeOK
<1>2. /\ table'.enqueued = table.enqueued
      /\ table'.signaled = [table.signaled EXCEPT ![t] = FALSE]
  BY <1>1 DEF KeTimerReset, KeTimerInitialize, Table
<1>. QED
  BY <1>2 DEF KeTimerReset, KeTimerInitialize, TimerContract!Reset

\* All other steps are the calendar's own.
LEMMA OtherStep ==
  ASSUME Inv,
         \/ UNCHANGED vars \/ NoteEarliest
         \/ KiDPCDispatchQueue \/ KiTimerExpiration \/ ScanBucket
         \/ AdvanceTimer \/ ScanDone \/ RunRoutine \/ ExpirationDone
  PROVE  UNCHANGED TimerContract!vars
<1>1. UNCHANGED <<ticks, request, due>>
  BY DEF vars, NoteEarliest, KiDPCDispatchQueue, KiTimerExpiration, ScanBucket,
     AdvanceTimer, ScanDone, RunRoutine, ExpirationDone
<1>2. /\ table'.enqueued = table.enqueued
      /\ table'.signaled = table.signaled
  <2>1. table \in Table /\ cursor \in Pointer /\ scan.index \in Bucket
    BY DEF Inv, TypeOK
  <2>2. CASE UNCHANGED table
    BY <2>2
  <2>3. CASE NoteEarliest
    BY <2>1, <2>3 DEF NoteEarliest, Table
  <2>4. CASE AdvanceTimer
    <3>1. region = "satisfy"
      BY <2>4 DEF AdvanceTimer
    <3>2. table.next[cursor] \in Pointer
      BY <2>1, <3>1 DEF Inv, CursorInv, Table, Pointer
    <3>3. AdvancedAs(Advanced(table, scan.index, table.next[cursor]), table,
                     scan.index, table.next[cursor])
      BY <2>1, <3>2, AdvancedFields
    <3>4. table' = table \/ table' = Advanced(table, scan.index, table.next[cursor])
      BY <2>4 DEF AdvanceTimer
    <3>. QED
      BY <3>3, <3>4 DEF AdvancedAs
  <2>. QED
    BY <2>2, <2>3, <2>4 DEF vars, KiDPCDispatchQueue, KiTimerExpiration,
       ScanBucket, ScanDone, RunRoutine, ExpirationDone
<1>. QED
  BY <1>1, <1>2 DEF TimerContract!vars

LEMMA ContractStep ==
  ASSUME NoWrap, Inv, [Next]_vars
  PROVE  [TimerContract!Next]_(TimerContract!vars)
<1>1. CASE KeClockTick
  BY <1>1, TickStep DEF TimerContract!Next
<1>2. CASE \E c \in Client, t \in Timer, ms \in Intervals : ComputeExpiry(c, t, ms)
  <2>1. \A ms \in Intervals : Rounded(ms) \in Delays
    BY DEF Delays
  <2>. QED
    BY <1>2, <2>1, AskStep DEF TimerContract!Next
<1>3. CASE \E c \in Client : KeTimerEnqueue(c)
  BY <1>3, StartStep DEF TimerContract!Next
<1>4. CASE \E t \in Timer : KeTimerDequeue(t)
  BY <1>4, CancelStep DEF TimerContract!Next
<1>5. CASE \E t \in Timer : KeTimerReset(t) \/ KeTimerInitialize(t)
  BY <1>5, ResetStep DEF TimerContract!Next
<1>6. CASE ExpireTimer
  BY <1>6, ExpireStep DEF TimerContract!Next
<1>7. CASE \/ UNCHANGED vars \/ NoteEarliest
           \/ KiDPCDispatchQueue \/ KiTimerExpiration \/ ScanBucket
           \/ AdvanceTimer \/ ScanDone \/ RunRoutine \/ ExpirationDone
  BY <1>7, OtherStep
<1>. QED
  BY <1>1, <1>2, <1>3, <1>4, <1>5, <1>6, <1>7 DEF Next, Expiration

\* Timers never expire before their tick, twice, or after they are cancelled:
\* each step of the calendar (KeTimer.df, KeIPL.df:180-206) is a step of
\* TimerService or changes nothing there.
THEOREM Refinement == NoWrap /\ Spec => ImplementsTimerService
<1>1. Init => TimerContract!Init
  BY DEF Init, TimerContract!Init
<1>2. NoWrap /\ Inv /\ [Next]_vars => [TimerContract!Next]_(TimerContract!vars)
  BY ContractStep
<1>3. NoWrap => NoWrap'
  BY DEF NoWrap
<1>. QED
  BY <1>1, <1>2, <1>3, InvHolds, PTL DEF Spec, ImplementsTimerService, TimerContract!Spec


-----------------------------------------------------------------------------
(***************************************************************************)
(* The lists.  The links next to a timer do not say that a list leads to   *)
(* it.  So there is a second invariant: each bucket has a sequence of all  *)
(* the timers started in it, in order, that its links lead along.          *)
(***************************************************************************)

In(tb, t, b) == tb.enqueued[t] /\ BucketOf(tb.expiry[t]) = b

\* The links of table tb lead from h along list, to the timers of bucket b.
Listing(tb, b, h, n, list) ==
  /\ \A i \in 1 .. n : In(tb, list[i], b)
  /\ \A t \in Timer : In(tb, t, b) => \E i \in 1 .. n : list[i] = t
  /\ \A i, j \in 1 .. n : list[i] = list[j] => i = j
  /\ \A i, j \in 1 .. n : i < j => tb.expiry[list[i]] <= tb.expiry[list[j]]
  /\ h = IF n = 0 THEN Null ELSE list[1]
  /\ \A i \in 1 .. n : tb.next[list[i]] = IF i = n THEN Null ELSE list[i + 1]

HasList(tb, b, h) == \E n \in Nat : \E list \in [1 .. n -> Timer] : Listing(tb, b, h, n, list)

Start(tb, b, open, first) == IF b = open THEN first ELSE tb.head[b]
Listed(tb, open, first)   == \A b \in Bucket : HasList(tb, b, Start(tb, b, open, first))

\* The first of a list expires first.
LEMMA FirstIsNext ==
  ASSUME NEW tb \in Table, NEW b \in Bucket, NEW h, HasList(tb, b, h), NEW t \in Timer, In(tb, t, b)
  PROVE  h \in Timer /\ tb.expiry[h] <= tb.expiry[t]
<1>1. PICK n \in Nat : \E list \in [1 .. n -> Timer] : Listing(tb, b, h, n, list)
  BY DEF HasList
<1>2. PICK list \in [1 .. n -> Timer] : Listing(tb, b, h, n, list)
  BY <1>1
<1>3. PICK i \in 1 .. n : list[i] = t
  BY <1>2 DEF Listing
<1>4. n # 0 /\ 1 \in 1 .. n /\ h = list[1] /\ list[1] \in Timer
  BY <1>2, <1>3 DEF Listing
<1>5. tb.expiry[h] \in Nat
  BY <1>4, NeverTyped DEF Table
<1>6. CASE i = 1
  BY <1>3, <1>4, <1>5, <1>6
<1>7. CASE i # 1
  BY <1>2, <1>3, <1>4, <1>7 DEF Listing
<1>. QED
  BY <1>4, <1>6, <1>7

\* A step elsewhere leaves a list alone.
LEMMA ListStays ==
  ASSUME NEW tb \in Table, NEW r \in Table, NEW b \in Bucket, NEW h, HasList(tb, b, h),
         \A u \in Timer : In(r, u, b) <=> In(tb, u, b),
         \A u \in Timer : In(tb, u, b) => /\ r.next[u] = tb.next[u]
                                          /\ r.expiry[u] = tb.expiry[u]
  PROVE  HasList(r, b, h)
<1>1. PICK n \in Nat : \E list \in [1 .. n -> Timer] : Listing(tb, b, h, n, list)
  BY DEF HasList
<1>2. PICK list \in [1 .. n -> Timer] : Listing(tb, b, h, n, list)
  BY <1>1
<1>3. \A i \in 1 .. n : list[i] \in Timer /\ In(tb, list[i], b)
  BY <1>2 DEF Listing
<1>4. \A i \in 1 .. n : /\ In(r, list[i], b)
                        /\ r.next[list[i]] = tb.next[list[i]]
                        /\ r.expiry[list[i]] = tb.expiry[list[i]]
  BY <1>3
<1>5. Listing(r, b, h, n, list)
  BY <1>2, <1>4 DEF Listing
<1>. QED
  BY <1>5 DEF HasList

\* A timer is put behind p, or first.
LEMMA ListGrows ==
  ASSUME NEW tb \in Table, NEW r \in Table, NEW t \in Timer, NEW e \in Word, NEW b \in Bucket,
         NEW p \in Pointer, b = BucketOf(e), ~tb.enqueued[t], HasList(tb, b, tb.head[b]),
         PlacedAfter(tb, b, e, p), LinkedAs(r, tb, t, e, p)
  PROVE  HasList(r, b, r.head[b])
<1>1. PICK n \in Nat : \E list \in [1 .. n -> Timer] : Listing(tb, b, tb.head[b], n, list)
  BY DEF HasList
<1>2. PICK list \in [1 .. n -> Timer] : Listing(tb, b, tb.head[b], n, list)
  BY <1>1
<1>3. /\ \A i \in 1 .. n : list[i] \in Timer /\ In(tb, list[i], b)
      /\ \A u \in Timer : In(tb, u, b) => \E i \in 1 .. n : list[i] = u
      /\ \A i, j \in 1 .. n : list[i] = list[j] => i = j
      /\ \A i, j \in 1 .. n : i < j => tb.expiry[list[i]] <= tb.expiry[list[j]]
      /\ tb.head[b] = IF n = 0 THEN Null ELSE list[1]
      /\ \A i \in 1 .. n : tb.next[list[i]] = IF i = n THEN Null ELSE list[i + 1]
  BY <1>2 DEF Listing
<1>4. \A i \in 1 .. n : list[i] # t /\ tb.expiry[list[i]] \in Nat
  <2>1. \A u \in Timer : tb.expiry[u] \in Nat
    BY NeverTyped DEF Table
  <2>2. \A u \in Timer : In(tb, u, b) => u # t
    BY DEF In
  <2>. QED
    BY <2>1, <2>2, <1>3
<1>5. e \in Nat /\ Null \notin Timer /\ p # t
  BY NeverTyped, NullTyped DEF PlacedAfter
\* Its place.
<1>6. PICK k \in 0 .. n : IF p = Null THEN k = 0 ELSE k > 0 /\ list[k] = p
  <2>1. CASE p = Null
    BY <2>1
  <2>2. CASE p # Null
    <3>1. p \in Timer /\ In(tb, p, b)
      BY <2>2 DEF PlacedAfter, Pointer, In
    <3>2. PICK i \in 1 .. n : list[i] = p
      BY <3>1, <1>3
    <3>. QED
      BY <2>2, <3>2
  <2>. QED
    BY <2>1, <2>2
<1>7. \A i \in 1 .. n : i <= k => tb.expiry[list[i]] <= e
  <2>. SUFFICES ASSUME NEW i \in 1 .. n, i <= k PROVE tb.expiry[list[i]] <= e
    OBVIOUS
  <2>1. k \in 1 .. n /\ list[k] = p /\ tb.expiry[p] <= e
    BY <1>6 DEF PlacedAfter
  <2>2. CASE i = k
    BY <2>1, <2>2
  <2>3. CASE i # k
    <3>1. tb.expiry[list[i]] <= tb.expiry[list[k]]
      BY <2>1, <2>3, <1>3
    <3>. QED
      BY <2>1, <3>1, <1>4, <1>5
  <2>. QED
    BY <2>2, <2>3
<1>8. \A i \in 1 .. n : i > k => tb.expiry[list[i]] > e
  <2>. SUFFICES ASSUME NEW i \in 1 .. n, i > k PROVE tb.expiry[list[i]] > e
    OBVIOUS
  <2>1. k + 1 \in 1 .. n
    OBVIOUS
  <2>2. tb.expiry[list[k + 1]] > e
    <3>1. CASE p = Null
      BY <3>1, <2>1, <1>3, <1>5, <1>6 DEF PlacedAfter
    <3>2. CASE p # Null
      <4>1. tb.next[p] = list[k + 1]
        BY <3>2, <2>1, <1>3, <1>6
      <4>. QED
        BY <3>2, <4>1, <2>1, <1>3, <1>5 DEF PlacedAfter
    <3>. QED
      BY <3>1, <3>2
  <2>3. CASE i = k + 1
    BY <2>2, <2>3
  <2>4. CASE i # k + 1
    <3>1. tb.expiry[list[k + 1]] <= tb.expiry[list[i]]
      BY <2>1, <2>4, <1>3
    <3>. QED
      BY <2>1, <2>2, <3>1, <1>4, <1>5
  <2>. QED
    BY <2>3, <2>4
\* The list with it.
<1>. DEFINE grown == [i \in 1 .. n + 1 |-> IF i <= k THEN list[i]
                                           ELSE IF i = k + 1 THEN t ELSE list[i - 1]]
<1>9. /\ grown \in [1 .. n + 1 -> Timer]
      /\ \A i \in 1 .. k : i \in 1 .. n /\ grown[i] = list[i]
      /\ grown[k + 1] = t
      /\ \A i \in k + 2 .. n + 1 : i - 1 \in 1 .. n /\ i - 1 > k /\ grown[i] = list[i - 1]
  BY <1>3
<1>10. \A i \in 1 .. n + 1 : i \in 1 .. k \/ i = k + 1 \/ i \in k + 2 .. n + 1
  OBVIOUS
<1>. HIDE DEF grown
<1>11. /\ r.enqueued = [tb.enqueued EXCEPT ![t] = TRUE]
       /\ r.expiry = [tb.expiry EXCEPT ![t] = e]
       /\ \A u \in Timer : r.next[u] = IF u = t THEN IF p = Null THEN tb.head[b] ELSE tb.next[p]
                                       ELSE IF u = p THEN t ELSE tb.next[u]
       /\ r.head[b] = IF p = Null THEN t ELSE tb.head[b]
  BY DEF LinkedAs, Table
<1>12. /\ In(r, t, b) /\ r.expiry[t] = e
       /\ \A u \in Timer \ {t} : (In(r, u, b) <=> In(tb, u, b)) /\ r.expiry[u] = tb.expiry[u]
  BY <1>11 DEF In, Table
<1>13. \A i \in 1 .. n + 1 : In(r, grown[i], b)
  BY <1>3, <1>4, <1>9, <1>10, <1>12
<1>14. \A u \in Timer : In(r, u, b) => \E i \in 1 .. n + 1 : grown[i] = u
  <2>. SUFFICES ASSUME NEW u \in Timer, In(r, u, b) PROVE \E i \in 1 .. n + 1 : grown[i] = u
    OBVIOUS
  <2>1. CASE u = t
    BY <2>1, <1>9
  <2>2. CASE u # t
    <3>1. PICK i \in 1 .. n : list[i] = u
      BY <2>2, <1>3, <1>12
    <3>2. CASE i <= k
      <4>1. i \in 1 .. k /\ i \in 1 .. n + 1
        BY <3>2
      <4>. QED
        BY <4>1, <3>1, <1>9
    <3>3. CASE i > k
      <4>1. i + 1 \in k + 2 .. n + 1 /\ i + 1 \in 1 .. n + 1 /\ (i + 1) - 1 = i
        BY <3>3
      <4>2. grown[i + 1] = list[i]
        BY <4>1, <1>9
      <4>. QED
        BY <4>1, <4>2, <3>1
    <3>. QED
      BY <3>2, <3>3
  <2>. QED
    BY <2>1, <2>2
<1>15. \A i, j \in 1 .. n + 1 : i < j => /\ grown[i] # grown[j]
                                         /\ r.expiry[grown[i]] <= r.expiry[grown[j]]
  <2>. SUFFICES ASSUME NEW i \in 1 .. n + 1, NEW j \in 1 .. n + 1, i < j
                PROVE  grown[i] # grown[j] /\ r.expiry[grown[i]] <= r.expiry[grown[j]]
    OBVIOUS
  <2>1. \A m \in 1 .. n : r.expiry[list[m]] = tb.expiry[list[m]]
    BY <1>3, <1>4, <1>12
  <2>2. CASE i \in 1 .. k /\ j \in 1 .. k
    BY <2>1, <2>2, <1>3, <1>9
  <2>3. CASE i \in 1 .. k /\ j = k + 1
    BY <2>1, <2>3, <1>4, <1>7, <1>9, <1>12
  <2>4. CASE i \in 1 .. k /\ j \in k + 2 .. n + 1
    <3>1. j - 1 \in 1 .. n /\ i \in 1 .. n /\ i < j - 1
      BY <2>4
    <3>2. list[i] # list[j - 1] /\ tb.expiry[list[i]] <= tb.expiry[list[j - 1]]
      BY <3>1, <1>3
    <3>. QED
      BY <3>1, <3>2, <2>1, <2>4, <1>9
  <2>5. CASE i = k + 1 /\ j \in k + 2 .. n + 1
    <3>1. j - 1 \in 1 .. n /\ j - 1 > k /\ grown[j] = list[j - 1]
      BY <2>5, <1>9
    <3>2. e < tb.expiry[list[j - 1]]
      BY <3>1, <1>8
    <3>. QED
      BY <3>1, <3>2, <2>1, <2>5, <1>4, <1>5, <1>9, <1>12
  <2>6. CASE i \in k + 2 .. n + 1 /\ j \in k + 2 .. n + 1
    <3>1. i - 1 \in 1 .. n /\ j - 1 \in 1 .. n /\ i - 1 < j - 1
      BY <2>6
    <3>2. list[i - 1] # list[j - 1] /\ tb.expiry[list[i - 1]] <= tb.expiry[list[j - 1]]
      BY <3>1, <1>3
    <3>. QED
      BY <3>1, <3>2, <2>1, <2>6, <1>9
  <2>. QED
    BY <1>10, <2>2, <2>3, <2>4, <2>5, <2>6
<1>16. r.head[b] = grown[1]
  <2>1. CASE p = Null
    BY <2>1, <1>6, <1>9, <1>11
  <2>2. CASE p # Null
    BY <2>2, <1>3, <1>6, <1>9, <1>11
  <2>. QED
    BY <2>1, <2>2
<1>17. \A i \in 1 .. n + 1 : r.next[grown[i]] = IF i = n + 1 THEN Null ELSE grown[i + 1]
  <2>. SUFFICES ASSUME NEW i \in 1 .. n + 1
                PROVE  r.next[grown[i]] = IF i = n + 1 THEN Null ELSE grown[i + 1]
    OBVIOUS
  <2>1. CASE i \in 1 .. k /\ i < k
    <3>1. i \in 1 .. n /\ k \in 1 .. n /\ list[i] # p /\ list[i] # t
      BY <2>1, <1>3, <1>4, <1>6
    <3>2. r.next[list[i]] = list[i + 1]
      BY <3>1, <2>1, <1>3, <1>11
    <3>3. i + 1 \in 1 .. k
      BY <2>1
    <3>. QED
      BY <3>1, <3>2, <3>3, <2>1, <1>9
  <2>2. CASE i \in 1 .. k /\ i = k
    <3>1. p # Null /\ grown[i] = p /\ p \in Timer
      BY <2>2, <1>3, <1>6, <1>9
    <3>2. r.next[p] = t
      BY <3>1, <1>5, <1>11
    <3>. QED
      BY <3>1, <3>2, <2>2, <1>9
  <2>3. CASE i = k + 1
    <3>1. grown[i] = t /\ r.next[t] = IF p = Null THEN tb.head[b] ELSE tb.next[p]
      BY <2>3, <1>9, <1>11
    <3>2. r.next[t] = IF k = n THEN Null ELSE list[k + 1]
      <4>1. CASE p = Null
        BY <4>1, <3>1, <1>3, <1>6
      <4>2. CASE p # Null
        BY <4>2, <3>1, <1>3, <1>6
      <4>. QED
        BY <4>1, <4>2
    <3>3. k < n => k + 2 \in k + 2 .. n + 1 /\ (k + 2) - 1 = k + 1
      OBVIOUS
    <3>4. k < n => grown[k + 2] = list[k + 1]
      BY <3>3, <1>9
    <3>5. i + 1 = k + 2 /\ (i = n + 1 <=> k = n) /\ (k # n => k < n)
      BY <2>3
    <3>. QED
      BY <3>1, <3>2, <3>4, <3>5
  <2>4. CASE i \in k + 2 .. n + 1
    <3>1. i - 1 \in 1 .. n /\ i - 1 > k /\ grown[i] = list[i - 1]
      BY <2>4, <1>9
    <3>2. list[i - 1] # t /\ list[i - 1] # p
      <4>1. p # Null => k \in 1 .. n /\ list[k] = p
        BY <1>6
      <4>. QED
        BY <4>1, <3>1, <1>3, <1>4, <1>5
    <3>3. r.next[grown[i]] = IF i - 1 = n THEN Null ELSE list[(i - 1) + 1]
      BY <3>1, <3>2, <1>3, <1>11
    <3>4. i # n + 1 => i + 1 \in k + 2 .. n + 1 /\ (i + 1) - 1 = i
      BY <2>4
    <3>5. i # n + 1 => grown[i + 1] = list[i]
      BY <3>4, <1>9
    <3>6. (i - 1 = n <=> i = n + 1) /\ (i - 1) + 1 = i
      OBVIOUS
    <3>. QED
      BY <3>3, <3>5, <3>6
  <2>. QED
    BY <1>10, <2>1, <2>2, <2>3, <2>4
<1>18. \A i, j \in 1 .. n + 1 : grown[i] = grown[j] => i = j
  BY <1>15
<1>19. n + 1 \in Nat /\ n + 1 # 0
  OBVIOUS
<1>20. Listing(r, b, r.head[b], n + 1, grown)
  BY <1>13, <1>14, <1>15, <1>16, <1>17, <1>18, <1>19 DEF Listing
<1>. QED
  BY <1>9, <1>19, <1>20 DEF HasList

\* A timer is taken out from behind p, or from the front.
LEMMA ListShrinks ==
  ASSUME NEW tb \in Table, NEW r \in Table, NEW t \in Timer, NEW b \in Bucket, NEW h,
         NEW p \in Pointer, In(tb, t, b), HasList(tb, b, h),
         t # h => p \in Timer /\ In(tb, p, b) /\ tb.next[p] = t,
         t = h => p = Null \/ ~In(tb, p, b),
         r.enqueued = [tb.enqueued EXCEPT ![t] = FALSE],
         r.expiry = tb.expiry,
         \A u \in Timer : In(tb, u, b) => r.next[u] = IF u = p THEN tb.next[t] ELSE tb.next[u]
  PROVE  HasList(r, b, IF t = h THEN tb.next[t] ELSE h)
<1>1. PICK n \in Nat : \E list \in [1 .. n -> Timer] : Listing(tb, b, h, n, list)
  BY DEF HasList
<1>2. PICK list \in [1 .. n -> Timer] : Listing(tb, b, h, n, list)
  BY <1>1
<1>3. /\ \A i \in 1 .. n : list[i] \in Timer /\ In(tb, list[i], b)
      /\ \A u \in Timer : In(tb, u, b) => \E i \in 1 .. n : list[i] = u
      /\ \A i, j \in 1 .. n : list[i] = list[j] => i = j
      /\ \A i, j \in 1 .. n : i < j => tb.expiry[list[i]] <= tb.expiry[list[j]]
      /\ h = IF n = 0 THEN Null ELSE list[1]
      /\ \A i \in 1 .. n : tb.next[list[i]] = IF i = n THEN Null ELSE list[i + 1]
  BY <1>2 DEF Listing
<1>4. PICK k \in 1 .. n : list[k] = t
  BY <1>3
<1>5. t = h <=> k = 1
  <2>1. 1 \in 1 .. n /\ h = list[1]
    BY <1>3
  <2>. QED
    BY <2>1, <1>3, <1>4
<1>6. \A i \in 1 .. n : list[i] = p <=> k # 1 /\ i = k - 1
  <2>1. CASE k = 1
    BY <2>1, <1>3, <1>5, NullTyped
  <2>2. CASE k # 1
    <3>1. p \in Timer /\ In(tb, p, b) /\ tb.next[p] = t
      BY <2>2, <1>5
    <3>2. PICK m \in 1 .. n : list[m] = p
      BY <3>1, <1>3
    <3>3. m # n /\ m + 1 \in 1 .. n /\ list[m + 1] = t
      BY <3>1, <3>2, <1>3, NullTyped
    <3>4. m + 1 = k
      BY <3>3, <1>3, <1>4
    <3>. QED
      BY <2>2, <3>2, <3>4, <1>3
  <2>. QED
    BY <2>1, <2>2
<1>. DEFINE shrunk == [i \in 1 .. n - 1 |-> IF i < k THEN list[i] ELSE list[i + 1]]
<1>7. /\ shrunk \in [1 .. n - 1 -> Timer]
      /\ \A i \in 1 .. n - 1 : i < k => i \in 1 .. n /\ shrunk[i] = list[i]
      /\ \A i \in 1 .. n - 1 : ~(i < k) => i + 1 \in 1 .. n /\ i + 1 > k /\ shrunk[i] = list[i + 1]
  BY <1>3
<1>. HIDE DEF shrunk
<1>8. \A u \in Timer : (In(r, u, b) <=> u # t /\ In(tb, u, b)) /\ r.expiry[u] = tb.expiry[u]
  BY DEF In, Table
<1>9. \A i \in 1 .. n - 1 : In(r, shrunk[i], b)
  <2>. SUFFICES ASSUME NEW i \in 1 .. n - 1 PROVE In(r, shrunk[i], b)
    OBVIOUS
  <2>1. CASE i < k
    <3>1. i \in 1 .. n /\ i # k /\ shrunk[i] = list[i]
      BY <2>1, <1>7
    <3>. QED
      BY <3>1, <1>3, <1>4, <1>8
  <2>2. CASE ~(i < k)
    <3>1. i + 1 \in 1 .. n /\ i + 1 # k /\ shrunk[i] = list[i + 1]
      BY <2>2, <1>7
    <3>. QED
      BY <3>1, <1>3, <1>4, <1>8
  <2>. QED
    BY <2>1, <2>2
<1>10. \A u \in Timer : In(r, u, b) => \E i \in 1 .. n - 1 : shrunk[i] = u
  <2>. SUFFICES ASSUME NEW u \in Timer, In(r, u, b) PROVE \E i \in 1 .. n - 1 : shrunk[i] = u
    OBVIOUS
  <2>1. PICK i \in 1 .. n : list[i] = u
    BY <1>3, <1>8
  <2>2. i # k
    BY <2>1, <1>4, <1>8
  <2>3. CASE i < k
    <3>1. i \in 1 .. n - 1
      BY <2>3
    <3>. QED
      BY <3>1, <2>1, <2>3, <1>7
  <2>4. CASE i > k
    <3>1. i - 1 \in 1 .. n - 1 /\ ~(i - 1 < k) /\ (i - 1) + 1 = i
      BY <2>4
    <3>2. shrunk[i - 1] = list[(i - 1) + 1]
      BY <3>1, <1>7
    <3>. QED
      BY <3>1, <3>2, <2>1
  <2>. QED
    BY <2>2, <2>3, <2>4
<1>11. \A i, j \in 1 .. n - 1 : i < j => /\ shrunk[i] # shrunk[j]
                                         /\ r.expiry[shrunk[i]] <= r.expiry[shrunk[j]]
  <2>. SUFFICES ASSUME NEW i \in 1 .. n - 1, NEW j \in 1 .. n - 1, i < j
                PROVE  shrunk[i] # shrunk[j] /\ r.expiry[shrunk[i]] <= r.expiry[shrunk[j]]
    OBVIOUS
  <2>1. \E m, l \in 1 .. n : m < l /\ shrunk[i] = list[m] /\ shrunk[j] = list[l]
    <3>1. CASE j < k
      BY <3>1, <1>7
    <3>2. CASE i < k /\ ~(j < k)
      <4>1. i < j + 1
        OBVIOUS
      <4>. QED
        BY <3>2, <4>1, <1>7
    <3>3. CASE ~(i < k)
      <4>1. i + 1 < j + 1 /\ ~(j < k)
        BY <3>3
      <4>. QED
        BY <3>3, <4>1, <1>7
    <3>. QED
      BY <3>1, <3>2, <3>3
  <2>2. PICK m \in 1 .. n, l \in 1 .. n : m < l /\ shrunk[i] = list[m] /\ shrunk[j] = list[l]
    BY <2>1
  <2>3. list[m] # list[l] /\ tb.expiry[list[m]] <= tb.expiry[list[l]]
    BY <2>2, <1>3
  <2>. QED
    BY <2>2, <2>3
<1>12. \A i, j \in 1 .. n - 1 : shrunk[i] = shrunk[j] => i = j
  BY <1>11
<1>13. (IF t = h THEN tb.next[t] ELSE h) = IF n - 1 = 0 THEN Null ELSE shrunk[1]
  <2>1. CASE k = 1
    <3>1. tb.next[t] = IF n = 1 THEN Null ELSE list[2]
      BY <2>1, <1>3, <1>4
    <3>2. n # 1 => shrunk[1] = list[2]
      <4>. SUFFICES ASSUME n # 1 PROVE shrunk[1] = list[2]
        OBVIOUS
      <4>1. 1 \in 1 .. n - 1 /\ ~(1 < k) /\ 1 + 1 = 2
        BY <2>1
      <4>2. shrunk[1] = list[1 + 1]
        BY <4>1, <1>7
      <4>. QED
        BY <4>2
    <3>. QED
      BY <2>1, <3>1, <3>2, <1>5
  <2>2. CASE k # 1
    <3>1. 1 \in 1 .. n - 1 /\ 1 < k /\ n - 1 # 0 /\ n # 0
      BY <2>2
    <3>2. shrunk[1] = list[1]
      BY <3>1, <1>7
    <3>. QED
      BY <2>2, <3>1, <3>2, <1>3, <1>5
  <2>. QED
    BY <2>1, <2>2
<1>14. \A i \in 1 .. n - 1 : r.next[shrunk[i]] = IF i = n - 1 THEN Null ELSE shrunk[i + 1]
  <2>. SUFFICES ASSUME NEW i \in 1 .. n - 1
                PROVE  r.next[shrunk[i]] = IF i = n - 1 THEN Null ELSE shrunk[i + 1]
    OBVIOUS
  <2>0. \A m \in 1 .. n : r.next[list[m]] =
          IF k # 1 /\ m = k - 1 THEN tb.next[t] ELSE IF m = n THEN Null ELSE list[m + 1]
    BY <1>3, <1>6
  <2>1. CASE i + 1 < k
    <3>1. i \in 1 .. n /\ i + 1 \in 1 .. n - 1 /\ i < k /\ i # k - 1 /\ i # n
      BY <2>1
    <3>2. shrunk[i] = list[i] /\ shrunk[i + 1] = list[i + 1]
      BY <3>1, <2>1, <1>7
    <3>3. r.next[list[i]] = list[i + 1]
      BY <3>1, <2>0
    <3>4. i # n - 1
      BY <2>1
    <3>. QED
      BY <3>2, <3>3, <3>4
  <2>2. CASE i + 1 = k
    <3>1. i \in 1 .. n /\ i < k /\ i = k - 1 /\ k # 1
      BY <2>2
    <3>2. shrunk[i] = list[i] /\ r.next[list[i]] = tb.next[t]
      BY <3>1, <2>0, <1>7
    <3>3. tb.next[t] = IF k = n THEN Null ELSE list[k + 1]
      BY <1>3, <1>4
    <3>4. k # n => i + 1 \in 1 .. n - 1 /\ ~(i + 1 < k) /\ (i + 1) + 1 = k + 1
      BY <2>2
    <3>5. k # n => shrunk[i + 1] = list[k + 1]
      <4>. SUFFICES ASSUME k # n PROVE shrunk[i + 1] = list[k + 1]
        OBVIOUS
      <4>1. shrunk[i + 1] = list[(i + 1) + 1]
        BY <3>4, <1>7
      <4>. QED
        BY <4>1, <3>4
    <3>6. k = n <=> i = n - 1
      BY <2>2
    <3>. QED
      BY <3>2, <3>3, <3>5, <3>6
  <2>3. CASE ~(i < k)
    <3>1. i + 1 \in 1 .. n /\ i + 1 # k - 1 /\ shrunk[i] = list[i + 1]
      BY <2>3, <1>7
    <3>2. r.next[list[i + 1]] = IF i + 1 = n THEN Null ELSE list[(i + 1) + 1]
      BY <3>1, <2>0
    <3>3. i # n - 1 => i + 1 \in 1 .. n - 1 /\ ~(i + 1 < k)
      BY <2>3
    <3>4. i # n - 1 => shrunk[i + 1] = list[(i + 1) + 1]
      BY <3>3, <1>7
    <3>5. i + 1 = n <=> i = n - 1
      OBVIOUS
    <3>. QED
      BY <3>1, <3>2, <3>4, <3>5
  <2>. QED
    BY <2>1, <2>2, <2>3
<1>15. n - 1 \in Nat
  OBVIOUS
<1>16. Listing(r, b, IF t = h THEN tb.next[t] ELSE h, n - 1, shrunk)
  BY <1>9, <1>10, <1>11, <1>12, <1>13, <1>14 DEF Listing
<1>. QED
  BY <1>7, <1>15, <1>16 DEF HasList

-----------------------------------------------------------------------------
(***************************************************************************)
(* The operations keep the lists.                                          *)
(***************************************************************************)

LEMMA LinkedListed ==
  ASSUME NEW tb \in Table, NEW t \in Timer, NEW e \in Word, NEW p \in Pointer,
         ~tb.enqueued[t], PlacedAfter(tb, BucketOf(e), e, p), Listed(tb, None, Null)
  PROVE  Listed(Linked(tb, t, e, p), None, Null)
<1>. DEFINE r == Linked(tb, t, e, p)
            b == BucketOf(e)
<1>1. LinkedAs(r, tb, t, e, p)
  BY LinkedFields
<1>. HIDE DEF r
<1>2. /\ r \in Table /\ b \in Bucket
      /\ r.enqueued = [tb.enqueued EXCEPT ![t] = TRUE]
      /\ r.expiry = [tb.expiry EXCEPT ![t] = e]
      /\ \A u \in Timer : u # t /\ u # p => r.next[u] = tb.next[u]
      /\ \A k \in Bucket \ {b} : r.head[k] = tb.head[k]
  BY <1>1, BucketTyped, NeverTyped DEF LinkedAs, Table
<1>3. PlacedAfter(tb, b, e, p)
  OBVIOUS
<1>. SUFFICES ASSUME NEW k \in Bucket PROVE HasList(r, k, r.head[k])
  BY NeverTyped DEF Listed, Start, r
<1>4. HasList(tb, k, tb.head[k])
  BY NeverTyped DEF Listed, Start
<1>5. CASE k = b
  BY <1>1, <1>2, <1>3, <1>4, <1>5, ListGrows
<1>6. CASE k # b
  <2>. HIDE DEF b
  <2>1. BucketOf(e) = b
    BY DEF b
  <2>2. \A u \in Timer : In(tb, u, k) => u # t /\ u # p
    BY <1>3, <1>6, NullTyped DEF In, PlacedAfter
  <2>3. \A u \in Timer : In(r, u, k) <=> In(tb, u, k)
    BY <1>2, <1>6, <2>1 DEF In, Table
  <2>4. \A u \in Timer : In(tb, u, k) => r.next[u] = tb.next[u] /\ r.expiry[u] = tb.expiry[u]
    BY <1>2, <2>2 DEF Table
  <2>5. r.head[k] = tb.head[k]
    BY <1>2, <1>6
  <2>. QED
    BY <1>2, <1>4, <2>3, <2>4, <2>5, ListStays
<1>. QED
  BY <1>5, <1>6

LEMMA UnlinkedListed ==
  ASSUME NEW tb \in Table, NEW t \in Timer, NEW open \in Bucket \cup {None},
         NEW first \in Pointer, Chained(tb, open, first), Listed(tb, open, first),
         tb.enqueued[t]
  PROVE  Listed(Unlinked(tb, t), open, IF t = first THEN tb.next[t] ELSE first)
<1>. DEFINE r == Unlinked(tb, t)
            b == BucketOf(tb.expiry[t])
            p == tb.prev[t]
            h == Start(tb, b, open, first)
<1>1. UnlinkedAs(r, tb, t)
  BY UnlinkedFields
<1>. HIDE DEF r
<1>2. /\ r \in Table /\ b \in Bucket /\ p \in Pointer
      /\ r.enqueued = [tb.enqueued EXCEPT ![t] = FALSE]
      /\ r.expiry = tb.expiry
      /\ \A u \in Timer : r.next[u] = IF u = p THEN tb.next[t] ELSE tb.next[u]
      /\ r.head = [tb.head EXCEPT ![b] = IF p = Null THEN tb.next[t] ELSE @]
  <2>1. b \in Bucket
    BY BucketTyped, NeverTyped DEF Table
  <2>2. p \in Pointer
    BY DEF Table
  <2>. QED
    BY <1>1, <2>1, <2>2 DEF UnlinkedAs
<1>3. In(tb, t, b)
  BY DEF In
<1>4. t # first /\ p # Null => p \in Timer /\ In(tb, p, b) /\ tb.next[p] = t
  <2>. SUFFICES ASSUME t # first, p # Null PROVE p \in Timer /\ In(tb, p, b) /\ tb.next[p] = t
    OBVIOUS
  <2>1. p \in Timer /\ tb.enqueued[p] /\ tb.next[p] = t
    BY <1>2 DEF Chained, BackLinks, Pointer
  <2>. QED
    BY <2>1, NullTyped DEF Chained, ForwardLinks, In
<1>5. t = first => b = open /\ (p = Null \/ ~In(tb, p, b))
  BY NullTyped DEF Chained, FirstStarted, In
<1>6. t # first /\ p = Null => tb.head[b] = t /\ b # open
  BY DEF Chained, HeadsLeft
<1>7. b # open /\ tb.head[b] = t => p = Null
  BY <1>2, NullTyped DEF Chained, HeadsStarted
<1>. HIDE DEF b, p
<1>8. t # h => p \in Timer /\ In(tb, p, b) /\ tb.next[p] = t
  BY <1>4, <1>5, <1>6 DEF Start
<1>9. t = h => p = Null \/ ~In(tb, p, b)
  BY <1>5, <1>7 DEF Start
<1>10. HasList(tb, b, h)
  BY <1>2 DEF Listed
<1>. HIDE DEF h
<1>11. HasList(r, b, IF t = h THEN tb.next[t] ELSE h)
  BY <1>2, <1>3, <1>8, <1>9, <1>10, ListShrinks
<1>. DEFINE after == IF t = first THEN tb.next[t] ELSE first
<1>12. Start(r, b, open, after) = IF t = h THEN tb.next[t] ELSE h
  BY <1>2, <1>5, <1>6, <1>7 DEF Start, h, Table
<1>13. ASSUME NEW k \in Bucket, k # b PROVE HasList(r, k, Start(r, k, open, after))
  <2>1. HasList(tb, k, Start(tb, k, open, first))
    BY DEF Listed
  <2>2. Start(r, k, open, after) = Start(tb, k, open, first)
    BY <1>2, <1>5, <1>13 DEF Start, Table
  <2>3. \A u \in Timer : In(r, u, k) <=> In(tb, u, k)
    BY <1>2, <1>3, <1>13 DEF In, Table
  <2>4. \A u \in Timer : In(tb, u, k) => u # p
    BY <1>4, <1>5, <1>13, NullTyped DEF In, Chained, FirstStarted, p
  <2>. HIDE DEF after
  <2>. QED
    BY <1>2, <2>1, <2>2, <2>3, <2>4, ListStays
<1>. QED
  BY <1>11, <1>12, <1>13 DEF Listed, r

LEMMA ExpiredListed ==
  ASSUME NEW tb \in Table, NEW open \in Bucket, NEW first \in Timer,
         Chained(tb, open, first), Listed(tb, open, first)
  PROVE  Listed(Expired(tb, first), open, tb.next[first])
<1>. DEFINE r == Expired(tb, first)
<1>1. ExpiredAs(r, tb, first)
  BY ExpiredFields
<1>. HIDE DEF r
<1>2. /\ r \in Table
      /\ r.enqueued = [tb.enqueued EXCEPT ![first] = FALSE]
      /\ r.expiry = tb.expiry /\ r.next = tb.next /\ r.head = tb.head
  BY <1>1 DEF ExpiredAs
<1>3. In(tb, first, open)
  BY NullTyped DEF Chained, FirstStarted, In
<1>. SUFFICES ASSUME NEW k \in Bucket PROVE HasList(r, k, Start(r, k, open, tb.next[first]))
  BY DEF Listed, r
<1>4. HasList(tb, k, Start(tb, k, open, first))
  BY DEF Listed
<1>5. CASE k = open
  <2>1. HasList(tb, open, first)
    BY <1>4, <1>5 DEF Start
  <2>2. Null \in Pointer /\ \A u \in Timer : u # Null
    BY NullTyped DEF Pointer
  <2>3. \A u \in Timer : r.next[u] = IF u = Null THEN tb.next[first] ELSE tb.next[u]
    BY <1>2, <2>2
  <2>4. HasList(r, open, IF first = first THEN tb.next[first] ELSE first)
    BY <1>2, <1>3, <2>1, <2>2, <2>3, ListShrinks
  <2>. QED
    BY <1>5, <2>4 DEF Start
<1>6. CASE k # open
  <2>1. \A u \in Timer : In(r, u, k) <=> In(tb, u, k)
    BY <1>2, <1>3, <1>6 DEF In, Table
  <2>2. Start(r, k, open, tb.next[first]) = Start(tb, k, open, first)
    BY <1>2, <1>6 DEF Start
  <2>. QED
    BY <1>2, <1>4, <2>1, <2>2, ListStays
<1>. QED
  BY <1>5, <1>6

LEMMA AdvancedListed ==
  ASSUME NEW tb \in Table, NEW b \in Bucket, NEW n \in Pointer, Listed(tb, b, n)
  PROVE  Listed(Advanced(tb, b, n), None, Null)
<1>. DEFINE r == Advanced(tb, b, n)
<1>1. AdvancedAs(r, tb, b, n)
  BY AdvancedFields
<1>. HIDE DEF r
<1>2. /\ r \in Table
      /\ r.enqueued = tb.enqueued /\ r.expiry = tb.expiry /\ r.next = tb.next
      /\ r.head = [tb.head EXCEPT ![b] = n]
  BY <1>1 DEF AdvancedAs
<1>. SUFFICES ASSUME NEW k \in Bucket PROVE HasList(r, k, r.head[k])
  BY NeverTyped DEF Listed, Start, r
<1>3. r.head[k] = Start(tb, k, b, n)
  BY <1>2 DEF Start, Table
<1>4. HasList(tb, k, r.head[k])
  BY <1>3 DEF Listed
<1>. QED
  BY <1>2, <1>4, ListStays DEF In

\* The scan opens a bucket at its head, or a step changes nothing of a list.
LEMMA OpenedListed ==
  ASSUME NEW tb, NEW b \in Bucket, Listed(tb, None, Null)
  PROVE  Listed(tb, b, tb.head[b])
BY NeverTyped DEF Listed, Start

LEMMA TableStays ==
  ASSUME NEW tb \in Table, NEW r \in Table, NEW open, NEW first, Listed(tb, open, first),
         r.enqueued = tb.enqueued, r.expiry = tb.expiry, r.head = tb.head,
         \A u \in Timer : tb.enqueued[u] => r.next[u] = tb.next[u]
  PROVE  Listed(r, open, first)
<1>. SUFFICES ASSUME NEW k \in Bucket PROVE HasList(r, k, Start(r, k, open, first))
  BY DEF Listed
<1>1. HasList(tb, k, Start(r, k, open, first))
  BY DEF Listed, Start
<1>. QED
  BY <1>1, ListStays DEF In

LEMMA ListStep ==
  ASSUME NoWrap, Inv, Listed(table, Open, First), [Next]_vars
  PROVE  Listed(table', Open', First')
<1>1. table \in Table /\ table' \in Table
  BY StepInv DEF Inv, TypeOK
<1>2. CASE \E c \in Client : KeTimerEnqueue(c)
  <2>1. PICK c \in Client : KeTimerEnqueue(c)
    BY <1>2
  <2>2. /\ Open = None /\ First = Null /\ Open' = None /\ First' = Null
        /\ request[c].timer \in Timer /\ request[c].expiry \in Word
    BY <2>1 DEF Inv, TypeOK, KeTimerEnqueue, Request, Open, First
  <2>3. \/ table' = table
        \/ /\ ~table.enqueued[request[c].timer]
           /\ \E p \in Pointer :
                /\ PlacedAfter(table, BucketOf(request[c].expiry), request[c].expiry, p)
                /\ table' = Linked(table, request[c].timer, request[c].expiry, p)
    BY <2>1 DEF KeTimerEnqueue
  <2>. QED
    BY <2>2, <2>3, <1>1, LinkedListed
<1>3. CASE \E t \in Timer : KeTimerDequeue(t)
  <2>1. PICK t \in Timer : KeTimerDequeue(t)
    BY <1>3
  <2>2. /\ table' = Unlinked(table, t) /\ table.enqueued[t]
        /\ region \in {"low", "satisfy", "routines"}
        /\ UNCHANGED <<region, cursor, scan>>
        /\ Open \in Bucket \cup {None} /\ First \in Pointer /\ Chained(table, Open, First)
    BY <2>1, <1>1 DEF KeTimerDequeue, Inv, TypeOK, Open, First, CursorInv, Table, Pointer
  <2>3. Listed(table', Open, IF t = First THEN table.next[t] ELSE First)
    BY <2>2, <1>1, UnlinkedListed
  <2>4. Open' = Open
    BY <2>2 DEF Open
  <2>5. First' = IF t = First THEN table.next[t] ELSE First
    <3>1. CASE region # "satisfy"
      BY <3>1, <2>2, NullTyped DEF First
    <3>2. CASE region = "satisfy"
      <4>1. /\ First = table.next[cursor] /\ First' = table'.next[cursor]
            /\ cursor \in Timer /\ ~table.enqueued[cursor]
            /\ First # Null => table.prev[First] = cursor
        BY <3>2, <2>2 DEF First, Inv, TypeOK, CursorInv, Pointer
      <4>2. UnlinkedAs(table', table, t)
        BY <2>2, <1>1, UnlinkedFields
      <4>3. table'.next[cursor] = IF cursor = table.prev[t] THEN table.next[t]
                                  ELSE table.next[cursor]
        BY <4>1, <4>2 DEF UnlinkedAs
      <4>4. t # First => table.prev[t] # cursor
        BY <4>1, <2>2, NullTyped DEF Chained, BackLinks
      <4>. QED
        BY <4>1, <4>3, <4>4, NullTyped
    <3>. QED
      BY <3>1, <3>2
  <2>. QED
    BY <2>3, <2>4, <2>5
<1>4. CASE ExpireTimer
  <2>1. /\ Open = scan.index /\ scan.index \in Bucket /\ First = cursor /\ cursor \in Timer
        /\ Chained(table, Open, First) /\ table' = Expired(table, cursor)
    BY <1>4 DEF ExpireTimer, Inv, TypeOK, CursorInv, Open, First, Pointer
  <2>2. Listed(table', Open, table.next[cursor])
    BY <2>1, <1>1, ExpiredListed
  <2>3. ExpiredAs(table', table, cursor)
    BY <2>1, <1>1, ExpiredFields
  <2>4. scan'.index = scan.index /\ region' = "satisfy" /\ cursor' = cursor
    BY <1>4 DEF ExpireTimer, Inv, TypeOK
  <2>5. Open' = Open /\ First' = table.next[cursor]
    BY <2>1, <2>3, <2>4 DEF Open, First, ExpiredAs
  <2>. QED
    BY <2>2, <2>5
<1>5. CASE AdvanceTimer
  <2>. DEFINE n == table.next[cursor]
  <2>1. /\ Open = scan.index /\ scan.index \in Bucket /\ First = n /\ n \in Pointer
    BY <1>5, <1>1 DEF AdvanceTimer, Inv, TypeOK, CursorInv, Open, First, Pointer, Table
  <2>2. \/ /\ table' = table /\ Open' = scan.index /\ First' = n
        \/ /\ table' = Advanced(table, scan.index, n)
           /\ Open' = None /\ First' = Null
    BY <1>5 DEF AdvanceTimer, Open, First
  <2>. HIDE DEF n
  <2>. QED
    BY <2>1, <2>2, <1>1, AdvancedListed
<1>6. CASE ScanBucket
  <2>1. /\ Open = None /\ First = Null /\ scan.index \in Bucket /\ table' = table
        /\ \/ Open' = scan.index /\ First' = table.head[scan.index]
           \/ Open' = None /\ First' = Null
    BY <1>6 DEF ScanBucket, Inv, TypeOK, Open, First
  <2>. QED
    BY <2>1, OpenedListed
<1>7. CASE NoteEarliest \/ \E t \in Timer : KeTimerReset(t) \/ KeTimerInitialize(t)
  <2>1. /\ table'.enqueued = table.enqueued /\ table'.expiry = table.expiry
        /\ table'.head = table.head
        /\ \A u \in Timer : table.enqueued[u] => table'.next[u] = table.next[u]
    <3>1. CASE NoteEarliest
      BY <3>1, <1>1 DEF NoteEarliest, Table
    <3>2. CASE \E t \in Timer : KeTimerReset(t)
      BY <3>2, <1>1 DEF KeTimerReset, Table
    <3>3. CASE \E t \in Timer : KeTimerInitialize(t)
      <4>1. PICK t \in Timer : KeTimerInitialize(t)
        BY <3>3
      <4>2. ~table.enqueued[t] /\ table' = [table EXCEPT !.signaled[t] = FALSE, !.next[t] = Null,
                                                         !.prev[t] = Null]
        BY <4>1 DEF KeTimerInitialize
      <4>3. /\ table'.enqueued = table.enqueued /\ table'.expiry = table.expiry
            /\ table'.head = table.head /\ table'.next = [table.next EXCEPT ![t] = Null]
        BY <4>2, <1>1 DEF Table
      <4>. QED
        BY <4>2, <4>3, <1>1 DEF Table
    <3>. QED
      BY <1>7, <3>1, <3>2, <3>3
  <2>2. Open' = Open /\ First' = First
    BY <1>7 DEF NoteEarliest, KeTimerReset, KeTimerInitialize, Open, First
  <2>. QED
    BY <2>1, <2>2, <1>1, TableStays
<1>8. CASE \/ UNCHANGED vars \/ KeClockTick
           \/ \E c \in Client, t \in Timer, ms \in Intervals : ComputeExpiry(c, t, ms)
           \/ KiDPCDispatchQueue \/ KiTimerExpiration \/ ScanDone \/ RunRoutine \/ ExpirationDone
  <2>1. table' = table
    BY <1>8 DEF vars, KeClockTick, ComputeExpiry, KiDPCDispatchQueue, KiTimerExpiration, ScanDone,
       RunRoutine, ExpirationDone
  <2>2. Open' = Open /\ First' = First
    BY <1>8 DEF vars, KeClockTick, ComputeExpiry, KiDPCDispatchQueue, KiTimerExpiration, ScanDone,
       RunRoutine, ExpirationDone, Open, First
  <2>. QED
    BY <2>1, <2>2
<1>. QED
  BY <1>2, <1>3, <1>4, <1>5, <1>6, <1>7, <1>8 DEF Next, Expiration

LEMMA ListsHold == NoWrap /\ Spec => [](Inv /\ Listed(table, Open, First))
<1>1. Init => Listed(table, Open, First)
  <2>. SUFFICES ASSUME Init, NEW b \in Bucket PROVE HasList(table, b, Start(table, b, Open, First))
    BY DEF Listed
  <2>1. /\ Start(table, b, Open, First) = Null
        /\ \A t \in Timer : ~table.enqueued[t]
    BY NeverTyped DEF Init, Start, Open, First
  <2>2. <<>> \in [1 .. 0 -> Timer] /\ 0 \in Nat /\ \A i \in 1 .. 0 : FALSE
    OBVIOUS
  <2>3. Listing(table, b, Null, 0, <<>>)
    BY <2>1, <2>2 DEF Listing, In
  <2>. QED
    BY <2>1, <2>2, <2>3 DEF HasList
<1>2. NoWrap /\ Inv /\ Listed(table, Open, First) /\ [Next]_vars
        => (Inv /\ Listed(table, Open, First))'
  BY StepInv, ListStep
<1>3. NoWrap => NoWrap'
  BY DEF NoWrap
<1>. QED
  BY <1>1, <1>2, <1>3, InitInv, PTL DEF Spec

\* Whatever was started, cancelled or expired before, the links of each bucket
\* lead to each timer started in it, once and in the order of their ticks.
THEOREM CalendarStaysSorted == NoWrap /\ Spec => []CalendarSorted
<1>1. Inv /\ Listed(table, Open, First) => CalendarSorted
  <2>. SUFFICES ASSUME Inv, Listed(table, Open, First), NEW b \in Bucket
                PROVE  \E list \in [1 .. Cardinality(StartedIn(b)) -> StartedIn(b)] :
                         /\ {list[i] : i \in 1 .. Cardinality(StartedIn(b))} = StartedIn(b)
                         /\ LeadAlong(b, list, Cardinality(StartedIn(b)))
    BY DEF CalendarSorted
  <2>1. ListHead(b) = Start(table, b, Open, First)
    BY NeverTyped DEF ListHead, Scanned, Start, Open, First
  <2>2. PICK n \in Nat : \E list \in [1 .. n -> Timer] : Listing(table, b, ListHead(b), n, list)
    BY <2>1 DEF Listed, HasList
  <2>3. PICK list \in [1 .. n -> Timer] : Listing(table, b, ListHead(b), n, list)
    BY <2>2
  <2>4. list \in [1 .. n -> StartedIn(b)]
    BY <2>3 DEF Listing, StartedIn, In
  <2>5. \A t \in StartedIn(b) : \E i \in 1 .. n : list[i] = t
    BY <2>3 DEF Listing, StartedIn, In
  <2>6. \A i, j \in 1 .. n : list[i] = list[j] => i = j
    BY <2>3 DEF Listing
  <2>7. list \in Bijection(1 .. n, StartedIn(b))
    BY <2>4, <2>5, <2>6 DEF Bijection, Injection, Surjection, IsInjective
  <2>8. Cardinality(StartedIn(b)) = n
    BY <2>7, FS_CountingElements DEF ExistsBijection
  <2>9. {list[i] : i \in 1 .. n} = StartedIn(b)
    BY <2>4, <2>5
  <2>10. LeadAlong(b, list, n)
    BY <2>3 DEF LeadAlong, Listing
  <2>. QED
    BY <2>4, <2>8, <2>9, <2>10
<1>. QED
  BY <1>1, ListsHold, PTL

-----------------------------------------------------------------------------
(***************************************************************************)
(* What the clock notices is served: the scan that starts at the bucket of *)
(* a tick does not leave it with a timer that was due at that tick.        *)
(***************************************************************************)

\* The expiration will look at the bucket of this tick, or is at it.
Coming(tick) ==
  \/ region = "start" /\ scan.from = tick
  \/ /\ region \in {"scan", "expire", "satisfy"}
     /\ scan.index = BucketOf(tick) /\ scan.left > 0 /\ tick <= scan.now

NoticedInTime ==
  /\ dpc.context1 <= ticks
  /\ region = "start" => scan.from <= ticks
  /\ \A t \in Timer : noticed[t] <= ticks /\ (~table.enqueued[t] => noticed[t] = 0)

Serving == \A t \in Timer :
  table.enqueued[t] /\ noticed[t] # 0 /\ noticed[t] = dpc.context1 =>
    /\ BucketOf(table.expiry[t]) = BucketOf(noticed[t])
    /\ table.expiry[t] <= noticed[t]
    /\ dpc.enqueued \/ Coming(noticed[t])

\* A scan leaves a bucket without timers that are due.
LEMMA NoneLeftAtHead ==
  ASSUME Inv, Listed(table, Open, First), region = "scan",
         ~HasCome(table.earliest[scan.index], scan.now),
         NEW t \in Timer, In(table, t, scan.index)
  PROVE  table.expiry[t] > scan.now
<1>. DEFINE h == table.head[scan.index]
<1>1. /\ table \in Table /\ scan.index \in Bucket /\ scan.now \in Nat
      /\ Open = None /\ First = Null /\ Unnoted = None
      /\ table.earliest[scan.index] = EarliestOf(table, h)
  BY NeverTyped DEF Inv, TypeOK, Open, First, Unnoted, Noted
<1>2. HasList(table, scan.index, h)
  BY <1>1, NeverTyped DEF Listed, Start
<1>. HIDE DEF h
<1>3. h \in Timer /\ table.expiry[h] <= table.expiry[t]
  BY <1>1, <1>2, FirstIsNext
<1>4. ~(table.expiry[h] <= scan.now)
  BY <1>1, <1>3, NullTyped DEF EarliestOf, HasCome
<1>5. table.expiry[h] \in Nat /\ table.expiry[t] \in Nat
  BY <1>1, <1>3, NeverTyped DEF Table
<1>. QED
  BY <1>1, <1>3, <1>4, <1>5

LEMMA NoneLeftBehind ==
  ASSUME Inv, Listed(table, Open, First), region = "satisfy",
         ~(table.next[cursor] # Null /\ HasCome(table.expiry[table.next[cursor]], scan.now)),
         NEW t \in Timer, In(table, t, scan.index)
  PROVE  table.expiry[t] > scan.now
<1>. DEFINE h == table.next[cursor]
<1>1. /\ table \in Table /\ scan.index \in Bucket /\ scan.now \in Nat
      /\ Open = scan.index /\ First = h
  BY NeverTyped DEF Inv, TypeOK, Open, First
<1>2. HasList(table, scan.index, h)
  BY <1>1 DEF Listed, Start
<1>3. ~(h # Null /\ HasCome(table.expiry[h], scan.now))
  OBVIOUS
<1>. HIDE DEF h
<1>4. h \in Timer /\ table.expiry[h] <= table.expiry[t]
  BY <1>1, <1>2, FirstIsNext
<1>5. ~(table.expiry[h] <= scan.now)
  BY <1>3, <1>4, NullTyped DEF HasCome
<1>6. table.expiry[h] \in Nat /\ table.expiry[t] \in Nat
  BY <1>1, <1>4, NeverTyped DEF Table
<1>. QED
  BY <1>1, <1>4, <1>5, <1>6

\* As long as a timer of this tick is there, the scan does not pass its bucket.
LEMMA ComingStays ==
  ASSUME NoWrap, Inv, Listed(table, Open, First), NoticedInTime, [Next]_vars,
         NEW tick \in Nat, Coming(tick),
         NEW t \in Timer, table.enqueued[t],
         BucketOf(table.expiry[t]) = BucketOf(tick), table.expiry[t] <= tick
  PROVE  Coming(tick)'
<1>1. /\ region # "low" /\ region # "link" /\ region # "routines"
      /\ scan.left \in Nat /\ scan.now \in Nat /\ table.expiry[t] \in Nat
  <2>1. region # "low" /\ region # "link" /\ region # "routines"
    BY DEF Coming
  <2>2. scan.left \in Nat /\ scan.now \in Nat
    <3>1. scan.left \in 0 .. TIMERTABLESIZE /\ scan.now \in Word
      BY DEF Inv, TypeOK
    <3>2. TIMERTABLESIZE \in Nat
      BY TimerAssumption
    <3>3. scan.left \in Nat
      BY <3>1, <3>2
    <3>4. scan.now \in Nat
      BY <3>1, NeverTyped
    <3>. QED
      BY <3>3, <3>4
  <2>3. table.expiry[t] \in Nat
    BY NeverTyped DEF Inv, TypeOK, Table
  <2>. QED
    BY <2>1, <2>2, <2>3
<1>2. CASE UNCHANGED <<region, scan>>
  BY <1>2 DEF Coming
<1>3. CASE KiTimerExpiration
  <2>1. /\ region = "start" /\ scan.from = tick /\ tick <= ticks
        /\ KiClockTicks = ticks /\ ticks \in Nat
    BY <1>3, ClockTyped, NeverTyped DEF KiTimerExpiration, Coming, NoticedInTime, Inv, TypeOK
  <2>2. BucketsDue(tick, ticks) > 0
    BY <2>1, TimerAssumption DEF BucketsDue, TicksFrom
  <2>3. /\ region' = "scan" /\ scan'.now = ticks /\ scan'.index = BucketOf(tick)
        /\ scan'.left = BucketsDue(tick, ticks)
    BY <1>3, <2>1 DEF KiTimerExpiration, Inv, TypeOK
  <2>. QED
    BY <2>1, <2>2, <2>3 DEF Coming
<1>4. CASE ScanBucket
  <2>1. region = "scan" /\ scan.index = BucketOf(tick) /\ tick <= scan.now /\ scan.left > 0
    BY <1>4 DEF ScanBucket, Coming
  <2>2. HasCome(table.earliest[scan.index], scan.now)
    <3>. SUFFICES ASSUME ~HasCome(table.earliest[scan.index], scan.now) PROVE FALSE
      OBVIOUS
    <3>1. table.expiry[t] > scan.now
      BY <2>1, NoneLeftAtHead DEF In
    <3>. QED
      BY <2>1, <3>1, <1>1
  <2>3. region' = "expire" /\ scan' = scan
    BY <1>4, <2>2 DEF ScanBucket
  <2>. QED
    BY <2>1, <2>3 DEF Coming
<1>5. CASE ExpireTimer
  <2>1. region' = "satisfy" /\ scan.index = BucketOf(tick) /\ tick <= scan.now /\ scan.left > 0
    BY <1>5 DEF ExpireTimer, Coming
  <2>2. scan'.index = scan.index /\ scan'.left = scan.left /\ scan'.now = scan.now
    BY <1>5 DEF ExpireTimer, Inv, TypeOK
  <2>. QED
    BY <2>1, <2>2 DEF Coming
<1>6. CASE AdvanceTimer
  <2>1. region = "satisfy" /\ scan.index = BucketOf(tick) /\ tick <= scan.now /\ scan.left > 0
    BY <1>6 DEF AdvanceTimer, Coming
  <2>2. table.next[cursor] # Null /\ HasCome(table.expiry[table.next[cursor]], scan.now)
    <3>. SUFFICES ASSUME ~(/\ table.next[cursor] # Null
                           /\ HasCome(table.expiry[table.next[cursor]], scan.now))
                  PROVE FALSE
      OBVIOUS
    <3>1. table.expiry[t] > scan.now
      BY <2>1, NoneLeftBehind DEF In
    <3>. QED
      BY <2>1, <3>1, <1>1
  <2>3. region' = "expire" /\ scan' = scan
    BY <1>6, <2>2 DEF AdvanceTimer
  <2>. QED
    BY <2>1, <2>3 DEF Coming
<1>7. CASE ScanDone
  BY <1>1, <1>7 DEF ScanDone, Coming
<1>8. CASE \E u \in Timer : KeTimerDequeue(u)
  BY <1>2, <1>8 DEF KeTimerDequeue
<1>9. CASE UNCHANGED vars \/ KeClockTick
  BY <1>2, <1>9 DEF vars, KeClockTick
<1>10. CASE \/ \E c \in Client : \/ KeTimerEnqueue(c)
                                   \/ \E u \in Timer, ms \in Intervals : ComputeExpiry(c, u, ms)
            \/ NoteEarliest \/ \E u \in Timer : KeTimerReset(u) \/ KeTimerInitialize(u)
            \/ KiDPCDispatchQueue \/ RunRoutine \/ ExpirationDone
  BY <1>1, <1>10 DEF KeTimerEnqueue, ComputeExpiry, NoteEarliest, KeTimerReset, KeTimerInitialize,
     KiDPCDispatchQueue, RunRoutine, ExpirationDone
<1>. QED
  BY <1>3, <1>4, <1>5, <1>6, <1>7, <1>8, <1>9, <1>10 DEF Next, Expiration

LEMMA TickWord ==
  ASSUME NoWrap, TypeOK, ticks < MaxTicks
  PROVE  Wrapped(ticks + 1) = ticks + 1 /\ ticks + 1 \in Nat /\ ticks + 1 \in Word
BY TimerAssumption DEF NoWrap, TypeOK, Wrapped, Never, Word

\* KeTimerEnqueue changes no timer that is started.
LEMMA StartsOne ==
  ASSUME Inv, NEW c \in Client, KeTimerEnqueue(c), NEW t \in Timer, table.enqueued[t]
  PROVE  table'.enqueued[t] /\ table'.expiry[t] = table.expiry[t]
<1>1. table \in Table /\ request[c].timer \in Timer /\ request[c].expiry \in Word
  BY DEF Inv, TypeOK, KeTimerEnqueue, Request
<1>2. CASE table' = table
  BY <1>2
<1>3. CASE table' # table
  <2>1. PICK p \in Pointer :
          table' = Linked(table, request[c].timer, request[c].expiry, p)
    BY <1>3 DEF KeTimerEnqueue
  <2>2. ~table.enqueued[request[c].timer]
    BY <1>3 DEF KeTimerEnqueue
  <2>3. LinkedAs(table', table, request[c].timer, request[c].expiry, p)
    BY <1>1, <2>1, LinkedFields
  <2>4. /\ table'.enqueued = [table.enqueued EXCEPT ![request[c].timer] = TRUE]
        /\ table'.expiry = [table.expiry EXCEPT ![request[c].timer] = request[c].expiry]
    BY <2>3 DEF LinkedAs
  <2>. QED
    BY <1>1, <2>2, <2>4 DEF Table
<1>. QED
  BY <1>2, <1>3

LEMMA NoticedStep ==
  ASSUME NoWrap, Inv, NoticedInTime, [Next]_vars
  PROVE  NoticedInTime'
<1>1. /\ TypeOK /\ ticks \in Nat /\ table \in Table
      /\ noticed \in [Timer -> 0 .. MaxTicks] /\ MaxTicks \in Nat
      /\ dpc.context1 \in Nat
  <2>1. MaxTicks \in Nat /\ Word \subseteq Nat
    BY NeverTyped, TimerAssumption
  <2>2. /\ TypeOK /\ table \in Table /\ dpc.context1 \in Word
        /\ noticed \in [Timer -> 0 .. MaxTicks] /\ ticks \in 0 .. MaxTicks
    BY DEF Inv, TypeOK
  <2>3. dpc.context1 \in Nat
    BY <2>1, <2>2
  <2>4. ticks \in Nat
    BY <2>1, <2>2
  <2>. QED
    BY <2>1, <2>2, <2>3, <2>4
<1>2. CASE KeClockTick
  <2>1. /\ ticks' = ticks + 1 /\ ticks < MaxTicks /\ UNCHANGED <<table, region, scan>>
        /\ \/ /\ dpc' = Enqueued(Wrapped(ticks + 1))
              /\ noticed' = [t \in Timer |-> IF t \in DueIn(BucketOf(Wrapped(ticks + 1)),
                                                           Wrapped(ticks + 1))
                                             THEN ticks + 1 ELSE noticed[t]]
           \/ UNCHANGED <<dpc, noticed>>
    BY <1>2 DEF KeClockTick
  <2>2. dpc'.context1 <= ticks'
    BY <2>1, <1>1, TickWord DEF Enqueued, NoticedInTime
  <2>3. region' = "start" => scan'.from <= ticks'
    <3>1. region = "start" => scan.from <= ticks /\ scan.from \in Nat
      BY NeverTyped DEF Inv, TypeOK, NoticedInTime
    <3>. QED
      BY <2>1, <1>1, <3>1
  <2>4. ASSUME NEW t \in Timer
        PROVE  noticed'[t] <= ticks' /\ (~table'.enqueued[t] => noticed'[t] = 0)
    <3>1. noticed[t] <= ticks /\ noticed[t] \in Nat /\ (~table.enqueued[t] => noticed[t] = 0)
      BY <1>1 DEF NoticedInTime
    <3>2. \/ noticed'[t] = noticed[t]
          \/ noticed'[t] = ticks + 1 /\ table.enqueued[t]
      BY <2>1 DEF DueIn
    <3>. QED
      BY <2>1, <1>1, <3>1, <3>2
  <2>. QED
    BY <2>2, <2>3, <2>4 DEF NoticedInTime
<1>3. CASE \E c \in Client : KeTimerEnqueue(c)
  <2>1. PICK c \in Client : KeTimerEnqueue(c)
    BY <1>3
  <2>2. UNCHANGED <<ticks, dpc, noticed>> /\ region' # "start"
    BY <2>1 DEF KeTimerEnqueue
  <2>3. ASSUME NEW t \in Timer, table.enqueued[t] PROVE table'.enqueued[t]
    BY <2>1, <2>3, StartsOne
  <2>. QED
    BY <2>2, <2>3 DEF NoticedInTime
<1>4. CASE \E u \in Timer : KeTimerDequeue(u)
  <2>1. PICK u \in Timer : KeTimerDequeue(u)
    BY <1>4
  <2>2. /\ UNCHANGED <<ticks, dpc, region, scan>> /\ table' = Unlinked(table, u)
        /\ noticed' = [noticed EXCEPT ![u] = 0]
    BY <2>1 DEF KeTimerDequeue
  <2>3. table'.enqueued = [table.enqueued EXCEPT ![u] = FALSE]
    BY <2>2, <1>1, UnlinkedFields DEF UnlinkedAs
  <2>. QED
    BY <2>2, <2>3, <1>1 DEF NoticedInTime, Table
<1>5. CASE ExpireTimer
  <2>1. /\ UNCHANGED <<ticks, dpc>> /\ region' # "start" /\ table' = Expired(table, cursor)
        /\ noticed' = [noticed EXCEPT ![cursor] = 0] /\ cursor \in Timer
    BY <1>5 DEF ExpireTimer, Inv, TypeOK, CursorInv, Pointer
  <2>2. table'.enqueued = [table.enqueued EXCEPT ![cursor] = FALSE]
    BY <2>1, <1>1, ExpiredFields DEF ExpiredAs
  <2>. QED
    BY <2>1, <2>2, <1>1 DEF NoticedInTime, Table
<1>6. CASE KiDPCDispatchQueue
  <2>1. /\ UNCHANGED <<ticks, table, noticed>> /\ dpc'.context1 = dpc.context1
        /\ scan'.from = dpc.context1
    BY <1>6 DEF KiDPCDispatchQueue, Inv, TypeOK
  <2>. QED
    BY <2>1 DEF NoticedInTime
<1>7. CASE \/ AdvanceTimer \/ NoteEarliest
           \/ \E u \in Timer : KeTimerReset(u) \/ KeTimerInitialize(u)
  <2>1. UNCHANGED <<ticks, dpc, noticed>> /\ region' # "start"
    BY <1>7 DEF AdvanceTimer, NoteEarliest, KeTimerReset, KeTimerInitialize
  <2>2. table'.enqueued = table.enqueued
    <3>1. CASE AdvanceTimer
      BY <3>1, <1>1 DEF AdvanceTimer, Advanced, Table
    <3>2. CASE NoteEarliest \/ \E u \in Timer : KeTimerReset(u) \/ KeTimerInitialize(u)
      BY <3>2, <1>1 DEF NoteEarliest, KeTimerReset, KeTimerInitialize, Table
    <3>. QED
      BY <1>7, <3>1, <3>2
  <2>. QED
    BY <2>1, <2>2 DEF NoticedInTime
<1>8. CASE \/ UNCHANGED vars \/ KiTimerExpiration \/ ScanBucket \/ ScanDone \/ RunRoutine
           \/ ExpirationDone
           \/ \E c \in Client, t \in Timer, ms \in Intervals : ComputeExpiry(c, t, ms)
  <2>1. UNCHANGED <<ticks, table, dpc, noticed>> /\ (region' = "start" => region = "start" /\ scan' = scan)
    BY <1>8 DEF vars, KiTimerExpiration, ScanBucket, ScanDone, RunRoutine, ExpirationDone,
       ComputeExpiry
  <2>. QED
    BY <2>1 DEF NoticedInTime
<1>. QED
  BY <1>2, <1>3, <1>4, <1>5, <1>6, <1>7, <1>8 DEF Next, Expiration

\* A timer that is still started after a step, and noticed, was so before.
LEMMA StillNoticed ==
  ASSUME Inv, NoticedInTime, [Next]_vars, ~KeClockTick,
         NEW t \in Timer, table'.enqueued[t], noticed'[t] # 0
  PROVE  table.enqueued[t] /\ table'.expiry[t] = table.expiry[t] /\ noticed'[t] = noticed[t]
<1>1. table \in Table /\ noticed \in [Timer -> 0 .. MaxTicks]
  BY DEF Inv, TypeOK
<1>2. CASE \E c \in Client : KeTimerEnqueue(c)
  <2>1. PICK c \in Client : KeTimerEnqueue(c)
    BY <1>2
  <2>2. noticed' = noticed /\ table.enqueued[t]
    BY <2>1 DEF KeTimerEnqueue, NoticedInTime
  <2>. QED
    BY <2>1, <2>2, StartsOne
<1>3. CASE \E u \in Timer : KeTimerDequeue(u)
  <2>1. PICK u \in Timer : KeTimerDequeue(u)
    BY <1>3
  <2>2. table' = Unlinked(table, u) /\ noticed' = [noticed EXCEPT ![u] = 0]
    BY <2>1 DEF KeTimerDequeue
  <2>3. table'.enqueued = [table.enqueued EXCEPT ![u] = FALSE] /\ table'.expiry = table.expiry
    BY <2>2, <1>1, UnlinkedFields DEF UnlinkedAs
  <2>. QED
    BY <2>2, <2>3, <1>1 DEF Table
<1>4. CASE ExpireTimer
  <2>1. /\ table' = Expired(table, cursor) /\ noticed' = [noticed EXCEPT ![cursor] = 0]
        /\ cursor \in Timer
    BY <1>4 DEF ExpireTimer, Inv, TypeOK, CursorInv, Pointer
  <2>2. table'.enqueued = [table.enqueued EXCEPT ![cursor] = FALSE] /\ table'.expiry = table.expiry
    BY <2>1, <1>1, ExpiredFields DEF ExpiredAs
  <2>. QED
    BY <2>1, <2>2, <1>1 DEF Table
<1>5. CASE \/ AdvanceTimer \/ NoteEarliest
           \/ \E u \in Timer : KeTimerReset(u) \/ KeTimerInitialize(u)
  <2>1. UNCHANGED noticed
    BY <1>5 DEF AdvanceTimer, NoteEarliest, KeTimerReset, KeTimerInitialize
  <2>2. table'.enqueued = table.enqueued /\ table'.expiry = table.expiry
    <3>1. CASE AdvanceTimer
      BY <3>1, <1>1 DEF AdvanceTimer, Advanced, Table
    <3>2. CASE NoteEarliest \/ \E u \in Timer : KeTimerReset(u) \/ KeTimerInitialize(u)
      BY <3>2, <1>1 DEF NoteEarliest, KeTimerReset, KeTimerInitialize, Table
    <3>. QED
      BY <1>5, <3>1, <3>2
  <2>. QED
    BY <2>1, <2>2
<1>6. CASE \/ UNCHANGED vars \/ KiTimerExpiration \/ ScanBucket \/ ScanDone \/ RunRoutine
           \/ ExpirationDone \/ KiDPCDispatchQueue
           \/ \E c \in Client, u \in Timer, ms \in Intervals : ComputeExpiry(c, u, ms)
  BY <1>6 DEF vars, KiTimerExpiration, ScanBucket, ScanDone, RunRoutine, ExpirationDone,
     ComputeExpiry, KiDPCDispatchQueue
<1>. QED
  BY <1>2, <1>3, <1>4, <1>5, <1>6 DEF Next, Expiration

LEMMA ServingStep ==
  ASSUME NoWrap, Inv, Listed(table, Open, First), NoticedInTime, Serving, [Next]_vars
  PROVE  Serving'
<1>. SUFFICES ASSUME NEW t \in Timer,
                     table'.enqueued[t], noticed'[t] # 0, noticed'[t] = dpc'.context1
              PROVE  /\ BucketOf(table'.expiry[t]) = BucketOf(noticed'[t])
                     /\ table'.expiry[t] <= noticed'[t]
                     /\ dpc'.enqueued \/ Coming(noticed[t])'
  BY DEF Serving
<1>1. /\ TypeOK /\ noticed \in [Timer -> 0 .. MaxTicks] /\ ticks \in Nat /\ noticed[t] \in Nat
  BY DEF Inv, TypeOK
<1>2. CASE KeClockTick
  <2>. DEFINE now == ticks + 1
  <2>1. /\ Wrapped(ticks + 1) = now /\ UNCHANGED <<table, region, scan>>
        /\ \/ /\ dpc' = Enqueued(now)
              /\ noticed' = [u \in Timer |-> IF u \in DueIn(BucketOf(now), now)
                                             THEN now ELSE noticed[u]]
           \/ UNCHANGED <<dpc, noticed>>
    BY <1>2, <1>1, TickWord DEF KeClockTick
  <2>2. CASE UNCHANGED <<dpc, noticed>>
    BY <2>1, <2>2 DEF Serving, Coming
  <2>3. CASE dpc' # dpc \/ noticed' # noticed
    <3>1. /\ dpc'.enqueued /\ dpc'.context1 = now
          /\ noticed'[t] = IF t \in DueIn(BucketOf(now), now) THEN now ELSE noticed[t]
      BY <2>1, <2>3 DEF Enqueued
    <3>2. noticed[t] # now
      BY <1>1 DEF NoticedInTime
    <3>3. t \in DueIn(BucketOf(now), now)
      BY <3>1, <3>2
    <3>. QED
      BY <2>1, <3>1, <3>3 DEF DueIn
  <2>. QED
    BY <2>2, <2>3
<1>3. CASE ~KeClockTick
  <2>1. /\ table.enqueued[t] /\ table'.expiry[t] = table.expiry[t] /\ noticed'[t] = noticed[t]
    BY <1>3, StillNoticed
  <2>2. dpc' = dpc \/ KiDPCDispatchQueue
    BY <1>3 DEF Next, vars, Expiration, ComputeExpiry, KeTimerEnqueue, NoteEarliest, KeTimerDequeue,
       KeTimerReset, KeTimerInitialize, KiTimerExpiration, ScanBucket, ExpireTimer, AdvanceTimer,
       ScanDone, RunRoutine, ExpirationDone
  <2>3. dpc'.context1 = dpc.context1
    BY <2>2 DEF KiDPCDispatchQueue, Inv, TypeOK
  <2>4. PICK k \in Nat : k = noticed[t]
    BY <1>1
  <2>5. /\ BucketOf(table.expiry[t]) = BucketOf(k) /\ table.expiry[t] <= k
        /\ dpc.enqueued \/ Coming(k)
    BY <2>1, <2>3, <2>4 DEF Serving
  <2>6. CASE KiDPCDispatchQueue
    <3>1. region' = "start" /\ scan'.from = dpc.context1
      BY <2>6 DEF KiDPCDispatchQueue, Inv, TypeOK
    <3>2. Coming(k)'
      BY <3>1, <2>1, <2>3, <2>4 DEF Coming
    <3>. QED
      BY <2>1, <2>4, <2>5, <3>2
  <2>7. CASE dpc' = dpc
    <3>1. dpc'.enqueued \/ Coming(k)'
      BY <2>1, <2>5, <2>7, ComingStays
    <3>. QED
      BY <2>1, <2>4, <2>5, <3>1
  <2>. QED
    BY <2>2, <2>6, <2>7
<1>. QED
  BY <1>2, <1>3

LEMMA ServingHolds ==
  NoWrap /\ Spec => [](Inv /\ Listed(table, Open, First) /\ NoticedInTime /\ Serving)
<1>1. Init => NoticedInTime /\ Serving
  BY DEF Init, NoticedInTime, Serving
<1>2. /\ NoWrap /\ Inv /\ Listed(table, Open, First) /\ NoticedInTime /\ Serving /\ [Next]_vars
      => (NoticedInTime /\ Serving)'
  BY NoticedStep, ServingStep
<1>3. NoWrap => NoWrap'
  BY DEF NoWrap
<1>. QED
  BY <1>1, <1>2, <1>3, ListsHold, PTL DEF Spec

\* Whatever is started, cancelled and expired meanwhile, a timer the clock
\* noticed at the tick it reported last is expired by the DPC it queued.
THEOREM ReportsAreServed == NoWrap /\ Spec => []LastReportServed
<1>1. NoWrap /\ Inv /\ Serving => LastReportServed
  <2>. SUFFICES ASSUME NoWrap, Inv, Serving, region = "low", ~dpc.enqueued,
                       NEW t \in Timer, table.enqueued[t], noticed[t] # 0,
                       Wrapped(noticed[t]) = dpc.context1
                PROVE  FALSE
    BY DEF LastReportServed
  <2>1. noticed[t] \in 0 .. MaxTicks
    BY DEF Inv, TypeOK
  <2>2. Wrapped(noticed[t]) = noticed[t]
    BY <2>1, TimerAssumption DEF NoWrap, Wrapped, Never
  <2>3. Coming(noticed[t])
    BY <2>2 DEF Serving
  <2>. QED
    BY <2>3 DEF Coming
<1>2. NoWrap => NoWrap'
  BY DEF NoWrap
<1>. QED
  BY <1>1, <1>2, ServingHolds, PTL

-----------------------------------------------------------------------------
(***************************************************************************)
(* No timer is left behind by its tick, when no tick interrupts.           *)
(***************************************************************************)

InTime ==
  /\ \A c \in Client : request[c] # Null => request[c].due > ticks
  /\ \A t \in Timer : table.enqueued[t] =>
       \/ due[t] > ticks
       \/ due[t] = ticks /\ ((dpc.enqueued /\ dpc.context1 = ticks) \/ Coming(ticks))

\* The clock reports a tick at which a timer is due.
LEMMA DueIsReported ==
  ASSUME NoWrap, Inv, Listed(table, Open, First), region = "low", KeClockTick,
         NEW t \in Timer, table.enqueued[t], due[t] = ticks + 1
  PROVE  dpc'.enqueued /\ dpc'.context1 = ticks + 1
<1>. DEFINE now == ticks + 1
            h   == table.head[BucketOf(now)]
<1>1. TypeOK /\ table \in Table /\ ticks < MaxTicks
  BY DEF Inv, TypeOK, KeClockTick
<1>2. Wrapped(ticks + 1) = now /\ now \in Nat /\ BucketOf(now) \in Bucket
  BY <1>1, TickWord, BucketTyped
<1>3. table.expiry[t] = now
  BY DEF Inv, TrueTicks
<1>4. /\ Open = None /\ First = Null /\ Unnoted = None
      /\ table.earliest[BucketOf(now)] = EarliestOf(table, h)
  BY <1>2, NeverTyped DEF Inv, Open, First, Unnoted, Noted
<1>5. \/ /\ table.earliest[BucketOf(now)] <= now
         /\ dpc' = Enqueued(now)
      \/ ~(table.earliest[BucketOf(now)] <= now)
  BY <1>2 DEF KeClockTick
<1>6. HasList(table, BucketOf(now), h)
  BY <1>2, <1>4, NeverTyped DEF Listed, Start
<1>7. In(table, t, BucketOf(now))
  BY <1>3 DEF In
<1>. HIDE DEF h, now
<1>8. h \in Timer /\ table.expiry[h] <= now
  BY <1>1, <1>2, <1>3, <1>6, <1>7, FirstIsNext
<1>9. dpc' = Enqueued(now)
  BY <1>4, <1>5, <1>8, NullTyped DEF EarliestOf
<1>. QED
  BY <1>9 DEF Enqueued, now

\* A timer that is started after a step was so before, or the step started it.
LEMMA StillStarted ==
  ASSUME Inv, [Next]_vars, ~KeClockTick, NEW t \in Timer, table'.enqueued[t]
  PROVE  \/ table.enqueued[t] /\ due'[t] = due[t]
         \/ \E c \in Client : KeTimerEnqueue(c) /\ due'[t] = request[c].due
<1>1. table \in Table /\ due \in [Timer -> Nat]
  BY DEF Inv, TypeOK
<1>2. CASE \E c \in Client : KeTimerEnqueue(c)
  <2>1. PICK c \in Client : KeTimerEnqueue(c)
    BY <1>2
  <2>2. request[c].timer \in Timer /\ request[c].expiry \in Word
    BY <2>1 DEF Inv, TypeOK, KeTimerEnqueue, Request
  <2>3. CASE table.enqueued[request[c].timer]
    BY <2>1, <2>3 DEF KeTimerEnqueue
  <2>4. CASE ~table.enqueued[request[c].timer]
    <3>1. PICK p \in Pointer :
            table' = Linked(table, request[c].timer, request[c].expiry, p)
      BY <2>1, <2>4 DEF KeTimerEnqueue
    <3>2. LinkedAs(table', table, request[c].timer, request[c].expiry, p)
      BY <1>1, <2>2, <3>1, LinkedFields
    <3>3. /\ table'.enqueued = [table.enqueued EXCEPT ![request[c].timer] = TRUE]
          /\ due' = [due EXCEPT ![request[c].timer] = request[c].due]
      BY <2>1, <2>4, <3>2 DEF LinkedAs, KeTimerEnqueue
    <3>4. CASE t = request[c].timer
      BY <1>1, <2>1, <3>3, <3>4
    <3>5. CASE t # request[c].timer
      BY <1>1, <3>3, <3>5 DEF Table
    <3>. QED
      BY <3>4, <3>5
  <2>. QED
    BY <2>3, <2>4
<1>3. CASE \E u \in Timer : KeTimerDequeue(u)
  <2>1. PICK u \in Timer : KeTimerDequeue(u)
    BY <1>3
  <2>2. table' = Unlinked(table, u) /\ due' = [due EXCEPT ![u] = 0]
    BY <2>1 DEF KeTimerDequeue
  <2>3. table'.enqueued = [table.enqueued EXCEPT ![u] = FALSE]
    BY <2>2, <1>1, UnlinkedFields DEF UnlinkedAs
  <2>. QED
    BY <2>2, <2>3, <1>1 DEF Table
<1>4. CASE ExpireTimer
  <2>1. table' = Expired(table, cursor) /\ due' = [due EXCEPT ![cursor] = 0] /\ cursor \in Timer
    BY <1>4 DEF ExpireTimer, Inv, TypeOK, CursorInv, Pointer
  <2>2. table'.enqueued = [table.enqueued EXCEPT ![cursor] = FALSE]
    BY <2>1, <1>1, ExpiredFields DEF ExpiredAs
  <2>. QED
    BY <2>1, <2>2, <1>1 DEF Table
<1>5. CASE \/ AdvanceTimer \/ NoteEarliest
           \/ \E u \in Timer : KeTimerReset(u) \/ KeTimerInitialize(u)
  <2>1. UNCHANGED due
    BY <1>5 DEF AdvanceTimer, NoteEarliest, KeTimerReset, KeTimerInitialize
  <2>2. table'.enqueued = table.enqueued
    <3>1. CASE AdvanceTimer
      BY <3>1, <1>1 DEF AdvanceTimer, Advanced, Table
    <3>2. CASE NoteEarliest \/ \E u \in Timer : KeTimerReset(u) \/ KeTimerInitialize(u)
      BY <3>2, <1>1 DEF NoteEarliest, KeTimerReset, KeTimerInitialize, Table
    <3>. QED
      BY <1>5, <3>1, <3>2
  <2>. QED
    BY <2>1, <2>2
<1>6. CASE \/ UNCHANGED vars \/ KiTimerExpiration \/ ScanBucket \/ ScanDone \/ RunRoutine
           \/ ExpirationDone \/ KiDPCDispatchQueue
           \/ \E c \in Client, u \in Timer, ms \in Intervals : ComputeExpiry(c, u, ms)
  BY <1>6 DEF vars, KiTimerExpiration, ScanBucket, ScanDone, RunRoutine, ExpirationDone,
     ComputeExpiry, KiDPCDispatchQueue
<1>. QED
  BY <1>2, <1>3, <1>4, <1>5, <1>6 DEF Next, Expiration

LEMMA RequestsInTime ==
  ASSUME NoWrap, Prompt, Inv, InTime, [Next]_vars,
         NEW c \in Client, request'[c] # Null
  PROVE  request'[c].due > ticks'
<1>1. /\ request \in [Client -> Request \cup {Null}] /\ ticks \in Nat
  BY DEF Inv, TypeOK
<1>2. CASE KeClockTick
  BY <1>2 DEF KeClockTick, Settled
<1>3. CASE \E d \in Client, u \in Timer, ms \in Intervals : ComputeExpiry(d, u, ms)
  <2>1. PICK d \in Client, u \in Timer, ms \in Intervals : ComputeExpiry(d, u, ms)
    BY <1>3
  <2>2. /\ ticks' = ticks
        /\ request' = [request EXCEPT ![d] =
             [timer  |-> u,
              expiry |-> Wrapped(Rounded(ms) + KiClockTicks),
              due    |-> Rounded(ms) + ticks]]
    BY <2>1 DEF ComputeExpiry
  <2>3. CASE c = d
    <3>1. Rounded(ms) \in Nat \ {0}
      BY TimerAssumption DEF Delays
    <3>2. request'[c].due = Rounded(ms) + ticks
      BY <1>1, <2>2, <2>3
    <3>. QED
      BY <1>1, <2>2, <3>1, <3>2
  <2>4. CASE c # d
    BY <1>1, <2>2, <2>4 DEF InTime
  <2>. QED
    BY <2>3, <2>4
<1>4. CASE \E d \in Client : KeTimerEnqueue(d)
  <2>1. PICK d \in Client : KeTimerEnqueue(d)
    BY <1>4
  <2>2. ticks' = ticks /\ request' = [request EXCEPT ![d] = Null]
    BY <2>1 DEF KeTimerEnqueue
  <2>. QED
    BY <1>1, <2>2 DEF InTime
<1>5. CASE \/ UNCHANGED vars \/ NoteEarliest \/ Expiration
           \/ \E t \in Timer : KeTimerDequeue(t) \/ KeTimerReset(t) \/ KeTimerInitialize(t)
  <2>1. ticks' = ticks /\ request' = request
    BY <1>5 DEF vars, NoteEarliest, Expiration, KeTimerDequeue, KeTimerReset, KeTimerInitialize,
       KiDPCDispatchQueue, KiTimerExpiration, ScanBucket, ExpireTimer, AdvanceTimer, ScanDone,
       RunRoutine, ExpirationDone
  <2>. QED
    BY <2>1 DEF InTime
<1>. QED
  BY <1>2, <1>3, <1>4, <1>5 DEF Next

LEMMA TimersInTime ==
  ASSUME NoWrap, Prompt, Inv, Listed(table, Open, First), NoticedInTime, InTime, [Next]_vars,
         NEW t \in Timer, table'.enqueued[t]
  PROVE  \/ due'[t] > ticks'
         \/ /\ due'[t] = ticks'
            /\ (dpc'.enqueued /\ dpc'.context1 = ticks') \/ Coming(ticks)'
<1>1. /\ ticks \in Nat /\ due \in [Timer -> Nat] /\ due[t] \in Nat
  BY DEF Inv, TypeOK
<1>2. CASE KeClockTick
  <2>1. /\ ticks' = ticks + 1 /\ UNCHANGED <<table, due>>
        /\ region = "low" /\ ~dpc.enqueued
    BY <1>2 DEF KeClockTick, Settled
  <2>2. ~Coming(ticks)
    BY <2>1 DEF Coming
  <2>3. due[t] > ticks
    BY <2>1, <2>2 DEF InTime
  <2>4. CASE due[t] = ticks + 1
    BY <1>2, <2>1, <2>4, DueIsReported
  <2>5. CASE due[t] # ticks + 1
    BY <1>1, <2>1, <2>3, <2>5
  <2>. QED
    BY <2>4, <2>5
<1>3. CASE ~KeClockTick
  <2>1. ticks' = ticks
    BY <1>3 DEF Next, vars, Expiration, ComputeExpiry, KeTimerEnqueue, NoteEarliest, KeTimerDequeue,
       KeTimerReset, KeTimerInitialize, KiDPCDispatchQueue, KiTimerExpiration, ScanBucket,
       ExpireTimer, AdvanceTimer, ScanDone, RunRoutine, ExpirationDone
  <2>2. CASE \E c \in Client : KeTimerEnqueue(c) /\ due'[t] = request[c].due
    BY <2>1, <2>2 DEF InTime, KeTimerEnqueue
  <2>3. CASE table.enqueued[t] /\ due'[t] = due[t]
    <3>1. dpc' = dpc \/ KiDPCDispatchQueue
      BY <1>3 DEF Next, vars, Expiration, ComputeExpiry, KeTimerEnqueue, NoteEarliest,
         KeTimerDequeue, KeTimerReset, KeTimerInitialize, KiTimerExpiration, ScanBucket,
         ExpireTimer, AdvanceTimer, ScanDone, RunRoutine, ExpirationDone
    <3>2. PICK k \in Nat : k = ticks
      BY <1>1
    <3>3. CASE due[t] > k
      BY <2>1, <2>3, <3>2, <3>3
    <3>4. CASE ~(due[t] > k)
      <4>1. due[t] = k /\ ((dpc.enqueued /\ dpc.context1 = k) \/ Coming(k))
        BY <2>3, <3>2, <3>4 DEF InTime
      <4>2. table.expiry[t] = k
        BY <2>3, <4>1 DEF Inv, TrueTicks
      <4>3. (dpc'.enqueued /\ dpc'.context1 = k) \/ Coming(k)'
        <5>1. CASE KiDPCDispatchQueue
          <6>1. region = "low" /\ region' = "start" /\ scan'.from = dpc.context1
            BY <5>1 DEF KiDPCDispatchQueue, Inv, TypeOK
          <6>2. dpc.context1 = k
            BY <4>1, <6>1 DEF Coming
          <6>. QED
            BY <6>1, <6>2 DEF Coming
        <5>2. CASE dpc' = dpc
          <6>1. CASE Coming(k)
            BY <2>3, <4>2, <6>1, ComingStays
          <6>. QED
            BY <4>1, <5>2, <6>1
        <5>. QED
          BY <3>1, <5>1, <5>2
      <4>. QED
        BY <2>1, <2>3, <3>2, <4>1, <4>3
    <3>. QED
      BY <3>3, <3>4
  <2>. QED
    BY <1>3, <2>2, <2>3, StillStarted
<1>. QED
  BY <1>2, <1>3

\* When no tick occurs while a timer operation or the expiration is under way,
\* every timer started on its due tick has been expired or cancelled by the time
\* they are done.
THEOREM TimersArePunctual == NoWrap /\ Prompt /\ Spec => []Punctual
<1>1. Init => InTime
  BY DEF Init, InTime
<1>2. /\ NoWrap /\ Prompt /\ Inv /\ Listed(table, Open, First) /\ NoticedInTime
      /\ InTime /\ [Next]_vars
      => InTime'
  BY RequestsInTime, TimersInTime DEF InTime
<1>3. InTime => Punctual
  BY DEF InTime, Punctual, Settled, Coming
<1>4. NoWrap /\ Prompt => (NoWrap /\ Prompt)'
  BY DEF NoWrap
<1>. QED
  BY <1>1, <1>2, <1>3, <1>4, ServingHolds, PTL DEF Spec
=============================================================================
