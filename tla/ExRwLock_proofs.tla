-------------------------- MODULE ExRwLock_proofs --------------------------
(***************************************************************************)
(* Proofs about the reader-writer lock, for every number of threads and    *)
(* every size of the owner table.                                          *)
(***************************************************************************)
EXTENDS ExRwLock, FiniteSetTheorems, TLAPS

WaitPlaces == {"wait", "asleep"}
CallPlaces == {"try", "allocate", "grow"}

\* What the place of a thread says of its call and of what it holds.
PlaceRight(t) ==
  /\ pc[t] \in WaitPlaces \cup {"granted", "owner"} => mode[t] = "none" /\ call[t].op # "demote"
  /\ pc[t] = "granted" => call[t].op = "exclusive"
  /\ pc[t] \in CallPlaces /\ call[t].op = "exclusive" => mode[t] # "shared"
  /\ pc[t] \in CallPlaces /\ call[t].op = "demote" => mode[t] = "exclusive"
  /\ pc[t] \in WaitPlaces /\ call[t].op = "exclusive" => SyncEvent # None
  /\ pc[t] \in WaitPlaces /\ call[t].op = "shared" => SharedSemaphore # None
  /\ mode[t] = "none" <=> depth[t] = 0
PlacesRight == \A t \in Thread : PlaceRight(t)

\* The one thread the lock is exclusively held by, or being given to.
Writer(t) == mode[t] = "exclusive" \/ (call[t].op = "exclusive" /\ pc[t] \in {"granted", "owner"})
WriterRight(t) ==
  /\ Writer(t) => ExclusiveOwner.Locked # 0 /\ Reserved = 0
  /\ mode[t] = "exclusive" => ExclusiveOwner = [OwningThread |-> t, Locked |-> depth[t]]
  /\ pc[t] = "owner" /\ call[t].op = "exclusive" => ExclusiveOwner = By(t)
  /\ pc[t] = "granted" /\ call[t].op = "exclusive" =>
       ExclusiveOwner.Locked = 1 /\ ExclusiveOwner.OwningThread \in {None, t}
WritersRight ==
  /\ \A t \in Thread : WriterRight(t)
  /\ \A t, u \in Thread : Writer(t) /\ Writer(u) => t = u
  /\ ExclusiveOwner.OwningThread # None => Writer(ExclusiveOwner.OwningThread)

\* Slots are those of readers and of threads that wait to be; one each.
WS == Waiting("shared")
WX == Waiting("exclusive")
SlotRight(i) ==
  Owners[i].OwningThread # None =>
    LET t == Owners[i].OwningThread
    IN /\ t \in Readers \cup WS
       /\ Owners[i].Locked = IF mode[t] = "shared" THEN depth[t] ELSE 1
SlotsRight ==
  /\ \A i \in DOMAIN Owners : SlotRight(i)
  /\ \A i, j \in DOMAIN Owners :
       Owners[i].OwningThread = Owners[j].OwningThread /\ Owners[i].OwningThread # None => i = j
  /\ \A t \in Readers \cup WS : SlotsOf(t) # {}

\* CountsAddUp alone does not last: that a released unit reaches a reader
\* needs the places of threads, and these need the writers and the slots.
Inv == TypeOK /\ PlacesRight /\ WritersRight /\ CountsAddUp /\ SlotsRight

-----------------------------------------------------------------------------
LEMMA Finite == IsFiniteSet(Readers) /\ IsFiniteSet(WS) /\ IsFiniteSet(WX)
                /\ IsFiniteSet(Sleepers("shared")) /\ IsFiniteSet(Sleepers("exclusive"))
<1>1. \A S \in SUBSET Thread : IsFiniteSet(S)
  BY FS_Subset, ThreadAssumption
<1>2. Readers \in SUBSET Thread BY DEF Readers
<1>3. WS \in SUBSET Thread /\ WX \in SUBSET Thread BY DEF WS, WX, Waiting
<1>4. Sleepers("shared") \in SUBSET Thread /\ Sleepers("exclusive") \in SUBSET Thread
  BY DEF Sleepers
<1> QED BY <1>1, <1>2, <1>3, <1>4

LEMMA InitInv == Init => Inv
<1> SUFFICES ASSUME Init PROVE Inv
  OBVIOUS
<1> USE DEF Init
<1>1. TypeOK
  <2>1. NoOne \in Entry BY DEF Entry, NoOne
  <2>2. NoCall \in Call BY DEF NoCall, Call
  <2>3. Owners \in [0..TableSize -> Entry] BY <2>1
  <2> QED BY <2>1, <2>2, <2>3 DEF TypeOK, Places
<1>2. PlacesRight
  BY DEF PlacesRight, PlaceRight, WaitPlaces, CallPlaces
<1>3. \A t \in Thread : ~Writer(t)
  BY DEF Writer
<1>4. WritersRight
  BY <1>3 DEF WritersRight, WriterRight, Writer, NoOne
<1>5. Readers = {} /\ WS = {} /\ WX = {} /\ Sleepers("shared") = {} /\ Sleepers("exclusive") = {}
  BY DEF Readers, WS, WX, Waiting, Sleepers
<1>6. Units = 0 /\ Reserved = 0
  BY ThreadAssumption DEF Units, Reserved
<1>7. CountsAddUp
  BY <1>5, <1>6, FS_EmptySet DEF CountsAddUp, WS, WX, NoOne
<1>8. SlotsRight
  BY <1>5 DEF SlotsRight, SlotRight, NoOne
<1> QED BY <1>1, <1>2, <1>4, <1>7, <1>8 DEF Inv

-----------------------------------------------------------------------------
(* What a step does to the sets of threads, when one thread moves.         *)

Same(u) == pc'[u] = pc[u] /\ call'[u] = call[u] /\ mode'[u] = mode[u] /\ depth'[u] = depth[u]
OthersSame(t) == \A u \in Thread \ {t} : Same(u)

LEMMA Counted ==
  ASSUME NEW S, NEW T, NEW t, IsFiniteSet(S), IsFiniteSet(T), S \ {t} = T \ {t}
  PROVE  /\ (t \in S <=> t \in T) => S = T
         /\ t \notin S /\ t \in T => Cardinality(T) = Cardinality(S) + 1
         /\ t \in S /\ t \notin T => Cardinality(S) = Cardinality(T) + 1
         /\ Cardinality(S) \in Nat /\ Cardinality(T) \in Nat
<1>1. (t \in S <=> t \in T) => S = T
  OBVIOUS
<1>2. ASSUME t \notin S, t \in T PROVE Cardinality(T) = Cardinality(S) + 1
  <2>1. T = S \cup {t} BY <1>2
  <2> QED BY <2>1, <1>2, FS_AddElement
<1>3. ASSUME t \in S, t \notin T PROVE Cardinality(S) = Cardinality(T) + 1
  <2>1. S = T \cup {t} BY <1>3
  <2> QED BY <2>1, <1>3, FS_AddElement
<1>4. Cardinality(S) \in Nat /\ Cardinality(T) \in Nat
  BY FS_CardinalityType
<1> QED BY <1>1, <1>2, <1>3, <1>4

LEMMA Empty == ASSUME NEW S, IsFiniteSet(S) PROVE Cardinality(S) \in Nat /\ (Cardinality(S) = 0 <=> S = {})
BY FS_EmptySet, FS_CardinalityType

LEMMA OneMoves ==
  ASSUME NEW t, OthersSame(t)
  PROVE  /\ Readers \ {t} = Readers' \ {t} /\ WS \ {t} = WS' \ {t} /\ WX \ {t} = WX' \ {t}
         /\ Sleepers("shared") \ {t} = Sleepers("shared")' \ {t}
         /\ Sleepers("exclusive") \ {t} = Sleepers("exclusive")' \ {t}
         /\ \A u \in Thread \ {t} : Writer(u)' <=> Writer(u)
<1> USE DEF OthersSame, Same
<1>1. Readers \ {t} = Readers' \ {t} BY DEF Readers
<1>2. WS \ {t} = WS' \ {t} /\ WX \ {t} = WX' \ {t} BY DEF WS, WX, Waiting
<1>3. /\ Sleepers("shared") \ {t} = Sleepers("shared")' \ {t}
      /\ Sleepers("exclusive") \ {t} = Sleepers("exclusive")' \ {t}
  BY DEF Sleepers
<1>4. \A u \in Thread \ {t} : Writer(u)' <=> Writer(u) BY DEF Writer
<1> QED BY <1>1, <1>2, <1>3, <1>4

LEMMA FiniteNext == (IsFiniteSet(Readers) /\ IsFiniteSet(WS) /\ IsFiniteSet(WX)
                     /\ IsFiniteSet(Sleepers("shared")) /\ IsFiniteSet(Sleepers("exclusive")))'
BY Finite, PTL

\* The sets a thread is in, by the place it is at.
RoleRight(t) ==
  /\ pc[t] \in CallPlaces \cup WaitPlaces \cup {"out"} =>
       /\ t \in Readers <=> mode[t] = "shared"
       /\ Writer(t) <=> mode[t] = "exclusive"
  /\ pc[t] \in {"granted", "owner"} /\ call[t].op = "exclusive" =>
       Writer(t) /\ (t \in Readers <=> mode[t] = "shared")
  /\ pc[t] = "owner" /\ call[t].op = "shared" =>
       t \in Readers /\ (Writer(t) <=> mode[t] = "exclusive")
  /\ t \in WS <=> pc[t] \in WaitPlaces /\ call[t].op = "shared"
  /\ t \in WX <=> pc[t] \in WaitPlaces /\ call[t].op = "exclusive"
  /\ t \in Sleepers("shared") <=> pc[t] = "asleep" /\ call[t].op = "shared"
  /\ t \in Sleepers("exclusive") <=> pc[t] = "asleep" /\ call[t].op = "exclusive"

LEMMA Roles == \A t \in Thread : RoleRight(t)
<1> SUFFICES ASSUME NEW t \in Thread PROVE RoleRight(t)
  OBVIOUS
<1> USE DEF CallPlaces, WaitPlaces
<1>1. t \in Readers <=> mode[t] = "shared" \/ (pc[t] = "owner" /\ call[t].op = "shared")
  BY DEF Readers
<1>2. Writer(t) <=> mode[t] = "exclusive" \/ (call[t].op = "exclusive" /\ pc[t] \in {"granted", "owner"})
  BY DEF Writer
<1>3. /\ t \in WS <=> pc[t] \in WaitPlaces /\ call[t].op = "shared"
      /\ t \in WX <=> pc[t] \in WaitPlaces /\ call[t].op = "exclusive"
  BY DEF WS, WX, Waiting
<1>4. /\ t \in Sleepers("shared") <=> pc[t] = "asleep" /\ call[t].op = "shared"
      /\ t \in Sleepers("exclusive") <=> pc[t] = "asleep" /\ call[t].op = "exclusive"
  BY DEF Sleepers
<1> QED BY <1>1, <1>2, <1>3, <1>4 DEF RoleRight

LEMMA RolesNext == (\A t \in Thread : RoleRight(t))'
BY Roles, PTL

-----------------------------------------------------------------------------
(* The parts of the invariant, from what a step leaves alone.              *)

LEMMA PlacesKept ==
  ASSUME NEW t \in Thread, PlacesRight, OthersSame(t), PlaceRight(t)',
         SyncEvent # None => SyncEvent' # None,
         SharedSemaphore # None => SharedSemaphore' # None
  PROVE  PlacesRight'
<1> SUFFICES ASSUME NEW u \in Thread PROVE PlaceRight(u)'
  BY DEF PlacesRight
<1>1. CASE u = t BY <1>1
<1>2. CASE u # t
  <2>1. PlaceRight(u) BY DEF PlacesRight
  <2>2. Same(u) BY <1>2 DEF OthersSame
  <2> QED BY <2>1, <2>2 DEF PlaceRight, Same
<1> QED BY <1>1, <1>2

\* Nobody has the lock exclusively.
LEMMA NoWriter ==
  ASSUME \A u \in Thread : ~Writer(u)', ExclusiveOwner'.OwningThread = None
  PROVE  WritersRight'
BY DEF WritersRight, WriterRight, Writer

\* At most one thread has it exclusively.
LEMMA OneWriter ==
  ASSUME NEW t \in Thread, \A u \in Thread \ {t} : ~Writer(u)', WriterRight(t)', Writer(t)',
         ExclusiveOwner'.OwningThread \in {None, t}
  PROVE  WritersRight'
<1>1. ASSUME NEW u \in Thread PROVE WriterRight(u)'
  <2>1. CASE u = t BY <2>1
  <2>2. CASE u # t
    <3>1. ~Writer(u)' BY <2>2
    <3> QED BY <3>1 DEF WriterRight, Writer
  <2> QED BY <2>1, <2>2
<1>2. ASSUME NEW u \in Thread, NEW v \in Thread, Writer(u)', Writer(v)' PROVE u = v
  <2>1. u = t /\ v = t BY <1>2
  <2> QED BY <2>1
<1>3. ExclusiveOwner'.OwningThread # None => ExclusiveOwner'.OwningThread = t
  OBVIOUS
<1> QED BY <1>1, <1>2, <1>3 DEF WritersRight

\* Whoever had it exclusively, or is to have it, still does.
LEMMA WritersKept ==
  ASSUME WritersRight, ExclusiveOwner \in Entry, UNCHANGED ExclusiveOwner, Reserved' = Reserved,
         \A u \in Thread : /\ Writer(u)' <=> Writer(u)
                           /\ mode'[u] = "exclusive" => mode[u] = "exclusive" /\ depth'[u] = depth[u]
                           /\ pc'[u] \in {"granted", "owner"} /\ call'[u].op = "exclusive" =>
                                pc[u] = pc'[u] /\ call[u].op = "exclusive"
  PROVE  WritersRight'
<1>1. ASSUME NEW u \in Thread PROVE WriterRight(u)'
  <2>1. WriterRight(u) BY DEF WritersRight
  <2> QED BY <2>1 DEF WriterRight
<1>2. \A u, v \in Thread : Writer(u)' /\ Writer(v)' => u = v
  BY DEF WritersRight
<1>3. ASSUME ExclusiveOwner'.OwningThread # None PROVE Writer(ExclusiveOwner.OwningThread)'
  <2>1. PICK w : w = ExclusiveOwner.OwningThread OBVIOUS
  <2>2. w \in Thread /\ Writer(w) BY <1>3, <2>1 DEF WritersRight, Entry
  <2>3. Writer(w)' BY <2>2
  <2>4. ExclusiveOwner'.OwningThread = w BY <2>1
  <2> QED BY <2>3, <2>4 DEF Writer
<1> QED BY <1>1, <1>2, <1>3 DEF WritersRight

\* A thread that has a slot, and what it owes.
HasSlot(t) == t \in Readers \cup WS
Owes(t)    == IF mode[t] = "shared" THEN depth[t] ELSE 1

LEMMA Slot ==
  ASSUME NEW i, SlotRight(i), Owners[i].OwningThread # None
  PROVE  HasSlot(Owners[i].OwningThread) /\ Owners[i].Locked = Owes(Owners[i].OwningThread)
BY DEF SlotRight, HasSlot, Owes

\* SlotsRight in terms of HasSlot and Owes, for this state and the next.
SlotsAre ==
  /\ \A i \in DOMAIN Owners : Owners[i].OwningThread # None =>
        HasSlot(Owners[i].OwningThread) /\ Owners[i].Locked = Owes(Owners[i].OwningThread)
  /\ \A i, j \in DOMAIN Owners :
       Owners[i].OwningThread = Owners[j].OwningThread /\ Owners[i].OwningThread # None => i = j
  /\ \A t \in Thread : HasSlot(t) => \E i \in DOMAIN Owners : Owners[i].OwningThread = t

LEMMA SlotsMean == SlotsRight <=> SlotsAre
<1>1. \A t : t \in Readers \cup WS => t \in Thread
  BY DEF Readers, WS, Waiting
<1>2. (\A t \in Readers \cup WS : SlotsOf(t) # {}) <=>
        \A t \in Thread : HasSlot(t) => \E i \in DOMAIN Owners : Owners[i].OwningThread = t
  BY <1>1 DEF SlotsOf, HasSlot
<1>3. (\A i \in DOMAIN Owners : SlotRight(i)) <=>
        \A i \in DOMAIN Owners : Owners[i].OwningThread # None =>
          HasSlot(Owners[i].OwningThread) /\ Owners[i].Locked = Owes(Owners[i].OwningThread)
  BY DEF SlotRight, HasSlot, Owes
<1> QED BY <1>2, <1>3 DEF SlotsRight, SlotsAre

LEMMA SlotsMeanNext == (SlotsRight <=> SlotsAre)'
BY SlotsMean, PTL

\* The threads of some set keep what they have and owe.
Keep(T) == \A u \in T : (HasSlot(u)' <=> HasSlot(u)) /\ (HasSlot(u) => Owes(u)' = Owes(u))

LEMMA KeepOthers == ASSUME NEW t, OthersSame(t) PROVE Keep(Thread \ {t})
<1> SUFFICES ASSUME NEW u \in Thread \ {t}
             PROVE  (HasSlot(u)' <=> HasSlot(u)) /\ (HasSlot(u) => Owes(u)' = Owes(u))
  BY DEF Keep
<1>1. (HasSlot(u)' <=> HasSlot(u)) BY OneMoves DEF HasSlot
<1>2. Owes(u)' = Owes(u) BY DEF Owes, OthersSame, Same
<1> QED BY <1>1, <1>2

LEMMA SlotsKept ==
  ASSUME TypeOK, SlotsRight, Keep(Thread), Owners' = Owners
  PROVE  SlotsRight'
<1>1. SlotsAre BY SlotsMean
<1>2. \A i \in DOMAIN Owners : Owners[i].OwningThread \in Thread \cup {None}
  BY DEF TypeOK, Entry
<1>3. ASSUME NEW i \in DOMAIN Owners, Owners[i].OwningThread # None
      PROVE  HasSlot(Owners[i].OwningThread)' /\ Owners[i].Locked = Owes(Owners[i].OwningThread)'
  <2>1. PICK w \in Thread : w = Owners[i].OwningThread BY <1>2, <1>3
  <2>2. HasSlot(w) /\ Owners[i].Locked = Owes(w) BY <1>1, <1>3, <2>1 DEF SlotsAre
  <2>3. HasSlot(w)' /\ Owners[i].Locked = Owes(w)' BY <2>2 DEF Keep
  <2>4. Owners'[i].OwningThread = w BY <2>1
  <2> QED BY <2>3, <2>4
<1>4. \A t \in Thread : HasSlot(t)' => \E i \in DOMAIN Owners : Owners[i].OwningThread = t
  BY <1>1 DEF Keep, SlotsAre
<1>5. SlotsAre'
  BY <1>1, <1>3, <1>4 DEF SlotsAre
<1> QED BY <1>5, SlotsMeanNext

\* One slot is taken, changed or freed for one thread.
LEMMA SlotSet ==
  ASSUME TypeOK, SlotsRight, NEW t \in Thread, NEW i \in DOMAIN Owners, NEW e \in Entry,
         Keep(Thread \ {t}), Owners' = [Owners EXCEPT ![i] = e],
         Owners[i].OwningThread \in {None, t},
         \A j \in DOMAIN Owners \ {i} : Owners[j].OwningThread # t,
         \/ HasSlot(t)' /\ e.OwningThread = t /\ e.Locked = Owes(t)'
         \/ ~HasSlot(t)' /\ e.OwningThread = None
  PROVE  SlotsRight'
<1>1. SlotsAre BY SlotsMean
<1>2. \A j \in DOMAIN Owners : Owners[j].OwningThread \in Thread \cup {None}
  BY DEF TypeOK, Entry
<1>3. DOMAIN Owners' = DOMAIN Owners /\ Owners'[i] = e
  OBVIOUS
<1>4. \A j \in DOMAIN Owners \ {i} : Owners'[j] = Owners[j]
  OBVIOUS
<1>5. ASSUME NEW j \in DOMAIN Owners \ {i}, Owners[j].OwningThread # None
      PROVE  HasSlot(Owners[j].OwningThread)' /\ Owners'[j].Locked = Owes(Owners[j].OwningThread)'
  <2>1. PICK w \in Thread \ {t} : w = Owners[j].OwningThread BY <1>2, <1>5
  <2>2. HasSlot(w) /\ Owners[j].Locked = Owes(w) BY <1>1, <1>5, <2>1 DEF SlotsAre
  <2>3. HasSlot(w)' /\ Owners'[j].Locked = Owes(w)' BY <2>2, <1>4 DEF Keep
  <2>4. Owners'[j].OwningThread = w BY <2>1, <1>4
  <2> QED BY <2>3, <2>4
<1>6. ASSUME e.OwningThread # None
      PROVE  HasSlot(Owners[i].OwningThread)' /\ Owners'[i].Locked = Owes(Owners[i].OwningThread)'
  <2>1. HasSlot(t)' /\ e.OwningThread = t /\ e.Locked = Owes(t)' BY <1>6
  <2>2. Owners'[i].OwningThread = t BY <2>1, <1>3
  <2> QED BY <2>1, <2>2, <1>3
<1>7. ASSUME NEW j \in DOMAIN Owners, NEW k \in DOMAIN Owners,
             Owners'[j].OwningThread = Owners'[k].OwningThread, Owners'[j].OwningThread # None
      PROVE  j = k
  <2>1. CASE j # i /\ k # i BY <2>1, <1>1, <1>4, <1>7 DEF SlotsAre
  <2>2. CASE j = i /\ k # i
    <3>1. e.OwningThread = t BY <2>2, <1>7, <1>3
    <3> QED BY <3>1, <2>2, <1>3, <1>4, <1>7
  <2>3. CASE j # i /\ k = i
    <3>1. e.OwningThread = t BY <2>3, <1>7, <1>3
    <3> QED BY <3>1, <2>3, <1>3, <1>4, <1>7
  <2> QED BY <2>1, <2>2, <2>3
<1>8. ASSUME NEW u \in Thread, HasSlot(u)'
      PROVE  \E j \in DOMAIN Owners : Owners'[j].OwningThread = u
  <2>1. CASE u = t
    <3>1. e.OwningThread = t BY <2>1, <1>8
    <3> QED BY <3>1, <2>1, <1>3
  <2>2. CASE u # t
    <3>1. HasSlot(u) BY <2>2, <1>8 DEF Keep
    <3>2. PICK j \in DOMAIN Owners : Owners[j].OwningThread = u BY <3>1, <1>1 DEF SlotsAre
    <3>3. u # None BY ThreadAssumption
    <3>4. j # i BY <3>2, <3>3, <2>2
    <3> QED BY <3>2, <3>4, <1>4
  <2> QED BY <2>1, <2>2
<1>9. SlotsAre'
  <2>1. \A j \in DOMAIN Owners' : Owners'[j].OwningThread # None =>
          HasSlot(Owners[j].OwningThread)' /\ Owners'[j].Locked = Owes(Owners[j].OwningThread)'
    BY <1>3, <1>4, <1>5, <1>6
  <2> QED BY <2>1, <1>3, <1>7, <1>8 DEF SlotsAre
<1> QED BY <1>9, SlotsMeanNext

\* A thread's slot is its only one, and only a thread with a slot has one.
LEMMA TheSlot ==
  ASSUME TypeOK, SlotsRight, NEW t \in Thread
  PROVE  /\ ~HasSlot(t) => \A i \in DOMAIN Owners : Owners[i].OwningThread # t
         /\ HasSlot(t) => SlotsOf(t) # {}
         /\ \A i \in SlotsOf(t) : /\ i \in DOMAIN Owners /\ Owners[i].OwningThread = t
                                  /\ HasSlot(t) /\ Owners[i].Locked = Owes(t)
                                  /\ \A j \in DOMAIN Owners \ {i} : Owners[j].OwningThread # t
<1>1. SlotsAre BY SlotsMean
<1>2. t # None BY ThreadAssumption
<1> QED BY <1>1, <1>2 DEF SlotsAre, SlotsOf

-----------------------------------------------------------------------------
(* What the invariant says of who holds the lock.                          *)

LEMMA Numbers ==
  ASSUME TypeOK
  PROVE  /\ ExclusiveOwner.Locked \in Nat /\ ExclusiveOwner.OwningThread \in Thread \cup {None}
         /\ SharedWaiters \in Nat /\ ExclusiveWaiters \in Nat /\ HeldCount \in Nat
         /\ Units \in Nat /\ Reserved \in {0, 1}
         /\ Cardinality(Readers) \in Nat /\ Cardinality(WS) \in Nat /\ Cardinality(WX) \in Nat
<1>1. SharedSemaphore # None => SharedSemaphore \in Nat
  BY DEF TypeOK
<1>2. Units \in Nat /\ Reserved \in {0, 1}
  BY <1>1 DEF Units, Reserved
<1> QED BY <1>2, Finite, FS_CardinalityType DEF TypeOK, Entry

\* CountsAddUp, with the names of the sets.
Counts ==
  /\ Cardinality(WS) = SharedWaiters + Units
  /\ Cardinality(WX) = ExclusiveWaiters + Reserved
  /\ ExclusiveOwner.Locked # 0 => HeldCount = 1 /\ Readers = {} /\ Units = 0
  /\ ExclusiveOwner.Locked = 0 => HeldCount = Cardinality(Readers) + Units
  /\ HeldCount = 0 => SharedWaiters = 0 /\ ExclusiveWaiters = 0
  /\ Units > 0 => Sleepers("shared") = {}
  /\ Reserved = 1 => Sleepers("exclusive") = {} /\ ExclusiveOwner = By(None)

LEMMA CountsMean == CountsAddUp <=> Counts
BY DEF CountsAddUp, Counts, WS, WX

LEMMA CountsMeanNext == (CountsAddUp <=> Counts)'
BY CountsMean, PTL

LEMMA Excluded ==
  ASSUME Inv
  PROVE  /\ \A t \in Thread : Writer(t) =>
              /\ ExclusiveOwner.Locked # 0 /\ HeldCount = 1 /\ Reserved = 0 /\ Units = 0
              /\ Readers = {} /\ \A u \in Thread \ {t} : ~Writer(u)
         /\ ExclusiveOwner.Locked = 0 =>
              Reserved = 0 /\ ExclusiveOwner.OwningThread = None /\ \A u \in Thread : ~Writer(u)
         /\ Readers # {} => ExclusiveOwner.Locked = 0
         /\ Reserved = 1 => ExclusiveOwner.Locked = 1 /\ ExclusiveOwner.OwningThread = None
<1>1. Counts BY CountsMean DEF Inv
<1>2. ASSUME NEW t \in Thread, Writer(t)
      PROVE  /\ ExclusiveOwner.Locked # 0 /\ HeldCount = 1 /\ Reserved = 0 /\ Units = 0
             /\ Readers = {} /\ \A u \in Thread \ {t} : ~Writer(u)
  <2>1. ExclusiveOwner.Locked # 0 /\ Reserved = 0
    BY <1>2 DEF Inv, WritersRight, WriterRight
  <2>2. \A u \in Thread \ {t} : ~Writer(u)
    BY <1>2 DEF Inv, WritersRight
  <2> QED BY <2>1, <2>2, <1>1 DEF Counts
<1>3. Reserved = 1 => ExclusiveOwner.Locked = 1 /\ ExclusiveOwner.OwningThread = None
  BY <1>1 DEF Counts, By
<1>4. ASSUME ExclusiveOwner.Locked = 0
      PROVE  Reserved = 0 /\ ExclusiveOwner.OwningThread = None /\ \A u \in Thread : ~Writer(u)
  <2>1. \A u \in Thread : ~Writer(u) BY <1>2, <1>4
  <2>2. ExclusiveOwner.OwningThread \in Thread \cup {None} BY Numbers DEF Inv
  <2>3. ExclusiveOwner.OwningThread = None BY <2>1, <2>2 DEF Inv, WritersRight
  <2>4. Reserved \in {0, 1} BY Numbers DEF Inv
  <2> QED BY <2>1, <2>3, <2>4, <1>3, <1>4
<1>5. Readers # {} => ExclusiveOwner.Locked = 0
  BY <1>1 DEF Counts
<1> QED BY <1>2, <1>3, <1>4, <1>5

\* A lock that nobody holds.
LEMMA Unheld ==
  ASSUME Inv, HeldCount = 0
  PROVE  /\ ExclusiveOwner.Locked = 0 /\ Readers = {} /\ WS = {} /\ WX = {}
         /\ Units = 0 /\ Reserved = 0
         /\ \A i \in DOMAIN Owners : Owners[i].OwningThread = None
<1>1. Counts BY CountsMean DEF Inv
<1> DEFINE r == Cardinality(Readers)
           s == Cardinality(WS)
           x == Cardinality(WX)
<1>2. r \in Nat /\ s \in Nat /\ x \in Nat /\ Units \in Nat /\ Reserved \in {0, 1}
      /\ ExclusiveOwner.Locked \in Nat
  BY Numbers DEF Inv
<1>3. ExclusiveOwner.Locked = 0 BY <1>1 DEF Counts
<1>4. Reserved = 0 BY <1>3, Excluded
<1>5. r + Units = 0 BY <1>1, <1>3 DEF Counts
<1>6. r = 0 /\ Units = 0
  <2> HIDE DEF r
  <2> QED BY <1>5, <1>2
<1>7. s = 0 /\ x = 0 BY <1>1, <1>4, <1>6 DEF Counts
<1>8. Readers = {} /\ WS = {} /\ WX = {}
  BY <1>6, <1>7, Finite, Empty
<1>9. \A i \in DOMAIN Owners : Owners[i].OwningThread = None
  BY <1>8, SlotsMean DEF Inv, SlotsAre, HasSlot
<1> QED BY <1>3, <1>4, <1>6, <1>8, <1>9

-----------------------------------------------------------------------------
(* Steps that move one thread about, and nothing else.                     *)

LEMMA Quiet ==
  ASSUME Inv, NEW t \in Thread, OthersSame(t), PlaceRight(t)',
         SyncEvent # None => SyncEvent' # None,
         SharedSemaphore # None => SharedSemaphore' # None,
         UNCHANGED <<ExclusiveOwner, SharedWaiters, ExclusiveWaiters, HeldCount>>,
         Units' = Units, Reserved' = Reserved,
         mode'[t] = mode[t], depth'[t] = depth[t],
         pc[t] \in CallPlaces \cup WaitPlaces \cup {"out"},
         pc'[t] \in CallPlaces \cup WaitPlaces \cup {"out"},
         t \in WS' <=> t \in WS, t \in WX' <=> t \in WX,
         t \in Sleepers("shared")' => t \in Sleepers("shared") \/ Units = 0,
         t \in Sleepers("exclusive")' => t \in Sleepers("exclusive") \/ Reserved = 0
  PROVE  PlacesRight' /\ WritersRight' /\ CountsAddUp' /\ Keep(Thread)
<1>1. PlacesRight' BY PlacesKept DEF Inv
<1>2. RoleRight(t) BY Roles
<1>3. RoleRight(t)' BY RolesNext
<1>4. (t \in Readers' <=> t \in Readers) /\ (Writer(t)' <=> Writer(t))
  BY <1>2, <1>3 DEF RoleRight
<1>5. Readers' = Readers /\ WS' = WS /\ WX' = WX
  BY <1>4, OneMoves, Counted, Finite, FiniteNext
<1>6. \A u \in Thread : Writer(u)' <=> Writer(u)
  BY <1>4, OneMoves
<1>7. \A u \in Thread : mode'[u] = mode[u] /\ depth'[u] = depth[u]
  BY DEF OthersSame, Same
<1>8. \A u \in Thread : pc'[u] \in {"granted", "owner"} /\ call'[u].op = "exclusive" =>
                          pc[u] = pc'[u] /\ call[u].op = "exclusive"
  <2> SUFFICES ASSUME NEW u \in Thread, pc'[u] \in {"granted", "owner"}, call'[u].op = "exclusive"
               PROVE pc[u] = pc'[u] /\ call[u].op = "exclusive"
    OBVIOUS
  <2>1. u # t BY DEF CallPlaces, WaitPlaces
  <2> QED BY <2>1 DEF OthersSame, Same
<1>9. WritersRight'
  BY <1>6, <1>7, <1>8, WritersKept DEF Inv, TypeOK
<1>10. CountsAddUp'
  <2>1. Counts BY CountsMean DEF Inv
  <2>2. Sleepers("shared")' \subseteq Sleepers("shared") \/ Units = 0
    BY OneMoves
  <2>3. Sleepers("exclusive")' \subseteq Sleepers("exclusive") \/ Reserved = 0
    BY OneMoves
  <2>4. Counts'
    BY <2>1, <2>2, <2>3, <1>5 DEF Counts, By
  <2> QED BY <2>4, CountsMeanNext
<1>11. Keep(Thread)
  BY <1>5, <1>7 DEF Keep, HasSlot, Owes
<1> QED BY <1>1, <1>9, <1>10, <1>11

\* TypeOK is about the lock or about the threads.
LockType ==
  /\ ExclusiveOwner \in Entry
  /\ TableSize \in Nat /\ Owners \in [0..TableSize -> Entry]
  /\ SharedWaiters \in Nat /\ ExclusiveWaiters \in Nat /\ HeldCount \in Nat
  /\ SharedSemaphore \in Nat \cup {None} /\ SyncEvent \in {0, 1, None}
ThreadType ==
  /\ pc \in [Thread -> Places] /\ call \in [Thread -> Call] /\ oldsize \in [Thread -> Nat]
  /\ killed \subseteq Thread
  /\ mode \in [Thread -> {"none", "shared", "exclusive"}] /\ depth \in [Thread -> Nat]

LEMMA Types == TypeOK <=> LockType /\ ThreadType
BY DEF TypeOK, LockType, ThreadType

LEMMA TypesNext == (TypeOK <=> LockType /\ ThreadType)'
BY Types, PTL

LEMMA LockTypeKept == ASSUME LockType, UNCHANGED lockVars PROVE LockType'
BY DEF LockType, lockVars

\* What a thread that goes to another place keeps.
LEMMA Goes ==
  ASSUME ThreadType, NEW t \in Thread, NEW place \in Places,
         pc' = [pc EXCEPT ![t] = place], call' = call, mode' = mode, depth' = depth,
         oldsize' \in [Thread -> Nat], killed' = killed
  PROVE  ThreadType' /\ OthersSame(t) /\ pc'[t] = place /\ call'[t] = call[t]
         /\ mode'[t] = mode[t] /\ depth'[t] = depth[t]
BY DEF ThreadType, OthersSame, Same

LEMMA CallTypes == NoCall \in Call /\ NoCall.op = "shared" /\ \A t \in Thread : Calls[t] \subseteq Call
BY CallAssumption DEF NoCall, Call

LEMMA BeginStep == ASSUME Inv, NEW t \in Thread, NEW c \in Calls[t], Begin(t, c) PROVE Inv'
<1> USE DEF Begin
<1>1. ThreadType /\ LockType BY Types DEF Inv
<1>2. pc' = [pc EXCEPT ![t] = "try"] /\ call' = [call EXCEPT ![t] = c]
      /\ UNCHANGED <<mode, depth, oldsize, killed>> /\ UNCHANGED lockVars
  BY DEF userVars
<1>3. c \in Call BY CallTypes
<1>4. ThreadType' BY <1>1, <1>2, <1>3 DEF ThreadType, Places
<1>5. LockType' BY <1>1, <1>2, LockTypeKept
<1>6. OthersSame(t) /\ pc'[t] = "try" /\ call'[t] = c /\ mode'[t] = mode[t] /\ depth'[t] = depth[t]
  BY <1>1, <1>2 DEF ThreadType, OthersSame, Same
<1>7. PlaceRight(t)'
  <2>1. PlaceRight(t) BY DEF Inv, PlacesRight
  <2> QED BY <2>1, <1>6 DEF PlaceRight, WaitPlaces, CallPlaces
<1>8. UNCHANGED <<SyncEvent, SharedSemaphore, ExclusiveOwner, SharedWaiters, ExclusiveWaiters, HeldCount, Owners>>
      /\ Units' = Units /\ Reserved' = Reserved
  BY <1>2 DEF lockVars, Units, Reserved
<1>9. pc[t] \in CallPlaces \cup WaitPlaces \cup {"out"} /\ pc'[t] \in CallPlaces \cup WaitPlaces \cup {"out"}
  BY <1>6 DEF CallPlaces
<1>10. t \notin WS /\ t \notin WX /\ t \notin WS' /\ t \notin WX'
       /\ t \notin Sleepers("shared")' /\ t \notin Sleepers("exclusive")'
  BY <1>6, Roles, RolesNext DEF RoleRight, WaitPlaces
<1>11. PlacesRight' /\ WritersRight' /\ CountsAddUp' /\ Keep(Thread)
  BY <1>6, <1>7, <1>8, <1>9, <1>10, Quiet
<1>12. SlotsRight' BY <1>8, <1>11, SlotsKept DEF Inv
<1> QED BY <1>4, <1>5, <1>11, <1>12, TypesNext DEF Inv

LEMMA KillStep == ASSUME Inv, NEW t \in Thread, Kill(t) PROVE Inv'
<1> USE DEF Kill, lockVars, userVars
<1>1. TypeOK' BY DEF Inv, TypeOK
<1>2. PlacesRight' BY DEF Inv, PlacesRight, PlaceRight
<1>3. \A u \in Thread : Writer(u)' <=> Writer(u) BY DEF Writer
<1>4. Units' = Units /\ Reserved' = Reserved BY DEF Units, Reserved
<1>5. WritersRight' BY <1>3, <1>4, WritersKept DEF Inv, TypeOK
<1>6. Readers' = Readers /\ WS' = WS /\ WX' = WX
      /\ Sleepers("shared")' = Sleepers("shared") /\ Sleepers("exclusive")' = Sleepers("exclusive")
  BY DEF Readers, WS, WX, Waiting, Sleepers
<1>7. CountsAddUp'
  <2>1. Counts BY CountsMean DEF Inv
  <2>2. Counts' BY <2>1, <1>4, <1>6 DEF Counts, By
  <2> QED BY <2>2, CountsMeanNext
<1>8. Keep(Thread) BY <1>6 DEF Keep, HasSlot, Owes
<1>9. SlotsRight' BY <1>8, SlotsKept DEF Inv
<1> QED BY <1>1, <1>2, <1>5, <1>7, <1>9 DEF Inv

LEMMA RefusedStep ==
  ASSUME Inv, NEW t \in Thread, pc[t] \in CallPlaces, Refused(t), UNCHANGED lockVars
  PROVE  Inv'
<1>1. ThreadType /\ LockType BY Types DEF Inv
<1>2. pc' = [pc EXCEPT ![t] = "out"] /\ call' = [call EXCEPT ![t] = NoCall]
      /\ UNCHANGED <<mode, depth, oldsize, killed>>
  BY DEF Refused, Over, userVars
<1>3. ThreadType' BY <1>1, <1>2, CallTypes DEF ThreadType, Places
<1>4. LockType' BY <1>1, LockTypeKept
<1>5. OthersSame(t) /\ pc'[t] = "out" /\ mode'[t] = mode[t] /\ depth'[t] = depth[t]
  BY <1>1, <1>2 DEF ThreadType, OthersSame, Same
<1>6. PlaceRight(t)'
  <2>1. PlaceRight(t) BY DEF Inv, PlacesRight
  <2> QED BY <2>1, <1>5 DEF PlaceRight, WaitPlaces, CallPlaces
<1>7. UNCHANGED <<SyncEvent, SharedSemaphore, ExclusiveOwner, SharedWaiters, ExclusiveWaiters, HeldCount, Owners>>
      /\ Units' = Units /\ Reserved' = Reserved
  BY DEF lockVars, Units, Reserved
<1>8. t \notin WS /\ t \notin WX /\ t \notin WS' /\ t \notin WX'
      /\ t \notin Sleepers("shared")' /\ t \notin Sleepers("exclusive")'
  BY <1>5, Roles, RolesNext DEF RoleRight, WaitPlaces, CallPlaces
<1>9. PlacesRight' /\ WritersRight' /\ CountsAddUp' /\ Keep(Thread)
  BY <1>5, <1>6, <1>7, <1>8, Quiet
<1>10. SlotsRight' BY <1>7, <1>9, SlotsKept DEF Inv
<1> QED BY <1>3, <1>4, <1>9, <1>10, TypesNext DEF Inv

\* A thread goes on within its call without entering a count.
LEMMA GoQuietly ==
  ASSUME Inv, NEW t \in Thread, NEW place \in CallPlaces \cup WaitPlaces,
         pc' = [pc EXCEPT ![t] = place], UNCHANGED <<call, mode, depth, killed>>,
         oldsize' \in [Thread -> Nat],
         (pc[t] \in CallPlaces /\ place \in CallPlaces) \/ (pc[t] \in WaitPlaces /\ place \in WaitPlaces),
         UNCHANGED <<ExclusiveOwner, SharedWaiters, ExclusiveWaiters, HeldCount>>,
         SyncEvent' = SyncEvent \/ (SyncEvent = None /\ SyncEvent' = 0),
         SharedSemaphore' = SharedSemaphore \/ (SharedSemaphore = None /\ SharedSemaphore' = 0),
         place = "asleep" => IF call[t].op = "exclusive" THEN Reserved = 0 ELSE Units = 0
  PROVE  PlacesRight' /\ WritersRight' /\ CountsAddUp' /\ Keep(Thread) /\ ThreadType'
<1>1. ThreadType /\ LockType BY Types DEF Inv
<1>2. place \in Places BY DEF Places, CallPlaces, WaitPlaces
<1>3. /\ ThreadType' /\ OthersSame(t) /\ pc'[t] = place /\ call'[t] = call[t]
      /\ mode'[t] = mode[t] /\ depth'[t] = depth[t]
  BY <1>1, <1>2, Goes
<1>4. /\ SyncEvent # None => SyncEvent' # None
      /\ SharedSemaphore # None => SharedSemaphore' # None
  BY ThreadAssumption
<1>5. PlaceRight(t)'
  <2>1. PlaceRight(t) BY DEF Inv, PlacesRight
  <2> QED BY <2>1, <1>3, <1>4 DEF PlaceRight, WaitPlaces, CallPlaces
<1>6. Units' = Units /\ Reserved' = Reserved
  BY ThreadAssumption DEF Units, Reserved
<1>7. (t \in WS' <=> t \in WS) /\ (t \in WX' <=> t \in WX)
  BY <1>3, Roles, RolesNext DEF RoleRight, WaitPlaces, CallPlaces
<1>8. /\ t \in Sleepers("shared")' => Units = 0
      /\ t \in Sleepers("exclusive")' => Reserved = 0
  BY <1>3, RolesNext DEF RoleRight
<1> QED BY <1>3, <1>4, <1>5, <1>6, <1>7, <1>8, Quiet

LEMMA ToAllocate ==
  ASSUME Inv, NEW t \in Thread, pc[t] = "try", Goto(t, "allocate"), UNCHANGED lockVars
  PROVE  Inv'
<1>1. ThreadType /\ LockType BY Types DEF Inv
<1>2. PlacesRight' /\ WritersRight' /\ CountsAddUp' /\ Keep(Thread) /\ ThreadType'
  BY <1>1, GoQuietly DEF Goto, userVars, lockVars, ThreadType, CallPlaces, WaitPlaces
<1>3. LockType' /\ Owners' = Owners BY <1>1, LockTypeKept DEF lockVars
<1>4. SlotsRight' BY <1>2, <1>3, SlotsKept DEF Inv
<1> QED BY <1>2, <1>3, <1>4, TypesNext DEF Inv

LEMMA NoSlotStep ==
  ASSUME Inv, NEW t \in Thread, pc[t] = "try", NoSlot(t)
  PROVE  Inv'
<1>1. ThreadType /\ LockType BY Types DEF Inv
<1>2. oldsize' \in [Thread -> Nat]
  BY <1>1 DEF NoSlot, ThreadType, LockType
<1>3. PlacesRight' /\ WritersRight' /\ CountsAddUp' /\ Keep(Thread) /\ ThreadType'
  BY <1>2, GoQuietly DEF NoSlot, userVars, lockVars, CallPlaces, WaitPlaces
<1>4. LockType' /\ Owners' = Owners BY <1>1, LockTypeKept DEF lockVars, NoSlot
<1>5. SlotsRight' BY <1>3, <1>4, SlotsKept DEF Inv
<1> QED BY <1>3, <1>4, <1>5, TypesNext DEF Inv

LEMMA AllocateStep == ASSUME Inv, NEW t \in Thread, Allocate(t) PROVE Inv'
<1>1. ThreadType /\ LockType BY Types DEF Inv
<1>2. PlacesRight' /\ WritersRight' /\ CountsAddUp' /\ Keep(Thread) /\ ThreadType'
  BY <1>1, GoQuietly DEF Allocate, Goto, userVars, tableVars, ThreadType, CallPlaces, WaitPlaces
<1>3. LockType' /\ Owners' = Owners BY <1>1 DEF LockType, Allocate, tableVars
<1>4. SlotsRight' BY <1>2, <1>3, SlotsKept DEF Inv
<1> QED BY <1>2, <1>3, <1>4, TypesNext DEF Inv

LEMMA TimeoutStep == ASSUME Inv, NEW t \in Thread, Timeout(t) PROVE Inv'
<1>1. ThreadType /\ LockType BY Types DEF Inv
<1>2. PlacesRight' /\ WritersRight' /\ CountsAddUp' /\ Keep(Thread) /\ ThreadType'
  BY <1>1, GoQuietly DEF Timeout, Goto, userVars, lockVars, ThreadType, CallPlaces, WaitPlaces
<1>3. LockType' /\ Owners' = Owners BY <1>1, LockTypeKept DEF lockVars, Timeout
<1>4. SlotsRight' BY <1>2, <1>3, SlotsKept DEF Inv
<1> QED BY <1>2, <1>3, <1>4, TypesNext DEF Inv

LEMMA SlotsGrown ==
  ASSUME TypeOK, SlotsRight, Keep(Thread), NEW n \in Nat, n >= TableSize,
         Owners' = [i \in 0..n |-> IF i <= TableSize THEN Owners[i] ELSE NoOne]
  PROVE  SlotsRight'
<1>1. SlotsAre BY SlotsMean
<1>2. DOMAIN Owners = 0..TableSize /\ TableSize \in Nat
      /\ \A i \in DOMAIN Owners : Owners[i].OwningThread \in Thread \cup {None}
  BY DEF TypeOK, Entry
<1>3. /\ DOMAIN Owners' = 0..n /\ DOMAIN Owners \subseteq 0..n
      /\ \A i \in DOMAIN Owners : Owners'[i] = Owners[i]
      /\ \A i \in 0..n : i \notin DOMAIN Owners => Owners'[i] = NoOne
  BY <1>2
<1>4. \A i \in 0..n : Owners'[i].OwningThread # None => i \in DOMAIN Owners /\ Owners'[i] = Owners[i]
  BY <1>3 DEF NoOne
<1>5. ASSUME NEW i \in 0..n, Owners'[i].OwningThread # None
      PROVE  HasSlot(Owners[i].OwningThread)' /\ Owners'[i].Locked = Owes(Owners[i].OwningThread)'
  <2>1. i \in DOMAIN Owners /\ Owners'[i] = Owners[i] BY <1>4, <1>5
  <2>2. PICK w \in Thread : w = Owners[i].OwningThread BY <1>2, <1>5, <2>1
  <2>3. HasSlot(w) /\ Owners[i].Locked = Owes(w) BY <1>1, <1>5, <2>1, <2>2 DEF SlotsAre
  <2>4. HasSlot(w)' /\ Owners'[i].Locked = Owes(w)' BY <2>3, <2>1 DEF Keep
  <2>5. Owners'[i].OwningThread = w BY <2>1, <2>2
  <2> QED BY <2>4, <2>5
<1>6. ASSUME NEW i \in 0..n, NEW j \in 0..n,
             Owners'[i].OwningThread = Owners'[j].OwningThread, Owners'[i].OwningThread # None
      PROVE  i = j
  <2>1. i \in DOMAIN Owners /\ j \in DOMAIN Owners /\ Owners'[i] = Owners[i] /\ Owners'[j] = Owners[j]
    BY <1>4, <1>6
  <2> QED BY <2>1, <1>1, <1>6 DEF SlotsAre
<1>7. ASSUME NEW u \in Thread, HasSlot(u)' PROVE \E i \in 0..n : Owners'[i].OwningThread = u
  <2>1. HasSlot(u) BY <1>7 DEF Keep
  <2>2. PICK i \in DOMAIN Owners : Owners[i].OwningThread = u BY <2>1, <1>1 DEF SlotsAre
  <2> QED BY <2>2, <1>3
<1>8. SlotsAre'
  BY <1>3, <1>5, <1>6, <1>7 DEF SlotsAre
<1> QED BY <1>8, SlotsMeanNext

LEMMA GrowStep == ASSUME Inv, NEW t \in Thread, Grow(t) PROVE Inv'
<1>1. ThreadType /\ LockType BY Types DEF Inv
<1>2. oldsize' \in [Thread -> Nat] /\ oldsize[t] \in Nat
  BY <1>1 DEF Grow, ThreadType
<1>3. PlacesRight' /\ WritersRight' /\ CountsAddUp' /\ Keep(Thread) /\ ThreadType'
  BY <1>2, GoQuietly DEF Grow, userVars, countVars, CallPlaces, WaitPlaces
<1>4. CASE Grown(t)
  <2> DEFINE n == Larger(TableSize)
  <2>1. n \in Nat /\ n >= TableSize
    BY <1>1, SizeAssumption DEF LockType, Larger
  <2>2. TableSize' = n /\ Owners' = [i \in 0..n |-> IF i <= TableSize THEN Owners[i] ELSE NoOne]
    BY <1>4 DEF Grow, Grown
  <2>3. LockType'
    <3>1. NoOne \in Entry BY DEF Entry, NoOne
    <3>2. \A i \in 0..n : i <= TableSize => Owners[i] \in Entry
      BY <1>1, <2>1 DEF LockType
    <3> HIDE DEF n
    <3>3. Owners' \in [0..TableSize' -> Entry]
      BY <2>2, <3>1, <3>2
    <3> QED BY <1>1, <2>1, <2>2, <3>3 DEF LockType, Grow, countVars
  <2>4. SlotsRight'
    <3> HIDE DEF n
    <3> QED BY <1>3, <2>1, <2>2, SlotsGrown DEF Inv
  <2> QED BY <1>3, <2>3, <2>4, TypesNext DEF Inv
<1>5. CASE ~Grown(t)
  <2>1. LockType' /\ Owners' = Owners BY <1>1, <1>5 DEF LockType, Grow, countVars
  <2>2. SlotsRight' BY <1>3, <2>1, SlotsKept DEF Inv
  <2> QED BY <1>3, <2>1, <2>2, TypesNext DEF Inv
<1> QED BY <1>4, <1>5

-----------------------------------------------------------------------------
(* Waiting.                                                                *)

LEMMA ToSleep ==
  ASSUME Inv, NEW t \in Thread, pc[t] = "wait", Goto(t, "asleep"), UNCHANGED lockVars,
         IF call[t].op = "exclusive" THEN SyncEvent = 0 ELSE SharedSemaphore = 0
  PROVE  Inv'
<1>1. ThreadType /\ LockType BY Types DEF Inv
<1>2. IF call[t].op = "exclusive" THEN Reserved = 0 ELSE Units = 0
  BY DEF Reserved, Units
<1>3. PlacesRight' /\ WritersRight' /\ CountsAddUp' /\ Keep(Thread) /\ ThreadType'
  BY <1>1, <1>2, GoQuietly DEF Goto, userVars, lockVars, ThreadType, CallPlaces, WaitPlaces
<1>4. LockType' /\ Owners' = Owners BY <1>1, LockTypeKept DEF lockVars
<1>5. SlotsRight' BY <1>3, <1>4, SlotsKept DEF Inv
<1> QED BY <1>3, <1>4, <1>5, TypesNext DEF Inv

LEMMA TakeUnit ==
  ASSUME Inv, NEW t \in Thread, pc[t] = "wait", call[t].op = "shared", SharedSemaphore > 0,
         SharedSemaphore' = SharedSemaphore - 1, Goto(t, "owner"),
         UNCHANGED <<tableVars, SharedWaiters, ExclusiveWaiters, HeldCount, SyncEvent>>
  PROVE  Inv'
<1>1. ThreadType /\ LockType BY Types DEF Inv
<1>2. /\ ThreadType' /\ OthersSame(t) /\ pc'[t] = "owner" /\ call'[t] = call[t]
      /\ mode'[t] = mode[t] /\ depth'[t] = depth[t]
  BY <1>1, Goes DEF Goto, userVars, ThreadType, Places
<1>3. PlaceRight(t) BY DEF Inv, PlacesRight
<1>4. SharedSemaphore \in Nat /\ SharedSemaphore # None /\ mode[t] = "none"
  BY <1>1, <1>3 DEF PlaceRight, LockType, WaitPlaces
<1>5. SharedSemaphore' \in Nat /\ SharedSemaphore' # None /\ LockType'
  BY <1>1, <1>4, ThreadAssumption DEF LockType, tableVars
<1>6. Units = SharedSemaphore /\ Units' = Units - 1 /\ Units > 0 /\ Reserved' = Reserved
  BY <1>4, <1>5 DEF Units, Reserved
<1>7. PlaceRight(t)'
  BY <1>2, <1>3, <1>4 DEF PlaceRight, WaitPlaces, CallPlaces
<1>8. PlacesRight' BY <1>2, <1>5, <1>7, PlacesKept DEF Inv, tableVars
<1>9. RoleRight(t) /\ RoleRight(t)' BY Roles, RolesNext
<1>10. /\ t \notin Readers /\ t \in Readers' /\ t \in WS /\ t \notin WS'
       /\ t \notin WX /\ t \notin WX' /\ ~Writer(t) /\ ~Writer(t)'
       /\ t \notin Sleepers("shared")' /\ t \notin Sleepers("exclusive")'
  BY <1>2, <1>4, <1>9 DEF RoleRight, WaitPlaces, CallPlaces
<1>11. Cardinality(Readers') = Cardinality(Readers) + 1 /\ Cardinality(WS) = Cardinality(WS') + 1
       /\ WX' = WX
  BY <1>2, <1>10, OneMoves, Counted, Finite, FiniteNext
<1>12. WritersRight'
  <2>1. \A u \in Thread : Writer(u)' <=> Writer(u) BY <1>2, <1>10, OneMoves
  <2>2. \A u \in Thread : /\ mode'[u] = mode[u] /\ depth'[u] = depth[u]
                          /\ pc'[u] \in {"granted", "owner"} /\ call'[u].op = "exclusive" =>
                               pc[u] = pc'[u] /\ call[u].op = "exclusive"
    BY <1>2 DEF OthersSame, Same
  <2> QED BY <2>1, <2>2, <1>6, WritersKept DEF Inv, TypeOK, tableVars
<1>13. CountsAddUp'
  <2>1. Counts BY CountsMean DEF Inv
  <2>2. Sleepers("shared")' \subseteq Sleepers("shared") /\ Sleepers("exclusive")' \subseteq Sleepers("exclusive")
    BY <1>2, <1>10, OneMoves
  <2> DEFINE r == Cardinality(Readers)
             s == Cardinality(WS)
             r1 == Cardinality(Readers')
             s1 == Cardinality(WS')
  <2>3. /\ r \in Nat /\ s \in Nat /\ Units \in Nat /\ Reserved \in {0, 1} /\ SharedWaiters \in Nat
        /\ s1 \in Nat
    BY Numbers, FiniteNext, FS_CardinalityType DEF Inv
  <2>4. ExclusiveOwner.Locked = 0 BY <2>1, <1>6 DEF Counts
  <2>5. s = SharedWaiters + Units /\ HeldCount = r + Units BY <2>1, <2>4 DEF Counts
  <2>6. r1 = r + 1 /\ s = s1 + 1 BY <1>11
  <2>7. s1 = SharedWaiters + Units' /\ HeldCount = r1 + Units'
    <3> HIDE DEF r, s, r1, s1
    <3> QED BY <2>3, <2>5, <2>6, <1>6
  <2>8. UNCHANGED <<ExclusiveOwner, SharedWaiters, ExclusiveWaiters, HeldCount>>
    BY DEF tableVars
  <2>9. Units' > 0 => Units > 0 BY <1>6, <2>3
  <2>10. Counts' BY <2>1, <2>2, <2>4, <2>7, <2>8, <2>9, <1>6, <1>11 DEF Counts, By
  <2> QED BY <2>10, CountsMeanNext
<1>14. Keep(Thread)
  <2>1. HasSlot(t) /\ HasSlot(t)' /\ Owes(t)' = Owes(t)
    BY <1>2, <1>10 DEF HasSlot, Owes
  <2> QED BY <1>2, <2>1, KeepOthers DEF Keep
<1>15. SlotsRight' BY <1>14, SlotsKept DEF Inv, tableVars
<1> QED BY <1>2, <1>5, <1>8, <1>12, <1>13, <1>15, TypesNext DEF Inv

LEMMA TakeSignal ==
  ASSUME Inv, NEW t \in Thread, pc[t] = "wait", call[t].op = "exclusive", SyncEvent = 1,
         SyncEvent' = 0, Goto(t, "granted"), UNCHANGED SharedSemaphore,
         UNCHANGED <<tableVars, SharedWaiters, ExclusiveWaiters, HeldCount>>
  PROVE  Inv'
<1>1. ThreadType /\ LockType BY Types DEF Inv
<1>2. /\ ThreadType' /\ OthersSame(t) /\ pc'[t] = "granted" /\ call'[t] = call[t]
      /\ mode'[t] = mode[t] /\ depth'[t] = depth[t]
  BY <1>1, Goes DEF Goto, userVars, ThreadType, Places
<1>3. PlaceRight(t) BY DEF Inv, PlacesRight
<1>4. mode[t] = "none" BY <1>3 DEF PlaceRight, WaitPlaces
<1>5. SyncEvent' # None /\ LockType'
  BY <1>1, ThreadAssumption DEF LockType, tableVars
<1>6. Reserved = 1 /\ Reserved' = 0 /\ Units' = Units
  BY DEF Units, Reserved
<1>7. PlaceRight(t)'
  BY <1>2, <1>3, <1>4 DEF PlaceRight, WaitPlaces, CallPlaces
<1>8. PlacesRight' BY <1>2, <1>5, <1>7, PlacesKept DEF Inv, tableVars
<1>9. RoleRight(t) /\ RoleRight(t)' BY Roles, RolesNext
<1>10. /\ t \notin Readers /\ t \notin Readers' /\ t \notin WS /\ t \notin WS'
       /\ t \in WX /\ t \notin WX' /\ Writer(t)'
       /\ t \notin Sleepers("shared")' /\ t \notin Sleepers("exclusive")'
  BY <1>2, <1>4, <1>9 DEF RoleRight, WaitPlaces, CallPlaces
<1>11. Readers' = Readers /\ WS' = WS /\ Cardinality(WX) = Cardinality(WX') + 1
  BY <1>2, <1>10, OneMoves, Counted, Finite, FiniteNext
<1>12. UNCHANGED <<ExclusiveOwner, Owners, SharedWaiters, ExclusiveWaiters, HeldCount>>
  BY DEF tableVars
<1>13. ExclusiveOwner.Locked = 1 /\ ExclusiveOwner.OwningThread = None
  BY <1>6, Excluded
<1>14. WritersRight'
  <2>1. \A u \in Thread \ {t} : ~Writer(u)
    BY <1>6, Excluded
  <2>2. \A u \in Thread \ {t} : ~Writer(u)'
    BY <1>2, <2>1, OneMoves
  <2>3. WriterRight(t)'
    BY <1>2, <1>4, <1>6, <1>12, <1>13 DEF WriterRight
  <2> QED BY <2>2, <2>3, <1>10, <1>12, <1>13, OneWriter
<1>15. CountsAddUp'
  <2>1. Counts BY CountsMean DEF Inv
  <2>2. Sleepers("shared")' \subseteq Sleepers("shared")
    BY <1>2, <1>10, OneMoves
  <2>3. Cardinality(WX') \in Nat /\ ExclusiveWaiters \in Nat
    BY FiniteNext, FS_CardinalityType, Numbers DEF Inv
  <2>4. Cardinality(WX) = ExclusiveWaiters + 1
    BY <2>1, <1>6 DEF Counts
  <2>5. Cardinality(WX') = ExclusiveWaiters
    BY <1>11, <2>3, <2>4
  <2>6. Counts' BY <2>1, <2>2, <2>3, <2>5, <1>6, <1>11, <1>12, <1>13 DEF Counts
  <2> QED BY <2>6, CountsMeanNext
<1>16. Keep(Thread)
  <2>1. ~HasSlot(t) /\ ~HasSlot(t)' BY <1>10 DEF HasSlot
  <2> QED BY <1>2, <2>1, KeepOthers DEF Keep
<1>17. SlotsRight' BY <1>12, <1>16, SlotsKept DEF Inv
<1> QED BY <1>2, <1>5, <1>8, <1>14, <1>15, <1>17, TypesNext DEF Inv

LEMMA WaitStep == ASSUME Inv, NEW t \in Thread, Wait(t) PROVE Inv'
<1>1. CASE call[t].op = "exclusive" /\ SyncEvent = 1 /\ SyncEvent' = 0 /\ Goto(t, "granted")
           /\ UNCHANGED SharedSemaphore
  BY <1>1, TakeSignal DEF Wait
<1>2. CASE call[t].op = "shared" /\ SharedSemaphore > 0 /\ SharedSemaphore' = SharedSemaphore - 1
           /\ Goto(t, "owner") /\ UNCHANGED SyncEvent
  BY <1>2, TakeUnit DEF Wait
<1>3. CASE /\ IF call[t].op = "exclusive" THEN SyncEvent = 0 ELSE SharedSemaphore = 0
           /\ Goto(t, "asleep") /\ UNCHANGED <<SharedSemaphore, SyncEvent>>
  <2>1. UNCHANGED lockVars BY <1>3 DEF Wait, lockVars, tableVars
  <2> QED BY <1>3, <2>1, ToSleep DEF Wait
<1> QED BY <1>1, <1>2, <1>3 DEF Wait

LEMMA WriteNameStep == ASSUME Inv, NEW t \in Thread, WriteName(t) PROVE Inv'
<1>1. ThreadType /\ LockType BY Types DEF Inv
<1>2. /\ ThreadType' /\ OthersSame(t) /\ pc'[t] = "owner" /\ call'[t] = call[t]
      /\ mode'[t] = mode[t] /\ depth'[t] = depth[t]
  BY <1>1, Goes DEF WriteName, Goto, userVars, ThreadType, Places
<1>3. PlaceRight(t) /\ pc[t] = "granted" BY DEF Inv, PlacesRight, WriteName
<1>4. mode[t] = "none" /\ call[t].op = "exclusive" BY <1>3 DEF PlaceRight, WaitPlaces
<1>5. UNCHANGED <<Owners, TableSize, SharedWaiters, ExclusiveWaiters, HeldCount, SharedSemaphore, SyncEvent>>
      /\ Units' = Units /\ Reserved' = Reserved
  BY DEF WriteName, countVars, Units, Reserved
<1>6. PlaceRight(t)'
  BY <1>2, <1>3, <1>4 DEF PlaceRight, WaitPlaces, CallPlaces
<1>7. PlacesRight' BY <1>2, <1>5, <1>6, PlacesKept DEF Inv
<1>8. RoleRight(t) /\ RoleRight(t)' BY Roles, RolesNext
<1>9. /\ t \notin Readers /\ t \notin Readers' /\ t \notin WS /\ t \notin WS'
      /\ t \notin WX /\ t \notin WX' /\ Writer(t) /\ Writer(t)'
      /\ t \notin Sleepers("shared")' /\ t \notin Sleepers("exclusive")'
  BY <1>2, <1>3, <1>4, <1>8 DEF RoleRight, WaitPlaces, CallPlaces
<1>10. Readers' = Readers /\ WS' = WS /\ WX' = WX
  BY <1>2, <1>9, OneMoves, Counted, Finite, FiniteNext
<1>11. WriterRight(t) BY DEF Inv, WritersRight
<1>12. ExclusiveOwner.Locked = 1 /\ Reserved = 0
  BY <1>3, <1>4, <1>9, <1>11 DEF WriterRight
<1>13. ExclusiveOwner' = By(t)
  BY <1>1, <1>12 DEF WriteName, LockType, Entry, By
<1>14. ExclusiveOwner'.Locked = 1 /\ ExclusiveOwner'.OwningThread = t
  BY <1>13 DEF By
<1>15. LockType'
  BY <1>1, <1>5, <1>13 DEF LockType, Entry, By
<1>16. WritersRight'
  <2>1. \A u \in Thread \ {t} : ~Writer(u)'
    BY <1>2, <1>9, Excluded, OneMoves
  <2>2. WriterRight(t)'
    BY <1>2, <1>4, <1>5, <1>12, <1>13, <1>14 DEF WriterRight
  <2> QED BY <2>1, <2>2, <1>9, <1>14, OneWriter
<1>17. CountsAddUp'
  <2>1. Counts BY CountsMean DEF Inv
  <2>2. Sleepers("shared")' \subseteq Sleepers("shared")
    BY <1>2, <1>9, OneMoves
  <2>3. Counts' BY <2>1, <2>2, <1>5, <1>10, <1>12, <1>14 DEF Counts
  <2> QED BY <2>3, CountsMeanNext
<1>18. Keep(Thread)
  <2>1. ~HasSlot(t) /\ ~HasSlot(t)' BY <1>9 DEF HasSlot
  <2> QED BY <1>2, <2>1, KeepOthers DEF Keep
<1>19. SlotsRight' BY <1>5, <1>18, SlotsKept DEF Inv
<1> QED BY <1>2, <1>7, <1>15, <1>16, <1>17, <1>19, TypesNext DEF Inv

-----------------------------------------------------------------------------
(* Acquiring.                                                              *)

LEMMA Acquires ==
  ASSUME ThreadType, PlacesRight, NEW t \in Thread, Acquired(t),
         call[t].op \in {"exclusive", "shared"}, pc[t] \in {"try", "owner"}
  PROVE  /\ ThreadType' /\ OthersSame(t) /\ pc'[t] = "out" /\ depth'[t] = depth[t] + 1
         /\ mode'[t] = IF mode[t] = "none" THEN call[t].op ELSE mode[t]
         /\ PlaceRight(t)'
         /\ t \notin WS /\ t \notin WX /\ t \notin WS' /\ t \notin WX'
         /\ t \notin Sleepers("shared")' /\ t \notin Sleepers("exclusive")'
         /\ (t \in Readers' <=> mode'[t] = "shared") /\ (Writer(t)' <=> mode'[t] = "exclusive")
<1>1. pc' = [pc EXCEPT ![t] = "out"] /\ call' = [call EXCEPT ![t] = NoCall]
      /\ mode' = (IF mode[t] = "none" THEN [mode EXCEPT ![t] = call[t].op] ELSE mode)
      /\ depth' = [depth EXCEPT ![t] = depth[t] + 1] /\ UNCHANGED <<oldsize, killed>>
  BY DEF Acquired, Over, ThreadType
<1>2. mode' \in [Thread -> {"none", "shared", "exclusive"}]
      /\ mode'[t] = (IF mode[t] = "none" THEN call[t].op ELSE mode[t])
      /\ \A u \in Thread \ {t} : mode'[u] = mode[u]
  BY <1>1 DEF ThreadType
<1>3. depth' \in [Thread -> Nat] /\ depth'[t] = depth[t] + 1 /\ depth'[t] # 0
      /\ \A u \in Thread \ {t} : depth'[u] = depth[u]
  BY <1>1 DEF ThreadType
<1>4. ThreadType' BY <1>1, <1>2, <1>3, CallTypes DEF ThreadType, Places
<1>5. OthersSame(t) /\ pc'[t] = "out"
  BY <1>1, <1>2, <1>3 DEF ThreadType, OthersSame, Same
<1>6. mode'[t] # "none" BY <1>2
<1>7. PlaceRight(t)'
  BY <1>3, <1>5, <1>6 DEF PlaceRight, WaitPlaces, CallPlaces
<1>8. RoleRight(t) /\ RoleRight(t)' BY Roles, RolesNext
<1> QED BY <1>2, <1>3, <1>4, <1>5, <1>7, <1>8 DEF RoleRight, WaitPlaces, CallPlaces

LEMMA TakeFree ==
  ASSUME Inv, NEW t \in Thread, pc[t] = "try", call[t].op = "exclusive", HeldCount = 0,
         ExclusiveOwner' = By(t), HeldCount' = 1, Acquired(t),
         UNCHANGED <<Owners, TableSize, SharedWaiters, ExclusiveWaiters, SharedSemaphore, SyncEvent>>
  PROVE  Inv'
<1>1. ThreadType /\ LockType BY Types DEF Inv
<1>2. /\ ThreadType' /\ OthersSame(t) /\ pc'[t] = "out" /\ depth'[t] = depth[t] + 1
      /\ mode'[t] = IF mode[t] = "none" THEN call[t].op ELSE mode[t]
      /\ PlaceRight(t)'
      /\ t \notin WS /\ t \notin WX /\ t \notin WS' /\ t \notin WX'
      /\ t \notin Sleepers("shared")' /\ t \notin Sleepers("exclusive")'
      /\ (t \in Readers' <=> mode'[t] = "shared") /\ (Writer(t)' <=> mode'[t] = "exclusive")
  BY <1>1, Acquires DEF Inv
<1>3. /\ ExclusiveOwner.Locked = 0 /\ Readers = {} /\ WS = {} /\ WX = {}
      /\ Units = 0 /\ Reserved = 0
  BY Unheld
<1>4. \A u \in Thread : ~Writer(u) BY <1>3, Excluded
<1>5. mode[t] = "none"
  <2>1. mode[t] # "shared" BY <1>3 DEF Readers
  <2>2. mode[t] # "exclusive" BY <1>4 DEF Writer
  <2> QED BY <1>1, <2>1, <2>2 DEF ThreadType
<1>6. mode'[t] = "exclusive" /\ depth'[t] = 1
  <2>1. depth[t] = 0 BY <1>5 DEF Inv, PlacesRight, PlaceRight
  <2> QED BY <1>2, <1>5, <2>1
<1>7. PlacesRight' BY <1>2, PlacesKept DEF Inv
<1>8. Units' = 0 /\ Reserved' = 0 BY <1>3 DEF Units, Reserved
<1>9. LockType' BY <1>1 DEF LockType, Entry, By
<1>10. ExclusiveOwner'.Locked = 1 /\ ExclusiveOwner'.OwningThread = t BY DEF By
<1>11. WritersRight'
  <2>1. \A u \in Thread \ {t} : ~Writer(u)' BY <1>2, <1>4, OneMoves
  <2>2. WriterRight(t)' BY <1>2, <1>6, <1>8, <1>10 DEF WriterRight, By
  <2> QED BY <2>1, <2>2, <1>2, <1>6, <1>10, OneWriter
<1>12. Readers' = {} /\ WS' = {} /\ WX' = {}
  BY <1>2, <1>3, <1>6, OneMoves, Counted, Finite, FiniteNext
<1>13. CountsAddUp'
  <2>1. Counts BY CountsMean DEF Inv
  <2>2. SharedWaiters = 0 /\ ExclusiveWaiters = 0 BY <2>1 DEF Counts
  <2>3. Counts' BY <2>2, <1>8, <1>10, <1>12, FS_EmptySet DEF Counts
  <2> QED BY <2>3, CountsMeanNext
<1>14. Keep(Thread)
  <2>1. ~HasSlot(t) /\ ~HasSlot(t)' BY <1>3, <1>12 DEF HasSlot
  <2> QED BY <1>2, <2>1, KeepOthers DEF Keep
<1>15. SlotsRight' BY <1>14, SlotsKept DEF Inv
<1> QED BY <1>2, <1>7, <1>9, <1>11, <1>13, <1>15, TypesNext DEF Inv

LEMMA TakeAgainStep ==
  ASSUME Inv, NEW t \in Thread, pc[t] = "try", call[t].op \in {"exclusive", "shared"}, Mine(t),
         TakeAgain(t)
  PROVE  Inv'
<1>1. ThreadType /\ LockType BY Types DEF Inv
<1>2. /\ ThreadType' /\ OthersSame(t) /\ pc'[t] = "out" /\ depth'[t] = depth[t] + 1
      /\ mode'[t] = IF mode[t] = "none" THEN call[t].op ELSE mode[t]
      /\ PlaceRight(t)'
      /\ t \notin WS /\ t \notin WX /\ t \notin WS' /\ t \notin WX'
      /\ t \notin Sleepers("shared")' /\ t \notin Sleepers("exclusive")'
      /\ (t \in Readers' <=> mode'[t] = "shared") /\ (Writer(t)' <=> mode'[t] = "exclusive")
  BY <1>1, Acquires DEF Inv, TakeAgain
<1>3. Writer(t)
  <2>1. ExclusiveOwner.OwningThread = t /\ t # None BY ThreadAssumption DEF Mine
  <2> QED BY <2>1 DEF Inv, WritersRight
<1>4. mode[t] = "exclusive"
  BY <1>3, Roles DEF RoleRight, CallPlaces
<1>5. ExclusiveOwner = [OwningThread |-> t, Locked |-> depth[t]]
  BY <1>3, <1>4 DEF Inv, WritersRight, WriterRight
<1>6. ExclusiveOwner' = [OwningThread |-> t, Locked |-> depth[t] + 1] /\ depth[t] \in Nat
  BY <1>1, <1>5 DEF TakeAgain, More, ThreadType
<1>7. ExclusiveOwner'.Locked # 0 /\ ExclusiveOwner'.OwningThread = t
  BY <1>6
<1>8. UNCHANGED <<Owners, TableSize, SharedWaiters, ExclusiveWaiters, HeldCount, SharedSemaphore, SyncEvent>>
      /\ Units' = Units /\ Reserved' = Reserved
  BY DEF TakeAgain, countVars, Units, Reserved
<1>9. mode'[t] = "exclusive" BY <1>2, <1>4
<1>10. PlacesRight' BY <1>2, <1>8, PlacesKept DEF Inv
<1>11. LockType' BY <1>1, <1>6, <1>8 DEF LockType, Entry
<1>12. ExclusiveOwner.Locked # 0 /\ Reserved = 0 /\ \A u \in Thread \ {t} : ~Writer(u)
  BY <1>3, Excluded
<1>13. WritersRight'
  <2>1. \A u \in Thread \ {t} : ~Writer(u)' BY <1>2, <1>12, OneMoves
  <2>2. WriterRight(t)' BY <1>2, <1>6, <1>7, <1>8, <1>9, <1>12 DEF WriterRight
  <2> QED BY <2>1, <2>2, <1>2, <1>7, <1>9, OneWriter
<1>14. t \notin Readers BY <1>4, Roles DEF RoleRight, CallPlaces
<1>15. Readers' = Readers /\ WS' = WS /\ WX' = WX
  BY <1>2, <1>9, <1>14, OneMoves, Counted, Finite, FiniteNext
<1>16. CountsAddUp'
  <2>1. Counts BY CountsMean DEF Inv
  <2>2. Sleepers("shared")' \subseteq Sleepers("shared")
    BY <1>2, OneMoves
  <2>3. Counts' BY <2>1, <2>2, <1>7, <1>8, <1>12, <1>15 DEF Counts
  <2> QED BY <2>3, CountsMeanNext
<1>17. Keep(Thread)
  <2>1. ~HasSlot(t) /\ ~HasSlot(t)' BY <1>2, <1>9, <1>14 DEF HasSlot
  <2> QED BY <1>2, <2>1, KeepOthers DEF Keep
<1>18. SlotsRight' BY <1>8, <1>17, SlotsKept DEF Inv
<1> QED BY <1>2, <1>10, <1>11, <1>13, <1>16, <1>18, TypesNext DEF Inv

\* A thread begins to wait, with the slot of a reader or without one.
LEMMA Enters ==
  ASSUME Inv, NEW t \in Thread, pc[t] = "try", mode[t] = "none", Goto(t, "wait"), HeldCount # 0,
         UNCHANGED <<ExclusiveOwner, TableSize, HeldCount, SharedSemaphore, SyncEvent>>,
         \/ call[t].op = "exclusive" /\ SyncEvent # None
            /\ SharedWaiters' = SharedWaiters /\ ExclusiveWaiters' = ExclusiveWaiters + 1
         \/ call[t].op = "shared" /\ SharedSemaphore # None
            /\ SharedWaiters' = SharedWaiters + 1 /\ ExclusiveWaiters' = ExclusiveWaiters
  PROVE  /\ PlacesRight' /\ WritersRight' /\ CountsAddUp' /\ ThreadType' /\ Keep(Thread \ {t})
         /\ ~HasSlot(t) /\ (HasSlot(t)' <=> call[t].op = "shared") /\ Owes(t)' = 1
<1>1. ThreadType /\ LockType BY Types DEF Inv
<1>2. /\ ThreadType' /\ OthersSame(t) /\ pc'[t] = "wait" /\ call'[t] = call[t]
      /\ mode'[t] = mode[t] /\ depth'[t] = depth[t]
  BY <1>1, Goes DEF Goto, userVars, ThreadType, Places
<1>3. PlaceRight(t) BY DEF Inv, PlacesRight
<1>4. Units' = Units /\ Reserved' = Reserved BY DEF Units, Reserved
<1>5. PlaceRight(t)'
  BY <1>2, <1>3 DEF PlaceRight, WaitPlaces, CallPlaces
<1>6. PlacesRight' BY <1>2, <1>5, PlacesKept DEF Inv
<1>7. RoleRight(t) /\ RoleRight(t)' BY Roles, RolesNext
<1>8. /\ t \notin Readers /\ t \notin Readers' /\ t \notin WS /\ t \notin WX
      /\ (t \in WS' <=> call[t].op = "shared") /\ (t \in WX' <=> call[t].op = "exclusive")
      /\ ~Writer(t) /\ ~Writer(t)'
      /\ t \notin Sleepers("shared")' /\ t \notin Sleepers("exclusive")'
  BY <1>2, <1>7 DEF RoleRight, WaitPlaces, CallPlaces
<1>9. WritersRight'
  <2>1. \A u \in Thread : Writer(u)' <=> Writer(u) BY <1>2, <1>8, OneMoves
  <2>2. \A u \in Thread : /\ mode'[u] = mode[u] /\ depth'[u] = depth[u]
                          /\ pc'[u] \in {"granted", "owner"} /\ call'[u].op = "exclusive" =>
                               pc[u] = pc'[u] /\ call[u].op = "exclusive"
    BY <1>2 DEF OthersSame, Same
  <2> QED BY <2>1, <2>2, <1>4, WritersKept DEF Inv, TypeOK
<1>10. Readers' = Readers
  BY <1>2, <1>8, OneMoves, Counted, Finite, FiniteNext
<1>11. Cardinality(WS') = SharedWaiters' + Units /\ Cardinality(WX') = ExclusiveWaiters' + Reserved
  <2>1. Cardinality(WS) = SharedWaiters + Units /\ Cardinality(WX) = ExclusiveWaiters + Reserved
    BY CountsMean DEF Inv, Counts
  <2>2. /\ Cardinality(WS) \in Nat /\ Cardinality(WX) \in Nat /\ SharedWaiters \in Nat
        /\ ExclusiveWaiters \in Nat /\ Units \in Nat /\ Reserved \in {0, 1}
    BY Numbers DEF Inv
  <2>3. CASE call[t].op = "exclusive"
    <3>1. WS' = WS /\ Cardinality(WX') = Cardinality(WX) + 1
      BY <1>2, <1>8, <2>3, OneMoves, Counted, Finite, FiniteNext
    <3> QED BY <2>1, <2>2, <2>3, <3>1
  <2>4. CASE call[t].op = "shared"
    <3>1. WX' = WX /\ Cardinality(WS') = Cardinality(WS) + 1
      BY <1>2, <1>8, <2>4, OneMoves, Counted, Finite, FiniteNext
    <3> QED BY <2>1, <2>2, <2>4, <3>1
  <2> QED BY <2>3, <2>4
<1>12. CountsAddUp'
  <2>1. Counts BY CountsMean DEF Inv
  <2>2. Sleepers("shared")' \subseteq Sleepers("shared") /\ Sleepers("exclusive")' \subseteq Sleepers("exclusive")
    BY <1>2, <1>8, OneMoves
  <2>3. Counts' BY <2>1, <2>2, <1>4, <1>10, <1>11 DEF Counts, By
  <2> QED BY <2>3, CountsMeanNext
<1>13. ~HasSlot(t) /\ (HasSlot(t)' <=> call[t].op = "shared") /\ Owes(t)' = 1
  BY <1>2, <1>8 DEF HasSlot, Owes
<1> QED BY <1>2, <1>6, <1>9, <1>12, <1>13, KeepOthers

LEMMA WaitExclusive ==
  ASSUME Inv, NEW t \in Thread, pc[t] = "try", call[t].op = "exclusive", HeldCount # 0, ~Mine(t),
         SyncEvent # None, ExclusiveWaiters' = ExclusiveWaiters + 1, Goto(t, "wait"),
         UNCHANGED <<tableVars, SharedWaiters, HeldCount, SharedSemaphore, SyncEvent>>
  PROVE  Inv'
<1>1. ThreadType /\ LockType BY Types DEF Inv
<1>2. mode[t] = "none"
  <2>1. mode[t] # "shared" BY DEF Inv, PlacesRight, PlaceRight, CallPlaces
  <2>2. ASSUME mode[t] = "exclusive" PROVE FALSE
    <3>1. ExclusiveOwner.Locked # 0 /\ ExclusiveOwner = [OwningThread |-> t, Locked |-> depth[t]]
      BY <2>2 DEF Inv, WritersRight, WriterRight, Writer
    <3>2. ExclusiveOwner.OwningThread = t BY <3>1
    <3> QED BY <3>1, <3>2 DEF Mine
  <2> QED BY <1>1, <2>1, <2>2 DEF ThreadType
<1>3. UNCHANGED <<ExclusiveOwner, Owners, TableSize>> BY DEF tableVars
<1>4. /\ PlacesRight' /\ WritersRight' /\ CountsAddUp' /\ ThreadType' /\ Keep(Thread \ {t})
      /\ ~HasSlot(t) /\ (HasSlot(t)' <=> call[t].op = "shared")
  BY <1>2, <1>3, Enters
<1>5. Keep(Thread) BY <1>4 DEF Keep
<1>6. SlotsRight' BY <1>3, <1>5, SlotsKept DEF Inv
<1>7. LockType' BY <1>1, <1>3 DEF LockType
<1> QED BY <1>4, <1>6, <1>7, TypesNext DEF Inv

LEMMA ExclusiveStep == ASSUME Inv, NEW t \in Thread, ExRwLockAcquireExclusive(t) PROVE Inv'
<1> USE DEF ExRwLockAcquireExclusive
<1>1. CASE HeldCount = 0
  BY <1>1, TakeFree
<1>2. CASE HeldCount # 0 /\ Mine(t)
  BY <1>2, TakeAgainStep
<1>3. CASE HeldCount # 0 /\ ~Mine(t)
  <2>1. CASE Refused(t) /\ UNCHANGED lockVars
    BY <2>1, RefusedStep DEF CallPlaces
  <2>2. CASE Goto(t, "allocate") /\ UNCHANGED lockVars
    BY <2>2, ToAllocate
  <2>3. CASE /\ SyncEvent # None /\ ExclusiveWaiters' = ExclusiveWaiters + 1 /\ Goto(t, "wait")
             /\ UNCHANGED <<tableVars, SharedWaiters, HeldCount, SharedSemaphore, SyncEvent>>
    BY <1>3, <2>3, WaitExclusive
  <2> QED BY <1>3, <2>1, <2>2, <2>3
<1> QED BY <1>1, <1>2, <1>3

LEMMA WaitSharedStep ==
  ASSUME Inv, NEW t \in Thread, pc[t] = "try", call[t].op = "shared", HeldCount # 0, ~Mine(t),
         SlotsOf(t) = {} \/ ExclusiveOwner.Locked # 0, NEW i \in FreeSlots, WaitShared(t, i)
  PROVE  Inv'
<1>1. ThreadType /\ LockType BY Types DEF Inv
<1>2. mode[t] = "none" /\ ~HasSlot(t)
  <2>1. t \notin Readers
    <3>1. CASE SlotsOf(t) = {} BY <3>1, TheSlot DEF Inv, HasSlot
    <3>2. CASE ExclusiveOwner.Locked # 0 BY <3>2, Excluded
    <3> QED BY <3>1, <3>2
  <2>2. mode[t] # "shared" BY <2>1 DEF Readers
  <2>3. ASSUME mode[t] = "exclusive" PROVE FALSE
    <3>1. ExclusiveOwner.Locked # 0 /\ ExclusiveOwner = [OwningThread |-> t, Locked |-> depth[t]]
      BY <2>3 DEF Inv, WritersRight, WriterRight, Writer
    <3>2. ExclusiveOwner.OwningThread = t BY <3>1
    <3> QED BY <3>1, <3>2 DEF Mine
  <2>4. t \notin WS BY Roles DEF RoleRight, WaitPlaces
  <2> QED BY <1>1, <2>1, <2>2, <2>3, <2>4 DEF ThreadType, HasSlot
<1>3. CASE Refused(t) /\ UNCHANGED lockVars
  BY <1>3, RefusedStep DEF CallPlaces
<1>4. CASE Goto(t, "allocate") /\ UNCHANGED lockVars
  BY <1>4, ToAllocate
<1>5. CASE /\ SharedSemaphore # None
           /\ Owners' = [Owners EXCEPT ![i] = By(t)]
           /\ SharedWaiters' = SharedWaiters + 1
           /\ Goto(t, "wait")
           /\ UNCHANGED <<ExclusiveOwner, TableSize, ExclusiveWaiters, HeldCount, SharedSemaphore, SyncEvent>>
  <2>1. /\ PlacesRight' /\ WritersRight' /\ CountsAddUp' /\ ThreadType' /\ Keep(Thread \ {t})
        /\ HasSlot(t)' /\ Owes(t)' = 1
    BY <1>2, <1>5, Enters
  <2>2. By(t) \in Entry /\ By(t).OwningThread = t /\ By(t).Locked = 1 BY DEF Entry, By
  <2>3. i \in DOMAIN Owners /\ Owners[i].OwningThread = None BY DEF FreeSlots, SlotsOf
  <2>4. \A j \in DOMAIN Owners : Owners[j].OwningThread # t BY <1>2, TheSlot DEF Inv
  <2>5. SlotsRight' BY <1>5, <2>1, <2>2, <2>3, <2>4, SlotSet DEF Inv
  <2>6. LockType' BY <1>1, <1>5, <2>2, <2>3 DEF LockType
  <2> QED BY <2>1, <2>5, <2>6, TypesNext DEF Inv
<1> QED BY <1>3, <1>4, <1>5 DEF WaitShared

LEMMA ShareStep ==
  ASSUME Inv, NEW t \in Thread, pc[t] = "try", call[t].op = "shared",
         ExclusiveOwner.Locked = 0, SlotsOf(t) = {}, NEW i \in FreeSlots, Share(t, i)
  PROVE  Inv'
<1>1. ThreadType /\ LockType BY Types DEF Inv
<1>2. /\ ThreadType' /\ OthersSame(t) /\ pc'[t] = "out" /\ depth'[t] = depth[t] + 1
      /\ mode'[t] = IF mode[t] = "none" THEN call[t].op ELSE mode[t]
      /\ PlaceRight(t)'
      /\ t \notin WS /\ t \notin WX /\ t \notin WS' /\ t \notin WX'
      /\ t \notin Sleepers("shared")' /\ t \notin Sleepers("exclusive")'
      /\ (t \in Readers' <=> mode'[t] = "shared") /\ (Writer(t)' <=> mode'[t] = "exclusive")
  BY <1>1, Acquires DEF Inv, Share
<1>3. ~HasSlot(t) /\ \A j \in DOMAIN Owners : Owners[j].OwningThread # t
  BY TheSlot DEF Inv, SlotsOf
<1>4. ExclusiveOwner.OwningThread = None /\ \A u \in Thread : ~Writer(u)
  BY Excluded
<1>5. mode[t] = "none"
  <2>1. mode[t] # "shared" BY <1>3 DEF HasSlot, Readers
  <2>2. mode[t] # "exclusive" BY <1>4 DEF Writer
  <2> QED BY <1>1, <2>1, <2>2 DEF ThreadType
<1>6. mode'[t] = "shared" /\ depth'[t] = 1
  <2>1. depth[t] = 0 BY <1>5 DEF Inv, PlacesRight, PlaceRight
  <2> QED BY <1>2, <1>5, <2>1
<1>7. UNCHANGED <<ExclusiveOwner, TableSize, SharedWaiters, ExclusiveWaiters, SharedSemaphore, SyncEvent>>
      /\ Units' = Units /\ Reserved' = Reserved
  BY DEF Share, Units, Reserved
<1>8. PlacesRight' BY <1>2, <1>7, PlacesKept DEF Inv
<1>9. i \in DOMAIN Owners /\ Owners[i].OwningThread = None BY DEF FreeSlots, SlotsOf
<1>10. By(t) \in Entry /\ By(t).OwningThread = t /\ By(t).Locked = 1 BY DEF Entry, By
<1>11. LockType' BY <1>1, <1>7, <1>9, <1>10 DEF LockType, Share
<1>12. WritersRight'
  <2>1. \A u \in Thread : ~Writer(u)' BY <1>2, <1>4, <1>6, OneMoves
  <2> QED BY <2>1, <1>4, <1>7, NoWriter
<1>13. t \notin Readers BY <1>3 DEF HasSlot
<1>14. Cardinality(Readers') = Cardinality(Readers) + 1 /\ WS' = WS /\ WX' = WX
  BY <1>2, <1>6, <1>13, OneMoves, Counted, Finite, FiniteNext
<1>15. CountsAddUp'
  <2>1. Counts BY CountsMean DEF Inv
  <2>2. Sleepers("shared")' \subseteq Sleepers("shared") /\ Sleepers("exclusive")' \subseteq Sleepers("exclusive")
    BY <1>2, OneMoves
  <2>3. Cardinality(Readers) \in Nat /\ Units \in Nat /\ HeldCount \in Nat BY Numbers DEF Inv
  <2>4. HeldCount' = HeldCount + 1 /\ HeldCount = Cardinality(Readers) + Units
    BY <2>1 DEF Share, Counts
  <2>5. HeldCount' = Cardinality(Readers') + Units' /\ HeldCount' # 0
    BY <2>3, <2>4, <1>7, <1>14
  <2>6. Counts' BY <2>1, <2>2, <2>5, <1>7, <1>14 DEF Counts, By
  <2> QED BY <2>6, CountsMeanNext
<1>16. HasSlot(t)' /\ Owes(t)' = 1 BY <1>2, <1>6 DEF HasSlot, Owes
<1>17. SlotsRight'
  <2>1. Owners' = [Owners EXCEPT ![i] = By(t)] BY DEF Share
  <2> QED BY <2>1, <1>2, <1>3, <1>9, <1>10, <1>16, KeepOthers, SlotSet DEF Inv
<1> QED BY <1>2, <1>8, <1>11, <1>12, <1>15, <1>17, TypesNext DEF Inv

LEMMA ShareAgainStep ==
  ASSUME Inv, NEW t \in Thread, pc[t] = "try", call[t].op = "shared",
         NEW i \in SlotsOf(t), ShareAgain(t, i)
  PROVE  Inv'
<1>1. ThreadType /\ LockType BY Types DEF Inv
<1>2. /\ ThreadType' /\ OthersSame(t) /\ pc'[t] = "out" /\ depth'[t] = depth[t] + 1
      /\ mode'[t] = IF mode[t] = "none" THEN call[t].op ELSE mode[t]
      /\ PlaceRight(t)'
      /\ t \notin WS /\ t \notin WX /\ t \notin WS' /\ t \notin WX'
      /\ t \notin Sleepers("shared")' /\ t \notin Sleepers("exclusive")'
      /\ (t \in Readers' <=> mode'[t] = "shared") /\ (Writer(t)' <=> mode'[t] = "exclusive")
  BY <1>1, Acquires DEF Inv, ShareAgain
<1>3. /\ i \in DOMAIN Owners /\ Owners[i].OwningThread = t /\ HasSlot(t) /\ Owners[i].Locked = Owes(t)
      /\ \A j \in DOMAIN Owners \ {i} : Owners[j].OwningThread # t
  BY TheSlot DEF Inv
<1>4. t \in Readers /\ mode[t] = "shared"
  <2>1. t \in Readers BY <1>2, <1>3 DEF HasSlot
  <2> QED BY <2>1, Roles DEF RoleRight, CallPlaces
<1>5. mode'[t] = "shared" BY <1>2, <1>4
<1>6. UNCHANGED <<ExclusiveOwner, TableSize, SharedWaiters, ExclusiveWaiters, HeldCount, SharedSemaphore, SyncEvent>>
      /\ Units' = Units /\ Reserved' = Reserved
  BY DEF ShareAgain, countVars, Units, Reserved
<1>7. PlacesRight' BY <1>2, <1>6, PlacesKept DEF Inv
<1>8. Owners[i] \in Entry /\ depth[t] \in Nat BY <1>1, <1>3 DEF LockType, ThreadType
<1>9. Owners[i].Locked = depth[t] BY <1>3, <1>4 DEF Owes
<1>10. PICK e : e = More(Owners[i]) OBVIOUS
<1>11. e \in Entry /\ e.OwningThread = t /\ e.Locked = depth[t] + 1
  BY <1>3, <1>8, <1>9, <1>10 DEF Entry, More
<1>12. Owners' = [Owners EXCEPT ![i] = e] BY <1>10 DEF ShareAgain
<1>13. LockType' BY <1>1, <1>3, <1>6, <1>11, <1>12 DEF LockType
<1>14. ExclusiveOwner.Locked = 0 /\ ExclusiveOwner.OwningThread = None /\ \A u \in Thread : ~Writer(u)
  BY <1>4, Excluded
<1>15. WritersRight'
  <2>1. \A u \in Thread : ~Writer(u)' BY <1>2, <1>5, <1>14, OneMoves
  <2> QED BY <2>1, <1>6, <1>14, NoWriter
<1>16. Readers' = Readers /\ WS' = WS /\ WX' = WX
  BY <1>2, <1>4, <1>5, OneMoves, Counted, Finite, FiniteNext
<1>17. CountsAddUp'
  <2>1. Counts BY CountsMean DEF Inv
  <2>2. Sleepers("shared")' \subseteq Sleepers("shared") /\ Sleepers("exclusive")' \subseteq Sleepers("exclusive")
    BY <1>2, OneMoves
  <2>3. Counts' BY <2>1, <2>2, <1>6, <1>16 DEF Counts, By
  <2> QED BY <2>3, CountsMeanNext
<1>18. HasSlot(t)' /\ Owes(t)' = depth[t] + 1 BY <1>2, <1>5 DEF HasSlot, Owes
<1>19. SlotsRight'
  BY <1>2, <1>3, <1>11, <1>12, <1>18, KeepOthers, SlotSet DEF Inv
<1> QED BY <1>2, <1>7, <1>13, <1>15, <1>17, <1>19, TypesNext DEF Inv

LEMMA SharedStep == ASSUME Inv, NEW t \in Thread, ExRwLockAcquireShared(t) PROVE Inv'
<1> USE DEF ExRwLockAcquireShared
<1>1. CASE HeldCount = 0 /\ Share(t, 0)
  <2>1. ExclusiveOwner.Locked = 0 /\ \A i \in DOMAIN Owners : Owners[i].OwningThread = None
    BY <1>1, Unheld
  <2>2. 0 \in FreeSlots /\ SlotsOf(t) = {}
    BY <2>1, ThreadAssumption DEF FreeSlots, SlotsOf, Inv, TypeOK
  <2> QED BY <1>1, <2>1, <2>2, ShareStep
<1>2. CASE HeldCount # 0 /\ Mine(t) /\ TakeAgain(t)
  BY <1>2, TakeAgainStep
<1>3. CASE HeldCount # 0 /\ ExclusiveOwner.Locked # 0 /\ ~Mine(t)
  BY <1>3, RefusedStep, NoSlotStep, WaitSharedStep, Zenon DEF CallPlaces, Mine
<1>4. CASE HeldCount # 0 /\ ExclusiveOwner.Locked = 0
  <2>1. ~Mine(t) BY <1>4 DEF Mine
  <2>2. ASSUME NEW i \in SlotsOf(t), ShareAgain(t, i) PROVE Inv'
    BY <2>2, ShareAgainStep
  <2>3. CASE NoSlot(t)
    BY <2>3, NoSlotStep
  <2>4. ASSUME SlotsOf(t) = {}, NEW i \in FreeSlots,
               Share(t, i) \/ WaitShared(t, i) \/ (Refused(t) /\ UNCHANGED lockVars)
        PROVE Inv'
    BY <1>4, <2>1, <2>4, ShareStep, WaitSharedStep, RefusedStep DEF CallPlaces
  <2> QED BY <1>4, <2>1, <2>2, <2>3, <2>4 DEF Mine
<1> QED BY <1>1, <1>2, <1>3, <1>4

LEMMA AtOwner ==
  ASSUME Inv, NEW t \in Thread, pc[t] = "owner"
  PROVE  /\ mode[t] = "none" /\ depth[t] = 0 /\ call[t].op \in {"exclusive", "shared"}
         /\ call[t].op = "exclusive" => Writer(t) /\ t \notin Readers /\ ExclusiveOwner = By(t)
         /\ call[t].op = "shared" => t \in Readers /\ ~Writer(t)
<1>1. call[t] \in Call BY DEF Inv, TypeOK
<1>2. mode[t] = "none" /\ depth[t] = 0 /\ call[t].op # "demote"
  BY DEF Inv, PlacesRight, PlaceRight
<1>3. call[t].op \in {"exclusive", "shared"}
  BY <1>1, <1>2 DEF Call
<1>4. RoleRight(t) BY Roles
<1>5. WriterRight(t) BY DEF Inv, WritersRight
<1> QED BY <1>2, <1>3, <1>4, <1>5 DEF RoleRight, WriterRight

LEMMA ReturnAcquired ==
  ASSUME Inv, NEW t \in Thread, pc[t] = "owner", Acquired(t), UNCHANGED lockVars
  PROVE  Inv'
<1>1. ThreadType /\ LockType BY Types DEF Inv
<1>2. /\ mode[t] = "none" /\ depth[t] = 0 /\ call[t].op \in {"exclusive", "shared"}
      /\ call[t].op = "exclusive" => Writer(t) /\ t \notin Readers /\ ExclusiveOwner = By(t)
      /\ call[t].op = "shared" => t \in Readers /\ ~Writer(t)
  BY AtOwner
<1>3. /\ ThreadType' /\ OthersSame(t) /\ pc'[t] = "out" /\ depth'[t] = depth[t] + 1
      /\ mode'[t] = IF mode[t] = "none" THEN call[t].op ELSE mode[t]
      /\ PlaceRight(t)'
      /\ t \notin WS /\ t \notin WX /\ t \notin WS' /\ t \notin WX'
      /\ t \notin Sleepers("shared")' /\ t \notin Sleepers("exclusive")'
      /\ (t \in Readers' <=> mode'[t] = "shared") /\ (Writer(t)' <=> mode'[t] = "exclusive")
  BY <1>1, <1>2, Acquires DEF Inv
<1>4. mode'[t] = call[t].op /\ depth'[t] = 1 BY <1>2, <1>3
<1>5. UNCHANGED <<ExclusiveOwner, Owners, TableSize, SharedWaiters, ExclusiveWaiters, HeldCount,
                  SharedSemaphore, SyncEvent>>
      /\ Units' = Units /\ Reserved' = Reserved
  BY DEF lockVars, Units, Reserved
<1>6. PlacesRight' BY <1>3, <1>5, PlacesKept DEF Inv
<1>7. LockType' BY <1>1, LockTypeKept
<1>8. (Writer(t)' <=> Writer(t)) /\ (t \in Readers' <=> t \in Readers)
  BY <1>2, <1>3, <1>4
<1>9. WritersRight'
  <2>1. CASE call[t].op = "exclusive"
    <3>1. Writer(t) BY <1>2, <2>1
    <3>2. Reserved = 0 /\ ExclusiveOwner = By(t) /\ \A u \in Thread \ {t} : ~Writer(u)
      BY <1>2, <2>1, <3>1, Excluded
    <3>3. \A u \in Thread \ {t} : ~Writer(u)' BY <1>3, <3>2, OneMoves
    <3>4. WriterRight(t)' BY <1>3, <1>4, <1>5, <3>2, <2>1 DEF WriterRight, By
    <3> QED BY <3>1, <3>2, <3>3, <3>4, <1>5, <1>8, OneWriter DEF By
  <2>2. CASE call[t].op = "shared"
    <3>1. ExclusiveOwner.OwningThread = None /\ \A u \in Thread : ~Writer(u)
      BY <1>2, <2>2, Excluded
    <3>2. \A u \in Thread : ~Writer(u)' BY <1>3, <1>8, <3>1, OneMoves
    <3> QED BY <3>1, <3>2, <1>5, NoWriter
  <2> QED BY <2>1, <2>2, <1>2
<1>10. Readers' = Readers /\ WS' = WS /\ WX' = WX
  BY <1>3, <1>8, OneMoves, Counted, Finite, FiniteNext
<1>11. CountsAddUp'
  <2>1. Counts BY CountsMean DEF Inv
  <2>2. Sleepers("shared")' \subseteq Sleepers("shared") /\ Sleepers("exclusive")' \subseteq Sleepers("exclusive")
    BY <1>3, OneMoves
  <2>3. Counts' BY <2>1, <2>2, <1>5, <1>10 DEF Counts, By
  <2> QED BY <2>3, CountsMeanNext
<1>12. Keep(Thread)
  <2>1. HasSlot(t)' <=> HasSlot(t) BY <1>10 DEF HasSlot
  <2>2. HasSlot(t) => Owes(t) = 1 /\ Owes(t)' = 1 BY <1>2, <1>3, <1>4 DEF HasSlot, Owes
  <2> QED BY <1>3, <2>1, <2>2, KeepOthers DEF Keep
<1>13. SlotsRight' BY <1>5, <1>12, SlotsKept DEF Inv
<1> QED BY <1>3, <1>6, <1>7, <1>9, <1>11, <1>13, TypesNext DEF Inv

-----------------------------------------------------------------------------
(* Releasing one of the h holds of a thread: of one that called for it, or *)
(* of one that was killed while it waited.                                 *)

Leaves(t, h) ==
  /\ h \in Nat \ {0}
  /\ \/ pc[t] = "out" /\ h = depth[t]
     \/ pc[t] = "owner" /\ h = 1
  /\ depth' = [depth EXCEPT ![t] = h - 1]
  /\ mode' = IF h = 1 THEN [mode EXCEPT ![t] = "none"] ELSE mode
  /\ call' \in [Thread -> Call] /\ \A u \in Thread \ {t} : call'[u] = call[u]
  /\ UNCHANGED <<oldsize, killed>>

\* What it holds, and that it is the last to hold it when h is 1.
LEMMA Holds ==
  ASSUME Inv, NEW t \in Thread, NEW h, Leaves(t, h)
  PROVE  /\ h \in Nat /\ h >= 1 /\ (mode[t] = "none" => h = 1)
         /\ t \notin WS /\ t \notin WX /\ t \notin Sleepers("shared") /\ t \notin Sleepers("exclusive")
         /\ h > 1 => pc[t] = "out" /\ mode[t] # "none"
         /\ Writer(t) => /\ ExclusiveOwner = [OwningThread |-> t, Locked |-> h]
                         /\ t \notin Readers
                         /\ h > 1 => mode[t] = "exclusive"
         /\ t \in Readers => /\ Owes(t) = h /\ ~Writer(t)
                             /\ h > 1 => mode[t] = "shared"
         /\ depth'[t] = h - 1 /\ mode'[t] = IF h = 1 THEN "none" ELSE mode[t]
         /\ \A u \in Thread \ {t} : mode'[u] = mode[u] /\ depth'[u] = depth[u] /\ call'[u] = call[u]
         /\ mode' \in [Thread -> {"none", "shared", "exclusive"}] /\ depth' \in [Thread -> Nat]
<1>1. ThreadType /\ LockType BY Types DEF Inv
<1>2. h \in Nat /\ h >= 1 BY DEF Leaves
<1>3. RoleRight(t) /\ PlaceRight(t) /\ WriterRight(t)
  BY Roles DEF Inv, PlacesRight, WritersRight
<1>4. t \notin WS /\ t \notin WX /\ t \notin Sleepers("shared") /\ t \notin Sleepers("exclusive")
  BY <1>3 DEF RoleRight, WaitPlaces, Leaves
<1>5. /\ depth'[t] = h - 1 /\ mode'[t] = IF h = 1 THEN "none" ELSE mode[t]
      /\ \A u \in Thread \ {t} : mode'[u] = mode[u] /\ depth'[u] = depth[u] /\ call'[u] = call[u]
      /\ mode' \in [Thread -> {"none", "shared", "exclusive"}] /\ depth' \in [Thread -> Nat]
  BY <1>1, <1>2 DEF Leaves, ThreadType
<1>6. CASE pc[t] = "out" /\ h = depth[t]
  <2>1. mode[t] # "none" BY <1>2, <1>3, <1>6 DEF PlaceRight
  <2>2. (Writer(t) <=> mode[t] = "exclusive") /\ (t \in Readers <=> mode[t] = "shared")
    BY <1>3, <1>6 DEF RoleRight
  <2>3. Writer(t) => ExclusiveOwner = [OwningThread |-> t, Locked |-> h]
    BY <1>3, <1>6, <2>2 DEF WriterRight
  <2>4. t \in Readers => Owes(t) = h BY <1>6, <2>2 DEF Owes
  <2> QED BY <1>2, <1>4, <1>5, <1>6, <2>1, <2>2, <2>3, <2>4
<1>7. CASE pc[t] = "owner" /\ h = 1
  <2>1. /\ mode[t] = "none"
        /\ call[t].op = "exclusive" => Writer(t) /\ t \notin Readers /\ ExclusiveOwner = By(t)
        /\ call[t].op = "shared" => t \in Readers /\ ~Writer(t)
        /\ call[t].op \in {"exclusive", "shared"}
    BY <1>7, AtOwner
  <2>2. Writer(t) => ExclusiveOwner = [OwningThread |-> t, Locked |-> h] /\ t \notin Readers
    BY <1>7, <2>1 DEF By
  <2>3. t \in Readers => Owes(t) = h /\ ~Writer(t) BY <1>7, <2>1 DEF Owes
  <2> QED BY <1>2, <1>4, <1>5, <1>7, <2>1, <2>2, <2>3
<1> QED BY <1>6, <1>7 DEF Leaves

\* A release of units wakes every sleeping reader.
LEMMA Woken ==
  ASSUME Inv, NEW t \in Thread, SharedWaiters > 0, Units = 0, NEW place,
         ReleaseUnits(SharedWaiters, t, place)
  PROVE  /\ SharedSemaphore = 0
         /\ SharedSemaphore' \in Nat
         /\ SharedSemaphore' + Cardinality(Sleepers("shared")) = SharedWaiters
         /\ pc' = [u \in Thread |-> IF u = t THEN place
                                    ELSE IF u \in Sleepers("shared") THEN "owner" ELSE pc[u]]
<1> DEFINE S == Sleepers("shared")
           k == Cardinality(S)
           n == SharedWaiters
<1>1. Counts BY CountsMean DEF Inv
<1>2. n \in Nat /\ k \in Nat BY Numbers, Finite, FS_CardinalityType DEF Inv
<1>3. Cardinality(WS) = n
  <2>1. Cardinality(WS) = n + 0 BY <1>1 DEF Counts
  <2> QED BY <2>1, <1>2
<1>4. SharedSemaphore = 0
  <2>1. WS # {} BY <1>2, <1>3, Finite, Empty
  <2>2. PICK u \in Thread : u \in WS BY <2>1 DEF WS, Waiting
  <2>3. SharedSemaphore # None
    BY <2>2, Roles DEF RoleRight, Inv, PlacesRight, PlaceRight
  <2> QED BY <2>3 DEF Units
<1>5. S \subseteq WS BY DEF Sleepers, WS, Waiting
<1>6. k <= n BY <1>3, <1>5, Finite, FS_Subset
<1>7. Fewer(n, k) = k
  <2> HIDE DEF n, k
  <2> QED BY <1>2, <1>6 DEF Fewer
<1>8. PICK W \in SUBSET S :
        /\ Cardinality(W) = k
        /\ pc' = [u \in Thread |-> IF u = t THEN place ELSE IF u \in W THEN "owner" ELSE pc[u]]
  BY <1>4, <1>7 DEF ReleaseUnits
<1>9. W = S BY <1>8, Finite, FS_Subset
<1>10. SharedSemaphore' = 0 + n - k BY <1>4, <1>7 DEF ReleaseUnits
<1>11. SharedSemaphore' \in Nat /\ SharedSemaphore' + k = n
  <2> HIDE DEF n, k
  <2> QED BY <1>2, <1>6, <1>10
<1> QED BY <1>4, <1>8, <1>9, <1>11

\* What that does to the other threads.
LEMMA WokenSets ==
  ASSUME Inv, NEW t \in Thread, t \notin WS,
         pc' = [u \in Thread |-> IF u = t THEN "out"
                                 ELSE IF u \in Sleepers("shared") THEN "owner" ELSE pc[u]],
         \A u \in Thread \ {t} : mode'[u] = mode[u] /\ depth'[u] = depth[u] /\ call'[u] = call[u],
         SharedSemaphore # None => SharedSemaphore' # None, SyncEvent' = SyncEvent
  PROVE  /\ Readers' \ {t} = (Readers \cup Sleepers("shared")) \ {t}
         /\ WS' = WS \ Sleepers("shared")
         /\ WX' = WX \ {t} /\ Sleepers("shared")' = {}
         /\ Sleepers("exclusive")' = Sleepers("exclusive") \ {t}
         /\ \A u \in Thread \ {t} : PlaceRight(u)' /\ (Writer(u)' <=> Writer(u))
         /\ Keep(Thread \ {t})
<1>1. ThreadType BY Types DEF Inv
<1>2. \A u \in Thread : u \in Sleepers("shared") <=> pc[u] = "asleep" /\ call[u].op = "shared"
  BY Roles DEF RoleRight
<1>3. pc'[t] = "out" OBVIOUS
<1>4. ASSUME NEW u \in Thread \ {t}
      PROVE  /\ PlaceRight(u)' /\ (Writer(u)' <=> Writer(u))
             /\ u \in Readers' <=> u \in Readers \/ u \in Sleepers("shared")
             /\ u \in WS' <=> u \in WS /\ u \notin Sleepers("shared")
             /\ u \in WX' <=> u \in WX
             /\ u \notin Sleepers("shared")'
             /\ u \in Sleepers("exclusive")' <=> u \in Sleepers("exclusive")
             /\ HasSlot(u)' <=> HasSlot(u)
             /\ Owes(u)' = Owes(u)
  <2>1. PlaceRight(u) BY DEF Inv, PlacesRight
  <2>2. RoleRight(u) /\ RoleRight(u)' BY Roles, RolesNext
  <2>3. mode'[u] = mode[u] /\ depth'[u] = depth[u] /\ call'[u] = call[u] OBVIOUS
  <2>4. pc'[u] = IF u \in Sleepers("shared") THEN "owner" ELSE pc[u] OBVIOUS
  <2>5. CASE u \in Sleepers("shared")
    <3>1. pc[u] = "asleep" /\ call[u].op = "shared" /\ pc'[u] = "owner" BY <2>4, <2>5, <1>2
    <3>2. mode[u] = "none" BY <2>1, <3>1 DEF PlaceRight, WaitPlaces
    <3>3. u \in Readers' /\ u \in WS /\ u \notin WS' /\ u \notin WX /\ u \notin WX'
          /\ u \notin Readers /\ ~Writer(u) /\ ~Writer(u)'
          /\ u \notin Sleepers("shared")' /\ u \notin Sleepers("exclusive")'
          /\ u \notin Sleepers("exclusive")
      BY <2>2, <2>3, <3>1, <3>2 DEF RoleRight, WaitPlaces, CallPlaces
    <3>4. PlaceRight(u)' BY <2>1, <2>3, <3>1, <3>2 DEF PlaceRight, WaitPlaces, CallPlaces
    <3> QED BY <2>3, <2>5, <3>3, <3>4 DEF HasSlot, Owes
  <2>6. CASE u \notin Sleepers("shared")
    <3>1. pc'[u] = pc[u] BY <2>4, <2>6
    <3>2. PlaceRight(u)' BY <2>1, <2>3, <3>1 DEF PlaceRight
    <3>3. (Writer(u)' <=> Writer(u)) /\ (u \in Readers' <=> u \in Readers)
      BY <2>3, <3>1 DEF Writer, Readers
    <3>4. (u \in WS' <=> u \in WS) /\ (u \in WX' <=> u \in WX) /\ u \notin Sleepers("shared")'
          /\ (u \in Sleepers("exclusive")' <=> u \in Sleepers("exclusive"))
      BY <2>2, <2>3, <2>6, <3>1 DEF RoleRight
    <3> QED BY <2>3, <2>6, <3>2, <3>3, <3>4 DEF HasSlot, Owes
  <2> QED BY <2>5, <2>6
<1>5. t \notin WS' /\ t \notin WX' /\ t \notin Sleepers("shared")' /\ t \notin Sleepers("exclusive")'
  BY <1>3, RolesNext DEF RoleRight, WaitPlaces
<1>6. Readers \subseteq Thread /\ Readers' \subseteq Thread /\ WS \subseteq Thread /\ WS' \subseteq Thread
      /\ WX \subseteq Thread /\ WX' \subseteq Thread
  BY DEF Readers, WS, WX, Waiting
<1>7. Sleepers("shared") \subseteq Thread /\ Sleepers("shared")' \subseteq Thread
      /\ Sleepers("exclusive") \subseteq Thread /\ Sleepers("exclusive")' \subseteq Thread
  BY DEF Sleepers
<1>8. Readers' \ {t} = (Readers \cup Sleepers("shared")) \ {t} BY <1>4, <1>6, <1>7
<1>9. WS' = WS \ Sleepers("shared") BY <1>4, <1>5, <1>6, <1>7
<1>10. WX' = WX \ {t} BY <1>4, <1>5, <1>6
<1>11. Sleepers("shared")' = {} /\ Sleepers("exclusive")' = Sleepers("exclusive") \ {t}
  BY <1>4, <1>5, <1>7
<1> QED BY <1>4, <1>8, <1>9, <1>10, <1>11 DEF Keep

LEMMA LeavesTypes ==
  ASSUME ThreadType, NEW t \in Thread, NEW h, Leaves(t, h), pc' \in [Thread -> Places],
         mode' \in [Thread -> {"none", "shared", "exclusive"}], depth' \in [Thread -> Nat]
  PROVE  ThreadType'
BY DEF ThreadType, Leaves

\* A thread with no hold left, out of its call.
LEMMA Gone ==
  ASSUME NEW t \in Thread, pc'[t] = "out", mode'[t] = "none", depth'[t] = 0
  PROVE  /\ PlaceRight(t)' /\ ~Writer(t)' /\ ~HasSlot(t)' /\ t \notin Readers'
         /\ t \notin WS' /\ t \notin WX'
         /\ t \notin Sleepers("shared")' /\ t \notin Sleepers("exclusive")'
<1>1. RoleRight(t)' BY RolesNext
<1>2. PlaceRight(t)' BY DEF PlaceRight, WaitPlaces, CallPlaces
<1> QED BY <1>1, <1>2 DEF RoleRight, WaitPlaces, HasSlot

\* The last holder, in a state that is ready to be handed on.
Last(t) ==
  /\ Leaves(t, 1) /\ Units = 0 /\ Reserved = 0 /\ Readers \subseteq {t}
  /\ \A u \in Thread \ {t} : ~Writer(u)
Freely == ExclusiveOwner' \in Entry /\ ExclusiveOwner'.Locked = 0 /\ ExclusiveOwner'.OwningThread = None

LEMMA LastToReaders ==
  ASSUME Inv, NEW t \in Thread, Last(t), HandToReaders(t, "out"), SharedWaiters > 0, Freely
  PROVE  /\ ThreadType' /\ PlacesRight' /\ WritersRight' /\ CountsAddUp'
         /\ Keep(Thread \ {t}) /\ ~HasSlot(t)' /\ SharedSemaphore' \in Nat
<1> DEFINE S == Sleepers("shared")
<1>1. ThreadType /\ LockType BY Types DEF Inv
<1>2. /\ t \notin WS /\ t \notin WX /\ t \notin S
      /\ depth'[t] = 0 /\ mode'[t] = "none"
      /\ \A u \in Thread \ {t} : mode'[u] = mode[u] /\ depth'[u] = depth[u] /\ call'[u] = call[u]
      /\ mode' \in [Thread -> {"none", "shared", "exclusive"}] /\ depth' \in [Thread -> Nat]
  BY Holds DEF Last
<1>3. /\ SharedSemaphore = 0 /\ SharedSemaphore' \in Nat
      /\ SharedSemaphore' + Cardinality(S) = SharedWaiters
      /\ pc' = [u \in Thread |-> IF u = t THEN "out" ELSE IF u \in S THEN "owner" ELSE pc[u]]
  BY Woken DEF Last, HandToReaders
<1>4. SharedSemaphore' # None /\ SyncEvent' = SyncEvent /\ Reserved' = 0
      /\ HeldCount' = SharedWaiters /\ SharedWaiters' = 0 /\ ExclusiveWaiters' = ExclusiveWaiters
  BY <1>3, ThreadAssumption DEF HandToReaders, Last, Reserved
<1>5. Units' = SharedSemaphore' BY <1>4 DEF Units
<1>6. /\ Readers' \ {t} = (Readers \cup S) \ {t} /\ WS' = WS \ S /\ WX' = WX \ {t}
      /\ Sleepers("shared")' = {} /\ Sleepers("exclusive")' = Sleepers("exclusive") \ {t}
      /\ \A u \in Thread \ {t} : PlaceRight(u)' /\ (Writer(u)' <=> Writer(u))
      /\ Keep(Thread \ {t})
  BY <1>2, <1>3, <1>4, WokenSets
<1>7. /\ PlaceRight(t)' /\ ~Writer(t)' /\ ~HasSlot(t)' /\ t \notin Readers'
  BY <1>2, <1>3, Gone
<1>8. ThreadType'
  <2>1. pc' \in [Thread -> Places] BY <1>1, <1>3 DEF ThreadType, Places
  <2> QED BY <1>1, <1>2, <2>1, LeavesTypes DEF Last
<1>9. PlacesRight' BY <1>6, <1>7 DEF PlacesRight
<1>10. WritersRight'
  <2>1. \A u \in Thread : ~Writer(u)' BY <1>6, <1>7 DEF Last
  <2> QED BY <2>1, NoWriter DEF Freely
<1>11. Readers' = S BY <1>2, <1>6, <1>7 DEF Last
<1>12. WX' = WX BY <1>2, <1>6
<1>13. CountsAddUp'
  <2>1. Counts BY CountsMean DEF Inv
  <2>2. S \subseteq WS BY DEF Sleepers, WS, Waiting
  <2> DEFINE k == Cardinality(S)
             s == Cardinality(WS)
             s1 == Cardinality(WS')
             q == SharedSemaphore'
  <2>3. k \in Nat /\ s \in Nat /\ s1 \in Nat /\ SharedWaiters \in Nat /\ q \in Nat
    BY <1>3, Finite, FiniteNext, FS_CardinalityType, Numbers DEF Inv
  <2>4. s1 = s - k
    <3>1. WS = WS' \cup S /\ WS' \cap S = {} BY <1>6, <2>2
    <3>2. Cardinality(WS' \cup S) = Cardinality(WS') + Cardinality(S) - Cardinality(WS' \cap S)
      BY Finite, FiniteNext, FS_Union
    <3>3. Cardinality(WS' \cap S) = 0 BY <3>1, FS_EmptySet
    <3>4. s = s1 + k - 0 BY <3>1, <3>2, <3>3
    <3> HIDE DEF k, s, s1
    <3> QED BY <3>4, <2>3
  <2>5. s = SharedWaiters + 0 BY <2>1 DEF Counts, Last
  <2>6. s1 = 0 + q /\ SharedWaiters = k + q
    <3>1. q + k = SharedWaiters BY <1>3
    <3> HIDE DEF k, s, s1, q
    <3> QED BY <2>3, <2>4, <2>5, <3>1
  <2>7. Cardinality(WX') = ExclusiveWaiters' + 0
    BY <1>4, <1>12, <2>1 DEF Counts, Last
  <2>8. HeldCount' = Cardinality(Readers') + Units' BY <1>4, <1>5, <1>11, <2>6
  <2>9. HeldCount' # 0 BY <1>4, <2>3
  <2>10. Counts' BY <1>4, <1>5, <1>6, <2>6, <2>7, <2>8, <2>9 DEF Counts, Freely
  <2> QED BY <2>10, CountsMeanNext
<1> QED BY <1>3, <1>6, <1>7, <1>8, <1>9, <1>10, <1>13

LEMMA LeavesAlone ==
  ASSUME Inv, NEW t \in Thread, NEW h, Leaves(t, h), pc' = [pc EXCEPT ![t] = "out"],
         SyncEvent # None => SyncEvent' # None,
         SharedSemaphore # None => SharedSemaphore' # None
  PROVE  ThreadType' /\ OthersSame(t) /\ PlacesRight' /\ pc'[t] = "out"
<1>1. ThreadType BY Types DEF Inv
<1>2. /\ h \in Nat /\ h >= 1 /\ (mode[t] = "none" => h = 1)
      /\ depth'[t] = h - 1 /\ mode'[t] = IF h = 1 THEN "none" ELSE mode[t]
      /\ \A u \in Thread \ {t} : mode'[u] = mode[u] /\ depth'[u] = depth[u] /\ call'[u] = call[u]
      /\ mode' \in [Thread -> {"none", "shared", "exclusive"}] /\ depth' \in [Thread -> Nat]
  BY Holds
<1>3. pc' \in [Thread -> Places] /\ pc'[t] = "out" /\ \A u \in Thread \ {t} : pc'[u] = pc[u]
  BY <1>1 DEF ThreadType, Places
<1>4. ThreadType' BY <1>1, <1>2, <1>3, LeavesTypes
<1>5. OthersSame(t) BY <1>2, <1>3 DEF OthersSame, Same
<1>6. mode'[t] = "none" <=> depth'[t] = 0
  BY <1>2
<1>7. PlaceRight(t)' BY <1>3, <1>6 DEF PlaceRight, WaitPlaces, CallPlaces
<1> QED BY <1>3, <1>4, <1>5, <1>7, PlacesKept DEF Inv

LEMMA LetsGo ==
  ASSUME Inv, NEW t \in Thread, Leaves(t, 1), LetGo(t, "out"), Freely,
         HeldCount > 1 \/ (SharedWaiters = 0 /\ ExclusiveWaiters = 0),
         Writer(t) \/ t \in Readers
  PROVE  /\ ThreadType' /\ PlacesRight' /\ WritersRight' /\ CountsAddUp'
         /\ Keep(Thread \ {t}) /\ ~HasSlot(t)' /\ HeldCount' \in Nat
<1>1. UNCHANGED <<SharedWaiters, ExclusiveWaiters, SharedSemaphore, SyncEvent>>
      /\ pc' = [pc EXCEPT ![t] = "out"] /\ HeldCount' = HeldCount - 1
      /\ Units' = Units /\ Reserved' = Reserved
  BY DEF LetGo, Units, Reserved
<1>2. ThreadType' /\ OthersSame(t) /\ PlacesRight' /\ pc'[t] = "out"
  BY <1>1, LeavesAlone
<1>3. /\ t \notin WS /\ t \notin WX /\ depth'[t] = 0 /\ mode'[t] = "none"
      /\ Writer(t) => t \notin Readers
  BY Holds
<1>4. ~Writer(t)' /\ ~HasSlot(t)' /\ t \notin Readers' /\ t \notin WS' /\ t \notin WX'
      /\ t \notin Sleepers("shared")' /\ t \notin Sleepers("exclusive")'
  BY <1>2, <1>3, Gone
<1>5. Reserved = 0 /\ \A u \in Thread \ {t} : ~Writer(u)
  BY Excluded
<1>6. WritersRight'
  <2>1. \A u \in Thread : ~Writer(u)' BY <1>2, <1>4, <1>5, OneMoves
  <2> QED BY <2>1, NoWriter DEF Freely
<1>7. WS' = WS /\ WX' = WX
  BY <1>2, <1>3, <1>4, OneMoves, Counted, Finite, FiniteNext
<1>8. Counts BY CountsMean DEF Inv
<1> DEFINE r == Cardinality(Readers)
           r1 == Cardinality(Readers')
<1>9. r \in Nat /\ r1 \in Nat /\ Units \in Nat /\ HeldCount \in Nat
  BY FiniteNext, FS_CardinalityType, Numbers DEF Inv
<1>10. HeldCount' = r1 + Units /\ HeldCount' \in Nat
  <2>1. CASE t \in Readers
    <3>1. r = r1 + 1 BY <1>2, <1>4, <2>1, OneMoves, Counted, Finite, FiniteNext
    <3>2. ExclusiveOwner.Locked = 0 BY <2>1, Excluded
    <3>3. HeldCount = r + Units BY <3>2, <1>8 DEF Counts
    <3> HIDE DEF r, r1
    <3> QED BY <3>1, <3>3, <1>1, <1>9
  <2>2. CASE Writer(t)
    <3>1. HeldCount = 1 /\ Units = 0 /\ Readers = {} BY <2>2, Excluded
    <3>2. t \notin Readers BY <3>1
    <3>3. Readers' = Readers BY <1>2, <1>4, <3>2, OneMoves, Counted, Finite, FiniteNext
    <3>4. r1 = 0 BY <3>1, <3>3, FS_EmptySet
    <3> HIDE DEF r, r1
    <3> QED BY <3>1, <3>4, <1>1
  <2> QED BY <2>1, <2>2
<1>11. HeldCount' = 0 => SharedWaiters = 0 /\ ExclusiveWaiters = 0
  BY <1>1, <1>9
<1>12. CountsAddUp'
  <2>1. Sleepers("shared")' \subseteq Sleepers("shared")
    BY <1>2, <1>4, OneMoves
  <2>2. Counts' BY <2>1, <1>1, <1>5, <1>7, <1>8, <1>10, <1>11 DEF Counts, Freely
  <2> QED BY <2>2, CountsMeanNext
<1> QED BY <1>2, <1>4, <1>6, <1>10, <1>12, KeepOthers

LEMMA LastToWriter ==
  ASSUME Inv, NEW t \in Thread, Last(t), HandToWriter(t, "out"), ExclusiveWaiters > 0
  PROVE  /\ ThreadType' /\ PlacesRight' /\ WritersRight' /\ CountsAddUp'
         /\ Keep(Thread \ {t}) /\ ~HasSlot(t)'
         /\ ExclusiveOwner' \in Entry /\ ExclusiveWaiters' \in Nat /\ SyncEvent' \in {0, 1, None}
<1>1. ThreadType /\ LockType BY Types DEF Inv
<1>2. /\ t \notin WS /\ t \notin WX /\ t \notin Sleepers("exclusive")
      /\ depth'[t] = 0 /\ mode'[t] = "none"
      /\ \A u \in Thread \ {t} : mode'[u] = mode[u] /\ depth'[u] = depth[u] /\ call'[u] = call[u]
      /\ mode' \in [Thread -> {"none", "shared", "exclusive"}] /\ depth' \in [Thread -> Nat]
  BY Holds DEF Last
<1>3. /\ HeldCount' = 1 /\ ExclusiveWaiters' = ExclusiveWaiters - 1
      /\ UNCHANGED <<SharedWaiters, SharedSemaphore>> /\ Units' = 0
  BY DEF HandToWriter, Units, Last
<1>4. Counts BY CountsMean DEF Inv
<1>5. ExclusiveWaiters \in Nat /\ ExclusiveWaiters' \in Nat /\ Cardinality(WX) \in Nat
      /\ Cardinality(WX) = ExclusiveWaiters' + 1
  <2>1. ExclusiveWaiters \in Nat /\ Cardinality(WX) \in Nat BY Numbers DEF Inv
  <2>2. Cardinality(WX) = ExclusiveWaiters + 0 BY <1>4 DEF Counts, Last
  <2> QED BY <2>1, <2>2, <1>3
<1>6. SyncEvent = 0
  <2>1. WX # {} BY <1>5, Finite, Empty
  <2>2. PICK u \in Thread : u \in WX BY <2>1 DEF WX, Waiting
  <2>3. SyncEvent # None
    BY <2>2, Roles DEF RoleRight, Inv, PlacesRight, PlaceRight
  <2> QED BY <2>3, <1>1 DEF LockType, Reserved, Last
<1>7. CASE /\ Sleepers("exclusive") = {} /\ SyncEvent' = 1 /\ ExclusiveOwner' = By(None)
           /\ pc' = [pc EXCEPT ![t] = "out"]
  <2>1. SyncEvent' # None BY <1>7, ThreadAssumption
  <2>2. ThreadType' /\ OthersSame(t) /\ PlacesRight' /\ pc'[t] = "out"
    BY <2>1, <1>3, <1>7, LeavesAlone DEF Last
  <2>3. ~Writer(t)' /\ ~HasSlot(t)' /\ t \notin Readers' /\ t \notin WS' /\ t \notin WX'
        /\ t \notin Sleepers("shared")' /\ t \notin Sleepers("exclusive")'
    BY <1>2, <2>2, Gone
  <2>4. WritersRight'
    <3>1. \A u \in Thread : ~Writer(u)' BY <2>2, <2>3, OneMoves DEF Last
    <3> QED BY <3>1, <1>7, NoWriter DEF By
  <2>5. WS' = WS /\ WX' = WX
    BY <1>2, <2>2, <2>3, OneMoves, Counted, Finite, FiniteNext
  <2>6. Readers' = {} /\ Sleepers("exclusive")' = {}
    BY <1>7, <2>2, <2>3, OneMoves DEF Last
  <2>7. Reserved' = 1 /\ ExclusiveOwner'.Locked = 1 BY <1>7 DEF Reserved, By
  <2>8. CountsAddUp'
    <3>1. Cardinality(WS') = SharedWaiters' + Units'
      BY <1>3, <1>4, <2>5 DEF Counts, Last
    <3>2. Counts' BY <3>1, <1>3, <1>5, <1>7, <2>5, <2>6, <2>7 DEF Counts, By
    <3> QED BY <3>2, CountsMeanNext
  <2>9. ExclusiveOwner' \in Entry BY <1>7 DEF By, Entry
  <2> QED BY <1>5, <1>7, <2>2, <2>3, <2>4, <2>8, <2>9, KeepOthers
<1>8. ASSUME NEW w \in Sleepers("exclusive"), ExclusiveOwner' = By(w),
             pc' = [pc EXCEPT ![t] = "out", ![w] = "granted"], SyncEvent' = SyncEvent
      PROVE  /\ ThreadType' /\ PlacesRight' /\ WritersRight' /\ CountsAddUp'
             /\ Keep(Thread \ {t}) /\ ~HasSlot(t)' /\ ExclusiveOwner' \in Entry
  <2>1. w \in Thread /\ w # t /\ pc[w] = "asleep" /\ call[w].op = "exclusive"
    BY <1>2 DEF Sleepers
  <2>2. /\ pc' \in [Thread -> Places] /\ pc'[t] = "out" /\ pc'[w] = "granted"
        /\ \A u \in Thread \ {t, w} : pc'[u] = pc[u]
    BY <1>1, <1>8, <2>1 DEF ThreadType, Places
  <2>3. ThreadType' BY <1>1, <1>2, <2>2, LeavesTypes DEF Last
  <2>4. \A u \in Thread \ {t, w} : Same(u) BY <1>2, <2>2 DEF Same
  <2>5. mode'[w] = mode[w] /\ depth'[w] = depth[w] /\ call'[w] = call[w] BY <1>2, <2>1
  <2>6. mode[w] = "none" BY <2>1 DEF Inv, PlacesRight, PlaceRight, WaitPlaces
  <2>7. /\ PlaceRight(t)' /\ ~Writer(t)' /\ ~HasSlot(t)' /\ t \notin Readers'
        /\ t \notin WS' /\ t \notin WX' /\ t \notin Sleepers("shared")' /\ t \notin Sleepers("exclusive")'
    BY <1>2, <2>2, Gone
  <2>8. /\ w \notin Readers /\ w \notin Readers' /\ w \notin WS /\ w \notin WS' /\ w \in WX /\ w \notin WX'
        /\ Writer(w)' /\ w \notin Sleepers("shared")'
    BY <2>1, <2>2, <2>5, <2>6, Roles, RolesNext DEF RoleRight, WaitPlaces, CallPlaces
  <2>9. PlaceRight(w)'
    <3>1. PlaceRight(w) BY <2>1 DEF Inv, PlacesRight
    <3> QED BY <3>1, <2>1, <2>2, <2>5, <2>6 DEF PlaceRight, WaitPlaces, CallPlaces
  <2>10. ASSUME NEW u \in Thread \ {t, w}
         PROVE  /\ PlaceRight(u)' /\ (Writer(u)' <=> Writer(u)) /\ (u \in Readers' <=> u \in Readers)
                /\ (u \in WS' <=> u \in WS) /\ (u \in WX' <=> u \in WX) /\ Owes(u)' = Owes(u)
                /\ (u \in Sleepers("shared")' <=> u \in Sleepers("shared"))
    <3>1. Same(u) BY <2>4
    <3>2. PlaceRight(u) BY DEF Inv, PlacesRight
    <3>3. PlaceRight(u)' BY <3>1, <3>2, <1>3, <1>8 DEF PlaceRight, Same
    <3>4. (Writer(u)' <=> Writer(u)) /\ (u \in Readers' <=> u \in Readers)
      BY <3>1 DEF Writer, Readers, Same
    <3>5. (u \in WS' <=> u \in WS) /\ (u \in WX' <=> u \in WX)
          /\ (u \in Sleepers("shared")' <=> u \in Sleepers("shared"))
      BY <3>1, Roles, RolesNext DEF RoleRight, Same
    <3>6. Owes(u)' = Owes(u) BY <3>1 DEF Owes, Same
    <3> QED BY <3>3, <3>4, <3>5, <3>6
  <2>11. PlacesRight' BY <2>7, <2>9, <2>10 DEF PlacesRight
  <2>12. Reserved' = 0 BY <1>6, <1>8 DEF Reserved
  <2>13. WritersRight'
    <3>1. \A u \in Thread \ {w} : ~Writer(u)' BY <2>7, <2>10 DEF Last
    <3>2. WriterRight(w)'
      BY <2>2, <2>5, <2>6, <2>12, <1>8 DEF WriterRight, By
    <3> QED BY <2>1, <2>8, <3>1, <3>2, <1>8, OneWriter DEF By
  <2>14. Readers \subseteq Thread /\ Readers' \subseteq Thread /\ WS \subseteq Thread /\ WS' \subseteq Thread
         /\ WX \subseteq Thread /\ WX' \subseteq Thread
    BY DEF Readers, WS, WX, Waiting
  <2>15. Readers' = {} BY <2>7, <2>8, <2>10, <2>14 DEF Last
  <2>16. WS' = WS BY <1>2, <2>7, <2>8, <2>10, <2>14
  <2>17. Cardinality(WX') = ExclusiveWaiters'
    <3>1. WX \ {w} = WX' \ {w} BY <1>2, <2>7, <2>10, <2>14
    <3>2. Cardinality(WX) = Cardinality(WX') + 1 /\ Cardinality(WX') \in Nat
      BY <3>1, <2>8, Counted, Finite, FiniteNext
    <3> QED BY <3>2, <1>5
  <2>18. CountsAddUp'
    <3>1. Cardinality(WS') = SharedWaiters' + Units'
      BY <1>3, <1>4, <2>16 DEF Counts, Last
    <3>2. ExclusiveOwner'.Locked = 1 BY <1>8 DEF By
    <3>3. Counts' BY <3>1, <3>2, <1>3, <1>5, <2>12, <2>15, <2>17 DEF Counts
    <3> QED BY <3>3, CountsMeanNext
  <2>19. Keep(Thread \ {t})
    <3>1. ~HasSlot(w) /\ ~HasSlot(w)' BY <2>8 DEF HasSlot
    <3> QED BY <3>1, <2>10 DEF Keep, HasSlot
  <2>20. ExclusiveOwner' \in Entry BY <1>8, <2>1 DEF By, Entry
  <2> QED BY <2>3, <2>7, <2>11, <2>13, <2>18, <2>19, <2>20
<1>9. CASE \E w \in Sleepers("exclusive") :
             /\ ExclusiveOwner' = By(w) /\ pc' = [pc EXCEPT ![t] = "out", ![w] = "granted"]
             /\ UNCHANGED SyncEvent
  BY <1>5, <1>6, <1>8, <1>9
<1> QED BY <1>7, <1>9 DEF HandToWriter

LEMMA FreedEntry ==
  ASSUME NEW e \in Entry, e.Locked = 1
  PROVE  Freed(e) \in Entry /\ Freed(e).Locked = 0 /\ Freed(e).OwningThread = None
<1>1. PICK l : l = Less(e) OBVIOUS
<1>2. l = [OwningThread |-> e.OwningThread, Locked |-> 0] BY <1>1 DEF Less, Entry
<1>3. PICK f : f = [l EXCEPT !.OwningThread = None] OBVIOUS
<1>4. f = [OwningThread |-> None, Locked |-> 0] BY <1>2, <1>3
<1>5. Freed(e) = f BY <1>1, <1>3 DEF Freed
<1> QED BY <1>4, <1>5 DEF Entry

LEMMA FreedSlot ==
  ASSUME Inv, NEW t \in Thread, NEW i \in SlotsOf(t), Owners[i].Locked = 1,
         Owners' = [Owners EXCEPT ![i] = Freed(@)], Keep(Thread \ {t}), ~HasSlot(t)'
  PROVE  SlotsRight' /\ Owners' \in [0..TableSize -> Entry]
<1>1. i \in DOMAIN Owners /\ Owners[i].OwningThread = t
      /\ \A j \in DOMAIN Owners \ {i} : Owners[j].OwningThread # t
  BY TheSlot DEF Inv
<1>2. Owners \in [0..TableSize -> Entry] BY DEF Inv, TypeOK
<1>3. PICK e : e = Freed(Owners[i]) OBVIOUS
<1>4. e \in Entry /\ e.OwningThread = None
  BY <1>1, <1>2, <1>3, FreedEntry
<1>5. Owners' = [Owners EXCEPT ![i] = e] BY <1>3
<1>6. SlotsRight' BY <1>1, <1>4, <1>5, SlotSet DEF Inv
<1> QED BY <1>1, <1>2, <1>4, <1>5, <1>6

\* The exclusive holder has the lock once less, or for the last time.
LEMMA ReleaseExclusiveStep ==
  ASSUME Inv, NEW t \in Thread, NEW h, Leaves(t, h), ExclusiveOwner.OwningThread = t,
         ReleaseExclusive(t, "out")
  PROVE  Inv'
<1>1. ThreadType /\ LockType BY Types DEF Inv
<1>2. Writer(t)
  <2>1. t # None BY ThreadAssumption
  <2> QED BY <2>1 DEF Inv, WritersRight
<1>3. /\ HeldCount = 1 /\ Reserved = 0 /\ Units = 0 /\ Readers = {} /\ ExclusiveOwner.Locked # 0
      /\ \A u \in Thread \ {t} : ~Writer(u)
  BY <1>2, Excluded
<1>4. /\ h \in Nat /\ h >= 1
      /\ t \notin WS /\ t \notin WX /\ t \notin Sleepers("shared") /\ t \notin Sleepers("exclusive")
      /\ ExclusiveOwner = [OwningThread |-> t, Locked |-> h] /\ t \notin Readers
      /\ h > 1 => mode[t] = "exclusive"
      /\ depth'[t] = h - 1 /\ mode'[t] = IF h = 1 THEN "none" ELSE mode[t]
  BY <1>2, Holds
<1>5. ExclusiveOwner.Locked = h BY <1>4
<1>6. UNCHANGED <<Owners, TableSize>> BY DEF ReleaseExclusive
<1>7. ~HasSlot(t)
  BY <1>4 DEF HasSlot
<1>8. CASE h > 1
  <2>1. ExclusiveOwner' = [OwningThread |-> t, Locked |-> h - 1] /\ pc' = [pc EXCEPT ![t] = "out"]
        /\ UNCHANGED countVars
    BY <1>4, <1>5, <1>8 DEF ReleaseExclusive, Less
  <2>2. UNCHANGED <<SharedWaiters, ExclusiveWaiters, HeldCount, SharedSemaphore, SyncEvent>>
        /\ Units' = Units /\ Reserved' = Reserved
    BY <2>1 DEF countVars, Units, Reserved
  <2>3. ThreadType' /\ OthersSame(t) /\ PlacesRight' /\ pc'[t] = "out"
    BY <2>1, <2>2, LeavesAlone
  <2>4. mode'[t] = "exclusive" /\ depth'[t] = h - 1 /\ h - 1 \in Nat \ {0} BY <1>4, <1>8
  <2>5. RoleRight(t)' BY RolesNext
  <2>6. Writer(t)' /\ t \notin Readers' /\ t \notin WS' /\ t \notin WX'
        /\ t \notin Sleepers("shared")' /\ t \notin Sleepers("exclusive")'
    BY <2>3, <2>4, <2>5 DEF RoleRight, WaitPlaces
  <2>7. ExclusiveOwner'.Locked = h - 1 /\ ExclusiveOwner'.OwningThread = t BY <2>1
  <2>8. WritersRight'
    <3>1. \A u \in Thread \ {t} : ~Writer(u)' BY <2>3, <1>3, OneMoves
    <3>2. WriterRight(t)'
      BY <1>3, <2>1, <2>2, <2>3, <2>4, <2>7 DEF WriterRight
    <3> QED BY <3>1, <3>2, <2>6, <2>7, OneWriter
  <2>9. Readers' = Readers /\ WS' = WS /\ WX' = WX
    BY <1>4, <2>3, <2>6, OneMoves, Counted, Finite, FiniteNext
  <2>10. CountsAddUp'
    <3>1. Counts BY CountsMean DEF Inv
    <3>2. ExclusiveOwner'.Locked # 0 BY <2>4, <2>7
    <3>3. Counts' BY <3>1, <3>2, <1>3, <2>2, <2>9 DEF Counts
    <3> QED BY <3>3, CountsMeanNext
  <2>11. Keep(Thread)
    <3>1. ~HasSlot(t)' BY <2>6 DEF HasSlot
    <3> QED BY <3>1, <1>7, <2>3, KeepOthers DEF Keep
  <2>12. SlotsRight' BY <1>6, <2>11, SlotsKept DEF Inv
  <2>13. ExclusiveOwner' \in Entry BY <2>1, <2>4 DEF Entry
  <2>14. LockType' BY <1>1, <1>6, <2>2, <2>13 DEF LockType
  <2> QED BY <2>3, <2>8, <2>10, <2>12, <2>14, TypesNext DEF Inv
<1>9. CASE h = 1
  <2>1. Last(t) BY <1>3, <1>9 DEF Last
  <2>2. Freed(ExclusiveOwner) \in Entry /\ Freed(ExclusiveOwner).Locked = 0
        /\ Freed(ExclusiveOwner).OwningThread = None
    BY <1>1, <1>5, <1>9, FreedEntry DEF LockType
  <2>3. SharedSemaphore \in Nat \cup {None} /\ SharedWaiters \in Nat /\ ExclusiveWaiters \in Nat
        /\ HeldCount \in Nat
    BY <1>1 DEF LockType
  <2>4. CASE HeldCount = 1 /\ SharedWaiters = 0 /\ ExclusiveWaiters > 0 /\ HandToWriter(t, "out")
    <3>1. /\ ThreadType' /\ PlacesRight' /\ WritersRight' /\ CountsAddUp'
          /\ Keep(Thread \ {t}) /\ ~HasSlot(t)'
          /\ ExclusiveOwner' \in Entry /\ ExclusiveWaiters' \in Nat /\ SyncEvent' \in {0, 1, None}
      BY <2>1, <2>4, LastToWriter
    <3>2. Keep(Thread) BY <3>1, <1>7 DEF Keep
    <3>3. SlotsRight' BY <1>6, <3>2, SlotsKept DEF Inv
    <3>4. LockType' BY <1>1, <1>6, <2>4, <3>1 DEF LockType, HandToWriter
    <3> QED BY <3>1, <3>3, <3>4, TypesNext DEF Inv
  <2>5. CASE SharedWaiters > 0 /\ ExclusiveOwner' = Freed(ExclusiveOwner) /\ HandToReaders(t, "out")
    <3>1. Freely BY <2>2, <2>5 DEF Freely
    <3>2. /\ ThreadType' /\ PlacesRight' /\ WritersRight' /\ CountsAddUp'
          /\ Keep(Thread \ {t}) /\ ~HasSlot(t)' /\ SharedSemaphore' \in Nat
      BY <2>1, <2>5, <3>1, LastToReaders
    <3>3. Keep(Thread) BY <3>2, <1>7 DEF Keep
    <3>4. SlotsRight' BY <1>6, <3>3, SlotsKept DEF Inv
    <3>5. LockType' BY <1>1, <1>6, <2>5, <3>1, <3>2 DEF LockType, HandToReaders, Freely
    <3> QED BY <3>2, <3>4, <3>5, TypesNext DEF Inv
  <2>6. CASE /\ HeldCount > 1 \/ (SharedWaiters = 0 /\ ExclusiveWaiters = 0)
             /\ ExclusiveOwner' = Freed(ExclusiveOwner) /\ LetGo(t, "out")
    <3>1. Freely BY <2>2, <2>6 DEF Freely
    <3>2. /\ ThreadType' /\ PlacesRight' /\ WritersRight' /\ CountsAddUp'
          /\ Keep(Thread \ {t}) /\ ~HasSlot(t)' /\ HeldCount' \in Nat
      BY <2>1, <2>6, <3>1, <1>2, LetsGo DEF Last
    <3>3. Keep(Thread) BY <3>2, <1>7 DEF Keep
    <3>4. SlotsRight' BY <1>6, <3>3, SlotsKept DEF Inv
    <3>5. LockType' BY <1>1, <1>6, <2>6, <3>1, <3>2 DEF LockType, LetGo, Freely
    <3> QED BY <3>2, <3>4, <3>5, TypesNext DEF Inv
  <2> QED BY <1>5, <1>9, <2>4, <2>5, <2>6 DEF ReleaseExclusive
<1> QED BY <1>4, <1>8, <1>9

\* A reader has it once less, or leaves.
LEMMA ReleaseSharedStep ==
  ASSUME Inv, NEW t \in Thread, NEW h, Leaves(t, h), NEW i \in SlotsOf(t),
         ReleaseShared(t, i, "out")
  PROVE  Inv'
<1>1. ThreadType /\ LockType BY Types DEF Inv
<1>2. /\ i \in DOMAIN Owners /\ Owners[i].OwningThread = t /\ HasSlot(t) /\ Owners[i].Locked = Owes(t)
      /\ \A j \in DOMAIN Owners \ {i} : Owners[j].OwningThread # t
  BY TheSlot DEF Inv
<1>3. /\ h \in Nat /\ h >= 1
      /\ t \notin WS /\ t \notin WX
      /\ t \in Readers => Owes(t) = h /\ ~Writer(t) /\ (h > 1 => mode[t] = "shared")
      /\ depth'[t] = h - 1 /\ mode'[t] = IF h = 1 THEN "none" ELSE mode[t]
  BY Holds
<1>4. t \in Readers BY <1>2, <1>3 DEF HasSlot
<1>5. Owners[i].Locked = h /\ Owners[i] \in Entry BY <1>1, <1>2, <1>3, <1>4 DEF LockType
<1>6. ExclusiveOwner.Locked = 0 /\ Reserved = 0 /\ ExclusiveOwner.OwningThread = None
      /\ \A u \in Thread : ~Writer(u)
  BY <1>4, Excluded
<1>7. ExclusiveOwner \in Entry BY <1>1 DEF LockType
<1>8. UNCHANGED TableSize BY DEF ReleaseShared
<1>9. CASE h > 1
  <2>1. Owners' = [Owners EXCEPT ![i] = Less(@)] /\ pc' = [pc EXCEPT ![t] = "out"]
        /\ UNCHANGED <<ExclusiveOwner, countVars>>
    BY <1>5, <1>9 DEF ReleaseShared
  <2>2. UNCHANGED <<ExclusiveOwner, SharedWaiters, ExclusiveWaiters, HeldCount, SharedSemaphore, SyncEvent>>
        /\ Units' = Units /\ Reserved' = Reserved
    BY <2>1 DEF countVars, Units, Reserved
  <2>3. ThreadType' /\ OthersSame(t) /\ PlacesRight' /\ pc'[t] = "out"
    BY <2>1, <2>2, LeavesAlone
  <2>4. mode'[t] = "shared" /\ depth'[t] = h - 1 /\ h - 1 \in Nat BY <1>3, <1>4, <1>9
  <2>5. RoleRight(t)' BY RolesNext
  <2>6. ~Writer(t)' /\ t \in Readers' /\ t \notin WS' /\ t \notin WX'
        /\ t \notin Sleepers("shared")' /\ t \notin Sleepers("exclusive")'
    BY <2>3, <2>4, <2>5 DEF RoleRight, WaitPlaces
  <2>7. WritersRight'
    <3>1. \A u \in Thread : ~Writer(u)' BY <1>6, <2>3, <2>6, OneMoves
    <3> QED BY <3>1, <1>6, <2>2, NoWriter
  <2>8. Readers' = Readers /\ WS' = WS /\ WX' = WX
    BY <1>3, <1>4, <2>3, <2>6, OneMoves, Counted, Finite, FiniteNext
  <2>9. CountsAddUp'
    <3>1. Counts BY CountsMean DEF Inv
    <3>2. Sleepers("shared")' \subseteq Sleepers("shared")
      BY <2>3, <2>6, OneMoves
    <3>3. Counts' BY <3>1, <3>2, <1>6, <2>2, <2>8 DEF Counts
    <3> QED BY <3>3, CountsMeanNext
  <2>10. PICK e : e = Less(Owners[i]) OBVIOUS
  <2>11. e \in Entry /\ e.OwningThread = t /\ e.Locked = h - 1
    BY <1>2, <1>5, <2>4, <2>10 DEF Entry, Less
  <2>12. Owners' = [Owners EXCEPT ![i] = e] BY <2>1, <2>10
  <2>13. HasSlot(t)' /\ Owes(t)' = h - 1 BY <2>4, <2>6 DEF HasSlot, Owes
  <2>14. SlotsRight' BY <1>2, <2>3, <2>11, <2>12, <2>13, KeepOthers, SlotSet DEF Inv
  <2>15. LockType' BY <1>1, <1>2, <1>8, <2>2, <2>11, <2>12 DEF LockType
  <2> QED BY <2>3, <2>7, <2>9, <2>14, <2>15, TypesNext DEF Inv
<1>10. CASE h = 1
  <2>1. Owners' = [Owners EXCEPT ![i] = Freed(@)] BY <1>5, <1>10 DEF ReleaseShared
  <2>2. HeldCount = 1 => Last(t)
    <3> SUFFICES ASSUME HeldCount = 1 PROVE Last(t)
      OBVIOUS
    <3> DEFINE r == Cardinality(Readers)
    <3>1. r \in Nat /\ Units \in Nat BY Numbers DEF Inv
    <3>2. 1 = r + Units BY <1>6, CountsMean DEF Inv, Counts
    <3>3. r # 0 BY <1>4, Finite, Empty
    <3>4. r = 1 /\ Units = 0
      <4> HIDE DEF r
      <4> QED BY <3>1, <3>2, <3>3
    <3>5. Readers \subseteq {t} BY <3>4, <1>4, Finite, FS_Singleton
    <3> QED BY <3>4, <3>5, <1>6, <1>10 DEF Last
  <2>3. SharedSemaphore \in Nat \cup {None} /\ SharedWaiters \in Nat /\ ExclusiveWaiters \in Nat
        /\ HeldCount \in Nat
    BY <1>1 DEF LockType
  <2>4. CASE HeldCount = 1 /\ PrefersWriter /\ HandToWriter(t, "out")
    <3>1. /\ ThreadType' /\ PlacesRight' /\ WritersRight' /\ CountsAddUp'
          /\ Keep(Thread \ {t}) /\ ~HasSlot(t)'
          /\ ExclusiveOwner' \in Entry /\ ExclusiveWaiters' \in Nat /\ SyncEvent' \in {0, 1, None}
      BY <2>2, <2>4, LastToWriter DEF PrefersWriter
    <3>2. SlotsRight' /\ Owners' \in [0..TableSize -> Entry]
      BY <1>5, <1>10, <2>1, <3>1, FreedSlot
    <3>3. LockType' BY <1>1, <1>8, <2>4, <3>1, <3>2 DEF LockType, HandToWriter
    <3> QED BY <3>1, <3>2, <3>3, TypesNext DEF Inv
  <2>5. CASE HeldCount = 1 /\ SharedWaiters > 0 /\ ExclusiveOwner' = ExclusiveOwner /\ HandToReaders(t, "out")
    <3>1. Freely BY <1>6, <1>7, <2>5 DEF Freely
    <3>2. /\ ThreadType' /\ PlacesRight' /\ WritersRight' /\ CountsAddUp'
          /\ Keep(Thread \ {t}) /\ ~HasSlot(t)' /\ SharedSemaphore' \in Nat
      BY <2>2, <2>5, <3>1, LastToReaders
    <3>3. SlotsRight' /\ Owners' \in [0..TableSize -> Entry]
      BY <1>5, <1>10, <2>1, <3>2, FreedSlot
    <3>4. LockType' BY <1>1, <1>8, <2>5, <3>1, <3>2, <3>3 DEF LockType, HandToReaders, Freely
    <3> QED BY <3>2, <3>3, <3>4, TypesNext DEF Inv
  <2>6. CASE /\ HeldCount > 1 \/ (SharedWaiters = 0 /\ ExclusiveWaiters = 0)
             /\ ExclusiveOwner' = ExclusiveOwner /\ LetGo(t, "out")
    <3>1. Freely BY <1>6, <1>7, <2>6 DEF Freely
    <3>2. /\ ThreadType' /\ PlacesRight' /\ WritersRight' /\ CountsAddUp'
          /\ Keep(Thread \ {t}) /\ ~HasSlot(t)' /\ HeldCount' \in Nat
      BY <1>4, <1>10, <2>6, <3>1, LetsGo
    <3>3. SlotsRight' /\ Owners' \in [0..TableSize -> Entry]
      BY <1>5, <1>10, <2>1, <3>2, FreedSlot
    <3>4. LockType' BY <1>1, <1>8, <2>6, <3>1, <3>2, <3>3 DEF LockType, LetGo, Freely
    <3> QED BY <3>2, <3>3, <3>4, TypesNext DEF Inv
  <2> QED BY <1>5, <1>10, <2>4, <2>5, <2>6 DEF ReleaseShared
<1> QED BY <1>3, <1>9, <1>10

LEMMA ReleasedStep ==
  ASSUME Inv, NEW t \in Thread, NEW h, Leaves(t, h), Released(t, "out")
  PROVE  Inv'
BY ReleaseExclusiveStep, ReleaseSharedStep DEF Released

LEMMA ReleaseStep == ASSUME Inv, NEW t \in Thread, ExRwLockRelease(t) PROVE Inv'
<1>1. ThreadType BY Types DEF Inv
<1>2. Leaves(t, depth[t])
  BY <1>1 DEF Leaves, ExRwLockRelease, ThreadType
<1> QED BY <1>2, ReleasedStep DEF ExRwLockRelease

LEMMA ReturnStep == ASSUME Inv, NEW t \in Thread, Return(t) PROVE Inv'
<1>1. CASE Acquired(t) /\ UNCHANGED lockVars
  BY <1>1, ReturnAcquired DEF Return
<1>2. CASE Released(t, "out") /\ Over(t) /\ UNCHANGED <<oldsize, killed, userVars>>
  <2>1. ThreadType BY Types DEF Inv
  <2>2. pc[t] = "owner" BY DEF Return
  <2>3. mode[t] = "none" /\ depth[t] = 0 BY <2>2, AtOwner
  <2>4. mode' = [mode EXCEPT ![t] = "none"] /\ depth' = [depth EXCEPT ![t] = 1 - 1]
    BY <1>2, <2>1, <2>3 DEF userVars, ThreadType
  <2>5. call' \in [Thread -> Call] /\ \A u \in Thread \ {t} : call'[u] = call[u]
    BY <1>2, <2>1, CallTypes DEF Over, ThreadType
  <2>6. Leaves(t, 1) BY <1>2, <2>2, <2>4, <2>5 DEF Leaves
  <2> QED BY <1>2, <2>6, ReleasedStep
<1> QED BY <1>1, <1>2 DEF Return

-----------------------------------------------------------------------------
(* From the exclusive hold to a shared one.                                *)

LEMMA SlotTaken ==
  ASSUME TypeOK, SlotsRight, NEW t \in Thread, NEW i \in FreeSlots, NEW e \in Entry,
         Keep(Thread \ {t}), Owners' = [Owners EXCEPT ![i] = e], ~HasSlot(t), HasSlot(t)',
         e.OwningThread = t, e.Locked = Owes(t)'
  PROVE  SlotsRight'
<1>1. i \in DOMAIN Owners /\ Owners[i].OwningThread = None BY DEF FreeSlots, SlotsOf
<1>2. \A j \in DOMAIN Owners : Owners[j].OwningThread # t BY TheSlot
<1> QED BY <1>1, <1>2, SlotSet

LEMMA Demotes ==
  ASSUME Inv, NEW t \in Thread, pc[t] = "try", call[t].op = "demote", NEW i \in FreeSlots,
         Owners' = [Owners EXCEPT ![i] = [OwningThread |-> t, Locked |-> ExclusiveOwner.Locked]],
         ExclusiveOwner' = NoOne,
         IF SharedWaiters > 0
         THEN /\ HeldCount' = SharedWaiters + 1
              /\ SharedWaiters' = 0
              /\ ReleaseUnits(SharedWaiters, t, "out")
         ELSE /\ pc' = [pc EXCEPT ![t] = "out"]
              /\ UNCHANGED <<HeldCount, SharedWaiters, SharedSemaphore>>,
         mode' = [mode EXCEPT ![t] = "shared"], Over(t),
         UNCHANGED <<TableSize, ExclusiveWaiters, SyncEvent, oldsize, killed, depth>>
  PROVE  Inv'
<1> DEFINE S == Sleepers("shared")
           k == Cardinality(S)
<1>1. ThreadType /\ LockType BY Types DEF Inv
<1>2. PlaceRight(t) /\ WriterRight(t) /\ RoleRight(t)
  BY Roles DEF Inv, PlacesRight, WritersRight
<1>3. mode[t] = "exclusive" /\ Writer(t) /\ t \notin Readers /\ t \notin WS /\ t \notin WX
      /\ depth[t] \in Nat /\ depth[t] # 0
  BY <1>1, <1>2 DEF PlaceRight, CallPlaces, RoleRight, WaitPlaces, ThreadType
<1>4. ExclusiveOwner = [OwningThread |-> t, Locked |-> depth[t]] BY <1>2, <1>3 DEF WriterRight
<1>5. /\ HeldCount = 1 /\ Reserved = 0 /\ Units = 0 /\ Readers = {}
      /\ \A u \in Thread \ {t} : ~Writer(u)
  BY <1>3, Excluded
<1>6. Counts BY CountsMean DEF Inv
<1>7. SharedWaiters \in Nat /\ k \in Nat BY <1>1, Finite, FS_CardinalityType DEF LockType
<1>8. S \subseteq WS BY DEF Sleepers, WS, Waiting
<1>9. /\ HeldCount' = SharedWaiters + 1 /\ SharedWaiters' = 0
      /\ Units' \in Nat /\ Units' + k = SharedWaiters
      /\ SharedSemaphore # None => SharedSemaphore' # None
      /\ SharedSemaphore' \in Nat \cup {None}
      /\ pc' = [u \in Thread |-> IF u = t THEN "out" ELSE IF u \in S THEN "owner" ELSE pc[u]]
  <2>1. CASE SharedWaiters > 0
    <3>1. /\ SharedSemaphore' \in Nat /\ SharedSemaphore' + k = SharedWaiters
          /\ pc' = [u \in Thread |-> IF u = t THEN "out" ELSE IF u \in S THEN "owner" ELSE pc[u]]
      BY <2>1, <1>5, Woken
    <3>2. SharedSemaphore' # None /\ Units' = SharedSemaphore' BY <3>1, ThreadAssumption DEF Units
    <3> QED BY <2>1, <3>1, <3>2
  <2>2. CASE SharedWaiters = 0
    <3>1. Cardinality(WS) = 0 + 0 BY <2>2, <1>5, <1>6 DEF Counts
    <3>2. WS = {} BY <3>1, Finite, Empty
    <3>3. S = {} /\ k = 0 BY <3>2, <1>8, FS_EmptySet
    <3>4. pc' = [pc EXCEPT ![t] = "out"] /\ UNCHANGED <<HeldCount, SharedWaiters, SharedSemaphore>>
      BY <2>2
    <3>5. pc' = [u \in Thread |-> IF u = t THEN "out" ELSE IF u \in S THEN "owner" ELSE pc[u]]
      BY <3>3, <3>4, <1>1 DEF ThreadType
    <3>6. Units' = 0 BY <3>4, <1>5 DEF Units
    <3>7. HeldCount' = SharedWaiters + 1 /\ SharedWaiters' = 0 BY <1>5, <2>2, <3>4
    <3>8. Units' \in Nat /\ Units' + k = SharedWaiters
      <4> HIDE DEF k
      <4> QED BY <2>2, <3>3, <3>6
    <3>9. SharedSemaphore' \in Nat \cup {None} BY <1>1, <3>4 DEF LockType
    <3> QED BY <3>4, <3>5, <3>7, <3>8, <3>9
  <2> QED BY <1>7, <2>1, <2>2
<1>10. /\ mode'[t] = "shared" /\ depth' = depth /\ pc'[t] = "out"
       /\ \A u \in Thread \ {t} : mode'[u] = mode[u] /\ depth'[u] = depth[u] /\ call'[u] = call[u]
  BY <1>1, <1>9 DEF ThreadType, Over
<1>11. /\ Readers' \ {t} = (Readers \cup S) \ {t} /\ WS' = WS \ S /\ WX' = WX \ {t}
       /\ Sleepers("shared")' = {} /\ Sleepers("exclusive")' = Sleepers("exclusive") \ {t}
       /\ \A u \in Thread \ {t} : PlaceRight(u)' /\ (Writer(u)' <=> Writer(u))
       /\ Keep(Thread \ {t})
  BY <1>3, <1>9, <1>10, WokenSets
<1>12. t \in Readers' /\ ~Writer(t)' /\ HasSlot(t)' /\ Owes(t)' = depth[t]
  BY <1>10, RolesNext DEF RoleRight, HasSlot, Owes
<1>13. PlaceRight(t)' BY <1>3, <1>10 DEF PlaceRight, WaitPlaces, CallPlaces
<1>14. PlacesRight' BY <1>11, <1>13 DEF PlacesRight
<1>15. WritersRight'
  <2>1. \A u \in Thread : ~Writer(u)' BY <1>5, <1>11, <1>12
  <2> QED BY <2>1, NoWriter DEF NoOne
<1>16. ThreadType'
  <2>1. pc' \in [Thread -> Places] BY <1>1, <1>9 DEF ThreadType, Places
  <2> QED BY <1>1, <2>1, CallTypes DEF ThreadType, Over
<1>17. Reserved' = 0 BY <1>5 DEF Reserved
<1>18. t \notin S BY <1>3, <1>8
<1>19. Readers' = S \cup {t} BY <1>5, <1>11, <1>12
<1>20. Cardinality(Readers') = k + 1 BY <1>18, <1>19, Finite, FS_AddElement
<1>21. WX' = WX BY <1>3, <1>11
<1>22. CountsAddUp'
  <2> DEFINE s == Cardinality(WS)
             s1 == Cardinality(WS')
  <2>1. s \in Nat /\ s1 \in Nat BY Finite, FiniteNext, FS_CardinalityType
  <2>2. s = s1 + k
    <3>1. WS = WS' \cup S /\ WS' \cap S = {} BY <1>8, <1>11
    <3>2. Cardinality(WS' \cup S) = Cardinality(WS') + Cardinality(S) - Cardinality(WS' \cap S)
      BY Finite, FiniteNext, FS_Union
    <3>3. Cardinality(WS' \cap S) = 0 BY <3>1, FS_EmptySet
    <3>4. s = s1 + k - 0 BY <3>1, <3>2, <3>3
    <3> HIDE DEF k, s, s1
    <3> QED BY <3>4, <2>1, <1>7
  <2>3. s = SharedWaiters + 0 BY <1>5, <1>6 DEF Counts
  <2>4. s1 = SharedWaiters' + Units'
    <3> HIDE DEF k, s, s1
    <3> QED BY <2>1, <2>2, <2>3, <1>7, <1>9
  <2>5. HeldCount' = Cardinality(Readers') + Units' /\ HeldCount' # 0
    <3> HIDE DEF k
    <3> QED BY <1>7, <1>9, <1>20
  <2>6. Cardinality(WX') = ExclusiveWaiters' + Reserved' BY <1>5, <1>6, <1>17, <1>21 DEF Counts
  <2>7. ExclusiveOwner'.Locked = 0 BY DEF NoOne
  <2>8. Counts' BY <2>4, <2>5, <2>6, <2>7, <1>11, <1>17 DEF Counts
  <2> QED BY <2>8, CountsMeanNext
<1>23. PICK e : e = [OwningThread |-> t, Locked |-> ExclusiveOwner.Locked] OBVIOUS
<1>24. e \in Entry /\ e.OwningThread = t /\ e.Locked = depth[t]
  BY <1>3, <1>4, <1>23 DEF Entry
<1>25. i \in DOMAIN Owners /\ Owners[i].OwningThread = None BY DEF FreeSlots, SlotsOf
<1>26. Owners' = [Owners EXCEPT ![i] = e] BY <1>23
<1>27. SlotsRight'
  <2>1. ~HasSlot(t) BY <1>3 DEF HasSlot
  <2>2. e.Locked = Owes(t)' BY <1>12, <1>24
  <2>3. TypeOK /\ SlotsRight BY DEF Inv
  <2> QED BY <2>1, <2>2, <2>3, <1>11, <1>12, <1>24, <1>26, SlotTaken, Zenon
<1>28. LockType'
  <2>1. NoOne \in Entry BY DEF NoOne, Entry
  <2> QED BY <2>1, <1>1, <1>7, <1>9, <1>24, <1>25, <1>26 DEF LockType
<1> QED BY <1>14, <1>15, <1>16, <1>22, <1>27, <1>28, TypesNext DEF Inv

LEMMA DemoteStep == ASSUME Inv, NEW t \in Thread, ExRwLockDemoteToShared(t) PROVE Inv'
BY NoSlotStep, Demotes DEF ExRwLockDemoteToShared

-----------------------------------------------------------------------------
(* The theorems.                                                           *)

LEMMA Stutters == ASSUME Inv, UNCHANGED vars PROVE Inv'
<1> USE DEF vars, lockVars, userVars
<1>2. TypeOK' BY DEF Inv, TypeOK
<1>3. PlacesRight' BY DEF Inv, PlacesRight, PlaceRight
<1>4. \A u \in Thread : Writer(u)' <=> Writer(u) BY DEF Writer
<1>5. Units' = Units /\ Reserved' = Reserved BY DEF Units, Reserved
<1>6. WritersRight' BY <1>4, <1>5, WritersKept DEF Inv, TypeOK
<1>7. Readers' = Readers /\ WS' = WS /\ WX' = WX
      /\ Sleepers("shared")' = Sleepers("shared") /\ Sleepers("exclusive")' = Sleepers("exclusive")
  BY DEF Readers, WS, WX, Waiting, Sleepers
<1>8. CountsAddUp'
  <2>1. Counts BY CountsMean DEF Inv
  <2>2. Counts' BY <2>1, <1>5, <1>7 DEF Counts, By
  <2> QED BY <2>2, CountsMeanNext
<1>9. Keep(Thread) BY <1>7 DEF Keep, HasSlot, Owes
<1>10. SlotsRight' BY <1>9, SlotsKept DEF Inv
<1> QED BY <1>2, <1>3, <1>6, <1>8, <1>10 DEF Inv

LEMMA NextInv == Inv /\ [Next]_vars => Inv'
<1> SUFFICES ASSUME Inv, [Next]_vars PROVE Inv'
  OBVIOUS
<1>1. CASE UNCHANGED vars BY <1>1, Stutters
<1>2. ASSUME NEW t \in Thread, GoOn(t) PROVE Inv'
  BY <1>2, ExclusiveStep, SharedStep, DemoteStep, AllocateStep, GrowStep, WaitStep, WriteNameStep,
     ReturnStep DEF GoOn
<1> QED BY <1>1, <1>2, BeginStep, ReleaseStep, TimeoutStep, KillStep DEF Next

\* Everything the invariant says holds of every state.
THEOREM InvariantHolds == Spec => []Inv
<1>1. Init => Inv BY InitInv
<1>2. Inv /\ [Next]_vars => Inv' BY NextInv
<1> QED BY <1>1, <1>2, PTL DEF Spec

\* The fields of the lock and the places of threads keep their types.
THEOREM TypeCorrect == Spec => []TypeOK
<1>1. Inv => TypeOK BY DEF Inv
<1> QED BY <1>1, InvariantHolds, PTL

\* The counts of ExRwLock.df add up whatever the number of threads, however
\* the hand-overs, kills and demotions fall between the waits.
THEOREM CountsAlwaysAddUp == Spec => []CountsAddUp
<1>1. Inv => CountsAddUp BY DEF Inv
<1> QED BY <1>1, InvariantHolds, PTL

\* Each reader, and each thread that waits to be one, has its one slot.
THEOREM SlotsStayExact == Spec => []SlotsExact
<1>1. ASSUME Inv PROVE SlotsExact
  <2> SUFFICES ASSUME NEW t \in Thread
               PROVE  /\ Cardinality(SlotsOf(t)) = IF t \in Readers \cup Waiting("shared") THEN 1 ELSE 0
                      /\ mode[t] = "shared" => \A i \in SlotsOf(t) : Owners[i].Locked = depth[t]
                      /\ mode[t] = "exclusive" =>
                           ExclusiveOwner = [OwningThread |-> t, Locked |-> depth[t]]
    BY DEF SlotsExact
  <2>1. mode[t] = "exclusive" => ExclusiveOwner = [OwningThread |-> t, Locked |-> depth[t]]
    BY <1>1 DEF Inv, WritersRight, WriterRight
  <2>2. mode[t] = "shared" => \A i \in SlotsOf(t) : Owners[i].Locked = depth[t]
    BY <1>1, TheSlot DEF Inv, Owes
  <2>3. HasSlot(t) <=> t \in Readers \cup Waiting("shared") BY DEF HasSlot, WS
  <2>4. CASE HasSlot(t)
    <3>1. PICK i : i \in SlotsOf(t) BY <1>1, <2>4, TheSlot DEF Inv
    <3>2. \A j \in SlotsOf(t) : j = i BY <1>1, <3>1, TheSlot DEF Inv, SlotsOf
    <3>3. SlotsOf(t) = {i} BY <3>1, <3>2
    <3>4. Cardinality(SlotsOf(t)) = 1 BY <3>3, FS_Singleton
    <3> QED BY <2>1, <2>2, <2>3, <2>4, <3>4
  <2>5. CASE ~HasSlot(t)
    <3>1. SlotsOf(t) = {} BY <1>1, <2>5, TheSlot DEF Inv
    <3>2. Cardinality(SlotsOf(t)) = 0 BY <3>1, FS_EmptySet
    <3> QED BY <2>1, <2>2, <2>3, <2>5, <3>2
  <2> QED BY <2>4, <2>5
<1> QED BY <1>1, InvariantHolds, PTL

-----------------------------------------------------------------------------
(* The lock implements ReadersWriter.                                      *)

LEMMA AcquiredMaps ==
  ASSUME Inv, NEW t \in Thread, Acquired(t),
         \/ mode[t] # "none"
         \/ call[t].op = "exclusive" /\ \A u \in Thread : mode[u] = "none"
         \/ call[t].op = "shared" /\ mode[t] = "none" /\ \A u \in Thread : mode[u] # "exclusive"
  PROVE  Abstract!Next
<1>1. ThreadType BY Types DEF Inv
<1>2. depth' = [depth EXCEPT ![t] = depth[t] + 1]
      /\ mode' = (IF mode[t] = "none" THEN [mode EXCEPT ![t] = call[t].op] ELSE mode)
  BY <1>1 DEF Acquired, ThreadType
<1>3. CASE mode[t] # "none"
  <2>1. Abstract!TakeAgain(t) BY <1>2, <1>3 DEF Abstract!TakeAgain
  <2> QED BY <2>1 DEF Abstract!Next
<1>4. CASE mode[t] = "none"
  <2>1. depth[t] = 0 BY <1>4 DEF Inv, PlacesRight, PlaceRight
  <2>2. depth' = [depth EXCEPT ![t] = 1] BY <1>2, <2>1
  <2>3. CASE call[t].op = "exclusive" /\ \A u \in Thread : mode[u] = "none"
    <3>1. Abstract!Take(t, "exclusive") BY <1>2, <1>4, <2>2, <2>3 DEF Abstract!Take
    <3> QED BY <3>1 DEF Abstract!Next
  <2>4. CASE call[t].op = "shared" /\ \A u \in Thread : mode[u] # "exclusive"
    <3>1. Abstract!Take(t, "shared") BY <1>1, <1>2, <1>4, <2>2, <2>4 DEF Abstract!Take, ThreadType
    <3> QED BY <3>1 DEF Abstract!Next
  <2> QED BY <1>4, <2>3, <2>4
<1> QED BY <1>3, <1>4

LEMMA NoModes ==
  ASSUME Inv
  PROVE  /\ Readers = {} => \A u \in Thread : mode[u] # "shared"
         /\ \A u \in Thread : ~Writer(u) => mode[u] # "exclusive"
         /\ \A u \in Thread : mode[u] \in {"none", "shared", "exclusive"}
BY DEF Readers, Writer, Inv, TypeOK

LEMMA ExclusiveMaps ==
  ASSUME Inv, NEW t \in Thread, ExRwLockAcquireExclusive(t)
  PROVE  Abstract!Next \/ UNCHANGED userVars
<1>1. CASE HeldCount = 0 /\ Acquired(t)
  <2>1. Readers = {} /\ \A u \in Thread : ~Writer(u) BY <1>1, Unheld, Excluded
  <2>2. \A u \in Thread : mode[u] = "none" BY <2>1, NoModes
  <2> QED BY <1>1, <2>2, AcquiredMaps DEF ExRwLockAcquireExclusive
<1>2. CASE Mine(t) /\ TakeAgain(t)
  <2>1. Writer(t)
    <3>1. ExclusiveOwner.OwningThread = t /\ t # None BY <1>2, ThreadAssumption DEF Mine
    <3> QED BY <3>1 DEF Inv, WritersRight
  <2>2. mode[t] # "none" BY <2>1, Roles DEF RoleRight, CallPlaces, ExRwLockAcquireExclusive
  <2> QED BY <1>2, <2>2, AcquiredMaps DEF TakeAgain
<1> QED BY <1>1, <1>2 DEF ExRwLockAcquireExclusive, Refused, Goto

LEMMA SharedMaps ==
  ASSUME Inv, NEW t \in Thread, ExRwLockAcquireShared(t)
  PROVE  Abstract!Next \/ UNCHANGED userVars
<1>1. pc[t] = "try" /\ call[t].op = "shared" BY DEF ExRwLockAcquireShared
<1>2. ASSUME NEW i, Share(t, i), ExclusiveOwner.Locked = 0 PROVE Abstract!Next
  <2>1. \A u \in Thread : mode[u] # "exclusive" BY <1>2, Excluded, NoModes
  <2> QED BY <1>1, <1>2, <2>1, AcquiredMaps DEF Share
<1>3. CASE Mine(t) /\ TakeAgain(t)
  <2>1. Writer(t)
    <3>1. ExclusiveOwner.OwningThread = t /\ t # None BY <1>3, ThreadAssumption DEF Mine
    <3> QED BY <3>1 DEF Inv, WritersRight
  <2>2. mode[t] # "none" BY <1>1, <2>1, Roles DEF RoleRight, CallPlaces
  <2> QED BY <1>3, <2>2, AcquiredMaps DEF TakeAgain
<1>4. ASSUME NEW i \in SlotsOf(t), ShareAgain(t, i) PROVE Abstract!Next
  <2>1. t \in Readers \cup WS BY <1>4, TheSlot DEF Inv, HasSlot
  <2>2. mode[t] # "none" BY <1>1, <2>1, Roles DEF RoleRight, CallPlaces, WaitPlaces
  <2> QED BY <1>4, <2>2, AcquiredMaps DEF ShareAgain
<1>5. ASSUME NEW i, WaitShared(t, i) PROVE UNCHANGED userVars
  BY <1>5 DEF WaitShared, Refused, Goto
<1>6. NoSlot(t) => UNCHANGED userVars BY DEF NoSlot
<1>7. Refused(t) => UNCHANGED userVars BY DEF Refused
<1>8. CASE HeldCount = 0
  BY <1>2, <1>8, Unheld DEF ExRwLockAcquireShared
<1>9. CASE HeldCount # 0 /\ ExclusiveOwner.Locked # 0
  BY <1>3, <1>5, <1>6, <1>7, <1>9 DEF ExRwLockAcquireShared
<1>10. CASE HeldCount # 0 /\ ExclusiveOwner.Locked = 0
  BY <1>2, <1>4, <1>5, <1>6, <1>7, <1>10, Zenon DEF ExRwLockAcquireShared, Mine
<1> QED BY <1>8, <1>9, <1>10

LEMMA ReturnMaps ==
  ASSUME Inv, NEW t \in Thread, Return(t)
  PROVE  Abstract!Next \/ UNCHANGED userVars
<1>1. CASE Acquired(t)
  <2>1. pc[t] = "owner" BY DEF Return
  <2>2. mode[t] = "none" /\ call[t].op \in {"exclusive", "shared"}
        /\ (call[t].op = "exclusive" => Writer(t)) /\ (call[t].op = "shared" => t \in Readers)
    BY <2>1, AtOwner
  <2>3. CASE call[t].op = "exclusive"
    <3>1. Readers = {} /\ \A u \in Thread \ {t} : ~Writer(u) BY <2>2, <2>3, Excluded
    <3>2. \A u \in Thread : mode[u] = "none" BY <2>2, <3>1, NoModes
    <3> QED BY <1>1, <2>3, <3>2, AcquiredMaps
  <2>4. CASE call[t].op = "shared"
    <3>1. \A u \in Thread : ~Writer(u) BY <2>2, <2>4, Excluded
    <3>2. \A u \in Thread : mode[u] # "exclusive" BY <3>1, NoModes
    <3> QED BY <1>1, <2>2, <2>4, <3>2, AcquiredMaps
  <2> QED BY <2>2, <2>3, <2>4
<1> QED BY <1>1 DEF Return

LEMMA ReleaseMaps == ASSUME Inv, NEW t \in Thread, ExRwLockRelease(t) PROVE Abstract!Next
<1>1. mode[t] # "none" BY DEF ExRwLockRelease, Inv, TypeOK, PlacesRight, PlaceRight
<1>2. Abstract!Drop(t) BY <1>1 DEF Abstract!Drop, ExRwLockRelease
<1> QED BY <1>2 DEF Abstract!Next

LEMMA DemoteMaps ==
  ASSUME Inv, NEW t \in Thread, ExRwLockDemoteToShared(t)
  PROVE  Abstract!Next \/ UNCHANGED userVars
<1>1. CASE NoSlot(t) BY <1>1 DEF NoSlot
<1>2. CASE mode' = [mode EXCEPT ![t] = "shared"] /\ UNCHANGED depth
  <2>1. mode[t] = "exclusive"
    BY DEF ExRwLockDemoteToShared, Inv, PlacesRight, PlaceRight, CallPlaces
  <2>2. Abstract!Demote(t) BY <1>2, <2>1 DEF Abstract!Demote
  <2> QED BY <2>2 DEF Abstract!Next
<1> QED BY <1>1, <1>2 DEF ExRwLockDemoteToShared

\* Whoever has the lock by the results of its calls has it as an abstract
\* lock would give it: alone, or with other readers, as often as it asked.
THEOREM Refinement == Spec => ImplementsReadersWriter
<1>1. Init => Abstract!Init
  BY DEF Init, Abstract!Init
<1>2. ASSUME Inv, [Next]_vars PROVE [Abstract!Next]_(Abstract!vars)
  <2>1. UNCHANGED userVars => UNCHANGED Abstract!vars BY DEF userVars, Abstract!vars
  <2>2. UNCHANGED vars => UNCHANGED userVars BY DEF vars
  <2>3. ASSUME NEW t \in Thread, GoOn(t) PROVE Abstract!Next \/ UNCHANGED userVars
    <3>1. Allocate(t) \/ Grow(t) \/ Wait(t) \/ WriteName(t) => UNCHANGED userVars
      BY DEF Allocate, Grow, Wait, WriteName, Goto
    <3> QED BY <1>2, <2>3, <3>1, ExclusiveMaps, SharedMaps, ReturnMaps, DemoteMaps DEF GoOn
  <2>4. ASSUME NEW t \in Thread, NEW c \in Calls[t], Begin(t, c) PROVE UNCHANGED userVars
    BY <2>4 DEF Begin
  <2>5. ASSUME NEW t \in Thread, Timeout(t) \/ Kill(t) PROVE UNCHANGED userVars
    BY <2>5 DEF Timeout, Kill, Goto
  <2> QED BY <1>2, <2>1, <2>2, <2>3, <2>4, <2>5, ReleaseMaps DEF Next
<1> QED BY <1>1, <1>2, InvariantHolds, PTL DEF Spec, ImplementsReadersWriter, Abstract!Spec
=============================================================================
