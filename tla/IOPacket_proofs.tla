-------------------------- MODULE IOPacket_proofs --------------------------
(***************************************************************************)
(* What holds of the packets of a thread whatever it asks for, however     *)
(* much memory there is and however its files are split: every packet is   *)
(* in one place (HeldOnce), counts its parts (CountsParts), is somebody's  *)
(* to free (NothingLost), and its sender is told of it once (ToldOnce).    *)
(*                                                                         *)
(* Two things are assumed, and both are needed: no page-in comes between   *)
(* the read and the write of a count (Undisturbed), and nobody writes in   *)
(* front of the first FAT (NoFATs).  MCFATWrites shows what such a write   *)
(* does.  A page-in sends what is deferred: a fragment ends meanwhile, and *)
(* the count that is written then knows nothing of it.                     *)
(***************************************************************************)
EXTENDS IOPacket, FiniteSetTheorems, TLAPS

-----------------------------------------------------------------------------
(* Sequences, as the lists of packets use them.                            *)

LEMMA EmptyList == Range(<<>>) = {} /\ IsInjective(<<>>) /\ \A S : <<>> \in Seq(S)
BY DEF Range, IsInjective

\* Taking the first.
LEMMA HeadOff ==
  ASSUME NEW S, NEW s \in Seq(S), s # <<>>
  PROVE  /\ Head(s) \in S /\ Tail(s) \in Seq(S)
         /\ Range(s) = {Head(s)} \cup Range(Tail(s))
         /\ IsInjective(s) => IsInjective(Tail(s)) /\ Head(s) \notin Range(Tail(s))
<1> DEFINE n == Len(s)
<1>1. n \in Nat /\ n > 0 /\ DOMAIN s = 1..n /\ \A i \in 1..n : s[i] \in S
  OBVIOUS
<1>2. Tail(s) \in Seq(S) /\ Len(Tail(s)) = n - 1 /\ DOMAIN Tail(s) = 1..(n - 1)
  OBVIOUS
<1>3. \A i \in 1..(n - 1) : Tail(s)[i] = s[i + 1]
  OBVIOUS
<1>4. Head(s) = s[1]
  OBVIOUS
<1> HIDE DEF n
<1>5. ASSUME NEW x \in Range(s) PROVE x \in {Head(s)} \cup Range(Tail(s))
  <2>1. PICK i \in 1..n : x = s[i]
    BY <1>1 DEF Range
  <2>2. CASE i = 1
    BY <2>1, <2>2, <1>4
  <2>3. CASE i # 1
    <3>1. i - 1 \in 1..(n - 1) /\ Tail(s)[i - 1] = s[i]
      BY <2>3, <1>1, <1>3
    <3>2. QED BY <3>1, <2>1, <1>2 DEF Range
  <2>4. QED BY <2>2, <2>3
<1>6. ASSUME NEW x \in Range(Tail(s)) PROVE x \in Range(s)
  <2>1. PICK i \in 1..(n - 1) : x = Tail(s)[i]
    BY <1>2 DEF Range
  <2>2. i + 1 \in 1..n /\ x = s[i + 1]
    BY <2>1, <1>1, <1>3
  <2>3. QED BY <2>2, <1>1 DEF Range
<1>7. Head(s) \in Range(s)
  <2>1. 1 \in 1..n
    BY <1>1
  <2>2. QED BY <2>1, <1>1, <1>4 DEF Range
<1>8. ASSUME IsInjective(s) PROVE IsInjective(Tail(s)) /\ Head(s) \notin Range(Tail(s))
  <2>1. \A i, j \in 1..n : s[i] = s[j] => i = j
    BY <1>8, <1>1 DEF IsInjective
  <2>2. ASSUME NEW i \in 1..(n - 1), NEW j \in 1..(n - 1), Tail(s)[i] = Tail(s)[j] PROVE i = j
    <3>1. i + 1 \in 1..n /\ j + 1 \in 1..n /\ s[i + 1] = s[j + 1]
      BY <2>2, <1>1, <1>3
    <3>2. i + 1 = j + 1
      BY <3>1, <2>1
    <3>3. QED BY <3>2
  <2>3. IsInjective(Tail(s))
    BY <2>2, <1>2 DEF IsInjective
  <2>4. ASSUME Head(s) \in Range(Tail(s)) PROVE FALSE
    <3>1. PICK i \in 1..(n - 1) : s[1] = Tail(s)[i]
      BY <2>4, <1>2, <1>4 DEF Range
    <3>2. i + 1 \in 1..n /\ 1 \in 1..n /\ s[1] = s[i + 1]
      BY <3>1, <1>1, <1>3
    <3>3. 1 = i + 1
      BY <3>2, <2>1
    <3>4. QED BY <3>3
  <2>5. QED BY <2>3, <2>4
<1>9. QED BY <1>1, <1>2, <1>4, <1>5, <1>6, <1>7, <1>8

\* Appending one.
LEMMA Appended ==
  ASSUME NEW S, NEW s \in Seq(S), NEW e \in S
  PROVE  /\ Append(s, e) \in Seq(S) /\ Append(s, e) # <<>>
         /\ Range(Append(s, e)) = Range(s) \cup {e}
         /\ IsInjective(s) /\ e \notin Range(s) => IsInjective(Append(s, e))
<1> DEFINE n == Len(s)
<1> DEFINE t == Append(s, e)
<1>1. n \in Nat /\ DOMAIN s = 1..n
  OBVIOUS
<1>2. t \in Seq(S) /\ Len(t) = n + 1 /\ DOMAIN t = 1..(n + 1)
  OBVIOUS
<1>11. Len(<<>>) = 0 /\ n + 1 # 0
  BY <1>1
<1>3. \A i \in 1..n : t[i] = s[i]
  OBVIOUS
<1>4. t[n + 1] = e
  OBVIOUS
<1> HIDE DEF n, t
<1>5. ASSUME NEW x \in Range(t) PROVE x \in Range(s) \cup {e}
  <2>1. PICK i \in 1..(n + 1) : x = t[i]
    BY <1>2 DEF Range
  <2>2. CASE i = n + 1
    BY <2>1, <2>2, <1>4
  <2>3. CASE i # n + 1
    <3>1. i \in 1..n
      BY <2>3, <1>1
    <3>2. QED BY <3>1, <2>1, <1>1, <1>3 DEF Range
  <2>4. QED BY <2>2, <2>3
<1>6. ASSUME NEW x \in Range(s) PROVE x \in Range(t)
  <2>1. PICK i \in 1..n : x = s[i]
    BY <1>1 DEF Range
  <2>2. i \in 1..(n + 1) /\ x = t[i]
    BY <2>1, <1>1, <1>3
  <2>3. QED BY <2>2, <1>2 DEF Range
<1>7. e \in Range(t)
  <2>1. n + 1 \in 1..(n + 1)
    BY <1>1
  <2>2. QED BY <2>1, <1>2, <1>4 DEF Range
<1>8. ASSUME IsInjective(s), e \notin Range(s) PROVE IsInjective(t)
  <2>1. \A i, j \in 1..n : s[i] = s[j] => i = j
    BY <1>8, <1>1 DEF IsInjective
  <2>2. \A i \in 1..n : s[i] # e
    BY <1>8, <1>1 DEF Range
  <2>3. ASSUME NEW i \in 1..(n + 1), NEW j \in 1..(n + 1), t[i] = t[j] PROVE i = j
    <3>1. \A k \in 1..(n + 1) : k = n + 1 \/ k \in 1..n
      BY <1>1
    <3>2. QED BY <3>1, <2>1, <2>2, <2>3, <1>3, <1>4
  <2>4. QED BY <2>3, <1>2 DEF IsInjective
<1>9. Range(t) = Range(s) \cup {e}
  BY <1>5, <1>6, <1>7
<1>10. t # <<>>
  BY <1>2, <1>11
<1> QED BY <1>2, <1>8, <1>9, <1>10 DEF t

\* One list behind another.
LEMMA Joined ==
  ASSUME NEW S, NEW s \in Seq(S), NEW t \in Seq(S)
  PROVE  /\ s \o t \in Seq(S)
         /\ Range(s \o t) = Range(s) \cup Range(t)
         /\ IsInjective(s) /\ IsInjective(t) /\ Range(s) \cap Range(t) = {} => IsInjective(s \o t)
<1> DEFINE n == Len(s)
<1> DEFINE m == Len(t)
<1> DEFINE u == s \o t
<1>1. n \in Nat /\ DOMAIN s = 1..n /\ m \in Nat /\ DOMAIN t = 1..m
  OBVIOUS
<1>2. u \in Seq(S) /\ Len(u) = n + m /\ DOMAIN u = 1..(n + m)
  OBVIOUS
<1>3. \A i \in 1..n : u[i] = s[i]
  OBVIOUS
<1>4. \A i \in (n + 1)..(n + m) : u[i] = t[i - n]
  OBVIOUS
<1> HIDE DEF n, m, u
<1>5. ASSUME NEW x \in Range(u) PROVE x \in Range(s) \cup Range(t)
  <2>1. PICK i \in 1..(n + m) : x = u[i]
    BY <1>2 DEF Range
  <2>2. CASE i \in 1..n
    BY <2>1, <2>2, <1>1, <1>3 DEF Range
  <2>3. CASE i \notin 1..n
    <3>1. i \in (n + 1)..(n + m) /\ i - n \in 1..m
      BY <2>3, <1>1
    <3>2. QED BY <3>1, <2>1, <1>1, <1>4 DEF Range
  <2>4. QED BY <2>2, <2>3
<1>6. ASSUME NEW x \in Range(s) PROVE x \in Range(u)
  <2>1. PICK i \in 1..n : x = s[i]
    BY <1>1 DEF Range
  <2>2. i \in 1..(n + m) /\ x = u[i]
    BY <2>1, <1>1, <1>3
  <2>3. QED BY <2>2, <1>2 DEF Range
<1>7. ASSUME NEW x \in Range(t) PROVE x \in Range(u)
  <2>1. PICK i \in 1..m : x = t[i]
    BY <1>1 DEF Range
  <2>2. i + n \in (n + 1)..(n + m) /\ i + n \in 1..(n + m) /\ (i + n) - n = i
    BY <1>1
  <2>3. x = u[i + n]
    BY <2>1, <2>2, <1>4
  <2>4. QED BY <2>2, <2>3, <1>2 DEF Range
<1>8. ASSUME IsInjective(s), IsInjective(t), Range(s) \cap Range(t) = {} PROVE IsInjective(u)
  <2>1. \A i, j \in 1..n : s[i] = s[j] => i = j
    BY <1>8, <1>1 DEF IsInjective
  <2>2. \A i, j \in 1..m : t[i] = t[j] => i = j
    BY <1>8, <1>1 DEF IsInjective
  <2>3. \A i \in 1..n, j \in 1..m : s[i] # t[j]
    BY <1>8, <1>1 DEF Range
  <2>4. \A k \in 1..(n + m) : \/ k \in 1..n /\ u[k] = s[k]
                              \/ k - n \in 1..m /\ u[k] = t[k - n]
    BY <1>1, <1>3, <1>4
  <2>5. ASSUME NEW i \in 1..(n + m), NEW j \in 1..(n + m), u[i] = u[j] PROVE i = j
    BY <2>1, <2>2, <2>3, <2>4, <2>5, <1>1
  <2>6. QED BY <2>5, <1>2 DEF IsInjective
<1>9. Range(u) = Range(s) \cup Range(t)
  BY <1>5, <1>6, <1>7
<1>10. QED BY <1>2, <1>8, <1>9 DEF u

-----------------------------------------------------------------------------
(* The inductive invariant.                                                *)

PCs == {"idle", "dispatch", "associate", "bump", "next", "entered", "wait", "cancel", "drain",
        "routine", "rundown", "poll", "gone"}
Holding   == {"dispatch", "associate", "bump"}
Splitting == {"associate", "bump"}
Done      == {"idle", "rundown", "poll", "gone"}

Live(p)  == packet[p].state = "live"
Whole(p) == packet[p].type = "userasync" \/ packet[p].event # None

Carried(l) == IF frame[l].pc \in Holding THEN {frame[l].iop} ELSE {}
HandsOf(l) == Carried(l) \cup Range(frame[l].rest) \cup Range(frame[l].frags)
OnWay == queue \cup Range(deferred) \cup HandsOf("thread") \cup HandsOf("apc")

PacketRecord ==
  [state : {"free", "live"}, type : {"normal", "userasync"}, parent : Packet \cup {None}, IOCount : Int,
   status : Statuses, flags : SUBSET {"FREEIOP", "DOCOMPLT", "COMPLETE"},
   at : Targets \cup Devices, event : Level \cup {None}, routine : BOOLEAN, request : Request0]
FrameRecord ==
  [pc : PCs, how : {"sync", "async"}, own : Packet \cup {None}, iop : Packet \cup {None},
   rest : Seq(Packet), frags : Seq(Packet), master : BOOLEAN, ok : Statuses, count : Int]

\* Types.
Typed ==
  /\ packet \in [Packet -> PacketRecord]
  /\ frame \in [Level -> FrameRecord]
  /\ queue \subseteq Packet /\ deferred \in Seq(Packet)
  /\ iolist \subseteq Packet /\ apcs \subseteq Packet /\ userapcs \subseteq Packet
  /\ finishing \in Packet \cup {None}
  /\ signaled \in [Level -> BOOLEAN]
  /\ made \in 0..MaxRequests
  /\ told \in [1..MaxRequests -> Seq(Statuses)]
  /\ failed \subseteq Request0

\* No packet is in two hands: HeldOnce, list by list.
Apart ==
  /\ IsInjective(deferred)
  /\ queue \cap Range(deferred) = {}
  /\ HandsOf("thread") \cap HandsOf("apc") = {}
  /\ \A l \in Level :
       /\ IsInjective(frame[l].rest) /\ IsInjective(frame[l].frags)
       /\ Carried(l) \cap Range(frame[l].rest) = {}
       /\ Carried(l) \cap Range(frame[l].frags) = {}
       /\ Range(frame[l].rest) \cap Range(frame[l].frags) = {}
       /\ HandsOf(l) \cap (queue \cup Range(deferred)) = {}

\* In IOPacketEnqueue, or in what waits for it.
Active(l) == frame[l].pc \notin Done \cup {"routine"}

\* What the call of a level has left to do where it stands.
FrameRight(l) ==
  /\ frame[l].pc \notin Holding \cup {"next"} => frame[l].rest = <<>>
  /\ frame[l].pc \notin Splitting => frame[l].frags = <<>>
  /\ frame[l].pc \in Holding => frame[l].iop \in Packet
  /\ frame[l].pc \in Holding /\ frame[l].master => frame[l].iop = frame[l].own
  /\ frame[l].pc \in Splitting => frame[l].master
  /\ frame[l].pc = "bump" => frame[l].frags # <<>>
  /\ frame[l].pc \in {"entered", "wait", "cancel", "drain"} => ~frame[l].master
  /\ frame[l].pc \in {"wait", "cancel", "drain"} => frame[l].how = "sync"

\* The two levels: an APC runs while it has a packet to finish, and sends none
\* of its own into a thread that splits (Undisturbed).
LevelsRight ==
  /\ \A l \in Level : FrameRight(l)
  /\ frame["thread"].pc # "routine"
  /\ frame["apc"].how = "sync"
  /\ frame["apc"].pc \notin {"cancel", "drain", "rundown", "poll", "gone"}
  /\ finishing = None <=> frame["apc"].pc = "idle"
  /\ frame["thread"].pc \in Splitting => frame["apc"].pc \in {"idle", "routine"}

\* Masters carried by frames are whole, all else in hands are fragments.
PlaceRight(l) ==
  /\ frame[l].pc \in Holding => (Whole(frame[l].iop) <=> frame[l].master)
  /\ frame[l].pc \in Holding /\ ~frame[l].master => packet[frame[l].iop].parent # None
  /\ \A p \in Range(frame[l].rest) : ~Whole(p) /\ packet[p].parent # None
  /\ \A p \in Range(frame[l].frags) : ~Whole(p) /\ packet[p].parent = None
                                      /\ packet[p].request = packet[frame[l].iop].request
PlacesRight ==
  /\ \A l \in Level : PlaceRight(l)
  /\ \A p \in Range(deferred) : ~Whole(p) /\ packet[p].parent # None
  /\ \A p \in queue : ~Whole(p) => packet[p].parent # None
  /\ \A p \in OnWay : Live(p) /\ "COMPLETE" \notin packet[p].flags

\* A packet by itself, and a fragment next to its master.
PacketRight(p) ==
  /\ ~Live(p) => packet[p] = Free
  /\ packet[p].at # "fats"
  /\ Live(p) /\ Whole(p) =>
       /\ packet[p].parent = None
       /\ "COMPLETE" \in packet[p].flags <=> packet[p].IOCount = 0
       /\ packet[p].type = "userasync" =>
            packet[p].event = None /\ ("FREEIOP" \in packet[p].flags <=> ~packet[p].routine)
       /\ packet[p].type = "normal" => "FREEIOP" \notin packet[p].flags
       /\ packet[p].request # 0 /\ packet[p].request \in failed => packet[p].status = "error"
       /\ packet[p].request = 0 <=> packet[p].event = "apc"
       /\ packet[p].request <= made
  /\ Live(p) /\ ~Whole(p) =>
       /\ p \in OnWay
       /\ packet[p].IOCount = 1
       /\ "FREEIOP" \in packet[p].flags /\ packet[p].at = "part"
       /\ packet[p].status = "ok" /\ ~packet[p].routine
       /\ packet[p].parent # None =>
            /\ Live(packet[p].parent) /\ Whole(packet[p].parent)
            /\ packet[p].request = packet[packet[p].parent].request
PacketsRight == \A p \in Packet : PacketRight(p)

\* CountsParts, of masters: a fragment's count is 1 (PacketRight).
Own(p) == IF p \in OnWay THEN 1 ELSE 0
Counted == \A p \in Packet : Live(p) /\ Whole(p) =>
  packet[p].IOCount = Own(p) + Cardinality(PartsOf(p))

\* A master that is being split has its fragments on the deferred list, where
\* none can end before the last is counted, and nothing of it failed yet.
SplitsRight ==
  /\ \A p \in Packet : Live(p) /\ PartsOf(p) # {} =>
       packet[p].at = "part" \/ \E l \in Level : frame[l].pc \in Splitting /\ frame[l].iop = p
  /\ \A l \in Level : frame[l].pc \in Splitting =>
       /\ PartsOf(frame[l].iop) \subseteq Range(deferred)
       /\ packet[frame[l].iop].at = "file"
       /\ frame[l].pc = "bump" => frame[l].count = packet[frame[l].iop].IOCount
  /\ \A l \in Level :
       frame[l].pc \in Holding /\ frame[l].master /\ packet[frame[l].iop].at # "part" =>
         packet[frame[l].iop].status = "ok"

\* The sender of a synchronous packet waits for it until it is done with it.
SyncRight ==
  \A l \in Level :
    /\ \A p \in Packet : Live(p) /\ packet[p].event = l =>
         Active(l) /\ frame[l].how = "sync" /\ frame[l].own = p
    /\ Active(l) /\ frame[l].how = "sync" =>
         /\ frame[l].own \in Packet /\ Live(frame[l].own)
         /\ packet[frame[l].own].event = l /\ packet[frame[l].own].type = "normal"
         /\ packet[frame[l].own].request = IF l = "thread" THEN made ELSE 0
         /\ signaled[l] => packet[frame[l].own].IOCount = 0

\* An asynchronous packet is on the thread's list until its APC has run, and
\* the APC is there from its end on.
AsyncPacketRight(p) ==
  /\ p \in iolist => /\ Live(p) /\ packet[p].type = "userasync"
                     /\ packet[p].IOCount = 0 <=> p \in apcs \cup {finishing}
  /\ p \in userapcs => Live(p) /\ packet[p].type = "userasync" /\ packet[p].IOCount = 0
  /\ Live(p) /\ packet[p].type = "userasync" /\ p \notin iolist =>
       packet[p].IOCount = 0 /\ (p \in userapcs \/ LeftBehind(p))
AsyncRight ==
  /\ apcs \subseteq iolist /\ finishing \in iolist \cup {None} /\ finishing \notin apcs
  /\ userapcs \cap iolist = {}
  /\ \A p \in Packet : AsyncPacketRight(p)
  /\ frame["thread"].pc \in Holding /\ frame["thread"].master /\ frame["thread"].how = "async" =>
       frame["thread"].iop \in iolist /\ packet[frame["thread"].iop].request = made
  /\ frame["thread"].pc = "gone" => iolist = {} /\ userapcs = {}

\* A request has one master.
RootsRight == \A p, q \in Packet :
  /\ Live(p) /\ Whole(p) /\ Live(q) /\ Whole(q)
  /\ packet[p].request = packet[q].request /\ packet[p].request # 0
  => p = q

\* The call that made a request is over; or it may still fail.
Returned(r) == r < made \/ frame["thread"].pc \in Done
Deciding == frame["thread"].pc \in Holding /\ frame["thread"].master

\* What the sender was told, by where its request is: ToldOnce needs to know
\* that an APC tells of what the call did not, and that a failed fragment leaves
\* its error in its master (PacketRight).
RequestRight(r) ==
  /\ Len(told[r]) <= 1
  /\ r > made => told[r] = <<>> /\ r \notin failed
  /\ told[r] = <<"ok">> =>
       r \notin failed /\ \A p \in Packet : Live(p) /\ packet[p].request = r => packet[p].IOCount = 0
  /\ r <= made /\ Returned(r) /\ (\A p \in iolist : packet[p].request # r) => Len(told[r]) = 1
  /\ r = made /\ ~Returned(r) =>
       /\ frame["thread"].how = "sync" \/ Deciding => told[r] = <<>>
       /\ frame["thread"].how = "async" /\ ~Deciding =>
            IF frame["thread"].ok = "error" THEN told[r] = <<>>
            ELSE Len(told[r]) = 1 \/ \E p \in iolist : packet[p].request = r
  /\ \A p \in iolist : packet[p].request = r =>
       /\ "DOCOMPLT" \in packet[p].flags => told[r] = <<>>
       /\ "DOCOMPLT" \notin packet[p].flags =>
            /\ told[r] = IF Returned(r) THEN <<"error">> ELSE <<>>
            /\ Returned(r) \/ ~Deciding => packet[p].status = "error"
       /\ ~Returned(r) => frame["thread"].how = "async" /\
            ("DOCOMPLT" \in packet[p].flags <=> ~Deciding /\ frame["thread"].ok = "ok")
RequestsRight == \A r \in 1..MaxRequests : RequestRight(r)

\* The inductive invariant.
Inv ==
  /\ Typed /\ Apart /\ LevelsRight /\ PlacesRight /\ PacketsRight /\ Counted
  /\ SplitsRight /\ SyncRight /\ AsyncRight /\ RootsRight /\ RequestsRight

\* Nobody writes in front of the first FAT.
NoFATs == \A r \in Requests : r.target # "fats"

-----------------------------------------------------------------------------
(* Memory for packets.                                                     *)

LEMMA PacketsFinite == IsFiniteSet(Packet) /\ \A S \in SUBSET Packet : IsFiniteSet(S) /\ Cardinality(S) \in Nat
<1>1. Packets \in Nat
  BY BoundAssumption
<1>2. IsFiniteSet(Packet)
  BY <1>1, FS_Interval DEF Packet
<1>3. QED BY <1>2, FS_Subset, FS_CardinalityType

\* IOPacketAllocate gives as many different free packets as it is asked for.
LEMMA FreshIs ==
  ASSUME NEW n \in Nat, There(n)
  PROVE  /\ Fresh(n) \in Seq(Packet) /\ Len(Fresh(n)) = n
         /\ IsInjective(Fresh(n)) /\ Range(Fresh(n)) \subseteq FreePackets
         /\ n > 0 => Fresh(n)[1] \in FreePackets
<1>1. FreePackets \in SUBSET Packet
  BY DEF FreePackets
<1>2. IsFiniteSet(FreePackets)
  BY <1>1, PacketsFinite
<1>3. PICK f : f \in Bijection(1..Cardinality(FreePackets), FreePackets)
  BY <1>2, FS_CardinalityType DEF ExistsBijection
<1> DEFINE c == Cardinality(FreePackets)
<1>4. c \in Nat /\ n <= c
  BY <1>1, PacketsFinite DEF There
<1> HIDE DEF c
<1>5. /\ f \in [1..c -> FreePackets]
      /\ \A i, j \in 1..c : f[i] = f[j] => i = j
  BY <1>3 DEF c, Bijection, Injection, IsInjective
<1> DEFINE g == [i \in 1..n |-> f[i]]
<1>6. g \in [1..n -> FreePackets] /\ IsInjective(g)
  BY <1>4, <1>5 DEF IsInjective
<1>7. Fresh(n) \in [1..n -> FreePackets] /\ IsInjective(Fresh(n))
  BY <1>6 DEF Fresh
<1> DEFINE s == Fresh(n)
<1> HIDE DEF s
<1>8. s \in [1..n -> FreePackets] /\ IsInjective(s)
  BY <1>7 DEF s
<1>9. s \in Seq(Packet) /\ Len(s) = n
  BY <1>8, <1>1
<1>10. Range(s) \subseteq FreePackets
  BY <1>8 DEF Range
<1>11. n > 0 => s[1] \in FreePackets
  BY <1>8
<1>12. QED BY <1>8, <1>9, <1>10, <1>11 DEF s

-----------------------------------------------------------------------------
(* The invariant has what is to be shown.                                  *)

LEMMA LevelsAre == Level = {"thread", "apc"} /\ None \notin Packet /\ None \notin Level
BY NoneAssumption DEF Level

LEMMA OneList == \A p \in Packet : /\ <<p>> \in Seq(Packet) /\ Range(<<p>>) = {p}
                                   /\ IsInjective(<<p>>)
<1> TAKE p \in Packet
<1>1. <<p>> \in Seq(Packet)
  OBVIOUS
<1>2. DOMAIN <<p>> = {1} /\ <<p>>[1] = p
  OBVIOUS
<1>3. QED BY <1>1, <1>2 DEF Range, IsInjective

\* What a level has in its hands, as a list and as a set.
LEMMA HeldIs ==
  ASSUME Typed, Apart, LevelsRight, NEW l \in Level
  PROVE  /\ Held(l) \in Seq(Packet) /\ IsInjective(Held(l))
         /\ Range(Held(l)) = HandsOf(l) /\ HandsOf(l) \subseteq Packet
<1> DEFINE one == IF frame[l].pc \in Holding THEN <<frame[l].iop>> ELSE <<>>
<1>1. frame[l].rest \in Seq(Packet) /\ frame[l].frags \in Seq(Packet)
  BY DEF Typed, FrameRecord
<1>2. one \in Seq(Packet) /\ IsInjective(one) /\ Range(one) = Carried(l)
  BY OneList, EmptyList DEF LevelsRight, FrameRight, Carried
<1>3. Held(l) = one \o frame[l].rest \o frame[l].frags
  BY DEF Held, Holding
<1> HIDE DEF one
<1>4. /\ IsInjective(frame[l].rest) /\ IsInjective(frame[l].frags)
      /\ Carried(l) \cap Range(frame[l].rest) = {}
      /\ Carried(l) \cap Range(frame[l].frags) = {}
      /\ Range(frame[l].rest) \cap Range(frame[l].frags) = {}
  BY DEF Apart
<1> DEFINE two == one \o frame[l].rest
<1>5. two \in Seq(Packet) /\ IsInjective(two) /\ Range(two) = Carried(l) \cup Range(frame[l].rest)
  BY <1>1, <1>2, <1>4, Joined
<1>6. Held(l) = two \o frame[l].frags
  BY <1>3
<1> HIDE DEF two
<1>7. Range(two) \cap Range(frame[l].frags) = {}
  BY <1>4, <1>5
<1>8. /\ Held(l) \in Seq(Packet) /\ IsInjective(Held(l))
      /\ Range(Held(l)) = Range(two) \cup Range(frame[l].frags)
  BY <1>1, <1>4, <1>5, <1>6, <1>7, Joined
<1>9. Range(Held(l)) = HandsOf(l)
  BY <1>5, <1>8 DEF HandsOf
<1>10. Range(Held(l)) \subseteq Packet
  BY <1>8 DEF Range
<1>11. QED BY <1>8, <1>9, <1>10

LEMMA HandsAre ==
  ASSUME Typed, Apart, LevelsRight
  PROVE  /\ IsInjective(Hands)
         /\ Range(Hands) \cap queue = {}
         /\ Range(Hands) \cup queue = OnWay
         /\ OnWay \subseteq Packet
<1>1. /\ "thread" \in Level /\ "apc" \in Level
      /\ deferred \in Seq(Packet) /\ IsInjective(deferred) /\ queue \subseteq Packet
      /\ queue \cap Range(deferred) = {}
      /\ HandsOf("thread") \cap HandsOf("apc") = {}
  BY LevelsAre DEF Typed, Apart
<1>2. /\ HandsOf("thread") \cap (queue \cup Range(deferred)) = {}
      /\ HandsOf("apc") \cap (queue \cup Range(deferred)) = {}
  BY <1>1 DEF Apart
<1>3. /\ Held("thread") \in Seq(Packet) /\ IsInjective(Held("thread"))
      /\ Range(Held("thread")) = HandsOf("thread") /\ HandsOf("thread") \subseteq Packet
      /\ Held("apc") \in Seq(Packet) /\ IsInjective(Held("apc"))
      /\ Range(Held("apc")) = HandsOf("apc") /\ HandsOf("apc") \subseteq Packet
  BY <1>1, HeldIs
<1> DEFINE two == deferred \o Held("thread")
<1>4. Range(deferred) \cap Range(Held("thread")) = {}
  BY <1>2, <1>3
<1>5. two \in Seq(Packet) /\ IsInjective(two) /\ Range(two) = Range(deferred) \cup HandsOf("thread")
  BY <1>1, <1>3, <1>4, Joined
<1>6. Hands = two \o Held("apc")
  BY DEF Hands
<1> HIDE DEF two
<1>7. Range(two) \cap Range(Held("apc")) = {}
  BY <1>1, <1>2, <1>3, <1>5
<1>8. /\ Hands \in Seq(Packet) /\ IsInjective(Hands)
      /\ Range(Hands) = Range(two) \cup Range(Held("apc"))
  BY <1>3, <1>5, <1>6, <1>7, Joined
<1>9. Range(Hands) = Range(deferred) \cup HandsOf("thread") \cup HandsOf("apc")
  BY <1>3, <1>5, <1>8
<1>10. Range(Hands) \subseteq Packet
  BY <1>8 DEF Range
<1>11. Range(Hands) \cap queue = {}
  BY <1>1, <1>2, <1>9
<1>12. Range(Hands) \cup queue = OnWay
  BY <1>9 DEF OnWay
<1>13. QED BY <1>1, <1>8, <1>10, <1>11, <1>12

LEMMA PartsFinite ==
  \A p \in Packet : IsFiniteSet(PartsOf(p)) /\ Cardinality(PartsOf(p)) \in Nat /\ PartsOf(p) \subseteq Packet
<1>1. \A p \in Packet : PartsOf(p) \in SUBSET Packet
  BY DEF PartsOf
<1>2. QED BY <1>1, PacketsFinite

LEMMA OwnIs ==
  ASSUME Typed, Apart, LevelsRight
  PROVE  \A p : OwnPart(p) = Own(p)
BY HandsAre DEF OwnPart, Own

\* A packet without a level that waits for it, or an APC to come, is over.
LEMMA PartsHaveWhole ==
  ASSUME Inv, NEW p \in Packet, Live(p), PartsOf(p) # {}
  PROVE  Whole(p) /\ packet[p].IOCount > 0
<1>1. PICK q \in Packet : packet[q].parent = p /\ packet[q].IOCount > 0
  BY DEF PartsOf
<1>2. Live(q)
  BY <1>1, LevelsAre DEF Inv, PacketsRight, PacketRight, Free
<1>3. Whole(p)
  BY <1>1, <1>2, LevelsAre DEF Inv, PacketsRight, PacketRight
<1>4. packet[p].IOCount = Own(p) + Cardinality(PartsOf(p))
  BY <1>3, OwnIs DEF Inv, Counted
<1>5. Cardinality(PartsOf(p)) \in Nat /\ Cardinality(PartsOf(p)) # 0
  BY PartsFinite, FS_EmptySet
<1>6. Own(p) \in {0, 1}
  BY DEF Own
<1>7. QED BY <1>3, <1>4, <1>5, <1>6

LEMMA InvHeldOnce == Inv => HeldOnce
<1> SUFFICES ASSUME Inv PROVE HeldOnce
  OBVIOUS
<1>1. \A p \in OnWay : Live(p) /\ "COMPLETE" \notin packet[p].flags
  BY DEF Inv, PlacesRight
<1>2. QED BY <1>1, HandsAre DEF Inv, HeldOnce, Live

LEMMA InvCountsParts == Inv => CountsParts
<1> SUFFICES ASSUME Inv, NEW p \in Packet, Live(p)
             PROVE  packet[p].IOCount = OwnPart(p) + Cardinality(PartsOf(p))
  BY DEF CountsParts, Live
<1>1. CASE Whole(p)
  BY <1>1, OwnIs DEF Inv, Counted
<1>2. CASE ~Whole(p)
  <2>1. p \in OnWay /\ packet[p].IOCount = 1
    BY <1>2 DEF Inv, PacketsRight, PacketRight
  <2>2. PartsOf(p) = {}
    BY <1>2, PartsHaveWhole
  <2>3. OwnPart(p) = 1 /\ Cardinality(PartsOf(p)) = 0
    BY <2>1, <2>2, OwnIs, FS_EmptySet DEF Inv, Own
  <2>4. QED BY <2>1, <2>3
<1>3. QED BY <1>1, <1>2

LEMMA InvNothingLost == Inv => NothingLost
<1> SUFFICES ASSUME Inv PROVE NothingLost
  OBVIOUS
<1>1. ASSUME NEW p \in Packet, Live(p), packet[p].IOCount = 0
      PROVE  Awaited(p) \/ LeftBehind(p)
  <2>1. Whole(p)
    BY <1>1 DEF Inv, PacketsRight, PacketRight
  <2>2. CASE packet[p].type = "userasync"
    BY <2>2, <1>1 DEF Inv, AsyncRight, AsyncPacketRight, Awaited
  <2>3. CASE packet[p].type # "userasync"
    <3>1. packet[p].event \in Level
      BY <2>1, <2>3 DEF Whole, Inv, Typed, PacketRecord
    <3>2. QED BY <3>1, <1>1 DEF Inv, SyncRight, Awaited
  <2>4. QED BY <2>2, <2>3
<1>2. ASSUME frame["thread"].pc = "gone", NEW p \in Packet, packet[p].state # "free"
      PROVE  LeftBehind(p)
  <2>1. /\ Live(p) /\ iolist = {} /\ userapcs = {}
        /\ finishing = None /\ frame["apc"].pc = "idle"
    BY <1>2 DEF Inv, Typed, PacketRecord, Live, AsyncRight, AsyncPacketRight, LevelsRight
  <2>2. \A l \in Level : ~Active(l)
    BY <1>2, <2>1, LevelsAre DEF Active, Done
  <2>3. ASSUME NEW q \in Packet, Live(q), Whole(q)
        PROVE  packet[q].IOCount = 0 /\ LeftBehind(q)
    <3>1. packet[q].event = None
      BY <2>2, <2>3 DEF Inv, SyncRight, Typed, PacketRecord
    <3>2. packet[q].type = "userasync"
      BY <3>1, <2>3 DEF Whole
    <3>3. QED BY <3>2, <2>1, <2>3 DEF Inv, AsyncRight, AsyncPacketRight
  <2>4. CASE Whole(p)
    BY <2>1, <2>3, <2>4
  <2>5. CASE ~Whole(p)
    <3>1. p \in OnWay
      BY <2>1, <2>5 DEF Inv, PacketsRight, PacketRight
    <3>2. HandsOf("thread") = {} /\ HandsOf("apc") = {}
      <4>1. ASSUME NEW l \in Level, frame[l].pc \in {"gone", "idle"} PROVE HandsOf(l) = {}
        <5>1. frame[l].rest = <<>> /\ frame[l].frags = <<>> /\ Carried(l) = {}
          BY <4>1 DEF Inv, LevelsRight, FrameRight, Holding, Splitting, Carried
        <5>2. QED BY <5>1, EmptyList DEF HandsOf
      <4>2. QED BY <4>1, <1>2, <2>1, LevelsAre
    <3>3. packet[p].parent # None
      BY <3>1, <3>2, <2>5 DEF OnWay, Inv, PlacesRight, PlaceRight
    <3>4. packet[p].parent \in Packet /\ Live(packet[p].parent) /\ Whole(packet[p].parent)
      BY <3>3, <2>1, <2>5 DEF Inv, PacketsRight, PacketRight, Typed, PacketRecord
    <3>5. packet[p].IOCount = 1
      BY <2>1, <2>5 DEF Inv, PacketsRight, PacketRight
    <3>6. p \in PartsOf(packet[p].parent)
      BY <3>5 DEF PartsOf
    <3>7. packet[packet[p].parent].IOCount > 0
      BY <3>4, <3>6, PartsHaveWhole
    <3>8. QED BY <3>4, <3>7, <2>3
  <2>6. QED BY <2>4, <2>5
<1>3. QED BY <1>1, <1>2 DEF NothingLost, Live

LEMMA InvToldOnce == Inv => ToldOnce
<1> SUFFICES ASSUME Inv, NEW r \in 1..MaxRequests
             PROVE  /\ Len(told[r]) <= 1
                    /\ Over(r) => Len(told[r]) = 1
                    /\ told[r] = <<"ok">> => r \notin failed
  BY DEF ToldOnce
<1>1. RequestRight(r)
  BY DEF Inv, RequestsRight
<1>2. r \in Nat /\ made \in Nat
  BY BoundAssumption DEF Inv, Typed
<1>3. Over(r) => r <= made /\ Returned(r) /\ \A p \in iolist : packet[p].request # r
  BY <1>2 DEF Over, Returned, Done
<1>4. QED BY <1>1, <1>3 DEF RequestRight

-----------------------------------------------------------------------------
(* At first no packet is on its way.                                       *)

LEMMA FreeIs ==
  /\ Free \in PacketRecord
  /\ Free.state = "free" /\ Free.type = "normal" /\ Free.parent = None /\ Free.IOCount = 0
  /\ Free.status = "ok" /\ Free.flags = {} /\ Free.at = "part" /\ Free.event = None
  /\ Free.routine = FALSE /\ Free.request = 0
<1>1. 0 \in Request0
  BY BoundAssumption DEF Request0
<1>2. QED BY <1>1 DEF Free, PacketRecord, Statuses, Devices

LEMMA IdleIs ==
  /\ Idle \in FrameRecord
  /\ Idle.pc = "idle" /\ Idle.how = "sync" /\ Idle.own = None /\ Idle.iop = None
  /\ Idle.rest = <<>> /\ Idle.frags = <<>> /\ Idle.master = FALSE /\ Idle.ok = "ok"
  /\ Idle.count = 0
BY EmptyList DEF Idle, FrameRecord, Statuses, PCs

LEMMA InitInv == Init => Inv
<1> SUFFICES ASSUME Init PROVE Inv
  OBVIOUS
<1>1. /\ \A p \in Packet : packet[p] = Free /\ ~Live(p) /\ PartsOf(p) = {}
      /\ \A l \in Level : frame[l] = Idle
      /\ queue = {} /\ deferred = <<>> /\ iolist = {} /\ apcs = {} /\ userapcs = {}
      /\ finishing = None /\ made = 0 /\ failed = {}
      /\ \A r \in 1..MaxRequests : told[r] = <<>>
  BY FreeIs DEF Init, Live, PartsOf
<1>2. \A l \in Level : HandsOf(l) = {} /\ Carried(l) = {}
  BY <1>1, IdleIs, EmptyList DEF HandsOf, Carried, Holding
<1>3. OnWay = {}
  BY <1>1, <1>2, LevelsAre, EmptyList DEF OnWay
<1>4. Typed
  <2>1. packet \in [Packet -> PacketRecord] /\ frame \in [Level -> FrameRecord]
        /\ signaled \in [Level -> BOOLEAN]
    BY FreeIs, IdleIs DEF Init
  <2>2. told \in [1..MaxRequests -> Seq(Statuses)] /\ deferred \in Seq(Packet)
    BY EmptyList DEF Init
  <2>3. made \in 0..MaxRequests
    BY <1>1, BoundAssumption
  <2>4. QED BY <1>1, <2>1, <2>2, <2>3 DEF Typed
<1>5. Apart
  BY <1>1, <1>2, LevelsAre, IdleIs, EmptyList DEF Apart
<1>6. LevelsRight
  BY <1>1, LevelsAre, IdleIs DEF LevelsRight, FrameRight, Holding, Splitting
<1>7. PlacesRight
  BY <1>1, <1>3, IdleIs, EmptyList DEF PlacesRight, PlaceRight, Holding
<1>8. PacketsRight /\ Counted /\ RootsRight
  BY <1>1, FreeIs DEF PacketsRight, PacketRight, Counted, RootsRight
<1>9. SplitsRight
  BY <1>1, IdleIs DEF SplitsRight, Holding, Splitting
<1>10. SyncRight
  BY <1>1, LevelsAre, IdleIs DEF SyncRight, Active, Done
<1>11. AsyncRight
  BY <1>1, LevelsAre, IdleIs DEF AsyncRight, AsyncPacketRight, Holding
<1>12. RequestsRight
  <2>1. \A r \in 1..MaxRequests : r > 0
    BY BoundAssumption
  <2>2. Len(<<>>) = 0
    OBVIOUS
  <2>3. \A r \in 1..MaxRequests : told[r] # <<"ok">>
    BY <1>1, <2>2
  <2>4. QED BY <1>1, <2>1, <2>2, <2>3 DEF RequestsRight, RequestRight
<1>13. QED BY <1>4, <1>5, <1>6, <1>7, <1>8, <1>9, <1>10, <1>11, <1>12 DEF Inv

-----------------------------------------------------------------------------
(* Steps of a level that has nothing in its hands.                         *)

Emptyhanded(l) == frame[l].pc \notin Holding \cup {"next"}

LEMMA OnWayIs ==
  \A p : p \in OnWay <=> \/ p \in queue \cup Range(deferred)
                         \/ \E l \in Level : p \in HandsOf(l)
BY LevelsAre DEF OnWay

LEMMA CalmStep ==
  ASSUME Inv, NEW l \in Level,
         UNCHANGED <<packet, queue, deferred, listVars, signaled, made, failed>>,
         frame' \in [Level -> FrameRecord],
         \A k \in Level \ {l} : frame'[k] = frame[k],
         Emptyhanded(l), Emptyhanded(l)', frame'[l].pc # "gone",
         frame'[l].rest = <<>>, frame'[l].frags = <<>>,
         \/ Active(l) /\ Active(l)' /\ frame'[l].own = frame[l].own /\ frame'[l].how = frame[l].how
         \/ ~Active(l)' /\ (~Active(l) \/ frame[l].how = "async")
  PROVE  Apart' /\ PlacesRight' /\ PacketsRight' /\ Counted' /\ SplitsRight' /\ SyncRight'
         /\ AsyncRight' /\ RootsRight'
<1>1. frame[l].rest = <<>> /\ frame[l].frags = <<>>
  BY DEF Inv, LevelsRight, FrameRight, Emptyhanded, Holding, Splitting
<1>2. frame[l].pc \notin Holding /\ frame'[l].pc \notin Holding
  BY DEF Emptyhanded
<1>3. /\ \A k \in Level : Carried(k)' = Carried(k) /\ HandsOf(k)' = HandsOf(k)
      /\ OnWay' = OnWay
      /\ \A k \in Level : frame'[k].rest = frame[k].rest /\ frame'[k].frags = frame[k].frags
      /\ \A k \in Level : frame'[k].pc \in Holding \/ frame[k].pc \in Holding => frame'[k] = frame[k]
  <2>1. \A k \in Level : Carried(k)' = Carried(k) /\ HandsOf(k)' = HandsOf(k)
    BY <1>1, <1>2 DEF Carried, HandsOf
  <2>2. QED BY <1>1, <1>2, <2>1, LevelsAre DEF OnWay
<1>4. Apart'
  BY <1>3, LevelsAre DEF Inv, Apart
<1>5. /\ \A p \in Packet : (Live(p))' = Live(p) /\ (Whole(p))' = Whole(p) /\ (PartsOf(p))' = PartsOf(p)
                           /\ (Own(p))' = Own(p) /\ (LeftBehind(p))' = LeftBehind(p)
  BY <1>3 DEF Live, Whole, PartsOf, Own, LeftBehind
<1>6. PlacesRight'
  <2>1. \A k \in Level : Range(frame[k].frags) # {} => frame'[k].iop = frame[k].iop
    BY <1>1, EmptyList
  <2>2. HandsOf(l) \subseteq {} /\ Range(frame[l].rest) = {} /\ Range(frame[l].frags) = {}
    BY <1>1, <1>2, EmptyList DEF HandsOf, Carried
  <2>3. \A p \in Packet : (Live(p))' = Live(p) /\ (Whole(p))' = Whole(p)
    BY <1>5
  <2>4. OnWay \subseteq Packet
    BY HandsAre DEF Inv
  <2>5. QED BY <1>3, <2>1, <2>2, <2>3, <2>4 DEF Inv, PlacesRight, PlaceRight, Live, Whole
<1>7. PacketsRight'
  BY <1>3 DEF Inv, PacketsRight, PacketRight, Live, Whole
<1>8. Counted' /\ RootsRight'
  BY <1>5 DEF Inv, Counted, RootsRight
<1>9. SplitsRight'
  <2>1. Splitting \subseteq Holding
    BY DEF Splitting, Holding
  <2>2. QED BY <1>3, <1>5, <2>1 DEF Inv, SplitsRight, PartsOf, Live
<1>10. SyncRight'
  BY LevelsAre DEF Inv, SyncRight, Active, Done, Live
<1>11. AsyncRight'
  <2>1. "thread" \in Level
    BY LevelsAre
  <2>2. QED BY <1>2, <2>1 DEF Inv, AsyncRight, AsyncPacketRight, Live, LeftBehind, listVars
<1>12. QED BY <1>4, <1>6, <1>7, <1>8, <1>9, <1>10, <1>11

\* What stays true of requests when nothing about them changes.
LEMMA SameRequests ==
  ASSUME Inv, UNCHANGED <<packet, iolist, made, told, failed>>,
         frame'["thread"].how = frame["thread"].how,
         Returned(made)' <=> Returned(made), Deciding' <=> Deciding,
         \/ frame'["thread"].ok = frame["thread"].ok
         \/ frame["thread"].how = "sync"
  PROVE  RequestsRight'
<1>1. ASSUME NEW r \in 1..MaxRequests PROVE RequestRight(r)'
  <2>1. RequestRight(r)
    BY DEF Inv, RequestsRight
  <2>2. (Returned(r))' <=> Returned(r)
    <3>1. r \in Int /\ made \in Int
      BY BoundAssumption DEF Inv, Typed
    <3>2. QED BY <3>1 DEF Returned
  <2>3. QED BY <2>1, <2>2 DEF RequestRight, Live, Inv, AsyncRight
<1>2. QED BY <1>1 DEF RequestsRight

LEMMA FrameFields ==
  ASSUME Typed, NEW l \in Level
  PROVE  /\ frame[l].pc \in PCs /\ frame[l].how \in {"sync", "async"} /\ frame[l].own \in Packet \cup {None}
         /\ frame[l].iop \in Packet \cup {None} /\ frame[l].rest \in Seq(Packet)
         /\ frame[l].frags \in Seq(Packet) /\ frame[l].master \in BOOLEAN
         /\ frame[l].ok \in Statuses /\ frame[l].count \in Int
BY DEF Typed, FrameRecord

\* A level goes from one point to another.
LEMMA GotoIs ==
  ASSUME Typed, NEW l \in Level, NEW pc \in PCs, Goto(l, pc)
  PROVE  /\ frame' \in [Level -> FrameRecord]
         /\ frame'[l].pc = pc /\ frame'[l].how = frame[l].how /\ frame'[l].own = frame[l].own
         /\ frame'[l].iop = frame[l].iop /\ frame'[l].rest = frame[l].rest
         /\ frame'[l].frags = frame[l].frags /\ frame'[l].master = frame[l].master
         /\ frame'[l].ok = frame[l].ok /\ frame'[l].count = frame[l].count
         /\ \A k \in Level \ {l} : frame'[k] = frame[k]
BY DEF Goto, Typed, FrameRecord

\* ... and takes a result along.
LeaveTo(l, pc, e) == frame' = [frame EXCEPT ![l].pc = pc, ![l].ok = e]

LEMMA LeaveIs ==
  ASSUME Typed, NEW l \in Level, NEW pc \in PCs, NEW e \in Statuses, LeaveTo(l, pc, e)
  PROVE  /\ frame' \in [Level -> FrameRecord]
         /\ frame'[l].pc = pc /\ frame'[l].how = frame[l].how /\ frame'[l].own = frame[l].own
         /\ frame'[l].iop = frame[l].iop /\ frame'[l].rest = frame[l].rest
         /\ frame'[l].frags = frame[l].frags /\ frame'[l].master = frame[l].master
         /\ frame'[l].ok = e /\ frame'[l].count = frame[l].count
         /\ \A k \in Level \ {l} : frame'[k] = frame[k]
<1>1. frame \in [Level -> FrameRecord] /\ frame[l] \in FrameRecord
  BY DEF Typed
<1> DEFINE f == [frame[l] EXCEPT !.pc = pc, !.ok = e]
<1>2. /\ f \in FrameRecord
      /\ f.pc = pc /\ f.how = frame[l].how /\ f.own = frame[l].own
      /\ f.iop = frame[l].iop /\ f.rest = frame[l].rest
      /\ f.frags = frame[l].frags /\ f.master = frame[l].master
      /\ f.ok = e /\ f.count = frame[l].count
  BY <1>1 DEF FrameRecord
<1>3. frame' = [frame EXCEPT ![l] = f]
  BY <1>1 DEF LeaveTo
<1> HIDE DEF f
<1>4. QED BY <1>1, <1>2, <1>3

LEMMA WaitForEventInv ==
  ASSUME Inv, NEW l \in Level, WaitForEvent(l)
  PROVE  Inv'
<1>1. /\ frame[l].pc = "entered" /\ frame[l].how = "sync" /\ Goto(l, "wait")
      /\ UNCHANGED <<packet, queue, deferred, listVars, signaled, made, told, failed>>
  BY DEF WaitForEvent, Busy
<1>2. "wait" \in PCs
  BY DEF PCs
<1>3. /\ frame' \in [Level -> FrameRecord]
      /\ frame'[l].pc = "wait" /\ frame'[l].how = frame[l].how /\ frame'[l].own = frame[l].own
      /\ frame'[l].iop = frame[l].iop /\ frame'[l].rest = frame[l].rest
      /\ frame'[l].frags = frame[l].frags /\ frame'[l].master = frame[l].master
      /\ frame'[l].ok = frame[l].ok
      /\ \A k \in Level \ {l} : frame'[k] = frame[k]
  BY <1>1, <1>2, GotoIs DEF Inv
<1>4. LevelsRight'
  BY <1>1, <1>3, LevelsAre DEF Inv, LevelsRight, FrameRight, Holding, Splitting, listVars
<1>5. Typed'
  BY <1>1, <1>3 DEF Inv, Typed, listVars
<1>6. frame'[l].rest = <<>> /\ frame'[l].frags = <<>>
  BY <1>4, <1>3 DEF LevelsRight, FrameRight, Holding, Splitting
<1>7. Apart' /\ PlacesRight' /\ PacketsRight' /\ Counted' /\ SplitsRight' /\ SyncRight'
      /\ AsyncRight' /\ RootsRight'
  BY <1>1, <1>3, <1>6, CalmStep DEF Emptyhanded, Holding, Active, Done
<1>8. RequestsRight'
  BY <1>1, <1>3, LevelsAre, SameRequests DEF Returned, Deciding, Holding, Done, listVars
<1>9. QED BY <1>4, <1>5, <1>7, <1>8 DEF Inv

LEMMA InterruptInv ==
  ASSUME Inv, Interrupt
  PROVE  Inv'
<1> DEFINE l == "thread"
<1>1. /\ frame[l].pc = "wait" /\ frame' = [frame EXCEPT ![l].pc = "cancel", ![l].ok = "error"]
      /\ UNCHANGED <<packet, queue, deferred, listVars, signaled, made, told, failed>>
  BY DEF Interrupt, Busy
<1>2. l \in Level /\ frame[l].how = "sync"
  BY <1>1, LevelsAre DEF Inv, LevelsRight, FrameRight
<1>3. /\ frame' \in [Level -> FrameRecord]
      /\ frame'[l].pc = "cancel" /\ frame'[l].how = frame[l].how /\ frame'[l].own = frame[l].own
      /\ frame'[l].iop = frame[l].iop /\ frame'[l].rest = frame[l].rest
      /\ frame'[l].frags = frame[l].frags /\ frame'[l].master = frame[l].master
      /\ \A k \in Level \ {l} : frame'[k] = frame[k]
  <2>1. "cancel" \in PCs /\ "error" \in Statuses
    BY DEF PCs, Statuses
  <2>2. LeaveTo(l, "cancel", "error")
    BY <1>1 DEF LeaveTo
  <2>3. QED BY <1>1, <1>2, <2>1, <2>2, LeaveIs DEF Inv
<1>4. LevelsRight'
  BY <1>1, <1>2, <1>3, LevelsAre DEF Inv, LevelsRight, FrameRight, Holding, Splitting, listVars
<1>5. Typed'
  BY <1>1, <1>3 DEF Inv, Typed, listVars
<1>6. frame'[l].rest = <<>> /\ frame'[l].frags = <<>>
  BY <1>2, <1>4, <1>3 DEF LevelsRight, FrameRight, Holding, Splitting
<1>7. Apart' /\ PlacesRight' /\ PacketsRight' /\ Counted' /\ SplitsRight' /\ SyncRight'
      /\ AsyncRight' /\ RootsRight'
  BY <1>1, <1>2, <1>3, <1>6, CalmStep DEF Emptyhanded, Holding, Active, Done
<1>8. RequestsRight'
  BY <1>1, <1>2, <1>3, LevelsAre, SameRequests DEF Returned, Deciding, Holding, Done, listVars
<1>9. QED BY <1>4, <1>5, <1>7, <1>8 DEF Inv

LEMMA PsiThreadExitInv ==
  ASSUME Inv, PsiThreadExit
  PROVE  Inv'
<1> DEFINE l == "thread"
<1>1. /\ frame[l].pc = "idle" /\ Goto(l, "rundown")
      /\ UNCHANGED <<packet, queue, deferred, listVars, signaled, made, told, failed>>
  BY DEF PsiThreadExit, Busy
<1>2. l \in Level /\ "rundown" \in PCs
  BY LevelsAre DEF PCs
<1>3. /\ frame' \in [Level -> FrameRecord]
      /\ frame'[l].pc = "rundown" /\ frame'[l].how = frame[l].how /\ frame'[l].own = frame[l].own
      /\ frame'[l].iop = frame[l].iop /\ frame'[l].rest = frame[l].rest
      /\ frame'[l].frags = frame[l].frags /\ frame'[l].master = frame[l].master
      /\ frame'[l].ok = frame[l].ok
      /\ \A k \in Level \ {l} : frame'[k] = frame[k]
  BY <1>1, <1>2, GotoIs DEF Inv
<1>4. LevelsRight'
  BY <1>1, <1>2, <1>3, LevelsAre DEF Inv, LevelsRight, FrameRight, Holding, Splitting, listVars
<1>5. Typed'
  BY <1>1, <1>3 DEF Inv, Typed, listVars
<1>6. frame'[l].rest = <<>> /\ frame'[l].frags = <<>>
  BY <1>2, <1>4, <1>3 DEF LevelsRight, FrameRight, Holding, Splitting
<1>7. Apart' /\ PlacesRight' /\ PacketsRight' /\ Counted' /\ SplitsRight' /\ SyncRight'
      /\ AsyncRight' /\ RootsRight'
  BY <1>1, <1>2, <1>3, <1>6, CalmStep DEF Emptyhanded, Holding, Active, Done
<1>8. RequestsRight'
  BY <1>1, <1>2, <1>3, LevelsAre, SameRequests DEF Returned, Deciding, Holding, Done, listVars
<1>9. QED BY <1>4, <1>5, <1>7, <1>8 DEF Inv

\* The call of an asynchronous request returns.
LEMMA ReturnFromAsyncInv ==
  ASSUME Inv, ReturnFromAsync
  PROVE  Inv'
<1> DEFINE l == "thread"
<1>1. /\ frame[l].pc = "entered" /\ frame[l].how = "async" /\ frame' = [frame EXCEPT ![l] = Idle]
      /\ UNCHANGED <<packet, queue, deferred, listVars, signaled, made, failed>>
      /\ IF frame[l].ok = "ok" THEN UNCHANGED told ELSE Tell(made, "error")
  BY DEF ReturnFromAsync, Busy
<1>2. l \in Level
  BY LevelsAre
<1>3. /\ frame' \in [Level -> FrameRecord] /\ frame'[l] = Idle
      /\ \A k \in Level \ {l} : frame'[k] = frame[k]
  BY <1>1, <1>2, IdleIs DEF Inv, Typed
<1>4. LevelsRight'
  BY <1>1, <1>2, <1>3, IdleIs, LevelsAre DEF Inv, LevelsRight, FrameRight, Holding, Splitting, listVars
<1>5. /\ told' \in [1..MaxRequests -> Seq(Statuses)]
      /\ \A r \in 1..MaxRequests :
           told'[r] = IF r = made /\ frame[l].ok # "ok" THEN Append(told[r], "error") ELSE told[r]
  <2>1. told \in [1..MaxRequests -> Seq(Statuses)] /\ "error" \in Statuses
    BY DEF Inv, Typed, Statuses
  <2>2. CASE frame[l].ok = "ok"
    BY <1>1, <2>1, <2>2
  <2>3. CASE frame[l].ok # "ok"
    BY <1>1, <2>1, <2>3 DEF Tell
  <2>4. QED BY <2>2, <2>3
<1>6. Typed'
  BY <1>1, <1>3, <1>5 DEF Inv, Typed, listVars
<1>7. Apart' /\ PlacesRight' /\ PacketsRight' /\ Counted' /\ SplitsRight' /\ SyncRight'
      /\ AsyncRight' /\ RootsRight'
  BY <1>1, <1>2, <1>3, IdleIs, CalmStep DEF Emptyhanded, Holding, Active, Done
<1>8. RequestsRight'
  <2>1. ASSUME NEW r \in 1..MaxRequests, r # made PROVE (RequestRight(r))'
    <3>1. told'[r] = told[r] /\ RequestRight(r)
      BY <2>1, <1>5 DEF Inv, RequestsRight
    <3>2. r \in Int /\ made \in Int /\ made' = made /\ (r < made \/ r > made)
      BY BoundAssumption, <1>1, <2>1 DEF Inv, Typed
    <3>3. CASE r < made
      <4>1. Returned(r) /\ (Returned(r))'
        BY <3>3, <3>2 DEF Returned
      <4>2. QED BY <3>1, <3>2, <3>3, <4>1, <2>1, <1>1 DEF RequestRight, Live, listVars
    <3>4. CASE r > made
      <4>1. ASSUME NEW p \in iolist PROVE packet[p].request <= made /\ packet[p].request \in Int
        <5>1. p \in Packet /\ Live(p) /\ Whole(p)
          BY DEF Inv, Typed, AsyncRight, AsyncPacketRight, Whole
        <5>2. packet[p].request \in Request0
          BY <5>1 DEF Inv, Typed, PacketRecord
        <5>3. packet[p].request <= made
          BY <5>1 DEF Inv, PacketsRight, PacketRight
        <5>4. QED BY <5>2, <5>3 DEF Request0
      <4>2. \A p \in iolist : packet[p].request # r
        BY <4>1, <3>2, <3>4
      <4>3. told[r] = <<>> /\ r \notin failed
        BY <3>1, <3>4 DEF RequestRight
      <4>4. ~(r <= made) /\ Len(<<>>) = 0 /\ <<"ok">> # <<>>
        BY <3>2, <3>4
      <4>5. QED BY <3>1, <3>2, <3>4, <4>2, <4>3, <4>4, <1>1, <2>1 DEF RequestRight, listVars
    <3>5. QED BY <3>2, <3>3, <3>4
  <2>2. ASSUME NEW r \in 1..MaxRequests, r = made PROVE (RequestRight(r))'
    <3>1. RequestRight(r)
      BY DEF Inv, RequestsRight
    <3>2. ~Returned(r) /\ ~Deciding /\ (Returned(r))' /\ r <= made /\ ~(r > made)
      BY <2>2, <1>1, <1>3, IdleIs, BoundAssumption DEF Returned, Deciding, Done, Holding, Inv, Typed
    <3>3. frame[l].ok \in {"ok", "error"}
      BY <1>2, FrameFields DEF Inv, Statuses
    <3>4. CASE frame[l].ok = "ok"
      <4>1. told'[r] = told[r]
        BY <3>4, <1>5
      <4>2. Len(told[r]) = 1 \/ \E p \in iolist : packet[p].request = r
        BY <3>1, <3>2, <3>4, <2>2, <1>1 DEF RequestRight
      <4>3. QED BY <3>1, <3>2, <3>4, <4>1, <4>2, <1>1, <2>2 DEF RequestRight, Live, listVars
    <3>5. CASE frame[l].ok = "error"
      <4>1. told[r] = <<>> /\ told'[r] = Append(told[r], "error")
        BY <3>1, <3>2, <3>5, <2>2, <1>1, <1>5 DEF RequestRight
      <4>2. told'[r] = <<"error">> /\ Len(told'[r]) = 1 /\ told'[r] # <<"ok">>
        BY <4>1
      <4>3. \A p \in iolist : packet[p].request = r =>
              "DOCOMPLT" \notin packet[p].flags /\ packet[p].status = "error"
        BY <3>1, <3>2, <3>5, <2>2, <1>1 DEF RequestRight
      <4>4. QED BY <3>2, <4>2, <4>3, <1>1, <2>2 DEF RequestRight, listVars
    <3>6. QED BY <3>3, <3>4, <3>5
  <2>3. QED BY <2>1, <2>2 DEF RequestsRight
<1>9. QED BY <1>4, <1>6, <1>7, <1>8 DEF Inv

\* A request or a thread finds nothing that it could cancel.
LEMMA NothingCancelledInv ==
  ASSUME Inv, NEW pc \in {"drain", "poll"}, Goto("thread", pc),
         frame["thread"].pc = IF pc = "drain" THEN "cancel" ELSE "rundown",
         UNCHANGED <<packet, queue, deferred, listVars, signaled, made, told, failed>>
  PROVE  Inv'
<1> DEFINE l == "thread"
<1>1. frame[l].pc = IF pc = "drain" THEN "cancel" ELSE "rundown"
  OBVIOUS
<1>2. l \in Level /\ pc \in PCs
  BY LevelsAre DEF PCs
<1>3. /\ frame' \in [Level -> FrameRecord]
      /\ frame'[l].pc = pc /\ frame'[l].how = frame[l].how /\ frame'[l].own = frame[l].own
      /\ frame'[l].iop = frame[l].iop /\ frame'[l].rest = frame[l].rest
      /\ frame'[l].frags = frame[l].frags /\ frame'[l].master = frame[l].master
      /\ frame'[l].ok = frame[l].ok
      /\ \A k \in Level \ {l} : frame'[k] = frame[k]
  BY <1>2, GotoIs DEF Inv
<1>4. LevelsRight'
  BY <1>1, <1>2, <1>3, LevelsAre DEF Inv, LevelsRight, FrameRight, Holding, Splitting, listVars
<1>5. Typed'
  BY <1>1, <1>3 DEF Inv, Typed, listVars
<1>6. frame'[l].rest = <<>> /\ frame'[l].frags = <<>>
  BY <1>2, <1>4, <1>3 DEF LevelsRight, FrameRight, Holding, Splitting
<1>7. Apart' /\ PlacesRight' /\ PacketsRight' /\ Counted' /\ SplitsRight' /\ SyncRight'
      /\ AsyncRight' /\ RootsRight'
  BY <1>1, <1>2, <1>3, <1>6, CalmStep DEF Emptyhanded, Holding, Active, Done
<1>8. RequestsRight'
  BY <1>1, <1>2, <1>3, LevelsAre, SameRequests DEF Returned, Deciding, Holding, Done, listVars
<1>9. QED BY <1>4, <1>5, <1>7, <1>8 DEF Inv

-----------------------------------------------------------------------------
(* Steps that move packets from one place to another.                      *)

\* Only where a packet goes, and whether it will be told of, changes.
Alike(q) ==
  /\ packet'[q].state = packet[q].state /\ packet'[q].type = packet[q].type
  /\ packet'[q].parent = packet[q].parent /\ packet'[q].IOCount = packet[q].IOCount
  /\ packet'[q].status = packet[q].status /\ packet'[q].event = packet[q].event
  /\ packet'[q].routine = packet[q].routine /\ packet'[q].request = packet[q].request
  /\ "FREEIOP" \in packet'[q].flags <=> "FREEIOP" \in packet[q].flags
  /\ "COMPLETE" \in packet'[q].flags <=> "COMPLETE" \in packet[q].flags
  /\ ~Live(q) => packet'[q] = packet[q]
  /\ ~Whole(q) => packet'[q].at = packet[q].at
  /\ packet'[q].at # packet[q].at => packet'[q].at # "fats"

LEMMA AlikeStep ==
  ASSUME Inv, \A q \in Packet : Alike(q), UNCHANGED <<made, failed>>, OnWay' = OnWay
  PROVE  /\ PacketsRight' /\ Counted' /\ RootsRight'
         /\ \A q \in Packet : /\ (Live(q))' = Live(q) /\ (Whole(q))' = Whole(q)
                              /\ (PartsOf(q))' = PartsOf(q) /\ (Own(q))' = Own(q)
<1>1. \A q \in Packet : /\ (Live(q))' = Live(q) /\ (Whole(q))' = Whole(q)
                        /\ (PartsOf(q))' = PartsOf(q) /\ (Own(q))' = Own(q)
  <2>1. \A q \in Packet : (Live(q))' = Live(q) /\ (Whole(q))' = Whole(q)
    BY DEF Alike, Live, Whole
  <2>2. \A q \in Packet : (PartsOf(q))' = PartsOf(q)
    BY DEF Alike, PartsOf
  <2>3. \A q \in Packet : (Own(q))' = Own(q)
    BY DEF Own
  <2>4. QED BY <2>1, <2>2, <2>3
<1>2. ASSUME NEW p \in Packet PROVE PacketRight(p)'
  <2>1. PacketRight(p) /\ Alike(p)
    BY DEF Inv, PacketsRight
  <2>2. packet[p].parent \in Packet \cup {None}
    BY DEF Inv, Typed, PacketRecord
  <2>3. packet[p].parent # None => Alike(packet[p].parent)
    BY <2>2
  <2>4. QED BY <1>1, <2>1, <2>2, <2>3 DEF PacketRight, Alike
<1>3. Counted'
  BY <1>1 DEF Inv, Counted, Alike
<1>4. RootsRight'
  BY <1>1 DEF Inv, RootsRight, Alike
<1>5. QED BY <1>1, <1>2, <1>3, <1>4 DEF PacketsRight

LEMMA AlikeSync ==
  ASSUME Inv, \A q \in Packet : Alike(q), UNCHANGED <<signaled, made>>,
         \A k \in Level : /\ frame'[k].own = frame[k].own /\ frame'[k].how = frame[k].how
                          /\ Active(k)' <=> Active(k)
  PROVE  SyncRight'
<1> SUFFICES ASSUME NEW l \in Level
             PROVE  /\ \A p \in Packet : (Live(p))' /\ packet'[p].event = l =>
                         (Active(l))' /\ frame'[l].how = "sync" /\ frame'[l].own = p
                    /\ (Active(l))' /\ frame'[l].how = "sync" =>
                         /\ frame'[l].own \in Packet /\ (Live(frame[l].own))'
                         /\ packet'[frame'[l].own].event = l /\ packet'[frame'[l].own].type = "normal"
                         /\ packet'[frame'[l].own].request = IF l = "thread" THEN made' ELSE 0
                         /\ signaled'[l] => packet'[frame'[l].own].IOCount = 0
  BY DEF SyncRight
<1>1. \A p \in Packet : (Live(p))' = Live(p)
  BY DEF Alike, Live
<1>2. \A p \in Packet : Live(p) /\ packet[p].event = l =>
        Active(l) /\ frame[l].how = "sync" /\ frame[l].own = p
  BY DEF Inv, SyncRight
<1>3. Active(l) /\ frame[l].how = "sync" =>
         /\ frame[l].own \in Packet /\ Live(frame[l].own)
         /\ packet[frame[l].own].event = l /\ packet[frame[l].own].type = "normal"
         /\ packet[frame[l].own].request = IF l = "thread" THEN made ELSE 0
         /\ signaled[l] => packet[frame[l].own].IOCount = 0
  BY DEF Inv, SyncRight
<1>4. CASE Active(l) /\ frame[l].how = "sync"
  <2>1. frame'[l].own \in Packet /\ Alike(frame'[l].own) /\ (Live(frame[l].own))' = Live(frame'[l].own)
    BY <1>3, <1>4 DEF Alike, Live
  <2>2. QED BY <1>1, <1>2, <1>3, <1>4, <2>1 DEF Alike
<1>5. CASE ~(Active(l) /\ frame[l].how = "sync")
  BY <1>1, <1>2, <1>5 DEF Alike
<1>6. QED BY <1>4, <1>5

\* Packets that stay where they are, go from hands to a queue, or leave, are
\* where they should be.
LEMMA PlacesKept ==
  ASSUME Inv, OnWay' \subseteq OnWay, deferred' = deferred,
         \A q \in OnWay' : /\ (Live(q))' /\ "COMPLETE" \notin packet'[q].flags
                           /\ (Whole(q))' <=> Whole(q)
                           /\ packet'[q].parent = packet[q].parent
                           /\ packet'[q].request = packet[q].request,
         \A q \in queue' : q \in queue \/ Whole(q) \/ packet[q].parent # None,
         \A k \in Level : /\ frame'[k].rest = frame[k].rest /\ frame'[k].frags = frame[k].frags
                          /\ frame'[k].pc \in Holding =>
                               /\ frame[k].pc \in Holding
                               /\ frame'[k].iop = frame[k].iop /\ frame'[k].master = frame[k].master
                          /\ frame'[k].frags # <<>> => frame'[k].pc \in Holding
  PROVE  PlacesRight'
<1>1. \A k \in Level : HandsOf(k)' \subseteq OnWay'
  BY LevelsAre DEF OnWay
<1>2. Range(deferred') \subseteq OnWay' /\ queue' \subseteq OnWay'
  BY DEF OnWay
<1>3. ASSUME NEW k \in Level PROVE PlaceRight(k)'
  <2>1. PlaceRight(k)
    BY DEF Inv, PlacesRight
  <2>2. /\ frame'[k].pc \in Holding => frame'[k].iop \in OnWay'
        /\ Range(frame'[k].rest) \subseteq OnWay' /\ Range(frame'[k].frags) \subseteq OnWay'
    BY <1>1 DEF HandsOf, Carried
  <2>3. Range(frame'[k].frags) # {} => frame'[k].pc \in Holding
    BY EmptyList
  <2>4. frame'[k].pc \in Holding =>
          /\ Whole(frame[k].iop)' = Whole(frame[k].iop)
          /\ packet'[frame[k].iop].request = packet[frame[k].iop].request
          /\ packet'[frame[k].iop].parent = packet[frame[k].iop].parent
    <3>1. frame'[k].pc \in Holding => frame'[k].iop = frame[k].iop /\ frame[k].iop \in OnWay'
      BY <2>2
    <3>2. QED BY <3>1 DEF Whole
  <2>5. /\ frame'[k].pc \in Holding => (Whole(frame[k].iop)' <=> frame'[k].master)
        /\ frame'[k].pc \in Holding /\ ~frame'[k].master => packet'[frame'[k].iop].parent # None
    BY <2>1, <2>4 DEF PlaceRight
  <2>6. \A p \in Range(frame'[k].rest) : ~(Whole(p))' /\ packet'[p].parent # None
    BY <2>1, <2>2 DEF PlaceRight
  <2>7. \A p \in Range(frame'[k].frags) : ~(Whole(p))' /\ packet'[p].parent = None
                                         /\ packet'[p].request = packet'[frame'[k].iop].request
    BY <2>1, <2>2, <2>3, <2>4 DEF PlaceRight
  <2>8. QED BY <2>5, <2>6, <2>7 DEF PlaceRight
<1>4. \A p \in Range(deferred') : ~(Whole(p))' /\ packet'[p].parent # None
  BY <1>2 DEF Inv, PlacesRight
<1>5. \A p \in queue' : ~(Whole(p))' => packet'[p].parent # None
  BY <1>2 DEF Inv, PlacesRight
<1>6. QED BY <1>3, <1>4, <1>5 DEF PlacesRight

LEMMA AlikePlaces ==
  ASSUME Inv, \A q \in Packet : Alike(q), OnWay' = OnWay, UNCHANGED <<queue, deferred>>,
         \A k \in Level : /\ frame'[k].rest = frame[k].rest /\ frame'[k].frags = frame[k].frags
                          /\ frame'[k].iop = frame[k].iop /\ frame'[k].master = frame[k].master
                          /\ frame'[k].pc \in Holding <=> frame[k].pc \in Holding
  PROVE  PlacesRight'
<1>1. \A q \in OnWay : /\ q \in Packet /\ Alike(q) /\ Live(q) /\ "COMPLETE" \notin packet[q].flags
  BY HandsAre DEF Inv, PlacesRight
<1>2. \A q \in OnWay' : /\ (Live(q))' /\ "COMPLETE" \notin packet'[q].flags
                        /\ (Whole(q))' <=> Whole(q)
                        /\ packet'[q].parent = packet[q].parent
                        /\ packet'[q].request = packet[q].request
  BY <1>1 DEF Alike, Live, Whole
<1>3. \A k \in Level : frame'[k].frags # <<>> => frame'[k].pc \in Holding
  BY DEF Inv, LevelsRight, FrameRight, Holding, Splitting
<1>4. QED BY <1>2, <1>3, PlacesKept

LEMMA ReadCountInv ==
  ASSUME Inv, NEW l \in Level, ReadCount(l)
  PROVE  Inv'
<1>1. /\ frame[l].pc = "associate" /\ frame[l].frags # <<>>
      /\ frame' = [frame EXCEPT ![l].pc = "bump", ![l].count = packet[Iop(l)].IOCount]
      /\ UNCHANGED <<packet, queue, deferred, listVars, signaled, made, told, failed>>
  BY DEF ReadCount, Busy
<1>2. frame[l].iop \in Packet /\ frame[l].master
  BY <1>1 DEF Inv, LevelsRight, FrameRight, Holding, Splitting
<1>3. /\ frame' \in [Level -> FrameRecord]
      /\ frame'[l].pc = "bump" /\ frame'[l].how = frame[l].how /\ frame'[l].own = frame[l].own
      /\ frame'[l].iop = frame[l].iop /\ frame'[l].rest = frame[l].rest
      /\ frame'[l].frags = frame[l].frags /\ frame'[l].master = frame[l].master
      /\ frame'[l].ok = frame[l].ok /\ frame'[l].count = packet[frame[l].iop].IOCount
      /\ \A k \in Level \ {l} : frame'[k] = frame[k]
  <2>1. frame \in [Level -> FrameRecord] /\ frame[l] \in FrameRecord
    BY DEF Inv, Typed
  <2>2. packet[frame[l].iop].IOCount \in Int
    BY <1>2 DEF Inv, Typed, PacketRecord
  <2> DEFINE f == [frame[l] EXCEPT !.pc = "bump", !.count = packet[frame[l].iop].IOCount]
  <2>3. /\ f \in FrameRecord
        /\ f.pc = "bump" /\ f.how = frame[l].how /\ f.own = frame[l].own
        /\ f.iop = frame[l].iop /\ f.rest = frame[l].rest
        /\ f.frags = frame[l].frags /\ f.master = frame[l].master
        /\ f.ok = frame[l].ok /\ f.count = packet[frame[l].iop].IOCount
    BY <2>1, <2>2 DEF FrameRecord, PCs
  <2>4. frame' = [frame EXCEPT ![l] = f]
    BY <1>1, <2>1 DEF Iop
  <2> HIDE DEF f
  <2>5. QED BY <2>1, <2>3, <2>4
<1>4. LevelsRight'
  BY <1>1, <1>2, <1>3, LevelsAre DEF Inv, LevelsRight, FrameRight, Holding, Splitting, listVars
<1>5. Typed'
  BY <1>1, <1>3 DEF Inv, Typed, listVars
<1>6. /\ \A k \in Level : Carried(k)' = Carried(k) /\ HandsOf(k)' = HandsOf(k)
      /\ OnWay' = OnWay
      /\ \A k \in Level : /\ frame'[k].rest = frame[k].rest /\ frame'[k].frags = frame[k].frags
                          /\ frame'[k].iop = frame[k].iop /\ frame'[k].master = frame[k].master
                          /\ frame'[k].own = frame[k].own /\ frame'[k].how = frame[k].how
                          /\ frame'[k].pc \in Holding <=> frame[k].pc \in Holding
                          /\ frame'[k].pc \in Splitting <=> frame[k].pc \in Splitting
                          /\ Active(k)' <=> Active(k)
  <2>1. \A k \in Level : /\ frame'[k].rest = frame[k].rest /\ frame'[k].frags = frame[k].frags
                         /\ frame'[k].iop = frame[k].iop /\ frame'[k].master = frame[k].master
                         /\ frame'[k].own = frame[k].own /\ frame'[k].how = frame[k].how
                         /\ frame'[k].pc \in Holding <=> frame[k].pc \in Holding
                         /\ frame'[k].pc \in Splitting <=> frame[k].pc \in Splitting
                         /\ Active(k)' <=> Active(k)
    BY <1>1, <1>3 DEF Holding, Splitting, Active, Done
  <2>2. \A k \in Level : Carried(k)' = Carried(k)
    BY <2>1 DEF Carried
  <2>3. \A k \in Level : HandsOf(k)' = HandsOf(k)
    BY <2>1, <2>2 DEF HandsOf
  <2>4. QED BY <1>1, <2>1, <2>2, <2>3, LevelsAre DEF OnWay
<1>7. \A q \in Packet : Alike(q)
  BY <1>1 DEF Alike
<1>8. PacketsRight' /\ Counted' /\ RootsRight' /\ SyncRight'
  BY <1>1, <1>6, <1>7, AlikeStep, AlikeSync
<1>9. Apart'
  BY <1>1, <1>6, LevelsAre DEF Inv, Apart
<1>10. PlacesRight'
  <2>1. \A q : (Live(q))' = Live(q) /\ (Whole(q))' = Whole(q) /\ packet'[q] = packet[q]
    BY <1>1 DEF Live, Whole
  <2>2. \A k \in Level : PlaceRight(k)'
    <3> SUFFICES ASSUME NEW k \in Level PROVE PlaceRight(k)'
      OBVIOUS
    <3>1. PlaceRight(k)
      BY DEF Inv, PlacesRight
    <3>2. QED BY <1>1, <1>6, <3>1 DEF PlaceRight, Whole
  <2>3. QED BY <1>1, <1>6, <2>1, <2>2 DEF Inv, PlacesRight
<1>11. SplitsRight'
  BY <1>1, <1>2, <1>3, <1>6 DEF Inv, SplitsRight, Live, PartsOf
<1>12. AsyncRight'
  BY <1>1, <1>3, <1>6, LevelsAre DEF Inv, AsyncRight, AsyncPacketRight, Live, LeftBehind, listVars
<1>13. RequestsRight'
  BY <1>1, <1>3, <1>6, LevelsAre, SameRequests DEF Returned, Deciding, Holding, Done, listVars
<1>14. QED BY <1>4, <1>5, <1>8, <1>9, <1>10, <1>11, <1>12, <1>13 DEF Inv

\* The lists of asynchronous packets and what the sender knows, when packets
\* are but sent on.
LEMMA AlikeAsync ==
  ASSUME Inv, \A q \in Packet : Alike(q), UNCHANGED <<iolist, apcs, userapcs, finishing, made>>,
         \A q \in Packet : "DOCOMPLT" \in packet'[q].flags /\ "DOCOMPLT" \notin packet[q].flags =>
                           packet[q].IOCount > 0,
         Deciding' /\ frame'["thread"].how = "async" =>
           Deciding /\ frame["thread"].how = "async" /\ frame'["thread"].iop = frame["thread"].iop,
         frame'["thread"].pc = "gone" => frame["thread"].pc = "gone"
  PROVE  AsyncRight'
<1>1. \A q \in Packet : /\ (Live(q))' = Live(q)
                        /\ packet[q].IOCount = 0 => (LeftBehind(q) => (LeftBehind(q))')
                        /\ packet'[q].type = packet[q].type /\ packet'[q].IOCount = packet[q].IOCount
                        /\ packet'[q].event = packet[q].event /\ packet'[q].request = packet[q].request
  BY DEF Alike, Live, LeftBehind
<1>2. /\ apcs' \subseteq iolist' /\ finishing' \in iolist' \cup {None} /\ finishing' \notin apcs'
      /\ userapcs' \cap iolist' = {}
  BY DEF Inv, AsyncRight
<1>3. iolist \subseteq Packet /\ userapcs \subseteq Packet
  BY DEF Inv, Typed
<1>4. ASSUME NEW p \in Packet PROVE AsyncPacketRight(p)'
  <2>1. AsyncPacketRight(p)
    BY DEF Inv, AsyncRight
  <2>2. QED BY <1>1, <2>1 DEF AsyncPacketRight
<1>6. Deciding' /\ frame'["thread"].how = "async" =>
       frame'["thread"].iop \in iolist' /\ packet'[frame'["thread"].iop].request = made'
  BY <1>1, <1>3 DEF Inv, AsyncRight, AsyncPacketRight, Deciding
<1>7. frame'["thread"].pc = "gone" => iolist' = {} /\ userapcs' = {}
  BY DEF Inv, AsyncRight
<1>8. Deciding' <=> frame'["thread"].pc \in Holding /\ frame'["thread"].master
  BY DEF Deciding
<1>9. QED BY <1>2, <1>4, <1>6, <1>7, <1>8 DEF AsyncRight

LEMMA AlikeRequests ==
  ASSUME Inv, \A q \in Packet : Alike(q), UNCHANGED <<iolist, made, told, failed>>,
         \A q \in iolist : packet'[q].flags = packet[q].flags,
         frame'["thread"].how = frame["thread"].how, frame'["thread"].ok = frame["thread"].ok,
         Deciding' <=> Deciding, Returned(made)' <=> Returned(made)
  PROVE  RequestsRight'
<1>1. ASSUME NEW r \in 1..MaxRequests PROVE RequestRight(r)'
  <2>1. RequestRight(r)
    BY DEF Inv, RequestsRight
  <2>2. (Returned(r))' <=> Returned(r)
    <3>1. r \in Int /\ made \in Int
      BY BoundAssumption DEF Inv, Typed
    <3>2. QED BY <3>1 DEF Returned
  <2>3. \A q \in Packet : /\ (Live(q))' = Live(q) /\ packet'[q].request = packet[q].request
                          /\ packet'[q].IOCount = packet[q].IOCount
                          /\ packet'[q].status = packet[q].status
    BY DEF Alike, Live
  <2>4. iolist \subseteq Packet
    BY DEF Inv, Typed
  <2>5. QED BY <2>1, <2>2, <2>3, <2>4 DEF RequestRight
<1>2. QED BY <1>1 DEF RequestsRight

\* What can be said of a packet when it is sent to another driver.
LEMMA SentTo ==
  ASSUME Typed, NEW i \in Packet, NEW x \in Targets \cup Devices,
         packet' = [packet EXCEPT ![i].at = x]
  PROVE  /\ packet' \in [Packet -> PacketRecord]
         /\ \A q \in Packet \ {i} : packet'[q] = packet[q]
         /\ packet'[i].state = packet[i].state /\ packet'[i].type = packet[i].type
         /\ packet'[i].parent = packet[i].parent /\ packet'[i].IOCount = packet[i].IOCount
         /\ packet'[i].status = packet[i].status /\ packet'[i].flags = packet[i].flags
         /\ packet'[i].at = x /\ packet'[i].event = packet[i].event
         /\ packet'[i].routine = packet[i].routine /\ packet'[i].request = packet[i].request
<1>1. packet \in [Packet -> PacketRecord] /\ packet[i] \in PacketRecord
  BY DEF Typed
<1> DEFINE r == [packet[i] EXCEPT !.at = x]
<1>2. /\ r \in PacketRecord
      /\ r.state = packet[i].state /\ r.type = packet[i].type
      /\ r.parent = packet[i].parent /\ r.IOCount = packet[i].IOCount
      /\ r.status = packet[i].status /\ r.flags = packet[i].flags
      /\ r.at = x /\ r.event = packet[i].event
      /\ r.routine = packet[i].routine /\ r.request = packet[i].request
  BY <1>1 DEF PacketRecord
<1>3. packet' = [packet EXCEPT ![i] = r]
  BY <1>1
<1> HIDE DEF r
<1>4. QED BY <1>1, <1>2, <1>3

LEMMA PassOnInv ==
  ASSUME Inv, NEW l \in Level, PassOn(l)
  PROVE  Inv'
<1> DEFINE i == frame[l].iop
<1>1. /\ frame[l].pc \in {"dispatch", "associate"} /\ Goto(l, "dispatch") /\ Runs(l)
      /\ frame[l].pc = "dispatch" => packet[i].at = "volume"
      /\ frame[l].pc = "associate" => frame[l].frags = <<>>
      /\ packet' = [packet EXCEPT ![i].at = IF packet[i].at = "volume" THEN "disk" ELSE "part"]
      /\ UNCHANGED <<queue, deferred, listVars, signaled, made, told, failed>>
  BY DEF PassOn, Busy, At, Iop
<1>2. i \in Packet /\ i \in HandsOf(l) /\ "dispatch" \in PCs
  BY <1>1 DEF Inv, LevelsRight, FrameRight, Holding, HandsOf, Carried, PCs
<1>3. i \in OnWay /\ Live(i) /\ Whole(i)
  <2>1. i \in OnWay
    BY <1>2, OnWayIs
  <2>2. packet[i].at # "part"
    BY <1>1, <1>2 DEF Inv, SplitsRight, Splitting
  <2>3. QED BY <2>1, <2>2, <1>2 DEF Inv, PlacesRight, PacketsRight, PacketRight
<1>4. /\ frame' \in [Level -> FrameRecord]
      /\ frame'[l].pc = "dispatch" /\ frame'[l].how = frame[l].how /\ frame'[l].own = frame[l].own
      /\ frame'[l].iop = i /\ frame'[l].rest = frame[l].rest
      /\ frame'[l].frags = frame[l].frags /\ frame'[l].master = frame[l].master
      /\ frame'[l].ok = frame[l].ok /\ frame'[l].count = frame[l].count
      /\ \A k \in Level \ {l} : frame'[k] = frame[k]
  BY <1>1, <1>2, GotoIs DEF Inv
<1> DEFINE x == IF packet[i].at = "volume" THEN "disk" ELSE "part"
<1>5. x \in Targets \cup Devices /\ x # "fats" /\ x # "volume"
  BY DEF Targets, Devices
<1>6. packet' = [packet EXCEPT ![i].at = x]
  BY <1>1
<1> HIDE DEF i, x
<1>7. /\ packet' \in [Packet -> PacketRecord]
      /\ \A q \in Packet \ {i} : packet'[q] = packet[q]
      /\ packet'[i].state = packet[i].state /\ packet'[i].type = packet[i].type
      /\ packet'[i].parent = packet[i].parent /\ packet'[i].IOCount = packet[i].IOCount
      /\ packet'[i].status = packet[i].status /\ packet'[i].flags = packet[i].flags
      /\ packet'[i].at = x /\ packet'[i].event = packet[i].event
      /\ packet'[i].routine = packet[i].routine /\ packet'[i].request = packet[i].request
  BY <1>2, <1>5, <1>6, SentTo DEF Inv
<1>8. \A q \in Packet : Alike(q)
  BY <1>3, <1>5, <1>7 DEF Alike
<1>9. LevelsRight'
  BY <1>1, <1>2, <1>4, LevelsAre DEF Inv, LevelsRight, FrameRight, Holding, Splitting, listVars, i
<1>10. Typed'
  BY <1>1, <1>4, <1>7 DEF Inv, Typed, listVars
<1>11. /\ \A k \in Level : Carried(k)' = Carried(k) /\ HandsOf(k)' = HandsOf(k)
       /\ OnWay' = OnWay
       /\ \A k \in Level : /\ frame'[k].rest = frame[k].rest /\ frame'[k].frags = frame[k].frags
                           /\ frame'[k].iop = frame[k].iop /\ frame'[k].master = frame[k].master
                           /\ frame'[k].own = frame[k].own /\ frame'[k].how = frame[k].how
                           /\ frame'[k].ok = frame[k].ok
                           /\ frame'[k].pc \in Holding <=> frame[k].pc \in Holding
                           /\ frame'[k].pc \in Splitting => frame[k].pc \in Splitting /\ k # l
                           /\ Active(k)' <=> Active(k)
  <2>1. \A k \in Level : /\ frame'[k].rest = frame[k].rest /\ frame'[k].frags = frame[k].frags
                         /\ frame'[k].iop = frame[k].iop /\ frame'[k].master = frame[k].master
                         /\ frame'[k].own = frame[k].own /\ frame'[k].how = frame[k].how
                         /\ frame'[k].ok = frame[k].ok
                         /\ frame'[k].pc \in Holding <=> frame[k].pc \in Holding
                         /\ frame'[k].pc \in Splitting => frame[k].pc \in Splitting /\ k # l
                         /\ Active(k)' <=> Active(k)
    BY <1>1, <1>4 DEF Holding, Splitting, Active, Done, i
  <2>2. \A k \in Level : Carried(k)' = Carried(k)
    BY <2>1 DEF Carried
  <2>3. \A k \in Level : HandsOf(k)' = HandsOf(k)
    BY <2>1, <2>2 DEF HandsOf
  <2>4. QED BY <1>1, <2>1, <2>2, <2>3, LevelsAre DEF OnWay
<1>12. PacketsRight' /\ Counted' /\ RootsRight'
       /\ \A q \in Packet : /\ (Live(q))' = Live(q) /\ (Whole(q))' = Whole(q)
                            /\ (PartsOf(q))' = PartsOf(q) /\ (Own(q))' = Own(q)
  BY <1>1, <1>8, <1>11, AlikeStep
<1>13. Apart'
  BY <1>1, <1>11, LevelsAre DEF Inv, Apart
<1>14. PlacesRight'
  BY <1>1, <1>8, <1>11, AlikePlaces
<1>15. SplitsRight'
  <2>1. \A p \in Packet : (Live(p))' /\ (PartsOf(p))' # {} =>
         packet'[p].at = "part" \/ \E k \in Level : frame'[k].pc \in Splitting /\ frame'[k].iop = p
    <3> SUFFICES ASSUME NEW p \in Packet, Live(p), PartsOf(p) # {}
                 PROVE packet'[p].at = "part" \/ \E k \in Level : frame'[k].pc \in Splitting /\ frame'[k].iop = p
      BY <1>12
    <3>1. packet[p].at = "part" \/ \E k \in Level : frame[k].pc \in Splitting /\ frame[k].iop = p
      BY DEF Inv, SplitsRight
    <3>2. \A k \in Level \ {l} : frame[k].pc \in Splitting => frame[k].iop # i
      <4>1. \A k \in Level \ {l} : frame[k].pc \in Splitting => frame[k].iop \in HandsOf(k)
        BY DEF Holding, Splitting, HandsOf, Carried
      <4>2. QED BY <4>1, <1>2, LevelsAre DEF Inv, Apart
    <3>3. CASE p = i
      <4>1. CASE frame[l].pc = "dispatch"
        <5>1. frame[l].pc \notin Splitting /\ packet[i].at = "volume"
          BY <4>1, <1>1 DEF Splitting, i
        <5>2. QED BY <5>1, <3>1, <3>2, <3>3
      <4>2. CASE frame[l].pc = "associate"
        <5>1. packet[i].at = "file"
          BY <4>2 DEF Inv, SplitsRight, Splitting, i
        <5>2. QED BY <5>1, <3>3, <1>7 DEF x
      <4>3. QED BY <4>1, <4>2, <1>1
    <3>4. CASE p # i
      <4>1. \A k \in Level \ {l} : frame'[k] = frame[k]
        BY <1>4
      <4>2. l \in Level /\ frame[l].iop # p
        BY <3>4 DEF i
      <4>3. QED BY <3>1, <3>4, <4>1, <4>2, <1>7
    <3>5. QED BY <3>3, <3>4
  <2>2. ASSUME NEW k \in Level, frame'[k].pc \in Splitting
        PROVE  /\ (PartsOf(frame[k].iop))' \subseteq Range(deferred')
               /\ packet'[frame'[k].iop].at = "file"
               /\ frame'[k].pc = "bump" => frame'[k].count = packet'[frame'[k].iop].IOCount
    <3>1. frame[k].pc \in Splitting /\ k # l /\ frame'[k] = frame[k]
      BY <2>2, <1>11, <1>4
    <3>2. frame[k].iop \in HandsOf(k) /\ frame[k].iop \in Packet
      BY <3>1 DEF Inv, LevelsRight, FrameRight, Holding, Splitting, HandsOf, Carried
    <3>3. frame[k].iop # i
      BY <3>1, <3>2, <1>2, LevelsAre DEF Inv, Apart
    <3>4. packet'[frame[k].iop] = packet[frame[k].iop] /\ deferred' = deferred
      BY <3>2, <3>3, <1>1, <1>7
    <3>5. (PartsOf(frame[k].iop))' = PartsOf(frame[k].iop)
      BY <3>1, <1>8 DEF PartsOf, Alike
    <3>6. /\ PartsOf(frame[k].iop) \subseteq Range(deferred)
          /\ packet[frame[k].iop].at = "file"
          /\ frame[k].pc = "bump" => frame[k].count = packet[frame[k].iop].IOCount
      BY <3>1 DEF Inv, SplitsRight
    <3>7. QED BY <3>1, <3>4, <3>5, <3>6
  <2>3. ASSUME NEW k \in Level, frame'[k].pc \in Holding, frame'[k].master,
               packet'[frame'[k].iop].at # "part"
        PROVE  packet'[frame'[k].iop].status = "ok"
    <3>1. /\ frame[k].pc \in Holding /\ frame[k].master /\ frame'[k].iop = frame[k].iop
          /\ frame[k].iop \in Packet
      BY <2>3, <1>11 DEF Inv, LevelsRight, FrameRight
    <3>2. packet[frame[k].iop].at # "part" => packet[frame[k].iop].status = "ok"
      BY <3>1 DEF Inv, SplitsRight
    <3>3. CASE frame[k].iop # i
      BY <3>1, <3>2, <3>3, <2>3, <1>7
    <3>4. CASE frame[k].iop = i
      <4>1. packet[i].at = "volume"
        BY <3>1, <3>4, <2>3, <1>7 DEF x
      <4>2. QED BY <3>1, <3>2, <3>4, <4>1, <1>7
    <3>5. QED BY <3>3, <3>4
  <2>4. (\A p \in Packet : Live(p) /\ PartsOf(p) # {} =>
         packet[p].at = "part" \/ \E k \in Level : frame[k].pc \in Splitting /\ frame[k].iop = p)'
    BY <2>1
  <2>5. QED
    BY <2>2, <2>3, <2>4 DEF SplitsRight
<1>16. SyncRight'
  BY <1>1, <1>8, <1>11, AlikeSync
<1>17. Deciding' <=> Deciding
  BY <1>11, LevelsAre DEF Deciding
<1>18. AsyncRight'
  BY <1>1, <1>4, <1>7, <1>8, <1>11, <1>17, LevelsAre, AlikeAsync DEF listVars
<1>19. (Returned(made))' <=> Returned(made)
  BY <1>1, <1>4, LevelsAre DEF Returned, Done
<1>20. RequestsRight'
  BY <1>1, <1>7, <1>8, <1>11, <1>17, <1>19, LevelsAre, AlikeRequests DEF listVars, Inv, Typed
<1>21. QED BY <1>9, <1>10, <1>12, <1>13, <1>14, <1>15, <1>16, <1>18, <1>20 DEF Inv

\* The dispatch function returns: the packet leaves the hands of its level.
LEMMA LeaveHands ==
  ASSUME Inv, NEW l \in Level, Busy(l, "dispatch"), NEW e \in Statuses, Leave(l, e),
         UNCHANGED <<deferred, finishing>>, queue' \subseteq queue \cup {frame[l].iop}
  PROVE  /\ frame' \in [Level -> FrameRecord]
         /\ frame'[l].pc = "next" /\ frame'[l].how = frame[l].how /\ frame'[l].own = frame[l].own
         /\ frame'[l].rest = frame[l].rest /\ frame'[l].frags = <<>> /\ frame[l].frags = <<>>
         /\ frame'[l].ok = IF frame[l].master THEN e ELSE frame[l].ok
         /\ \A k \in Level \ {l} : frame'[k] = frame[k]
         /\ frame[l].iop \in Packet /\ frame[l].iop \in HandsOf(l) /\ frame[l].iop \in OnWay
         /\ HandsOf(l)' = HandsOf(l) \ {frame[l].iop}
         /\ \A k \in Level \ {l} : HandsOf(k)' = HandsOf(k) /\ frame[l].iop \notin HandsOf(k)
         /\ frame[l].iop \notin queue \cup Range(deferred)
         /\ \A k \in Level : /\ frame'[k].own = frame[k].own /\ frame'[k].how = frame[k].how
                             /\ frame'[k].rest = frame[k].rest /\ frame'[k].frags = frame[k].frags
                             /\ Active(k)' <=> Active(k)
                             /\ frame'[k].pc \in Holding => k # l /\ frame'[k] = frame[k]
                             /\ frame'[k].pc \in Splitting => k # l /\ frame'[k] = frame[k]
                             /\ frame[k].pc \in Splitting => k # l /\ frame'[k] = frame[k]
         /\ LevelsRight' /\ Apart'
<1> DEFINE i == frame[l].iop
           ok == IF frame[l].master THEN e ELSE frame[l].ok
<1>1. /\ frame[l].pc = "dispatch" /\ Runs(l)
      /\ frame' = [frame EXCEPT ![l].pc = "next", ![l].ok = ok]
  BY DEF Busy, Leave, OkAfter
<1>2. "next" \in PCs /\ ok \in Statuses
  BY FrameFields DEF PCs, Inv
<1>3. /\ frame' \in [Level -> FrameRecord]
      /\ frame'[l].pc = "next" /\ frame'[l].how = frame[l].how /\ frame'[l].own = frame[l].own
      /\ frame'[l].iop = frame[l].iop /\ frame'[l].rest = frame[l].rest
      /\ frame'[l].frags = frame[l].frags /\ frame'[l].master = frame[l].master
      /\ frame'[l].ok = ok
      /\ \A k \in Level \ {l} : frame'[k] = frame[k]
  <2>1. Typed
    BY DEF Inv
  <2>2. LeaveTo(l, "next", ok)
    BY <1>1 DEF LeaveTo
  <2> HIDE DEF ok
  <2>3. QED BY <1>2, <2>1, <2>2, LeaveIs
<1>4. frame[l].frags = <<>> /\ i \in Packet /\ Carried(l) = {i} /\ Carried(l)' = {}
  BY <1>1, <1>3 DEF Inv, LevelsRight, FrameRight, Holding, Splitting, Carried
<1>5. i \in HandsOf(l) /\ HandsOf(l)' = HandsOf(l) \ {i}
  <2>1. HandsOf(l) = {i} \cup Range(frame[l].rest)
    BY <1>4, EmptyList DEF HandsOf
  <2>2. HandsOf(l)' = Range(frame[l].rest)
    BY <1>3, <1>4, EmptyList DEF HandsOf
  <2>3. i \notin Range(frame[l].rest)
    BY <1>4 DEF Inv, Apart
  <2>4. QED BY <2>1, <2>2, <2>3
<1>6. \A k \in Level \ {l} : HandsOf(k)' = HandsOf(k) /\ Carried(k)' = Carried(k)
  BY <1>3 DEF HandsOf, Carried
<1>7. i \in OnWay
  BY <1>5, OnWayIs
<1>8. i \notin queue \cup Range(deferred) /\ \A k \in Level \ {l} : i \notin HandsOf(k)
  BY <1>5, LevelsAre DEF Inv, Apart
<1>9. \A k \in Level : /\ frame'[k].own = frame[k].own /\ frame'[k].how = frame[k].how
                       /\ frame'[k].rest = frame[k].rest /\ frame'[k].frags = frame[k].frags
                       /\ Active(k)' <=> Active(k)
                       /\ frame'[k].pc \in Holding => k # l /\ frame'[k] = frame[k]
                       /\ frame'[k].pc \in Splitting => k # l /\ frame'[k] = frame[k]
                       /\ frame[k].pc \in Splitting => k # l /\ frame'[k] = frame[k]
  BY <1>1, <1>3 DEF Active, Done, Holding, Splitting
<1>10. LevelsRight'
  BY <1>1, <1>3, <1>4, LevelsAre DEF Inv, LevelsRight, FrameRight, Holding, Splitting
<1>11. Apart'
  <2>1. queue' \cap Range(deferred) = {}
    BY <1>8 DEF Inv, Apart
  <2>2. HandsOf("thread")' \cap HandsOf("apc")' = {}
    BY <1>5, <1>6, LevelsAre DEF Inv, Apart
  <2>3. \A k \in Level : HandsOf(k)' \cap (queue' \cup Range(deferred)) = {}
    BY <1>5, <1>6, <1>8 DEF Inv, Apart
  <2>4. \A k \in Level : /\ IsInjective(frame'[k].rest) /\ IsInjective(frame'[k].frags)
                         /\ Carried(k)' \subseteq Carried(k)
                         /\ frame'[k].rest = frame[k].rest /\ frame'[k].frags = frame[k].frags
    BY <1>4, <1>6, <1>9 DEF Inv, Apart
  <2>5. \A k \in Level : /\ Carried(k)' \cap Range(frame'[k].rest) = {}
                         /\ Carried(k)' \cap Range(frame'[k].frags) = {}
                         /\ Range(frame'[k].rest) \cap Range(frame'[k].frags) = {}
    BY <2>4 DEF Inv, Apart
  <2>6. QED BY <2>1, <2>2, <2>3, <2>4, <2>5 DEF Inv, Apart
<1>12. QED BY <1>3, <1>4, <1>5, <1>6, <1>7, <1>8, <1>9, <1>10, <1>11

\* Masters that are split stay so while other packets move or end.
LEMMA SplitsKept ==
  ASSUME Inv, deferred' = deferred,
         \A k \in Level : /\ frame'[k].pc \in Holding =>
                               /\ frame[k].pc \in Holding
                               /\ frame'[k].iop = frame[k].iop /\ frame'[k].master = frame[k].master
                          /\ frame'[k].pc \in Splitting => frame'[k] = frame[k]
                          /\ frame[k].pc \in Splitting => frame'[k] = frame[k],
         \A q \in Packet : (Live(q))' => /\ Live(q) /\ (PartsOf(q))' \subseteq PartsOf(q)
                                         /\ packet'[q].at = packet[q].at,
         \A k \in Level : frame[k].pc \in Splitting =>
                           /\ packet'[frame[k].iop].IOCount = packet[frame[k].iop].IOCount
                           /\ (Live(frame[k].iop))',
         \A k \in Level : frame'[k].pc \in Holding /\ frame[k].master /\ packet[frame[k].iop].at # "part" =>
                          packet'[frame[k].iop].status = packet[frame[k].iop].status,
         \A k \in Level : frame'[k].pc \in Holding => (Live(frame[k].iop))'
  PROVE  SplitsRight'
<1>1. ASSUME NEW p \in Packet, (Live(p))', (PartsOf(p))' # {}
      PROVE  packet'[p].at = "part" \/ \E k \in Level : frame'[k].pc \in Splitting /\ frame'[k].iop = p
  <2>1. Live(p) /\ PartsOf(p) # {} /\ packet'[p].at = packet[p].at
    BY <1>1
  <2>2. packet[p].at = "part" \/ \E k \in Level : frame[k].pc \in Splitting /\ frame[k].iop = p
    BY <2>1 DEF Inv, SplitsRight
  <2>3. QED BY <2>1, <2>2
<1>2. ASSUME NEW k \in Level, frame'[k].pc \in Splitting
      PROVE  /\ (PartsOf(frame[k].iop))' \subseteq Range(deferred')
             /\ packet'[frame'[k].iop].at = "file"
             /\ frame'[k].pc = "bump" => frame'[k].count = packet'[frame'[k].iop].IOCount
  <2>1. frame'[k] = frame[k] /\ frame[k].pc \in Splitting
    BY <1>2
  <2>2. frame[k].iop \in Packet
    BY <2>1 DEF Inv, LevelsRight, FrameRight, Holding, Splitting
  <2>3. /\ PartsOf(frame[k].iop) \subseteq Range(deferred)
        /\ packet[frame[k].iop].at = "file"
        /\ frame[k].pc = "bump" => frame[k].count = packet[frame[k].iop].IOCount
    BY <2>1 DEF Inv, SplitsRight
  <2>4. (Live(frame[k].iop))' /\ packet'[frame[k].iop].IOCount = packet[frame[k].iop].IOCount
    BY <2>1
  <2>5. PICK j \in Packet : j = frame[k].iop
    BY <2>2
  <2>6. (PartsOf(frame[k].iop))' = (PartsOf(j))' /\ (Live(frame[k].iop))' = (Live(j))'
    BY <2>1, <2>5 DEF PartsOf, Live
  <2>7. (PartsOf(j))' \subseteq PartsOf(j) /\ packet'[j].at = packet[j].at
    BY <2>4, <2>6
  <2>8. QED BY <2>1, <2>3, <2>4, <2>5, <2>6, <2>7
<1>3. ASSUME NEW k \in Level, frame'[k].pc \in Holding, frame'[k].master,
             packet'[frame'[k].iop].at # "part"
      PROVE  packet'[frame'[k].iop].status = "ok"
  <2>1. /\ frame[k].pc \in Holding /\ frame[k].master /\ frame'[k].iop = frame[k].iop
        /\ frame[k].iop \in Packet
    BY <1>3 DEF Inv, LevelsRight, FrameRight
  <2>2. packet'[frame[k].iop].at = packet[frame[k].iop].at
    BY <1>3, <2>1 DEF Live
  <2>3. packet[frame[k].iop].at # "part" => packet[frame[k].iop].status = "ok"
    BY <2>1 DEF Inv, SplitsRight
  <2>4. QED BY <1>3, <2>1, <2>2, <2>3
<1>4. (\A p \in Packet : Live(p) /\ PartsOf(p) # {} =>
         packet[p].at = "part" \/ \E k \in Level : frame[k].pc \in Splitting /\ frame[k].iop = p)'
  BY <1>1
<1>5. QED BY <1>2, <1>3, <1>4 DEF SplitsRight

\* A packet that is on its way is not over, and its level carries no other
\* master.
LEMMA OnWayCounts ==
  ASSUME Inv, NEW i \in OnWay
  PROVE  /\ i \in Packet /\ Live(i) /\ packet[i].IOCount > 0 /\ packet[i].IOCount \in Int
         /\ packet[i].type = "userasync" => i \in iolist /\ i \notin apcs \cup userapcs \cup {finishing}
<1>1. i \in Packet /\ Live(i)
  BY HandsAre DEF Inv, PlacesRight
<1>2. packet[i].IOCount > 0 /\ packet[i].IOCount \in Int
  <2>1. CASE Whole(i)
    <3>1. packet[i].IOCount = 1 + Cardinality(PartsOf(i))
      BY <2>1, <1>1 DEF Inv, Counted, Own
    <3>2. Cardinality(PartsOf(i)) \in Nat
      BY <1>1, PartsFinite
    <3>3. QED BY <3>1, <3>2
  <2>2. CASE ~Whole(i)
    BY <2>2, <1>1 DEF Inv, PacketsRight, PacketRight
  <2>3. QED BY <2>1, <2>2
<1>3. AsyncPacketRight(i)
  BY <1>1 DEF Inv, AsyncRight
<1>4. QED BY <1>1, <1>2, <1>3 DEF AsyncPacketRight

\* The asynchronous packets are of requests that were made.
LEMMA ListedPackets ==
  ASSUME Inv
  PROVE  \A p \in iolist : /\ p \in Packet /\ Live(p) /\ Whole(p) /\ packet[p].type = "userasync"
                           /\ packet[p].request \in Int /\ packet[p].request <= made
<1> SUFFICES ASSUME NEW p \in iolist
             PROVE  /\ p \in Packet /\ Live(p) /\ Whole(p) /\ packet[p].type = "userasync"
                    /\ packet[p].request \in Int /\ packet[p].request <= made
  OBVIOUS
<1>1. p \in Packet /\ Live(p) /\ Whole(p) /\ packet[p].type = "userasync"
  BY DEF Inv, Typed, AsyncRight, AsyncPacketRight, Whole
<1>2. packet[p].request \in Request0
  BY <1>1 DEF Inv, Typed, PacketRecord
<1>3. packet[p].request <= made
  BY <1>1 DEF Inv, PacketsRight, PacketRight
<1>4. QED BY <1>1, <1>2, <1>3 DEF Request0

\* What a step does to the request whose call may still run does not touch
\* those before.
LEMMA OtherRequest ==
  ASSUME Inv, NEW r \in 1..MaxRequests, r # made,
         told'[r] = told[r], made' = made, r \in failed' => r \in failed, iolist' \subseteq iolist,
         \A p \in iolist \ iolist' : packet[p].request # r,
         \A q \in Packet : (Live(q))' /\ packet'[q].request = r =>
           /\ Live(q) /\ packet[q].request = r
           /\ packet[q].IOCount = 0 => packet'[q].IOCount = 0,
         \A p \in iolist : (Live(p))' /\ packet'[p].request = r =>
           /\ packet'[p].status = packet[p].status
           /\ "DOCOMPLT" \in packet'[p].flags <=> "DOCOMPLT" \in packet[p].flags,
         \A p \in iolist' : (Live(p))' /\ packet'[p].request = packet[p].request
  PROVE  RequestRight(r)'
<1>1. RequestRight(r)
  BY DEF Inv, RequestsRight
<1>2. r \in Int /\ made \in Int /\ (r < made \/ r > made)
  BY BoundAssumption DEF Inv, Typed
<1>3. CASE r < made
  <2>1. Returned(r) /\ (Returned(r))'
    BY <1>2, <1>3 DEF Returned
  <2>2. r <= made /\ ~(r > made) /\ iolist \subseteq Packet
    BY <1>2, <1>3 DEF Inv, Typed
  <2>3. QED BY <1>1, <2>1, <2>2 DEF RequestRight
<1>4. CASE r > made
  <2>1. \A p \in iolist : packet[p].request # r
    BY <1>2, <1>4, ListedPackets
  <2>2. told[r] = <<>> /\ r \notin failed
    BY <1>1, <1>4 DEF RequestRight
  <2>3. ~(r <= made) /\ Len(<<>>) = 0 /\ <<"ok">> # <<>>
    BY <1>2, <1>4
  <2>4. QED BY <1>4, <2>1, <2>2, <2>3 DEF RequestRight
<1>5. QED BY <1>2, <1>3, <1>4

LEMMA KeepInv ==
  ASSUME Inv, NEW l \in Level, Keep(l)
  PROVE  Inv'
<1> DEFINE i == frame[l].iop
<1>1. /\ Busy(l, "dispatch") /\ Leave(l, "ok") /\ frame[l].pc = "dispatch"
      /\ queue' = queue \cup {i}
      /\ packet' = [packet EXCEPT ![i].flags = @ \cup {"DOCOMPLT"}]
      /\ UNCHANGED <<deferred, listVars, signaled, made, told, failed>>
  BY DEF Keep, Iop, Busy
<1>2. "ok" \in Statuses /\ UNCHANGED finishing /\ queue' \subseteq queue \cup {frame[l].iop}
  BY <1>1 DEF Statuses, listVars
<1>3. /\ frame' \in [Level -> FrameRecord]
      /\ frame'[l].pc = "next" /\ frame'[l].how = frame[l].how /\ frame'[l].own = frame[l].own
      /\ frame'[l].rest = frame[l].rest /\ frame'[l].frags = <<>> /\ frame[l].frags = <<>>
      /\ frame'[l].ok = IF frame[l].master THEN "ok" ELSE frame[l].ok
      /\ \A k \in Level \ {l} : frame'[k] = frame[k]
      /\ i \in Packet /\ i \in HandsOf(l) /\ i \in OnWay
      /\ HandsOf(l)' = HandsOf(l) \ {i}
      /\ \A k \in Level \ {l} : HandsOf(k)' = HandsOf(k) /\ i \notin HandsOf(k)
      /\ i \notin queue \cup Range(deferred)
      /\ \A k \in Level : /\ frame'[k].own = frame[k].own /\ frame'[k].how = frame[k].how
                          /\ frame'[k].rest = frame[k].rest /\ frame'[k].frags = frame[k].frags
                          /\ Active(k)' <=> Active(k)
                          /\ frame'[k].pc \in Holding => k # l /\ frame'[k] = frame[k]
                          /\ frame'[k].pc \in Splitting => k # l /\ frame'[k] = frame[k]
                          /\ frame[k].pc \in Splitting => k # l /\ frame'[k] = frame[k]
      /\ LevelsRight' /\ Apart'
  BY <1>1, <1>2, LeaveHands
<1>4. PICK j \in Packet : j = i
  BY <1>3
<1>5. /\ packet' \in [Packet -> PacketRecord]
      /\ \A q \in Packet \ {j} : packet'[q] = packet[q]
      /\ packet'[j].state = packet[j].state /\ packet'[j].type = packet[j].type
      /\ packet'[j].parent = packet[j].parent /\ packet'[j].IOCount = packet[j].IOCount
      /\ packet'[j].status = packet[j].status
      /\ packet'[j].flags = packet[j].flags \cup {"DOCOMPLT"}
      /\ packet'[j].at = packet[j].at /\ packet'[j].event = packet[j].event
      /\ packet'[j].routine = packet[j].routine /\ packet'[j].request = packet[j].request
  <2>1. packet \in [Packet -> PacketRecord] /\ packet[j] \in PacketRecord
    BY DEF Inv, Typed
  <2> DEFINE r == [packet[j] EXCEPT !.flags = @ \cup {"DOCOMPLT"}]
  <2>2. /\ r \in PacketRecord
        /\ r.state = packet[j].state /\ r.type = packet[j].type
        /\ r.parent = packet[j].parent /\ r.IOCount = packet[j].IOCount
        /\ r.status = packet[j].status /\ r.flags = packet[j].flags \cup {"DOCOMPLT"}
        /\ r.at = packet[j].at /\ r.event = packet[j].event
        /\ r.routine = packet[j].routine /\ r.request = packet[j].request
    BY <2>1 DEF PacketRecord
  <2>3. packet' = [packet EXCEPT ![j] = r]
    BY <1>1, <1>4, <2>1
  <2> HIDE DEF r
  <2>4. QED BY <2>1, <2>2, <2>3
<1>6. Live(j) /\ packet[j].IOCount > 0 /\ (packet[j].type = "userasync" => j \in iolist)
  BY <1>3, <1>4, OnWayCounts
<1>7. \A q \in Packet : Alike(q)
  BY <1>5, <1>6 DEF Alike
<1>8. Typed'
  BY <1>1, <1>3, <1>5 DEF Inv, Typed, listVars
<1>9. OnWay' = OnWay
  <2>1. HandsOf("thread")' \cup HandsOf("apc")' \cup {i} = HandsOf("thread") \cup HandsOf("apc")
    BY <1>3, LevelsAre
  <2>2. QED BY <2>1, <1>1 DEF OnWay
<1>10. PacketsRight' /\ Counted' /\ RootsRight'
       /\ \A q \in Packet : /\ (Live(q))' = Live(q) /\ (Whole(q))' = Whole(q)
                            /\ (PartsOf(q))' = PartsOf(q) /\ (Own(q))' = Own(q)
  BY <1>1, <1>7, <1>9, AlikeStep
<1>11. /\ \A q \in OnWay : q \in Packet /\ Live(q) /\ "COMPLETE" \notin packet[q].flags
       /\ \A k \in Level : frame[k].pc \in Holding => frame[k].iop \in Packet /\ Live(frame[k].iop)
  <2>1. \A q \in OnWay : q \in Packet /\ Live(q) /\ "COMPLETE" \notin packet[q].flags
    BY HandsAre DEF Inv, PlacesRight
  <2>2. \A k \in Level : frame[k].pc \in Holding => frame[k].iop \in OnWay
    BY OnWayIs DEF HandsOf, Carried
  <2>3. QED BY <2>1, <2>2
<1>12. PlacesRight'
  <2>1. \A q \in OnWay' : /\ (Live(q))' /\ "COMPLETE" \notin packet'[q].flags
                          /\ (Whole(q))' <=> Whole(q)
                          /\ packet'[q].parent = packet[q].parent
                          /\ packet'[q].request = packet[q].request
    BY <1>7, <1>9, <1>10, <1>11 DEF Alike
  <2>2. Whole(i) \/ packet[i].parent # None
    BY <1>1 DEF Inv, PlacesRight, PlaceRight, Holding
  <2>3. \A q \in queue' : q \in queue \/ Whole(q) \/ packet[q].parent # None
    BY <1>1, <2>2
  <2>4. \A k \in Level : frame'[k].frags # <<>> => frame'[k].pc \in Holding
    BY <1>3 DEF LevelsRight, FrameRight, Holding, Splitting
  <2>5. \A k \in Level : /\ frame'[k].rest = frame[k].rest /\ frame'[k].frags = frame[k].frags
                         /\ frame'[k].pc \in Holding =>
                              /\ frame[k].pc \in Holding
                              /\ frame'[k].iop = frame[k].iop /\ frame'[k].master = frame[k].master
    BY <1>3
  <2>6. QED BY <1>1, <1>9, <2>1, <2>3, <2>4, <2>5, PlacesKept
<1>13. SplitsRight'
  <2>1. \A k \in Level : /\ frame'[k].pc \in Holding =>
                              /\ frame[k].pc \in Holding
                              /\ frame'[k].iop = frame[k].iop /\ frame'[k].master = frame[k].master
                         /\ frame'[k].pc \in Splitting => frame'[k] = frame[k]
                         /\ frame[k].pc \in Splitting => frame'[k] = frame[k]
    BY <1>3
  <2>2. \A q \in Packet : /\ packet'[q].at = packet[q].at /\ packet'[q].IOCount = packet[q].IOCount
                          /\ packet'[q].status = packet[q].status /\ packet'[q].state = packet[q].state
    BY <1>5
  <2>3. \A k \in Level : frame[k].pc \in Holding => frame[k].iop \in Packet /\ packet'[frame[k].iop].state = "live"
    BY <1>11, <2>2 DEF Live
  <2>4. \A k \in Level : frame[k].pc \in Splitting => frame[k].pc \in Holding
    BY DEF Splitting, Holding
  <2>5. \A k \in Level : (frame'[k] = frame[k] \/ frame'[k].iop = frame[k].iop) => frame'[k].iop = frame[k].iop
    OBVIOUS
  <2>6. \A k \in Level : frame[k].pc \in Splitting => (Live(frame[k].iop))'
    BY <2>1, <2>3, <2>4 DEF Live
  <2>7. \A k \in Level : frame'[k].pc \in Holding => (Live(frame[k].iop))'
    BY <2>1, <2>3 DEF Live
  <2>8. \A q \in Packet : (Live(q))' => /\ Live(q) /\ (PartsOf(q))' \subseteq PartsOf(q)
                                        /\ packet'[q].at = packet[q].at
    BY <1>10, <2>2
  <2>9. \A k \in Level : frame[k].pc \in Splitting =>
                           packet'[frame[k].iop].IOCount = packet[frame[k].iop].IOCount
    BY <2>2, <2>3, <2>4
  <2>10. \A k \in Level : frame'[k].pc \in Holding =>
                           packet'[frame[k].iop].status = packet[frame[k].iop].status
    BY <2>1, <2>2, <2>3
  <2>11. deferred' = deferred
    BY <1>1
  <2>12. QED BY <2>1, <2>6, <2>7, <2>8, <2>9, <2>10, <2>11, SplitsKept
<1>14. SyncRight'
  BY <1>1, <1>3, <1>7, AlikeSync
<1>15. Deciding' => Deciding /\ l # "thread" /\ frame'["thread"] = frame["thread"]
  BY <1>3, LevelsAre DEF Deciding
<1>16. AsyncRight'
  BY <1>1, <1>3, <1>5, <1>6, <1>7, <1>15, LevelsAre, AlikeAsync DEF listVars
<1>17. RequestsRight'
  <2>1. (Returned(made))' <=> Returned(made)
    BY <1>1, <1>3, LevelsAre DEF Returned, Done
  <2>2. CASE ~(l = "thread" /\ frame[l].master)
    <3>1. frame'["thread"].ok = frame["thread"].ok /\ (Deciding' <=> Deciding)
      BY <2>2, <1>1, <1>3, LevelsAre DEF Deciding, Holding
    <3>2. j \notin iolist
      <4>1. CASE l = "thread"
        <5>1. ~Whole(i)
          BY <4>1, <2>2, <1>1 DEF Inv, PlacesRight, PlaceRight, Holding
        <5>2. QED BY <5>1, <1>4 DEF Whole, Inv, AsyncRight, AsyncPacketRight
      <4>2. CASE l # "thread" /\ frame[l].master
        <5>1. l = "apc" /\ Active(l) /\ frame[l].how = "sync" /\ i = frame[l].own
          BY <4>2, <1>1, LevelsAre DEF Inv, LevelsRight, FrameRight, Holding, Active, Done
        <5>2. packet[i].type = "normal"
          BY <5>1 DEF Inv, SyncRight
        <5>3. QED BY <5>2, <1>4 DEF Inv, AsyncRight, AsyncPacketRight
      <4>3. CASE l # "thread" /\ ~frame[l].master
        <5>1. ~Whole(i)
          BY <4>3, <1>1 DEF Inv, PlacesRight, PlaceRight, Holding
        <5>2. QED BY <5>1, <1>4 DEF Whole, Inv, AsyncRight, AsyncPacketRight
      <4>4. QED BY <4>1, <4>2, <4>3
    <3>3. \A q \in iolist : packet'[q].flags = packet[q].flags
      BY <3>2, <1>5 DEF Inv, Typed
    <3>4. QED BY <3>1, <3>3, <2>1, <1>1, <1>3, <1>7, LevelsAre, AlikeRequests DEF listVars
  <2>3. CASE l = "thread" /\ frame[l].master
    <3>1. Deciding /\ ~Deciding' /\ frame'[l].ok = "ok" /\ frame[l].pc \notin Done
      BY <2>3, <1>1, <1>3 DEF Deciding, Holding, Done
    <3>2. ~Returned(made) /\ \A r : Returned(r) <=> r < made
      BY <3>1, <2>3 DEF Returned, Inv, Typed
    <3>3. \A r : (Returned(r))' <=> Returned(r)
      BY <3>1, <1>1, <1>3, <2>3 DEF Returned, Done
    <3>4. j = frame[l].own /\ packet[j].request = made
          /\ (j \in iolist <=> frame[l].how = "async")
      <4>1. j = frame[l].own /\ Active(l)
        BY <2>3, <1>1, <1>4 DEF Inv, LevelsRight, FrameRight, Holding, Active, Done
      <4>2. CASE frame[l].how = "sync"
        BY <4>1, <4>2, <2>3 DEF Inv, SyncRight, AsyncRight, AsyncPacketRight
      <4>3. CASE frame[l].how # "sync"
        <5>1. frame[l].how = "async"
          BY <4>3, FrameFields DEF Inv
        <5>2. QED BY <5>1, <4>1, <2>3, <1>1, <1>4 DEF Inv, AsyncRight, Holding
      <4>4. QED BY <4>2, <4>3
    <3>5. ASSUME NEW r \in 1..MaxRequests PROVE RequestRight(r)'
      <4>1. RequestRight(r) /\ iolist \subseteq Packet
        BY DEF Inv, RequestsRight, Typed
      <4>2. \A q \in Packet : /\ (Live(q))' = Live(q) /\ packet'[q].request = packet[q].request
                              /\ packet'[q].IOCount = packet[q].IOCount
                              /\ packet'[q].status = packet[q].status
                              /\ q # j => packet'[q].flags = packet[q].flags
        BY <1>5, <1>10
      <4>3. CASE r = made /\ frame[l].how = "async"
        <5>1. told[r] = <<>> /\ "DOCOMPLT" \in packet'[j].flags /\ ~Returned(r) /\ r <= made
          BY <4>1, <4>3, <3>1, <3>2, <1>5 DEF RequestRight
        <5>2. \A p \in iolist : packet[p].request = r => p = j
          <6>1. \A p \in iolist : Live(p) /\ Whole(p) /\ p \in Packet
            BY <4>1 DEF Inv, AsyncRight, AsyncPacketRight, Whole
          <6>2. r # 0
            BY BoundAssumption
          <6>3. QED BY <6>1, <6>2, <3>4, <4>3 DEF Inv, RootsRight
        <5>3. Len(<<>>) = 0 /\ <<"ok">> # <<>> /\ ~(r > made)
          BY <4>3 DEF Inv, Typed
        <5>4. QED BY <5>1, <5>2, <5>3, <4>2, <4>3, <3>1, <3>3, <3>4, <1>1, <1>3, <2>3
                  DEF RequestRight, listVars
      <4>4. CASE r # made
        BY <4>1, <4>2, <4>4, <3>4, <1>1, <1>10, OtherRequest DEF listVars, Inv, AsyncRight, AsyncPacketRight
      <4>5. CASE r = made /\ frame[l].how = "sync"
        BY <4>1, <4>2, <4>5, <3>1, <3>2, <3>3, <3>4, <1>1, <1>3, <2>3 DEF RequestRight, listVars
      <4>6. frame[l].how \in {"sync", "async"}
        BY FrameFields DEF Inv
      <4>7. QED BY <4>3, <4>4, <4>5, <4>6
    <3>6. QED BY <3>5 DEF RequestsRight
  <2>4. QED BY <2>2, <2>3
<1>18. QED BY <1>3, <1>8, <1>10, <1>12, <1>13, <1>14, <1>16, <1>17 DEF Inv

\* A level takes up a packet, or none, and keeps the rest for later.
Lists == Seq(Packet)
TakeUp(l, pc, i, tail) ==
  frame' = [frame EXCEPT ![l].pc = pc, ![l].master = FALSE, ![l].iop = i, ![l].rest = tail]

LEMMA TakeUpIs ==
  ASSUME Typed, NEW l \in Level, NEW pc \in PCs, NEW i \in Packet \cup {None},
         NEW tail \in Lists, TakeUp(l, pc, i, tail)
  PROVE  /\ frame' \in [Level -> FrameRecord]
         /\ frame'[l].pc = pc /\ frame'[l].how = frame[l].how /\ frame'[l].own = frame[l].own
         /\ frame'[l].iop = i /\ frame'[l].rest = tail
         /\ frame'[l].frags = frame[l].frags /\ frame'[l].master = FALSE
         /\ frame'[l].ok = frame[l].ok /\ frame'[l].count = frame[l].count
         /\ \A k \in Level \ {l} : frame'[k] = frame[k]
<1>1. frame \in [Level -> FrameRecord] /\ frame[l] \in FrameRecord
  BY DEF Typed
<1> DEFINE f == [frame[l] EXCEPT !.pc = pc, !.master = FALSE, !.iop = i, !.rest = tail]
<1>2. /\ f \in FrameRecord
      /\ f.pc = pc /\ f.how = frame[l].how /\ f.own = frame[l].own
      /\ f.iop = i /\ f.rest = tail
      /\ f.frags = frame[l].frags /\ f.master = FALSE
      /\ f.ok = frame[l].ok /\ f.count = frame[l].count
  BY <1>1 DEF FrameRecord, Lists
<1>3. frame' = [frame EXCEPT ![l] = f]
  BY <1>1 DEF TakeUp
<1> HIDE DEF f
<1>4. QED BY <1>1, <1>2, <1>3

\* What NextPacket takes up is the head of the chain, or of all that was
\* deferred.
LEMMA NextPacketIs ==
  ASSUME Inv, NEW l \in Level, NextPacket(l)
  PROVE  /\ UNCHANGED <<packet, queue, listVars, signaled, made, told, failed>>
         /\ frame[l].pc = "next" /\ frame[l].frags = <<>> /\ Runs(l)
         /\ \/ /\ frame[l].rest # <<>> /\ deferred' = deferred
               /\ TakeUp(l, "dispatch", Head(frame[l].rest), Tail(frame[l].rest))
            \/ /\ frame[l].rest = <<>> /\ deferred # <<>> /\ deferred' = <<>>
               /\ TakeUp(l, "dispatch", Head(deferred), Tail(deferred))
            \/ /\ frame[l].rest = <<>> /\ deferred = <<>> /\ deferred' = <<>>
               /\ TakeUp(l, "entered", None, frame[l].rest)
<1>1. frame \in [Level -> FrameRecord] /\ frame[l] \in FrameRecord
  BY DEF Inv, Typed
<1>2. /\ UNCHANGED <<packet, queue, listVars, signaled, made, told, failed>>
      /\ frame[l].pc = "next" /\ Runs(l)
  BY DEF NextPacket, Busy
<1>3. frame[l].frags = <<>>
  BY <1>2 DEF Inv, LevelsRight, FrameRight, Splitting
<1>4. CASE frame[l].rest # <<>>
  <2>1. deferred' = deferred
    BY <1>4 DEF NextPacket
  <2>2. frame' = [frame EXCEPT ![l].pc = "dispatch", ![l].master = FALSE,
                               ![l].iop = Head(frame[l].rest), ![l].rest = Tail(@)]
    BY <1>4 DEF NextPacket
  <2>3. TakeUp(l, "dispatch", Head(frame[l].rest), Tail(frame[l].rest))
    BY <2>2, <1>1 DEF TakeUp, FrameRecord
  <2>4. QED BY <1>2, <1>3, <1>4, <2>1, <2>3
<1>5. CASE frame[l].rest = <<>> /\ deferred # <<>>
  BY <1>2, <1>3, <1>5 DEF NextPacket, Takes, LeftOver, TakeUp
<1>6. CASE frame[l].rest = <<>> /\ deferred = <<>>
  <2>1. frame' = [frame EXCEPT ![l].pc = "entered", ![l].master = FALSE, ![l].iop = None]
        /\ deferred' = <<>>
    BY <1>6 DEF NextPacket, Takes, LeftOver
  <2>2. TakeUp(l, "entered", None, frame[l].rest)
    BY <2>1, <1>1 DEF TakeUp, FrameRecord
  <2>3. QED BY <1>2, <1>3, <1>6, <2>1, <2>2
<1>7. QED BY <1>4, <1>5, <1>6

LEMMA NoneSplits ==
  ASSUME Inv, NEW l \in Level, frame[l].pc = "next", Runs(l)
  PROVE  \A k \in Level : frame[k].pc \notin Splitting
<1>1. CASE l = "thread"
  BY <1>1, LevelsAre DEF Runs, Inv, LevelsRight, Splitting
<1>2. CASE l = "apc"
  BY <1>2, LevelsAre DEF Inv, LevelsRight, Splitting
<1>3. QED BY <1>1, <1>2, LevelsAre

\* What follows when a level begins or ends with packets that are fragments.
LEMMA TakenUp ==
  ASSUME Inv, NEW l \in Level, frame[l].pc = "next", Runs(l), frame[l].frags = <<>>,
         UNCHANGED <<packet, queue, listVars, signaled, made, told, failed>>,
         frame' \in [Level -> FrameRecord],
         frame'[l].how = frame[l].how, frame'[l].own = frame[l].own, frame'[l].frags = <<>>,
         frame'[l].ok = frame[l].ok, frame'[l].master = FALSE,
         \A k \in Level \ {l} : frame'[k] = frame[k],
         \/ /\ frame'[l].pc = "dispatch" /\ frame'[l].iop \in Packet
            /\ frame'[l].iop \notin Range(frame'[l].rest)
         \/ frame'[l].pc = "entered" /\ frame'[l].rest = <<>>,
         deferred' \in {deferred, <<>>}, IsInjective(frame'[l].rest),
         HandsOf(l)' \cup Range(deferred') = HandsOf(l) \cup Range(deferred),
         HandsOf(l)' \cap Range(deferred') = {},
         \A p \in HandsOf(l)' : ~Whole(p) /\ packet[p].parent # None
  PROVE  Inv'
<1>1. LevelsRight'
  BY LevelsAre DEF Inv, LevelsRight, FrameRight, Holding, Splitting, listVars
<1>2. Typed'
  BY EmptyList DEF Inv, Typed, listVars
<1>3. \A k \in Level \ {l} : HandsOf(k)' = HandsOf(k) /\ Carried(k)' = Carried(k)
  BY DEF HandsOf, Carried
<1>4. Range(deferred') \subseteq Range(deferred) /\ IsInjective(deferred')
  BY EmptyList DEF Inv, Apart
<1>5. HandsOf(l)' \subseteq HandsOf(l) \cup Range(deferred)
  OBVIOUS
<1>6. OnWay' = OnWay
  BY <1>3, LevelsAre DEF OnWay
<1>7. \A q \in Packet : Alike(q)
  BY DEF Alike
<1>8. Apart'
  <2>1. queue \cap Range(deferred') = {}
    BY <1>4 DEF Inv, Apart
  <2>2. HandsOf("thread")' \cap HandsOf("apc")' = {}
    BY <1>3, <1>5, LevelsAre DEF Inv, Apart
  <2>3. ASSUME NEW k \in Level
        PROVE  /\ IsInjective(frame'[k].rest) /\ IsInjective(frame'[k].frags)
               /\ Carried(k)' \cap Range(frame'[k].rest) = {}
               /\ Carried(k)' \cap Range(frame'[k].frags) = {}
               /\ Range(frame'[k].rest) \cap Range(frame'[k].frags) = {}
               /\ HandsOf(k)' \cap (queue \cup Range(deferred')) = {}
    <3>1. CASE k # l
      BY <3>1, <1>3, <1>4 DEF Inv, Apart
    <3>2. CASE k = l
      <4>1. Range(frame'[l].frags) = {} /\ IsInjective(frame'[l].frags)
        BY EmptyList
      <4>2. Carried(l)' \cap Range(frame'[l].rest) = {}
        BY DEF Carried, Holding
      <4>3. HandsOf(l)' \cap queue = {}
        BY <1>5 DEF Inv, Apart
      <4>4. QED BY <3>2, <4>1, <4>2, <4>3
    <3>3. QED BY <3>1, <3>2
  <2>4. QED BY <1>4, <2>1, <2>2, <2>3 DEF Apart
<1>9. PacketsRight' /\ Counted' /\ RootsRight'
      /\ \A q \in Packet : (PartsOf(q))' = PartsOf(q)
  BY <1>6, <1>7, AlikeStep
<1>10. PlacesRight'
  <2>1. \A p : (Whole(p))' = Whole(p) /\ (Live(p))' = Live(p)
    BY DEF Whole, Live
  <2>2. ASSUME NEW k \in Level PROVE PlaceRight(k)'
    <3>1. CASE k # l
      <4>1. PlaceRight(k) /\ frame'[k] = frame[k] /\ packet' = packet
        BY <3>1 DEF Inv, PlacesRight
      <4>2. QED BY <4>1 DEF PlaceRight, Whole
    <3>2. CASE k = l
      <4>1. Range(frame'[l].frags) = {} /\ Range(frame'[l].rest) \subseteq HandsOf(l)'
            /\ (frame'[l].pc \in Holding => frame'[l].iop \in HandsOf(l)')
        BY EmptyList DEF HandsOf, Carried
      <4>2. PICK i : i = frame'[l].iop
        OBVIOUS
      <4>3. frame'[l].pc \in Holding => (Whole(frame[l].iop)' <=> Whole(i)) /\ ~Whole(i) /\ packet[i].parent # None
        BY <4>1, <4>2 DEF Whole
      <4>4. QED BY <2>1, <3>2, <4>1, <4>2, <4>3 DEF PlaceRight
    <3>3. QED BY <3>1, <3>2
  <2>3. Range(deferred') \subseteq Range(deferred)
    BY <1>4
  <2>4. QED BY <1>6, <2>1, <2>2, <2>3 DEF Inv, PlacesRight
<1>11. SplitsRight'
  <2>1. \A k \in Level : frame[k].pc \notin Splitting /\ frame'[k].pc \notin Splitting
    BY NoneSplits DEF Splitting
  <2>2. \A p \in Packet : Live(p) /\ PartsOf(p) # {} => packet[p].at = "part"
    BY <2>1 DEF Inv, SplitsRight
  <2>3. (\A p \in Packet : Live(p) /\ PartsOf(p) # {} =>
           packet[p].at = "part" \/ \E k \in Level : frame[k].pc \in Splitting /\ frame[k].iop = p)'
    BY <2>2, <1>9 DEF Live
  <2>4. \A k \in Level : frame'[k].pc \in Holding /\ frame'[k].master /\ packet'[frame'[k].iop].at # "part" =>
                           packet'[frame'[k].iop].status = "ok"
    BY DEF Inv, SplitsRight
  <2>5. QED BY <2>1, <2>3, <2>4 DEF SplitsRight
<1>12. \A k \in Level : /\ frame'[k].own = frame[k].own /\ frame'[k].how = frame[k].how
                        /\ Active(k)' <=> Active(k)
  BY DEF Active, Done
<1>13. SyncRight'
  BY <1>7, <1>12, AlikeSync
<1>14. (~Deciding' /\ ~Deciding) \/ ((Deciding' <=> Deciding) /\ frame'["thread"] = frame["thread"])
  BY LevelsAre DEF Deciding, Holding
<1>15. AsyncRight'
  <2>1. frame'["thread"].pc = "gone" => frame["thread"].pc = "gone"
    BY LevelsAre
  <2>2. Deciding' => Deciding /\ frame'["thread"] = frame["thread"]
    BY <1>14
  <2>3. UNCHANGED <<packet, iolist, apcs, userapcs, finishing, made>>
    BY DEF listVars
  <2>4. \A q \in Packet : "DOCOMPLT" \in packet'[q].flags => "DOCOMPLT" \in packet[q].flags
    BY <2>3
  <2>5. QED BY <1>7, <2>1, <2>2, <2>3, <2>4, AlikeAsync
<1>16. RequestsRight'
  <2>1. (Returned(made))' <=> Returned(made)
    BY LevelsAre DEF Returned, Done
  <2>2. Deciding' <=> Deciding
    BY <1>14
  <2>3. UNCHANGED <<packet, iolist, made, told, failed>>
    BY DEF listVars
  <2>4. frame'["thread"].how = frame["thread"].how /\ frame'["thread"].ok = frame["thread"].ok
    BY LevelsAre
  <2>5. QED BY <2>1, <2>2, <2>3, <2>4, SameRequests
<1>17. QED BY <1>1, <1>2, <1>8, <1>9, <1>10, <1>11, <1>13, <1>15, <1>16 DEF Inv

LEMMA NextPacketInv ==
  ASSUME Inv, NEW l \in Level, NextPacket(l)
  PROVE  Inv'
<1>1. /\ UNCHANGED <<packet, queue, listVars, signaled, made, told, failed>>
      /\ frame[l].pc = "next" /\ frame[l].frags = <<>> /\ Runs(l)
  BY NextPacketIs
<1>2. /\ frame[l].rest \in Seq(Packet) /\ deferred \in Seq(Packet) /\ Typed
      /\ IsInjective(frame[l].rest) /\ IsInjective(deferred)
      /\ "dispatch" \in PCs /\ "entered" \in PCs
  BY DEF Inv, Typed, FrameRecord, Apart, PCs
<1>3. HandsOf(l) = Range(frame[l].rest)
  BY <1>1, EmptyList DEF HandsOf, Carried, Holding
<1>4. HandsOf(l) \cap Range(deferred) = {}
  BY DEF Inv, Apart
<1>5. /\ \A p \in Range(frame[l].rest) : ~Whole(p) /\ packet[p].parent # None
      /\ \A p \in Range(deferred) : ~Whole(p) /\ packet[p].parent # None
  BY DEF Inv, PlacesRight, PlaceRight
<1>6. ASSUME NEW src \in Seq(Packet), src # <<>>, IsInjective(src),
             TakeUp(l, "dispatch", Head(src), Tail(src)),
             \A p \in Range(src) : ~Whole(p) /\ packet[p].parent # None,
             deferred' \in {deferred, <<>>},
             Range(src) \cup Range(deferred') = HandsOf(l) \cup Range(deferred),
             Range(src) \cap Range(deferred') = {}
      PROVE  Inv'
  <2>1. /\ Head(src) \in Packet /\ Tail(src) \in Seq(Packet)
        /\ Range(src) = {Head(src)} \cup Range(Tail(src))
        /\ IsInjective(Tail(src)) /\ Head(src) \notin Range(Tail(src))
    BY <1>6, HeadOff
  <2>2. /\ frame' \in [Level -> FrameRecord]
        /\ frame'[l].pc = "dispatch" /\ frame'[l].how = frame[l].how /\ frame'[l].own = frame[l].own
        /\ frame'[l].iop = Head(src) /\ frame'[l].rest = Tail(src)
        /\ frame'[l].frags = frame[l].frags /\ frame'[l].master = FALSE
        /\ frame'[l].ok = frame[l].ok
        /\ \A k \in Level \ {l} : frame'[k] = frame[k]
    <3>1. PICK i \in Packet, tail \in Lists : i = Head(src) /\ tail = Tail(src)
      BY <2>1 DEF Lists
    <3> DEFINE f == [frame[l] EXCEPT !.pc = "dispatch", !.master = FALSE, !.iop = i, !.rest = tail]
    <3>2. frame \in [Level -> FrameRecord] /\ frame[l] \in FrameRecord
      BY <1>2 DEF Typed
    <3>5. /\ f \in FrameRecord
          /\ f.pc = "dispatch" /\ f.how = frame[l].how /\ f.own = frame[l].own
          /\ f.iop = i /\ f.rest = tail
          /\ f.frags = frame[l].frags /\ f.master = FALSE
          /\ f.ok = frame[l].ok
      BY <1>2, <3>2 DEF FrameRecord, Lists
    <3>6. frame' = [frame EXCEPT ![l] = f]
      BY <1>6, <3>1, <3>2 DEF TakeUp
    <3> HIDE DEF f
    <3>3. /\ frame' \in [Level -> FrameRecord]
          /\ frame'[l].pc = "dispatch" /\ frame'[l].how = frame[l].how /\ frame'[l].own = frame[l].own
          /\ frame'[l].iop = i /\ frame'[l].rest = tail
          /\ frame'[l].frags = frame[l].frags /\ frame'[l].master = FALSE
          /\ frame'[l].ok = frame[l].ok
          /\ \A k \in Level \ {l} : frame'[k] = frame[k]
      BY <3>2, <3>5, <3>6
    <3>4. QED BY <3>1, <3>3
  <2>3. HandsOf(l)' = Range(src)
    BY <1>1, <2>1, <2>2, EmptyList DEF HandsOf, Carried, Holding
  <2>4. QED BY <1>1, <1>6, <2>1, <2>2, <2>3, TakenUp
<1>7. ASSUME frame[l].rest = <<>>, deferred = <<>>, deferred' = <<>>,
             TakeUp(l, "entered", None, frame[l].rest)
      PROVE  Inv'
  <2>3. frame[l].rest \in Lists /\ None \in Packet \cup {None}
    BY <1>2 DEF Lists
  <2>1. /\ frame' \in [Level -> FrameRecord]
        /\ frame'[l].pc = "entered" /\ frame'[l].how = frame[l].how /\ frame'[l].own = frame[l].own
        /\ frame'[l].rest = <<>>
        /\ frame'[l].frags = frame[l].frags /\ frame'[l].master = FALSE
        /\ frame'[l].ok = frame[l].ok
        /\ \A k \in Level \ {l} : frame'[k] = frame[k]
    BY <1>2, <1>7, <2>3, TakeUpIs
  <2>2. HandsOf(l)' = {} /\ HandsOf(l) = {} /\ Range(deferred') = {} /\ Range(deferred) = {}
        /\ IsInjective(frame'[l].rest)
    BY <1>1, <1>3, <1>7, <2>1, EmptyList DEF HandsOf, Carried, Holding
  <2>4. QED BY <1>1, <1>7, <2>1, <2>2, TakenUp
<1>8. CASE frame[l].rest # <<>> /\ deferred' = deferred
           /\ TakeUp(l, "dispatch", Head(frame[l].rest), Tail(frame[l].rest))
  BY <1>2, <1>3, <1>4, <1>5, <1>6, <1>8
<1>9. CASE frame[l].rest = <<>> /\ deferred # <<>> /\ deferred' = <<>>
           /\ TakeUp(l, "dispatch", Head(deferred), Tail(deferred))
  <2>1. HandsOf(l) = {} /\ Range(deferred') = {}
    BY <1>3, <1>9, EmptyList
  <2>2. QED BY <1>2, <1>5, <1>6, <1>9, <2>1
<1>10. QED BY <1>7, <1>8, <1>9, NextPacketIs

-----------------------------------------------------------------------------
(* Completion.                                                             *)

LEMMA OneIs ==
  ASSUME NEW f \in [Packet -> PacketRecord], NEW p \in Packet, NEW s \in Statuses
  PROVE  /\ One(f, p, s) \in [Packet -> PacketRecord]
         /\ \A q \in Packet \ {p} : One(f, p, s)[q] = f[q]
         /\ One(f, p, s)[p].state = f[p].state /\ One(f, p, s)[p].type = f[p].type
         /\ One(f, p, s)[p].parent = f[p].parent /\ One(f, p, s)[p].IOCount = f[p].IOCount - 1
         /\ One(f, p, s)[p].status = IF s = "ok" THEN f[p].status ELSE s
         /\ One(f, p, s)[p].flags = IF f[p].IOCount > 1 THEN f[p].flags
                                    ELSE Told(f[p].flags, IF s = "ok" THEN f[p].status ELSE s)
         /\ One(f, p, s)[p].at = f[p].at /\ One(f, p, s)[p].event = f[p].event
         /\ One(f, p, s)[p].routine = f[p].routine /\ One(f, p, s)[p].request = f[p].request
<1> DEFINE st == IF s = "ok" THEN f[p].status ELSE s
           fl == IF f[p].IOCount > 1 THEN f[p].flags ELSE Told(f[p].flags, st)
           r == [f[p] EXCEPT !.status = st, !.flags = fl, !.IOCount = f[p].IOCount - 1]
<1>1. f[p] \in PacketRecord
  OBVIOUS
<1>2. st \in Statuses /\ fl \in SUBSET {"FREEIOP", "DOCOMPLT", "COMPLETE"} /\ f[p].IOCount - 1 \in Int
  BY <1>1 DEF PacketRecord, Told
<1>3. One(f, p, s) = [f EXCEPT ![p] = r]
  BY <1>1 DEF One, StatusTo
<1> HIDE DEF st, fl
<1>4. /\ r \in PacketRecord
      /\ r.state = f[p].state /\ r.type = f[p].type
      /\ r.parent = f[p].parent /\ r.IOCount = f[p].IOCount - 1
      /\ r.status = st /\ r.flags = fl
      /\ r.at = f[p].at /\ r.event = f[p].event
      /\ r.routine = f[p].routine /\ r.request = f[p].request
  BY <1>1, <1>2 DEF PacketRecord
<1> HIDE DEF r
<1>5. /\ One(f, p, s) \in [Packet -> PacketRecord]
      /\ \A q \in Packet \ {p} : One(f, p, s)[q] = f[q]
      /\ One(f, p, s)[p] = r
  BY <1>3, <1>4
<1>6. QED BY <1>4, <1>5 DEF st, fl

\* What completion of packet p does: to p, and to w, the packet of the request
\* that p is or is a part of.
Effect(p, w, s) ==
  /\ Live(p) /\ Live(w) /\ Whole(w) /\ packet[w].IOCount > 0 /\ packet[w].IOCount \in Int
  /\ Whole(p) => w = p
  /\ ~Whole(p) => w # p /\ packet[p].parent = w /\ packet[p].IOCount = 1
  /\ packet[p].request = packet[w].request
  /\ packet' \in [Packet -> PacketRecord]
  /\ p # w => packet'[p] = Free
  /\ \A q \in Packet \ {p, w} : packet'[q] = packet[q]
  /\ packet'[w].state = packet[w].state /\ packet'[w].type = packet[w].type
  /\ packet'[w].parent = packet[w].parent /\ packet'[w].IOCount = packet[w].IOCount - 1
  /\ packet'[w].status = IF s = "ok" THEN packet[w].status ELSE "error"
  /\ packet'[w].flags = IF packet[w].IOCount > 1 THEN packet[w].flags
                        ELSE Told(packet[w].flags, packet'[w].status)
  /\ packet'[w].at = packet[w].at /\ packet'[w].event = packet[w].event
  /\ packet'[w].routine = packet[w].routine /\ packet'[w].request = packet[w].request
  /\ signaled' \in [Level -> BOOLEAN]
  /\ \A k \in Level : signaled'[k] <=> signaled[k] \/ (packet[w].IOCount = 1 /\ packet[w].event = k)
  /\ apcs' = IF packet[w].IOCount = 1 /\ packet[w].type = "userasync" THEN apcs \cup {w} ELSE apcs
  /\ failed' = IF s = "ok" THEN failed ELSE failed \cup {packet[w].request}

LEMMA CompleteEffect ==
  ASSUME Inv, NEW p \in OnWay, Whole(p) \/ packet[p].parent # None,
         NEW s \in Statuses, Complete(packet, p, s)
  PROVE  \E w \in Packet : Effect(p, w, s)
<1>1. /\ p \in Packet /\ Live(p) /\ packet[p].IOCount > 0 /\ packet[p].IOCount \in Int
      /\ packet \in [Packet -> PacketRecord] /\ signaled \in [Level -> BOOLEAN]
  BY OnWayCounts DEF Inv, Typed
<1>2. PacketRight(p)
  BY <1>1 DEF Inv, PacketsRight
<1>3. s \in {"ok", "error"}
  BY DEF Statuses
<1> DEFINE f1 == One(packet, p, s)
           f2 == Completed(packet, p, s)
           E  == Ended(packet, p)
<1>4. /\ f1 \in [Packet -> PacketRecord]
      /\ \A q \in Packet \ {p} : f1[q] = packet[q]
      /\ f1[p].state = packet[p].state /\ f1[p].type = packet[p].type
      /\ f1[p].parent = packet[p].parent /\ f1[p].IOCount = packet[p].IOCount - 1
      /\ f1[p].status = (IF s = "ok" THEN packet[p].status ELSE s)
      /\ f1[p].flags = IF packet[p].IOCount > 1 THEN packet[p].flags
                       ELSE Told(packet[p].flags, IF s = "ok" THEN packet[p].status ELSE s)
      /\ f1[p].at = packet[p].at /\ f1[p].event = packet[p].event
      /\ f1[p].routine = packet[p].routine /\ f1[p].request = packet[p].request
  BY <1>1, OneIs
<1>5. /\ packet' = Rundown(f2, E)
      /\ signaled' = [l \in Level |-> signaled[l] \/ \E q \in E : packet[q].event = l]
      /\ apcs' = apcs \cup {q \in E : packet[q].type = "userasync"}
      /\ failed' = IF s = "ok" THEN failed ELSE failed \cup {packet[p].request}
  BY DEF Complete
<1>6. CASE Whole(p)
  <2>1. packet[p].parent = None /\ (packet[p].type = "normal" => "FREEIOP" \notin packet[p].flags)
    BY <1>1, <1>2, <1>6 DEF PacketRight
  <2>2. f2 = f1
    BY <2>1 DEF Completed, Parents
  <2>3. E = IF packet[p].IOCount = 1 THEN {p} ELSE {}
    BY <2>1, <1>1 DEF Ended, Parents, Ends
  <2>4. "FREEIOP" \in f1[p].flags => "FREEIOP" \in packet[p].flags
    BY <1>4 DEF Told
  <2> HIDE DEF f1, f2, E
  <2>5. Rundown(f2, E) = f1
    <3>1. \A q \in Packet : ~(q \in E /\ f2[q].type = "normal" /\ "FREEIOP" \in f2[q].flags)
      BY <2>1, <2>2, <2>3, <2>4, <1>4
    <3>2. QED BY <3>1, <2>2, <1>4 DEF Rundown
  <2>6. \A k \in Level : signaled'[k] <=> signaled[k] \/ (packet[p].IOCount = 1 /\ packet[p].event = k)
    BY <1>5, <2>3
  <2>7. signaled' \in [Level -> BOOLEAN]
    BY <1>1, <1>5
  <2>8. apcs' = IF packet[p].IOCount = 1 /\ packet[p].type = "userasync" THEN apcs \cup {p} ELSE apcs
    BY <1>5, <2>3
  <2>9. packet' = f1
    BY <1>5, <2>5
  <2>10. Effect(p, p, s)
    BY <1>1, <1>3, <1>4, <1>5, <1>6, <2>6, <2>7, <2>8, <2>9 DEF Effect
  <2>11. QED BY <2>10, <1>1
<1>7. CASE ~Whole(p)
  <2>1. PICK w \in Packet : w = packet[p].parent
    BY <1>1, <1>7 DEF PacketRecord
  <2>2. /\ packet[p].IOCount = 1 /\ packet[p].status = "ok" /\ "FREEIOP" \in packet[p].flags
        /\ packet[p].type = "normal" /\ packet[p].event = None
        /\ Live(w) /\ Whole(w) /\ packet[p].request = packet[w].request /\ w # p /\ w # None
    BY <1>1, <1>2, <1>7, <2>1 DEF PacketRight, Whole, PacketRecord
  <2>3. p \in PartsOf(w)
    BY <1>1, <2>1, <2>2 DEF PartsOf
  <2>4. packet[w].IOCount > 0 /\ packet[w].IOCount \in Int
        /\ (packet[w].type = "normal" => "FREEIOP" \notin packet[w].flags)
    BY <2>2, <2>3, PartsHaveWhole, <1>1 DEF Inv, PacketsRight, PacketRight, PacketRecord
  <2>5. f1[p].status = s /\ f1[w] = packet[w] /\ f1[p].flags = Told(packet[p].flags, s)
    BY <1>3, <1>4, <2>2
  <2>6. f2 = One(f1, w, s)
    BY <2>1, <2>2, <2>5 DEF Completed, Parents, Ends
  <2>7. E = IF packet[w].IOCount = 1 THEN {p, w} ELSE {p}
    BY <2>1, <2>2, <2>4 DEF Ended, Parents, Ends
  <2> HIDE DEF f1, f2, E
  <2>8. /\ f2 \in [Packet -> PacketRecord]
        /\ \A q \in Packet \ {w} : f2[q] = f1[q]
        /\ f2[w].state = f1[w].state /\ f2[w].type = f1[w].type
        /\ f2[w].parent = f1[w].parent /\ f2[w].IOCount = f1[w].IOCount - 1
        /\ f2[w].status = (IF s = "ok" THEN f1[w].status ELSE s)
        /\ f2[w].flags = IF f1[w].IOCount > 1 THEN f1[w].flags
                         ELSE Told(f1[w].flags, IF s = "ok" THEN f1[w].status ELSE s)
        /\ f2[w].at = f1[w].at /\ f2[w].event = f1[w].event
        /\ f2[w].routine = f1[w].routine /\ f2[w].request = f1[w].request
    BY <1>4, <2>6, OneIs
  <2>9. f2[p].type = "normal" /\ "FREEIOP" \in f2[p].flags
        /\ (f2[w].type = "normal" => "FREEIOP" \notin f2[w].flags)
    BY <1>1, <1>4, <2>2, <2>4, <2>5, <2>8 DEF Told
  <2>10. Rundown(f2, E) = [q \in Packet |-> IF q = p THEN Free ELSE f2[q]]
    <3>1. \A q \in Packet : (q \in E /\ f2[q].type = "normal" /\ "FREEIOP" \in f2[q].flags) <=> q = p
      BY <2>7, <2>9, <1>1
    <3>2. QED BY <3>1 DEF Rundown
  <2>11. /\ packet' = [q \in Packet |-> IF q = p THEN Free ELSE f2[q]]
         /\ packet' \in [Packet -> PacketRecord]
    BY <1>5, <2>8, <2>10, FreeIs
  <2>12. packet'[p] = Free /\ packet'[w] = f2[w] /\ \A q \in Packet \ {p, w} : packet'[q] = packet[q]
    BY <1>1, <1>4, <2>2, <2>8, <2>11
  <2>13. \A k \in Level : signaled'[k] <=> signaled[k] \/ (packet[w].IOCount = 1 /\ packet[w].event = k)
    BY <1>5, <2>2, <2>7, LevelsAre
  <2>14. signaled' \in [Level -> BOOLEAN]
    BY <1>1, <1>5
  <2>15. apcs' = IF packet[w].IOCount = 1 /\ packet[w].type = "userasync" THEN apcs \cup {w} ELSE apcs
    BY <1>5, <2>2, <2>7
  <2>16. Effect(p, w, s)
    BY <1>1, <1>3, <1>5, <1>7, <2>1, <2>2, <2>4, <2>5, <2>8, <2>11, <2>12, <2>13, <2>14, <2>15 DEF Effect
  <2>17. QED BY <2>16
<1>8. QED BY <1>6, <1>7

\* The packets after a completion.
LEMMA EffectPackets ==
  ASSUME Inv, NEW p \in OnWay, NEW w \in Packet, NEW s \in Statuses, Effect(p, w, s)
  PROVE  /\ p \in Packet
         /\ \A q \in Packet : (Live(q))' <=> Live(q) /\ (q = p => p = w)
         /\ \A q \in Packet : (Live(q))' => /\ (Whole(q))' <=> Whole(q)
                                            /\ packet'[q].type = packet[q].type
                                            /\ packet'[q].event = packet[q].event
                                            /\ packet'[q].parent = packet[q].parent
                                            /\ packet'[q].request = packet[q].request
                                            /\ packet'[q].routine = packet[q].routine
                                            /\ packet'[q].at = packet[q].at
                                            /\ q # w => packet'[q] = packet[q]
         /\ \A q \in Packet : (PartsOf(q))' = PartsOf(q) \ {p}
         /\ p # w => p \in PartsOf(w)
         /\ \A q \in Packet : p \in PartsOf(q) => q = w /\ p # w
         /\ packet'[w].IOCount = packet[w].IOCount - 1 /\ packet[w].IOCount \in Int /\ packet[w].IOCount > 0
         /\ Live(w) /\ (Live(w))' /\ Whole(w) /\ (Whole(w))'
<1>1. p \in Packet /\ Live(p)
  BY OnWayCounts
<1>2. /\ packet'[w].state = packet[w].state /\ packet'[w].type = packet[w].type
      /\ packet'[w].event = packet[w].event /\ packet'[w].parent = packet[w].parent
      /\ packet'[w].request = packet[w].request /\ packet'[w].at = packet[w].at
      /\ packet'[w].routine = packet[w].routine
      /\ packet'[w].IOCount = packet[w].IOCount - 1 /\ packet[w].IOCount \in Int /\ packet[w].IOCount > 0
      /\ Live(w) /\ Whole(w) /\ Live(p)
      /\ \A q \in Packet \ {p, w} : packet'[q] = packet[q]
      /\ p # w => packet'[p] = Free /\ packet[p].parent = w /\ packet[p].IOCount = 1
      /\ ~Whole(p) => p # w
      /\ Whole(p) => p = w
  BY DEF Effect
<1>3. packet[w].parent = None
  BY <1>2 DEF Inv, PacketsRight, PacketRight
<1>4. \A q \in Packet : (Live(q))' <=> Live(q) /\ (q = p => p = w)
  <2>1. ASSUME NEW q \in Packet PROVE (Live(q))' <=> Live(q) /\ (q = p => p = w)
    <3>1. CASE q = w
      BY <3>1, <1>2 DEF Live
    <3>2. CASE q # w /\ q = p
      BY <3>2, <1>2, FreeIs DEF Live
    <3>3. CASE q # w /\ q # p
      BY <3>3, <1>2 DEF Live
    <3>4. QED BY <3>1, <3>2, <3>3
  <2>2. QED BY <2>1
<1>5. ASSUME NEW q \in Packet, (Live(q))'
      PROVE  /\ (Whole(q))' <=> Whole(q)
             /\ packet'[q].type = packet[q].type
             /\ packet'[q].event = packet[q].event
             /\ packet'[q].parent = packet[q].parent
             /\ packet'[q].request = packet[q].request
             /\ packet'[q].routine = packet[q].routine
             /\ packet'[q].at = packet[q].at
             /\ q # w => packet'[q] = packet[q]
  <2>1. CASE q = w
    BY <2>1, <1>2 DEF Whole
  <2>2. CASE q # w
    <3>1. packet'[q] = packet[q]
      BY <2>2, <1>2, <1>4, <1>5
    <3>2. QED BY <3>1, <2>2 DEF Whole
  <2>3. QED BY <2>1, <2>2
<1>6. ASSUME NEW q \in Packet PROVE (PartsOf(q))' = PartsOf(q) \ {p}
  <2>1. q # None
    BY LevelsAre
  <2>2. ASSUME NEW x \in Packet PROVE x \in (PartsOf(q))' <=> x \in PartsOf(q) \ {p}
    <3>1. CASE x # p /\ x # w
      BY <3>1, <1>2 DEF PartsOf
    <3>2. CASE x = w
      BY <3>2, <2>1, <1>2, <1>3 DEF PartsOf
    <3>3. CASE x = p /\ x # w
      BY <3>3, <2>1, <1>2, FreeIs DEF PartsOf
    <3>4. QED BY <3>1, <3>2, <3>3
  <2>3. (PartsOf(q))' \subseteq Packet /\ PartsOf(q) \subseteq Packet
    BY DEF PartsOf
  <2>4. QED BY <2>2, <2>3
<1>7. p # w => p \in PartsOf(w)
  BY <1>1, <1>2 DEF PartsOf
<1>8. \A q \in Packet : p \in PartsOf(q) => q = w /\ p # w
  BY <1>2, <1>3, LevelsAre DEF PartsOf
<1>9. (Live(w))' /\ (Whole(w))'
  BY <1>2 DEF Live, Whole
<1>10. QED BY <1>1, <1>2, <1>4, <1>5, <1>6, <1>7, <1>8, <1>9

\* A step in which packet p ends, on w's account, while a call may go on.
Ending(p, w, s) ==
  /\ Effect(p, w, s)
  /\ UNCHANGED <<deferred, iolist, userapcs, finishing, made, told>>
  /\ OnWay' = OnWay \ {p} /\ queue' \subseteq queue
  /\ frame' \in [Level -> FrameRecord]
  /\ Apart' /\ LevelsRight'
  /\ \A k \in Level :
       /\ frame'[k].own = frame[k].own /\ frame'[k].how = frame[k].how
       /\ frame'[k].rest = frame[k].rest /\ frame'[k].frags = frame[k].frags
       /\ Active(k)' <=> Active(k)
       /\ frame'[k].pc \in Holding => /\ frame[k].pc \in Holding
                                      /\ frame'[k].iop = frame[k].iop
                                      /\ frame'[k].master = frame[k].master
       /\ frame'[k].pc \in Splitting => frame'[k] = frame[k]
       /\ frame[k].pc \in Splitting => frame'[k] = frame[k]
  /\ frame'["thread"].pc = "gone" => frame["thread"].pc = "gone"

\* What the last part of a packet is to it.
LEMMA EndingIs ==
  ASSUME Inv, NEW p \in OnWay, NEW w \in Packet, NEW s \in Statuses, Ending(p, w, s)
  PROVE  /\ packet[w].type = "userasync" => w \in iolist /\ w \notin apcs \cup {finishing}
         /\ w \in OnWay /\ p # w => packet[w].IOCount > 1
         /\ \A k \in Level : frame'[k].pc \in Holding => frame[k].iop \in OnWay /\ frame[k].iop # p
         /\ \A k \in Level : frame[k].pc \in Splitting => frame[k].iop # w /\ frame[k].iop # p
         /\ p # w => packet[w].at = "part"
<1>1. Effect(p, w, s) /\ OnWay' = OnWay \ {p} /\ deferred' = deferred
  BY DEF Ending
<1>2. /\ p # w => p \in PartsOf(w)
      /\ packet[w].IOCount \in Int /\ packet[w].IOCount > 0
      /\ Live(w) /\ Whole(w) /\ p \in Packet
  BY <1>1, EffectPackets
<1>3. packet[w].type = "userasync" => w \in iolist /\ w \notin apcs \cup {finishing}
  BY <1>2 DEF Inv, AsyncRight, AsyncPacketRight
<1>4. ASSUME w \in OnWay, p # w PROVE packet[w].IOCount > 1
  <2>1. packet[w].IOCount = Own(w) + Cardinality(PartsOf(w)) /\ Own(w) = 1
    BY <1>2, <1>4 DEF Inv, Counted, Own
  <2>2. IsFiniteSet(PartsOf(w)) /\ PartsOf(w) # {} /\ Cardinality(PartsOf(w)) \in Nat
    BY <1>2, <1>4, PacketsFinite DEF PartsOf
  <2>3. Cardinality(PartsOf(w)) # 0
    BY <2>2, FS_EmptySet
  <2>4. QED BY <2>1, <2>2, <2>3
<1>5. ASSUME NEW k \in Level, frame'[k].pc \in Holding PROVE frame[k].iop \in OnWay /\ frame[k].iop # p
  <2>1. frame[k].pc \in Holding /\ frame'[k].iop = frame[k].iop
    BY <1>5 DEF Ending
  <2>2. frame'[k].iop \in (HandsOf(k))'
    BY <1>5 DEF HandsOf, Carried
  <2>3. frame'[k].iop \in OnWay'
    BY <2>2, LevelsAre DEF OnWay
  <2>4. QED BY <2>1, <2>3, <1>1
<1>6. ASSUME NEW k \in Level, frame[k].pc \in Splitting PROVE frame[k].iop # w /\ frame[k].iop # p
  <2>1. frame'[k] = frame[k]
    BY <1>6 DEF Ending
  <2>2. frame'[k].pc \in Holding
    BY <1>6, <2>1 DEF Holding, Splitting
  <2>3. frame[k].iop # p
    BY <1>5, <2>2
  <2>4. PartsOf(frame[k].iop) \subseteq Range(deferred)
    BY <1>6 DEF Inv, SplitsRight
  <2>5. p \notin Range(deferred)
    BY <1>1 DEF OnWay
  <2>6. QED BY <1>2, <2>3, <2>4, <2>5
<1>7. ASSUME p # w PROVE packet[w].at = "part"
  <2>1. PartsOf(w) # {}
    BY <1>2, <1>7
  <2>2. QED BY <1>2, <1>6, <2>1 DEF Inv, SplitsRight
<1>8. QED BY <1>3, <1>4, <1>5, <1>6, <1>7

LEMMA EndingPackets ==
  ASSUME Inv, NEW p \in OnWay, NEW w \in Packet, NEW s \in Statuses, Ending(p, w, s)
  PROVE  PacketsRight'
<1>1. /\ Effect(p, w, s) /\ OnWay' = OnWay \ {p} /\ made' = made
      /\ packet \in [Packet -> PacketRecord]
  BY DEF Ending, Inv, Typed
<1>2. /\ p \in Packet
      /\ \A q \in Packet : (Live(q))' <=> Live(q) /\ (q = p => p = w)
      /\ \A q \in Packet : (Live(q))' => /\ (Whole(q))' <=> Whole(q)
                                         /\ packet'[q].type = packet[q].type
                                         /\ packet'[q].event = packet[q].event
                                         /\ packet'[q].parent = packet[q].parent
                                         /\ packet'[q].request = packet[q].request
                                         /\ packet'[q].routine = packet[q].routine
                                         /\ packet'[q].at = packet[q].at
                                         /\ q # w => packet'[q] = packet[q]
      /\ packet'[w].IOCount = packet[w].IOCount - 1 /\ packet[w].IOCount \in Int /\ packet[w].IOCount > 0
      /\ Live(w) /\ (Live(w))' /\ Whole(w) /\ (Whole(w))'
  BY <1>1, EffectPackets
<1>3. /\ packet'[w].status = IF s = "ok" THEN packet[w].status ELSE "error"
      /\ packet'[w].flags = IF packet[w].IOCount > 1 THEN packet[w].flags
                            ELSE Told(packet[w].flags, packet'[w].status)
      /\ failed' = IF s = "ok" THEN failed ELSE failed \cup {packet[w].request}
      /\ p # w => packet'[p] = Free
      /\ \A q \in Packet \ {p, w} : packet'[q] = packet[q]
      /\ ~Whole(p) <=> p # w
      /\ packet[p].request = packet[w].request
  BY <1>1, <1>2 DEF Effect
<1>4. \A q \in Packet : PacketRight(q)
  BY DEF Inv, PacketsRight
<1>5. ASSUME NEW q \in Packet PROVE PacketRight(q)'
  <2>1. CASE q = p /\ p # w
    <3>1. packet'[q] = Free /\ Free.state = "free" /\ Free.at = "part"
      BY <1>3, <2>1, FreeIs
    <3>2. ~(Live(q))'
      BY <3>1 DEF Live
    <3>3. QED BY <3>1, <3>2 DEF PacketRight
  <2>2. CASE q = w
    <3>1. PacketRight(w)
      BY <1>4
    <3>2. "COMPLETE" \in packet'[w].flags <=> packet'[w].IOCount = 0
      <4>1. "COMPLETE" \notin packet[w].flags
        BY <3>1, <1>2 DEF PacketRight
      <4>2. CASE packet[w].IOCount > 1
        BY <4>1, <4>2, <1>2, <1>3
      <4>3. CASE packet[w].IOCount = 1
        BY <4>3, <1>2, <1>3 DEF Told
      <4>4. QED BY <4>2, <4>3, <1>2
    <3>3. "FREEIOP" \in packet'[w].flags <=> "FREEIOP" \in packet[w].flags
      BY <1>3 DEF Told
    <3>4. packet[w].request # 0 /\ packet[w].request \in failed' => packet'[w].status = "error"
      BY <3>1, <1>2, <1>3 DEF PacketRight, Statuses
    <3>5. QED BY <3>1, <3>2, <3>3, <3>4, <1>1, <1>2, <2>2 DEF PacketRight
  <2>3. CASE q # w /\ q # p
    <3>1. packet'[q] = packet[q] /\ PacketRight(q) /\ ((Live(q))' <=> Live(q)) /\ ((Whole(q))' <=> Whole(q))
      BY <2>3, <1>2, <1>3, <1>4 DEF Whole
    <3>2. ~Live(q) => packet'[q] = Free
      BY <3>1 DEF PacketRight
    <3>3. packet'[q].at # "fats"
      BY <3>1 DEF PacketRight
    <3>4. ASSUME Live(q), Whole(q), packet[q].request # 0, packet[q].request \in failed'
          PROVE  packet[q].status = "error"
      <4>1. packet[q].request # packet[w].request
        BY <3>4, <2>3, <1>2 DEF Inv, RootsRight
      <4>2. packet[q].request \in failed
        BY <4>1, <3>4, <1>3
      <4>3. QED BY <4>2, <3>1, <3>4 DEF PacketRight
    <3>5. ASSUME Live(q), ~Whole(q)
          PROVE  /\ q \in OnWay'
                 /\ packet[q].parent # None =>
                      /\ (Live(packet[q].parent))' /\ (Whole(packet[q].parent))'
                      /\ packet[q].request = packet'[packet[q].parent].request
      <4>1. q \in OnWay
        BY <3>1, <3>5 DEF PacketRight
      <4>2. ASSUME packet[q].parent # None
            PROVE  /\ (Live(packet[q].parent))' /\ (Whole(packet[q].parent))'
                   /\ packet[q].request = packet'[packet[q].parent].request
        <5>1. PICK m \in Packet : m = packet[q].parent
          BY <4>2, <1>1 DEF PacketRecord
        <5>2. Live(m) /\ Whole(m) /\ packet[q].request = packet[m].request
          BY <5>1, <4>2, <3>1, <3>5 DEF PacketRight
        <5>3. m = p => p = w
          BY <5>2, <1>3
        <5>4. (Live(m))' /\ (Whole(m))' /\ packet'[m].request = packet[m].request
          BY <5>2, <5>3, <1>2
        <5>5. packet'[q].parent = m
          BY <3>1, <5>1
        <5>6. QED BY <5>1, <5>2, <5>4, <5>5 DEF Live, Whole
      <4>3. QED BY <4>1, <4>2, <2>3, <1>1
    <3>6. ASSUME Live(q), Whole(q)
          PROVE  /\ packet'[q].parent = None
                 /\ "COMPLETE" \in packet'[q].flags <=> packet'[q].IOCount = 0
                 /\ packet'[q].type = "userasync" =>
                      packet'[q].event = None /\ ("FREEIOP" \in packet'[q].flags <=> ~packet'[q].routine)
                 /\ packet'[q].type = "normal" => "FREEIOP" \notin packet'[q].flags
                 /\ packet'[q].request # 0 /\ packet'[q].request \in failed' => packet'[q].status = "error"
                 /\ packet'[q].request = 0 <=> packet'[q].event = "apc"
                 /\ packet'[q].request <= made'
      BY <3>1, <3>4, <3>6, <1>1 DEF PacketRight
    <3>7. ASSUME Live(q), ~Whole(q)
          PROVE  /\ q \in OnWay'
                 /\ packet'[q].IOCount = 1
                 /\ "FREEIOP" \in packet'[q].flags /\ packet'[q].at = "part"
                 /\ packet'[q].status = "ok" /\ ~packet'[q].routine
                 /\ packet'[q].parent # None =>
                      /\ (Live(packet[q].parent))' /\ (Whole(packet[q].parent))'
                      /\ packet'[q].request = packet'[packet'[q].parent].request
      BY <3>1, <3>5, <3>7 DEF PacketRight
    <3>8. QED BY <3>1, <3>2, <3>3, <3>6, <3>7 DEF PacketRight
  <2>4. QED BY <2>1, <2>2, <2>3
<1>6. QED BY <1>5 DEF PacketsRight

LEMMA EndingCounts ==
  ASSUME Inv, NEW p \in OnWay, NEW w \in Packet, NEW s \in Statuses, Ending(p, w, s)
  PROVE  Counted' /\ RootsRight'
<1>1. Effect(p, w, s) /\ OnWay' = OnWay \ {p}
  BY DEF Ending
<1>2. /\ p \in Packet
      /\ \A q \in Packet : (Live(q))' <=> Live(q) /\ (q = p => p = w)
      /\ \A q \in Packet : (Live(q))' => /\ (Whole(q))' <=> Whole(q)
                                         /\ packet'[q].request = packet[q].request
                                         /\ q # w => packet'[q] = packet[q]
      /\ \A q \in Packet : (PartsOf(q))' = PartsOf(q) \ {p}
      /\ p # w => p \in PartsOf(w)
      /\ \A q \in Packet : p \in PartsOf(q) => q = w /\ p # w
      /\ packet'[w].IOCount = packet[w].IOCount - 1 /\ packet[w].IOCount \in Int
      /\ Live(w) /\ (Live(w))' /\ Whole(w) /\ (Whole(w))'
  BY <1>1, EffectPackets
<1>3. RootsRight'
  BY <1>2 DEF Inv, RootsRight
<1>4. ASSUME NEW q \in Packet, (Live(q))', (Whole(q))'
      PROVE  packet'[q].IOCount = (Own(q))' + Cardinality((PartsOf(q))')
  <2>1. Live(q) /\ Whole(q) /\ (q = p => p = w) /\ (PartsOf(q))' = PartsOf(q) \ {p}
    BY <1>2, <1>4
  <2>2. packet[q].IOCount = Own(q) + Cardinality(PartsOf(q))
    BY <2>1 DEF Inv, Counted
  <2>3. IsFiniteSet(PartsOf(q)) /\ Cardinality(PartsOf(q)) \in Nat
    BY PacketsFinite DEF PartsOf
  <2>4. CASE q # w
    <3>1. p \notin PartsOf(q) /\ packet'[q] = packet[q]
      BY <1>2, <1>4, <2>4
    <3>2. (PartsOf(q))' = PartsOf(q)
      BY <2>1, <3>1
    <3>3. (Own(q))' = Own(q)
      BY <1>1, <2>1, <2>4 DEF Own
    <3>4. QED BY <2>2, <3>1, <3>2, <3>3
  <2>5. CASE q = w /\ p = w
    <3>1. (PartsOf(q))' = PartsOf(q)
      BY <1>2, <2>1, <2>5
    <3>2. Own(q) = 1 /\ (Own(q))' = 0
      BY <1>1, <2>5 DEF Own
    <3>3. QED BY <1>2, <2>2, <2>3, <2>5, <3>1, <3>2
  <2>6. CASE q = w /\ p # w
    <3>1. Cardinality(PartsOf(q) \ {p}) = Cardinality(PartsOf(q)) - 1
      BY <1>2, <2>3, <2>6, FS_RemoveElement
    <3>2. (Own(q))' = Own(q) /\ Own(q) \in Int
      BY <1>1, <2>6 DEF Own
    <3>3. QED BY <1>2, <2>1, <2>2, <2>3, <2>6, <3>1, <3>2
  <2>7. QED BY <2>4, <2>5, <2>6
<1>5. QED BY <1>3, <1>4 DEF Counted

LEMMA EndingSync ==
  ASSUME Inv, NEW p \in OnWay, NEW w \in Packet, NEW s \in Statuses, Ending(p, w, s)
  PROVE  SyncRight'
<1>1. Effect(p, w, s) /\ made' = made
  BY DEF Ending
<1>2. /\ p \in Packet
      /\ \A q \in Packet : (Live(q))' <=> Live(q) /\ (q = p => p = w)
      /\ \A q \in Packet : (Live(q))' => /\ packet'[q].event = packet[q].event
                                         /\ packet'[q].type = packet[q].type
                                         /\ packet'[q].request = packet[q].request
                                         /\ q # w => packet'[q] = packet[q]
      /\ packet'[w].IOCount = packet[w].IOCount - 1 /\ packet[w].IOCount \in Int /\ packet[w].IOCount > 0
      /\ Live(w) /\ (Live(w))'
  BY <1>1, EffectPackets
<1>3. /\ \A k \in Level : signaled'[k] <=> signaled[k] \/ (packet[w].IOCount = 1 /\ packet[w].event = k)
      /\ ~Whole(p) <=> p # w
  BY <1>1, <1>2 DEF Effect
<1>4. \A k \in Level : /\ frame'[k].own = frame[k].own /\ frame'[k].how = frame[k].how
                       /\ Active(k)' <=> Active(k)
  BY DEF Ending
<1>5. ASSUME NEW l \in Level, NEW q \in Packet, (Live(q))', packet'[q].event = l
      PROVE  (Active(l))' /\ frame'[l].how = "sync" /\ frame'[l].own = q
  BY <1>2, <1>4, <1>5 DEF Inv, SyncRight
<1>6. ASSUME NEW l \in Level, (Active(l))', frame'[l].how = "sync"
      PROVE  /\ frame'[l].own \in Packet /\ (Live(frame[l].own))'
             /\ packet'[frame'[l].own].event = l /\ packet'[frame'[l].own].type = "normal"
             /\ packet'[frame'[l].own].request = IF l = "thread" THEN made' ELSE 0
             /\ signaled'[l] => packet'[frame'[l].own].IOCount = 0
  <2>1. PICK o \in Packet : o = frame[l].own
    BY <1>4, <1>6 DEF Inv, SyncRight
  <2>2. /\ Live(o) /\ packet[o].event = l /\ packet[o].type = "normal"
        /\ packet[o].request = IF l = "thread" THEN made ELSE 0
        /\ signaled[l] => packet[o].IOCount = 0
    BY <1>4, <1>6, <2>1 DEF Inv, SyncRight
  <2>3. Whole(o)
    BY <2>2, LevelsAre DEF Whole
  <2>4. (Live(o))'
    BY <1>2, <1>3, <2>2, <2>3
  <2>5. packet'[o].event = l /\ packet'[o].type = "normal"
        /\ packet'[o].request = IF l = "thread" THEN made' ELSE 0
    BY <1>1, <1>2, <2>2, <2>4
  <2>6. ASSUME signaled'[l] PROVE packet'[o].IOCount = 0
    <3>1. CASE signaled[l]
      <4>1. packet[o].IOCount = 0
        BY <2>2, <3>1
      <4>2. o # w
        BY <4>1, <1>2
      <4>3. QED BY <4>1, <4>2, <1>2, <2>4
    <3>2. CASE packet[w].IOCount = 1 /\ packet[w].event = l
      <4>1. frame[l].own = w
        BY <3>2, <1>2 DEF Inv, SyncRight
      <4>2. QED BY <4>1, <3>2, <1>2, <2>1
    <3>3. QED BY <2>6, <3>1, <3>2, <1>3
  <2>7. frame'[l].own = o
    BY <1>4, <2>1
  <2>8. QED BY <2>1, <2>4, <2>5, <2>6, <2>7 DEF Live
<1>7. QED BY <1>5, <1>6 DEF SyncRight, Live

LEMMA EndingAsync ==
  ASSUME Inv, NEW p \in OnWay, NEW w \in Packet, NEW s \in Statuses, Ending(p, w, s)
  PROVE  AsyncRight'
<1>1. Effect(p, w, s) /\ UNCHANGED <<made, iolist, userapcs, finishing>>
  BY DEF Ending
<1>2. /\ p \in Packet
      /\ \A q \in Packet : (Live(q))' <=> Live(q) /\ (q = p => p = w)
      /\ \A q \in Packet : (Live(q))' => /\ packet'[q].type = packet[q].type
                                         /\ packet'[q].routine = packet[q].routine
                                         /\ packet'[q].request = packet[q].request
                                         /\ q # w => packet'[q] = packet[q]
      /\ packet'[w].IOCount = packet[w].IOCount - 1 /\ packet[w].IOCount \in Int /\ packet[w].IOCount > 0
      /\ Live(w) /\ (Live(w))'
  BY <1>1, EffectPackets
<1>3. /\ apcs' = IF packet[w].IOCount = 1 /\ packet[w].type = "userasync" THEN apcs \cup {w} ELSE apcs
      /\ ~Whole(p) <=> p # w
  BY <1>1, <1>2 DEF Effect
<1>4. /\ packet[w].type = "userasync" => w \in iolist /\ w \notin apcs \cup {finishing}
      /\ \A k \in Level : frame'[k].pc \in Holding => frame[k].iop \in OnWay /\ frame[k].iop # p
  BY EndingIs
<1>5. AsyncRight
  BY DEF Inv
<1>6. apcs' \subseteq iolist' /\ finishing' \in iolist' \cup {None} /\ finishing' \notin apcs'
      /\ userapcs' \cap iolist' = {}
  BY <1>1, <1>3, <1>4, <1>5 DEF AsyncRight
<1>7. ASSUME NEW q \in Packet PROVE AsyncPacketRight(q)'
  <2>1. AsyncPacketRight(q)
    BY <1>5 DEF AsyncRight
  <2>2. CASE q = w
    <3>1. q \in iolist => /\ (Live(q))' /\ packet'[q].type = "userasync"
                          /\ packet'[q].IOCount = 0 <=> q \in apcs' \cup {finishing}
      BY <1>2, <1>3, <1>4, <2>1, <2>2 DEF AsyncPacketRight
    <3>2. q \notin userapcs
      BY <1>2, <2>1, <2>2 DEF AsyncPacketRight
    <3>3. packet[q].type = "userasync" => q \in iolist
      BY <1>4, <2>2
    <3>4. QED BY <3>1, <3>2, <3>3, <1>1, <1>2, <2>2 DEF AsyncPacketRight
  <2>3. CASE q # w
    <3>1. q \in apcs' <=> q \in apcs
      BY <1>3, <2>3
    <3>2. Live(q) /\ packet[q].type = "userasync" => (Live(q))'
      BY <1>2, <1>3, <2>3 DEF Whole
    <3>3. (Live(q))' => packet'[q] = packet[q] /\ Live(q)
      BY <1>2, <2>3
    <3>4. QED BY <3>1, <3>2, <3>3, <2>1, <1>1 DEF AsyncPacketRight, LeftBehind
  <2>4. QED BY <2>2, <2>3
<1>8. ASSUME frame'["thread"].pc \in Holding, frame'["thread"].master, frame'["thread"].how = "async"
      PROVE  frame'["thread"].iop \in iolist' /\ packet'[frame'["thread"].iop].request = made'
  <2> DEFINE i == frame["thread"].iop
  <2>1. /\ frame["thread"].pc \in Holding /\ frame["thread"].master /\ frame["thread"].how = "async"
        /\ frame'["thread"].iop = i
    BY <1>8, LevelsAre DEF Ending
  <2>2. i \in iolist /\ packet[i].request = made
    BY <2>1, <1>5 DEF AsyncRight
  <2>3. i # p
    BY <1>4, <1>8, LevelsAre
  <2>4. i \in Packet /\ Live(i)
    BY <2>2, ListedPackets
  <2>5. PICK j \in Packet : j = i
    BY <2>4
  <2>6. packet'[j].request = packet[j].request
    BY <2>3, <2>4, <2>5, <1>2
  <2>7. frame'["thread"].iop = j /\ j \in iolist /\ packet[j].request = made
    BY <2>1, <2>2, <2>5
  <2> HIDE DEF i
  <2>8. QED BY <2>6, <2>7, <1>1
<1>9. frame'["thread"].pc = "gone" => iolist' = {} /\ userapcs' = {}
  <2>1. frame'["thread"].pc = "gone" => frame["thread"].pc = "gone"
    BY DEF Ending
  <2>2. QED BY <2>1, <1>1, <1>5 DEF AsyncRight
<1>10. QED BY <1>6, <1>7, <1>8, <1>9 DEF AsyncRight

LEMMA EndingPlaces ==
  ASSUME Inv, NEW p \in OnWay, NEW w \in Packet, NEW s \in Statuses, Ending(p, w, s)
  PROVE  PlacesRight' /\ SplitsRight'
<1>1. Effect(p, w, s) /\ deferred' = deferred /\ OnWay' = OnWay \ {p} /\ queue' \subseteq queue
  BY DEF Ending
<1>2. /\ \A q \in Packet : (Live(q))' <=> Live(q) /\ (q = p => p = w)
      /\ \A q \in Packet : (Live(q))' => /\ (Whole(q))' <=> Whole(q)
                                         /\ packet'[q].parent = packet[q].parent
                                         /\ packet'[q].request = packet[q].request
                                         /\ packet'[q].at = packet[q].at
                                         /\ q # w => packet'[q] = packet[q]
      /\ \A q \in Packet : (PartsOf(q))' = PartsOf(q) \ {p}
      /\ packet[w].IOCount \in Int /\ packet[w].IOCount > 0
      /\ Live(w)
  BY <1>1, EffectPackets
<1>3. packet[w].IOCount > 1 => packet'[w].flags = packet[w].flags
  BY <1>1 DEF Effect
<1>4. /\ w \in OnWay /\ p # w => packet[w].IOCount > 1
      /\ \A k \in Level : frame'[k].pc \in Holding => frame[k].iop \in OnWay /\ frame[k].iop # p
      /\ \A k \in Level : frame[k].pc \in Splitting => frame[k].iop # w /\ frame[k].iop # p
      /\ p # w => packet[w].at = "part"
  BY EndingIs
<1>5. \A k \in Level :
        /\ frame'[k].rest = frame[k].rest /\ frame'[k].frags = frame[k].frags
        /\ frame'[k].pc \in Holding => /\ frame[k].pc \in Holding
                                       /\ frame'[k].iop = frame[k].iop
                                       /\ frame'[k].master = frame[k].master
        /\ frame'[k].pc \in Splitting => frame'[k] = frame[k]
        /\ frame[k].pc \in Splitting => frame'[k] = frame[k]
  BY DEF Ending
<1>6. \A q \in OnWay : q \in Packet /\ Live(q) /\ "COMPLETE" \notin packet[q].flags
  BY OnWayCounts DEF Inv, PlacesRight
<1>7. ASSUME NEW q \in OnWay'
      PROVE  /\ (Live(q))' /\ "COMPLETE" \notin packet'[q].flags
             /\ (Whole(q))' <=> Whole(q)
             /\ packet'[q].parent = packet[q].parent
             /\ packet'[q].request = packet[q].request
  <2>1. q \in OnWay /\ q # p /\ q \in Packet /\ (Live(q))'
    BY <1>1, <1>2, <1>6
  <2>2. packet'[q].flags = packet[q].flags
    BY <1>2, <1>3, <1>4, <2>1
  <2>3. QED BY <2>1, <2>2, <1>2, <1>6
<1>8. \A q \in queue' : q \in queue \/ Whole(q) \/ packet[q].parent # None
  BY <1>1
<1>9. ASSUME NEW k \in Level, frame'[k].frags # <<>> PROVE frame'[k].pc \in Holding
  <2>1. LevelsRight'
    BY DEF Ending
  <2>2. QED BY <2>1, <1>9 DEF LevelsRight, FrameRight, Holding, Splitting
<1>10. PlacesRight'
  <2>1. OnWay' \subseteq OnWay
    BY <1>1
  <2>2. \A k \in Level : /\ frame'[k].rest = frame[k].rest /\ frame'[k].frags = frame[k].frags
                         /\ frame'[k].pc \in Holding =>
                              /\ frame[k].pc \in Holding
                              /\ frame'[k].iop = frame[k].iop /\ frame'[k].master = frame[k].master
                         /\ frame'[k].frags # <<>> => frame'[k].pc \in Holding
    BY <1>5, <1>9
  <2>3. \A q \in OnWay' : /\ (Live(q))' /\ "COMPLETE" \notin packet'[q].flags
                          /\ (Whole(q))' <=> Whole(q)
                          /\ packet'[q].parent = packet[q].parent
                          /\ packet'[q].request = packet[q].request
    BY <1>7
  <2>4. deferred' = deferred
    BY <1>1
  <2>5. QED BY <2>1, <2>2, <2>3, <2>4, <1>8, PlacesKept
<1>11. \A q \in Packet : (Live(q))' => /\ Live(q) /\ (PartsOf(q))' \subseteq PartsOf(q)
                                       /\ packet'[q].at = packet[q].at
  BY <1>2
<1>12. ASSUME NEW k \in Level, frame[k].pc \in Splitting
       PROVE  packet'[frame[k].iop].IOCount = packet[frame[k].iop].IOCount /\ (packet'[frame[k].iop]).state = "live"
  <2>1. frame[k].iop \in Packet /\ frame[k].iop # w /\ frame[k].iop # p
    BY <1>4, <1>12 DEF Inv, LevelsRight, FrameRight, Holding, Splitting
  <2>2. Live(frame[k].iop)
    <3>1. frame[k].iop \in HandsOf(k)
      BY <1>12 DEF HandsOf, Carried, Holding, Splitting
    <3>2. frame[k].iop \in OnWay
      BY <3>1, OnWayIs
    <3>3. QED BY <3>2, <1>6
  <2>3. packet'[frame[k].iop] = packet[frame[k].iop]
    BY <2>1, <2>2, <1>2
  <2>4. QED BY <2>2, <2>3 DEF Live
<1>13. ASSUME NEW k \in Level, frame'[k].pc \in Holding, frame[k].master, packet[frame[k].iop].at # "part"
       PROVE  packet'[frame[k].iop].status = packet[frame[k].iop].status
  <2>1. frame[k].iop \in Packet /\ Live(frame[k].iop) /\ frame[k].iop # p
    BY <1>4, <1>6, <1>13
  <2>2. frame[k].iop # w
    BY <1>4, <1>13, <2>1
  <2>3. QED BY <2>1, <2>2, <1>2
<1>14. ASSUME NEW k \in Level, frame'[k].pc \in Holding PROVE packet'[frame[k].iop].state = "live"
  <2>1. PICK j \in Packet : j = frame[k].iop
    BY <1>4, <1>6, <1>14
  <2>2. (Live(j))'
    BY <2>1, <1>2, <1>4, <1>6, <1>14
  <2>3. QED BY <2>1, <2>2 DEF Live
<1>15. SplitsRight'
  <2>1. \A k \in Level : /\ frame'[k].pc \in Holding =>
                              /\ frame[k].pc \in Holding
                              /\ frame'[k].iop = frame[k].iop /\ frame'[k].master = frame[k].master
                         /\ frame'[k].pc \in Splitting => frame'[k] = frame[k]
                         /\ frame[k].pc \in Splitting => frame'[k] = frame[k]
    BY <1>5
  <2>2. \A k \in Level : frame[k].pc \in Splitting =>
                          /\ packet'[frame[k].iop].IOCount = packet[frame[k].iop].IOCount
                          /\ (Live(frame[k].iop))'
    <3>1. ASSUME NEW k \in Level, frame[k].pc \in Splitting
          PROVE  /\ packet'[frame[k].iop].IOCount = packet[frame[k].iop].IOCount
                 /\ (Live(frame[k].iop))'
      <4>1. frame'[k].iop = frame[k].iop
        BY <1>5, <3>1
      <4>2. QED BY <4>1, <3>1, <1>12 DEF Live
    <3>2. QED BY <3>1
  <2>3. \A k \in Level : frame'[k].pc \in Holding => (Live(frame[k].iop))'
    <3>1. ASSUME NEW k \in Level, frame'[k].pc \in Holding PROVE (Live(frame[k].iop))'
      BY <3>1, <1>5, <1>14 DEF Live
    <3>2. QED BY <3>1
  <2>4. deferred' = deferred
    BY <1>1
  <2>5. \A k \in Level : frame'[k].pc \in Holding /\ frame[k].master /\ packet[frame[k].iop].at # "part" =>
                           packet'[frame[k].iop].status = packet[frame[k].iop].status
    BY <1>13
  <2>6. QED BY <2>1, <2>2, <2>3, <2>4, <2>5, <1>11, SplitsKept
<1>16. QED BY <1>10, <1>15

\* How the call of the thread goes on when packet p ends with s: it minds its
\* own business, or p was its request and the call is told.
GoesOn(p, s) ==
  \/ /\ Deciding' <=> Deciding
     /\ Deciding => p # frame["thread"].iop
     /\ Returned(made)' <=> Returned(made)
     /\ frame'["thread"].ok = frame["thread"].ok
  \/ /\ frame["thread"].pc = "dispatch" /\ frame["thread"].master
     /\ ~Deciding' /\ ~Returned(made)'
     /\ frame'["thread"].ok = s
     /\ p = frame["thread"].iop
     /\ s = "ok" => packet[p].at # "part"

LEMMA EndingRequests ==
  ASSUME Inv, NEW p \in OnWay, NEW w \in Packet, NEW s \in Statuses, Ending(p, w, s), GoesOn(p, s)
  PROVE  RequestsRight'
<1>1. Effect(p, w, s) /\ UNCHANGED <<made, iolist, told>>
  BY DEF Ending
<1>2. /\ p \in Packet
      /\ \A q \in Packet : (Live(q))' <=> Live(q) /\ (q = p => p = w)
      /\ \A q \in Packet : (Live(q))' => /\ packet'[q].type = packet[q].type
                                         /\ packet'[q].routine = packet[q].routine
                                         /\ packet'[q].request = packet[q].request
                                         /\ q # w => packet'[q] = packet[q]
      /\ packet'[w].IOCount = packet[w].IOCount - 1 /\ packet[w].IOCount \in Int /\ packet[w].IOCount > 0
      /\ Live(w) /\ (Live(w))' /\ Whole(w)
  BY <1>1, EffectPackets
<1>3. /\ packet'[w].status = IF s = "ok" THEN packet[w].status ELSE "error"
      /\ packet'[w].flags = IF packet[w].IOCount > 1 THEN packet[w].flags
                            ELSE Told(packet[w].flags, packet'[w].status)
      /\ failed' = IF s = "ok" THEN failed ELSE failed \cup {packet[w].request}
      /\ ~Whole(p) <=> p # w
  BY <1>1, <1>2 DEF Effect
<1>4. /\ packet[w].type = "userasync" => w \in iolist /\ w \notin apcs \cup {finishing}
      /\ w \in OnWay /\ p # w => packet[w].IOCount > 1
  BY EndingIs
<1>5. /\ s \in {"ok", "error"} /\ made \in Nat /\ packet[w].status \in {"ok", "error"}
      /\ \A k \in Level : frame[k].ok \in {"ok", "error"}
  BY BoundAssumption, FrameFields DEF Inv, Typed, PacketRecord, Statuses
<1>6. \A q \in iolist : /\ q \in Packet /\ Live(q) /\ Whole(q) /\ packet[q].type = "userasync"
                        /\ packet[q].request \in Int /\ packet[q].request <= made
                        /\ (Live(q))' /\ packet'[q].request = packet[q].request
  BY ListedPackets, <1>2, <1>3
<1>7. frame'["thread"].how = frame["thread"].how
  BY LevelsAre DEF Ending
<1>8. packet[w].request \in Int /\ packet[w].request <= made
  <2>1. packet[w] \in PacketRecord /\ PacketRight(w)
    BY DEF Inv, Typed, PacketsRight
  <2>2. MaxRequests \in Nat
    BY BoundAssumption
  <2>3. QED BY <2>1, <2>2, <1>2 DEF PacketRight, PacketRecord, Request0
<1>9. CASE /\ frame["thread"].pc = "dispatch" /\ frame["thread"].master
           /\ ~Deciding' /\ ~Returned(made)'
           /\ frame'["thread"].ok = s
           /\ p = frame["thread"].iop
           /\ s = "ok" => packet[p].at # "part"
  <2>1. Deciding /\ ~Returned(made)
    BY <1>5, <1>9 DEF Deciding, Returned, Holding, Done
  <2>2. Whole(p) /\ p = w
    BY <1>3, <1>9, <2>1, LevelsAre DEF Deciding, Inv, PlacesRight, PlaceRight
  <2>3. packet[w].at # "part" => packet[w].status = "ok"
    <3>1. \A l \in Level :
            frame[l].pc \in Holding /\ frame[l].master /\ packet[frame[l].iop].at # "part" =>
              packet[frame[l].iop].status = "ok"
      BY DEF Inv, SplitsRight
    <3>2. frame["thread"].iop = w /\ frame["thread"].pc \in Holding /\ frame["thread"].master
      BY <1>9, <2>1, <2>2 DEF Deciding
    <3>3. QED BY <3>1, <3>2, LevelsAre
  <2>4. packet[w].IOCount > 1 => packet[w].at = "part"
    <3>1. SUFFICES ASSUME packet[w].IOCount > 1 PROVE packet[w].at = "part"
      OBVIOUS
    <3>2. packet[w].IOCount = 1 + Cardinality(PartsOf(w))
      BY <1>2, <2>2 DEF Inv, Counted, Own
    <3>3. PartsOf(w) # {}
      BY <3>1, <3>2, FS_EmptySet
    <3>4. \A k \in Level : frame[k].pc \in Splitting => frame[k].iop # w
      BY EndingIs
    <3>5. QED BY <1>2, <3>3, <3>4 DEF Inv, SplitsRight
  <2>5. s = "ok" => packet[w].IOCount = 1 /\ packet[w].status = "ok"
    BY <1>2, <1>9, <2>2, <2>3, <2>4
  <2>6. frame["thread"].how = "async" => w \in iolist /\ packet[w].request = made
    BY <1>9, <2>1, <2>2 DEF Deciding, Inv, AsyncRight
  <2>7. ASSUME NEW r \in 1..MaxRequests PROVE RequestRight(r)'
    <3>1. RequestRight(r)
      BY DEF Inv, RequestsRight
    <3>2. r \in Int /\ r > 0
      BY BoundAssumption
    <3>3. Returned(r)' <=> Returned(r)
      BY <1>1, <1>9, <2>1, <3>2, <1>5 DEF Returned
    <3>4. Len(told'[r]) <= 1 /\ (r > made' => told'[r] = <<>> /\ r \notin failed')
      BY <1>1, <1>3, <1>8, <3>1, <3>2, <1>5 DEF RequestRight
    <3>5. told'[r] = <<"ok">> =>
            r \notin failed' /\ \A q \in Packet : (Live(q))' /\ packet'[q].request = r => packet'[q].IOCount = 0
      <4>1. SUFFICES ASSUME told[r] = <<"ok">>
            PROVE r \notin failed' /\ \A q \in Packet : (Live(q))' /\ packet'[q].request = r => packet'[q].IOCount = 0
        BY <1>1
      <4>2. packet[w].request # r
        BY <4>1, <3>1, <1>2 DEF RequestRight
      <4>3. QED BY <4>1, <4>2, <3>1, <1>2, <1>3 DEF RequestRight
    <3>6. r <= made' /\ Returned(r)' /\ (\A q \in iolist' : packet'[q].request # r) => Len(told'[r]) = 1
      BY <3>1, <3>3, <1>1, <1>6 DEF RequestRight
    <3>7. ASSUME r = made', ~Returned(r)'
          PROVE  /\ frame'["thread"].how = "sync" => told'[r] = <<>>
                 /\ frame'["thread"].how = "async" =>
                      IF frame'["thread"].ok = "error" THEN told'[r] = <<>>
                      ELSE \E q \in iolist' : packet'[q].request = r
      <4>1. told[r] = <<>>
        BY <3>1, <3>3, <3>7, <1>1, <2>1 DEF RequestRight
      <4>2. frame'["thread"].how = "async" => w \in iolist' /\ packet'[w].request = r
        BY <2>6, <1>1, <1>2, <1>7, <3>7
      <4>3. QED BY <4>1, <4>2, <1>1
    <3>8. ASSUME NEW q \in iolist', packet'[q].request = r
          PROVE  /\ "DOCOMPLT" \in packet'[q].flags => told'[r] = <<>>
                 /\ "DOCOMPLT" \notin packet'[q].flags =>
                      /\ told'[r] = IF Returned(r)' THEN <<"error">> ELSE <<>>
                      /\ packet'[q].status = "error"
                 /\ ~Returned(r)' => frame'["thread"].how = "async" /\
                      ("DOCOMPLT" \in packet'[q].flags <=> frame'["thread"].ok = "ok")
      <4>1. /\ q \in iolist /\ q \in Packet /\ packet[q].request = r /\ r <= made
            /\ Live(q) /\ Whole(q) /\ (Live(q))' /\ told' = told
        BY <1>1, <1>6, <3>8
      <4>2. /\ "DOCOMPLT" \in packet[q].flags => told[r] = <<>>
            /\ "DOCOMPLT" \notin packet[q].flags =>
                 /\ told[r] = IF Returned(r) THEN <<"error">> ELSE <<>>
                 /\ Returned(r) => packet[q].status = "error"
            /\ ~Returned(r) => frame["thread"].how = "async" /\ "DOCOMPLT" \notin packet[q].flags
        BY <4>1, <3>1, <2>1 DEF RequestRight
      <4>3. CASE q # w
        <5>1. packet'[q] = packet[q]
          BY <1>2, <4>1, <4>3
        <5>2. Returned(r)
          <6>1. ASSUME r = made, ~Returned(r) PROVE FALSE
            <7>1. packet[w].request = packet[q].request /\ packet[q].request # 0
              BY <2>6, <4>1, <4>2, <6>1, <3>2
            <7>2. QED BY <7>1, <4>1, <4>3, <1>2 DEF Inv, RootsRight
          <6>2. QED BY <6>1, <4>1, <3>2, <1>5 DEF Returned
        <5>3. QED BY <4>1, <4>2, <5>1, <5>2, <3>3
      <4>4. CASE q = w /\ Returned(r)
        <5>1. packet[w].status = "error" => packet'[w].status = "error"
          BY <1>3
        <5>2. CASE "DOCOMPLT" \in packet[w].flags
          <6>1. "DOCOMPLT" \in packet'[w].flags
            BY <1>3, <5>2 DEF Told
          <6>2. QED BY <6>1, <5>2, <4>1, <4>2, <4>4, <3>3
        <5>3. CASE "DOCOMPLT" \notin packet[w].flags
          <6>1. packet'[w].status = "error"
            BY <4>2, <4>4, <5>1, <5>3
          <6>2. "DOCOMPLT" \notin packet'[w].flags
            BY <6>1, <1>3, <5>3 DEF Told
          <6>3. QED BY <6>1, <6>2, <5>3, <4>1, <4>2, <4>4, <3>3
        <5>4. QED BY <5>2, <5>3
      <4>5. CASE q = w /\ ~Returned(r)
        <5>1. "DOCOMPLT" \notin packet[w].flags /\ told[r] = <<>> /\ frame["thread"].how = "async"
          BY <4>2, <4>5
        <5>2. CASE s = "ok"
          <6>1. packet'[w].status = "ok" /\ "DOCOMPLT" \in packet'[w].flags
            BY <1>3, <2>5, <5>2 DEF Told
          <6>2. QED BY <6>1, <5>1, <5>2, <4>1, <4>5, <1>7, <1>9, <3>3
        <5>3. CASE s # "ok"
          <6>1. packet'[w].status = "error"
            BY <1>3, <5>3
          <6>2. "DOCOMPLT" \notin packet'[w].flags
            BY <6>1, <1>3, <5>1 DEF Told
          <6>3. QED BY <6>1, <6>2, <5>1, <5>3, <4>1, <4>5, <1>7, <1>9, <3>3
        <5>4. QED BY <5>2, <5>3
      <4>6. QED BY <4>3, <4>4, <4>5
    <3>9. \A q \in iolist' : packet'[q].request = r =>
            /\ "DOCOMPLT" \in packet'[q].flags => told'[r] = <<>>
            /\ "DOCOMPLT" \notin packet'[q].flags =>
                 /\ told'[r] = IF Returned(r)' THEN <<"error">> ELSE <<>>
                 /\ Returned(r)' \/ ~Deciding' => packet'[q].status = "error"
            /\ ~Returned(r)' => frame'["thread"].how = "async" /\
                 ("DOCOMPLT" \in packet'[q].flags <=> ~Deciding' /\ frame'["thread"].ok = "ok")
      BY <3>8, <1>9
    <3>10. r = made' /\ ~Returned(r)' =>
             /\ frame'["thread"].how = "sync" \/ Deciding' => told'[r] = <<>>
             /\ frame'["thread"].how = "async" /\ ~Deciding' =>
                  IF frame'["thread"].ok = "error" THEN told'[r] = <<>>
                  ELSE Len(told'[r]) = 1 \/ \E q \in iolist' : packet'[q].request = r
      BY <3>7, <1>9
    <3>11. QED BY <3>4, <3>5, <3>6, <3>9, <3>10 DEF RequestRight, Live
  <2>8. QED BY <2>7 DEF RequestsRight
<1>10. CASE /\ Deciding' <=> Deciding
            /\ Deciding => p # frame["thread"].iop
            /\ Returned(made)' <=> Returned(made)
            /\ frame'["thread"].ok = frame["thread"].ok
  <2>7. ASSUME NEW r \in 1..MaxRequests PROVE RequestRight(r)'
    <3>1. RequestRight(r)
      BY DEF Inv, RequestsRight
    <3>2. r \in Int /\ r > 0
      BY BoundAssumption
    <3>3. Returned(r)' <=> Returned(r)
      <4>1. CASE r < made
        BY <1>1, <4>1 DEF Returned
      <4>2. CASE ~(r < made)
        BY <1>1, <1>5, <1>10, <4>2 DEF Returned
      <4>3. QED BY <4>1, <4>2
    <3>4. Len(told'[r]) <= 1 /\ (r > made' => told'[r] = <<>> /\ r \notin failed')
      BY <1>1, <1>3, <1>8, <3>1, <3>2, <1>5 DEF RequestRight
    <3>5. told'[r] = <<"ok">> =>
            r \notin failed' /\ \A q \in Packet : (Live(q))' /\ packet'[q].request = r => packet'[q].IOCount = 0
      <4>1. SUFFICES ASSUME told[r] = <<"ok">>
            PROVE r \notin failed' /\ \A q \in Packet : (Live(q))' /\ packet'[q].request = r => packet'[q].IOCount = 0
        BY <1>1
      <4>2. packet[w].request # r
        BY <4>1, <3>1, <1>2 DEF RequestRight
      <4>3. QED BY <4>1, <4>2, <3>1, <1>2, <1>3 DEF RequestRight
    <3>6. r <= made' /\ Returned(r)' /\ (\A q \in iolist' : packet'[q].request # r) => Len(told'[r]) = 1
      BY <3>1, <3>3, <1>1, <1>6 DEF RequestRight
    <3>7. ASSUME r = made', ~Returned(r)'
          PROVE  /\ frame'["thread"].how = "sync" \/ Deciding' => told'[r] = <<>>
                 /\ frame'["thread"].how = "async" /\ ~Deciding' =>
                      IF frame'["thread"].ok = "error" THEN told'[r] = <<>>
                      ELSE Len(told'[r]) = 1 \/ \E q \in iolist' : packet'[q].request = r
      <4>1. r = made /\ ~Returned(r)
        BY <1>1, <3>3, <3>7
      <4>2. (\E q \in iolist' : packet'[q].request = r) <=> (\E q \in iolist : packet[q].request = r)
        BY <1>1, <1>6
      <4>3. QED BY <4>1, <4>2, <3>1, <1>1, <1>7, <1>10 DEF RequestRight
    <3>8. ASSUME NEW q \in iolist', packet'[q].request = r
          PROVE  /\ "DOCOMPLT" \in packet'[q].flags => told'[r] = <<>>
                 /\ "DOCOMPLT" \notin packet'[q].flags =>
                      /\ told'[r] = IF Returned(r)' THEN <<"error">> ELSE <<>>
                      /\ Returned(r)' \/ ~Deciding' => packet'[q].status = "error"
                 /\ ~Returned(r)' => frame'["thread"].how = "async" /\
                      ("DOCOMPLT" \in packet'[q].flags <=> ~Deciding' /\ frame'["thread"].ok = "ok")
      <4>1. /\ q \in iolist /\ q \in Packet /\ packet[q].request = r /\ r <= made
            /\ Live(q) /\ Whole(q) /\ (Live(q))' /\ told' = told
        BY <1>1, <1>6, <3>8
      <4>2. /\ "DOCOMPLT" \in packet[q].flags => told[r] = <<>>
            /\ "DOCOMPLT" \notin packet[q].flags =>
                 /\ told[r] = IF Returned(r) THEN <<"error">> ELSE <<>>
                 /\ Returned(r) \/ ~Deciding => packet[q].status = "error"
            /\ ~Returned(r) => frame["thread"].how = "async" /\
                 ("DOCOMPLT" \in packet[q].flags <=> ~Deciding /\ frame["thread"].ok = "ok")
        BY <4>1, <3>1 DEF RequestRight
      <4>3. CASE q # w
        <5>1. packet'[q] = packet[q]
          BY <1>2, <4>1, <4>3
        <5>2. QED BY <4>1, <4>2, <5>1, <3>3, <1>7, <1>10
      <4>4. CASE q = w
        <5>1. packet[w].status = "error" => packet'[w].status = "error"
          BY <1>3
        <5>2. "DOCOMPLT" \in packet[w].flags => "DOCOMPLT" \in packet'[w].flags
          BY <1>3 DEF Told
        <5>3. "DOCOMPLT" \in packet'[w].flags /\ "DOCOMPLT" \notin packet[w].flags =>
                packet[w].IOCount = 1 /\ packet'[w].status = "ok"
          BY <1>2, <1>3 DEF Told
        <5>4. "DOCOMPLT" \notin packet[w].flags /\ (Returned(r) \/ ~Deciding) => "DOCOMPLT" \notin packet'[w].flags
          BY <4>2, <4>4, <5>1, <5>3
        <5>5. ASSUME ~Returned(r), Deciding PROVE "DOCOMPLT" \notin packet'[w].flags
          <6>1. "DOCOMPLT" \notin packet[w].flags /\ frame["thread"].how = "async"
            BY <4>2, <4>4, <5>5
          <6>2. r = made
            BY <5>5, <4>1, <3>2, <1>5 DEF Returned
          <6>3. frame["thread"].iop \in iolist /\ packet[frame["thread"].iop].request = made
            BY <5>5, <6>1 DEF Deciding, Inv, AsyncRight
          <6>4. frame["thread"].iop = w
            BY <6>2, <6>3, <4>1, <4>4, <3>2, <1>6 DEF Inv, RootsRight
          <6>5. frame["thread"].iop \in HandsOf("thread")
            BY <5>5 DEF Deciding, HandsOf, Carried
          <6>6. w \in OnWay /\ p # w
            BY <6>4, <6>5, <5>5, <1>10 DEF OnWay
          <6>7. packet[w].IOCount > 1
            BY <6>6, <1>4
          <6>8. QED BY <6>1, <6>7, <1>3
        <5>6. "DOCOMPLT" \in packet'[w].flags <=> "DOCOMPLT" \in packet[w].flags
          BY <5>2, <5>4, <5>5, <4>2, <4>4
        <5>7. QED BY <4>1, <4>2, <4>4, <5>1, <5>6, <3>3, <1>7, <1>10
      <4>5. QED BY <4>3, <4>4
    <3>9. QED BY <3>4, <3>5, <3>6, <3>7, <3>8 DEF RequestRight, Live
  <2>8. QED BY <2>7 DEF RequestsRight
<1>11. QED BY <1>9, <1>10 DEF GoesOn

LEMMA EndingInv ==
  ASSUME Inv, NEW p \in OnWay, NEW w \in Packet, NEW s \in Statuses, Ending(p, w, s), GoesOn(p, s)
  PROVE  Inv'
<1>1. PacketsRight' /\ Counted' /\ RootsRight' /\ SyncRight' /\ AsyncRight' /\ PlacesRight' /\ SplitsRight'
      /\ RequestsRight'
  BY EndingPackets, EndingCounts, EndingSync, EndingAsync, EndingPlaces, EndingRequests
<1>2. Apart' /\ LevelsRight'
  BY DEF Ending
<1>3. Typed'
  <2>1. /\ packet' \in [Packet -> PacketRecord] /\ signaled' \in [Level -> BOOLEAN]
        /\ apcs' = IF packet[w].IOCount = 1 /\ packet[w].type = "userasync" THEN apcs \cup {w} ELSE apcs
        /\ failed' = IF s = "ok" THEN failed ELSE failed \cup {packet[w].request}
    BY DEF Ending, Effect
  <2>2. /\ UNCHANGED <<deferred, iolist, userapcs, finishing, made, told>>
        /\ queue' \subseteq queue /\ frame' \in [Level -> FrameRecord]
    BY DEF Ending
  <2>3. packet[w].request \in Request0
    BY DEF Inv, Typed, PacketRecord
  <2>4. Typed
    BY DEF Inv
  <2>5. apcs' \subseteq Packet /\ failed' \subseteq Request0
    BY <2>1, <2>3, <2>4 DEF Typed
  <2>6. QED BY <2>1, <2>2, <2>4, <2>5 DEF Typed
<1>4. QED BY <1>1, <1>2, <1>3 DEF Inv

-----------------------------------------------------------------------------
(* The actions that end packets.                                           *)

\* A driver lets go of a packet.
LEMMA LetGo ==
  ASSUME Inv, NEW p \in queue, queue' = queue \ {p}, deferred' = deferred,
         \A k \in Level : /\ (Carried(k))' = Carried(k)
                          /\ frame'[k].rest = frame[k].rest /\ frame'[k].frags = frame[k].frags
  PROVE  OnWay' = OnWay \ {p} /\ Apart'
<1>1. Apart
  BY DEF Inv
<1>2. \A k \in Level : (HandsOf(k))' = HandsOf(k) /\ p \notin HandsOf(k)
  BY <1>1 DEF HandsOf, Apart
<1>3. p \notin Range(deferred)
  BY <1>1 DEF Apart
<1>4. OnWay' = OnWay \ {p}
  BY <1>2, <1>3, LevelsAre DEF OnWay
<1>5. Apart'
  BY <1>1, <1>2, LevelsAre DEF Apart
<1>6. QED BY <1>4, <1>5

LEMMA FinishesInv ==
  ASSUME Inv, NEW p \in Packet, Finishes(p)
  PROVE  Inv'
<1>1. p \in queue /\ queue' = queue \ {p} /\ UNCHANGED <<deferred, iolist, userapcs, finishing, frame, made, told>>
  BY DEF Finishes
<1>2. PICK s \in Statuses : Complete(packet, p, s)
  BY DEF Finishes
<1>3. p \in OnWay /\ (Whole(p) \/ packet[p].parent # None)
  BY <1>1 DEF OnWay, Inv, PlacesRight
<1>4. PICK w \in Packet : Effect(p, w, s)
  BY <1>2, <1>3, CompleteEffect
<1>5. OnWay' = OnWay \ {p} /\ Apart'
  BY <1>1, LetGo DEF Carried
<1>6. LevelsRight' /\ frame' \in [Level -> FrameRecord]
  BY <1>1 DEF Inv, Typed, LevelsRight, FrameRight
<1>7. Ending(p, w, s)
  BY <1>1, <1>4, <1>5, <1>6 DEF Ending, Active
<1>8. Deciding => p # frame["thread"].iop
  <2>1. Deciding => frame["thread"].iop \in HandsOf("thread")
    BY DEF Deciding, HandsOf, Carried
  <2>2. QED BY <2>1, <1>1, LevelsAre DEF Inv, Apart
<1>9. GoesOn(p, s)
  BY <1>1, <1>8 DEF GoesOn, Deciding, Returned
<1>10. QED BY <1>3, <1>7, <1>9, EndingInv

\* A packet that can be cancelled and that nobody works on is its driver's.
LEMMA CancellableIs ==
  ASSUME Inv, NEW p \in Packet, Live(p), Whole(p), Cancellable(p),
         \A k \in Level : frame[k].pc \in Holding => frame[k].iop # p
  PROVE  p \in queue
<1>1. packet[p].at = "duplex" /\ "COMPLETE" \notin packet[p].flags
  BY DEF Cancellable
<1>2. packet[p].IOCount # 0
  BY <1>1 DEF Inv, PacketsRight, PacketRight
<1>3. PartsOf(p) = {}
  BY <1>1 DEF Inv, SplitsRight, Holding, Splitting
<1>4. Own(p) # 0
  BY <1>2, <1>3, FS_EmptySet DEF Inv, Counted, Own
<1>5. p \in OnWay
  BY <1>4 DEF Own
<1>6. p \notin Range(deferred) /\ \A k \in Level : p \notin Range(frame[k].rest)
      /\ p \notin Range(frame[k].frags) /\ p \notin Carried(k)
  BY DEF Inv, PlacesRight, PlaceRight, Carried
<1>7. QED BY <1>5, <1>6, LevelsAre DEF OnWay, HandsOf

LEMMA CancelInv ==
  ASSUME Inv, NEW p \in Packet, Live(p), Whole(p), Cancellable(p), Cancel(p),
         finishing = None, frame["thread"].pc \in {"cancel", "rundown"},
         frame' = frame \/ (frame["thread"].pc = "cancel" /\ Goto("thread", "drain")),
         UNCHANGED <<deferred, iolist, userapcs, finishing, made, told>>
  PROVE  Inv'
<1>1. frame["apc"].pc = "idle"
  BY DEF Inv, LevelsRight
<1>2. \A k \in Level : frame[k].pc \notin Holding /\ frame[k].pc \notin Splitting
  BY <1>1, LevelsAre DEF Holding, Splitting
<1>3. p \in queue
  BY <1>2, CancellableIs
<1>4. queue' = queue \ {p} /\ Complete(packet, p, "error") /\ p \in OnWay /\ "error" \in Statuses
  BY <1>3 DEF Cancel, OnWay, Statuses
<1>5. PICK w \in Packet : Effect(p, w, "error")
  BY <1>4, CompleteEffect
<1>6. /\ frame' \in [Level -> FrameRecord]
      /\ \A k \in Level :
           /\ frame'[k].own = frame[k].own /\ frame'[k].how = frame[k].how
           /\ frame'[k].rest = frame[k].rest /\ frame'[k].frags = frame[k].frags
           /\ frame'[k].iop = frame[k].iop /\ frame'[k].master = frame[k].master
           /\ frame'[k].ok = frame[k].ok
           /\ \/ frame'[k].pc = frame[k].pc
              \/ k = "thread" /\ frame[k].pc = "cancel" /\ frame'[k].pc = "drain"
      /\ frame'["apc"].pc = frame["apc"].pc
  <2>1. CASE frame' = frame
    BY <2>1 DEF Inv, Typed
  <2>2. CASE frame["thread"].pc = "cancel" /\ Goto("thread", "drain")
    <3>1. "drain" \in PCs /\ Typed
      BY DEF PCs, Inv
    <3>2. QED BY <2>2, <3>1, LevelsAre, GotoIs
  <2>3. QED BY <2>1, <2>2
<1>7. \A k \in Level : /\ frame'[k].pc \notin Holding /\ frame'[k].pc \notin Splitting
                       /\ Active(k)' <=> Active(k)
  BY <1>2, <1>6 DEF Holding, Splitting, Active, Done
<1>8. \A k \in Level : (Carried(k))' = Carried(k)
  BY <1>2, <1>7 DEF Carried
<1>9. OnWay' = OnWay \ {p} /\ Apart'
  BY <1>3, <1>4, <1>6, <1>8, LetGo
<1>10. LevelsRight'
  <2>1. LevelsRight
    BY DEF Inv
  <2>2. \A k \in Level : FrameRight(k)'
    BY <2>1, <1>6, <1>7 DEF LevelsRight, FrameRight, Holding, Splitting
  <2>3. QED BY <2>1, <2>2, <1>6, <1>7, <1>1, LevelsAre DEF LevelsRight
<1>11. Ending(p, w, "error")
  <2>1. frame'["thread"].pc = "gone" => frame["thread"].pc = "gone"
    BY <1>6, LevelsAre
  <2>2. QED BY <2>1, <1>2, <1>4, <1>5, <1>6, <1>7, <1>9, <1>10 DEF Ending
<1>12. GoesOn(p, "error")
  <2>1. ~Deciding /\ ~Deciding'
    BY <1>2, <1>7, LevelsAre DEF Deciding
  <2>2. Returned(made)' <=> Returned(made)
    BY <1>6, LevelsAre DEF Returned, Done
  <2>3. QED BY <2>1, <2>2, <1>6, LevelsAre DEF GoesOn
<1>13. QED BY <1>4, <1>11, <1>12, EndingInv

LEMMA CancelRequestInv ==
  ASSUME Inv, CancelRequest
  PROVE  Inv'
<1>1. /\ frame["thread"].pc = "cancel" /\ finishing = None /\ Goto("thread", "drain")
      /\ UNCHANGED <<deferred, iolist, userapcs, finishing, made, told>>
  BY DEF CancelRequest, Busy, Runs
<1>2. CASE Cancellable(frame["thread"].own)
  <2>1. Active("thread") /\ frame["thread"].how = "sync"
    BY <1>1, LevelsAre DEF Inv, LevelsRight, FrameRight, Active, Done
  <2>2. PICK p \in Packet : p = frame["thread"].own
    BY <2>1, LevelsAre DEF Inv, SyncRight
  <2>3. Live(p) /\ Whole(p)
    BY <2>1, <2>2, LevelsAre DEF Inv, SyncRight, Whole
  <2>4. Cancel(p) /\ Cancellable(p)
    BY <1>2, <2>2 DEF CancelRequest, Cancel, Complete, Cancellable
  <2>5. QED BY <1>1, <2>3, <2>4, CancelInv
<1>3. CASE ~Cancellable(frame["thread"].own)
  <2>1. UNCHANGED <<packet, signaled, apcs, failed, queue>>
    BY <1>3 DEF CancelRequest
  <2>2. QED BY <1>1, <2>1, NothingCancelledInv DEF listVars
<1>4. QED BY <1>2, <1>3

LEMMA RundownCancelInv ==
  ASSUME Inv, RundownCancel
  PROVE  Inv'
<1>1. /\ frame["thread"].pc = "rundown" /\ finishing = None
      /\ UNCHANGED <<deferred, iolist, userapcs, finishing, made, told>>
  BY DEF RundownCancel, Busy, Runs
<1>2. CASE \E p \in iolist : Cancellable(p) /\ Cancel(p) /\ UNCHANGED frame
  <2>1. PICK p \in iolist : Cancellable(p) /\ Cancel(p) /\ UNCHANGED frame
    BY <1>2
  <2>2. p \in Packet /\ Live(p) /\ Whole(p)
    BY ListedPackets
  <2>3. QED BY <1>1, <2>1, <2>2, CancelInv
<1>3. CASE /\ Goto("thread", "poll")
           /\ UNCHANGED <<packet, signaled, apcs, failed, queue>>
  BY <1>1, <1>3, NothingCancelledInv DEF listVars
<1>4. QED BY <1>2, <1>3 DEF RundownCancel

\* A packet ends while it is dispatched.
LEMMA DispatchEndsInv ==
  ASSUME Inv, NEW l \in Level, Busy(l, "dispatch"), NEW s \in Statuses,
         Complete(packet, frame[l].iop, s), Leave(l, s),
         s = "ok" => packet[frame[l].iop].at # "part",
         UNCHANGED <<queue, deferred, iolist, userapcs, finishing, made, told>>
  PROVE  Inv'
<1> DEFINE i == frame[l].iop
<1>1. queue' \subseteq queue \cup {frame[l].iop}
  OBVIOUS
<1>2. /\ frame' \in [Level -> FrameRecord]
      /\ frame'[l].pc = "next" /\ frame'[l].how = frame[l].how /\ frame'[l].own = frame[l].own
      /\ frame'[l].ok = IF frame[l].master THEN s ELSE frame[l].ok
      /\ \A k \in Level \ {l} : frame'[k] = frame[k]
      /\ i \in Packet /\ i \in HandsOf(l) /\ i \in OnWay
      /\ HandsOf(l)' = HandsOf(l) \ {i}
      /\ \A k \in Level \ {l} : HandsOf(k)' = HandsOf(k) /\ i \notin HandsOf(k)
      /\ i \notin queue \cup Range(deferred)
      /\ \A k \in Level : /\ frame'[k].own = frame[k].own /\ frame'[k].how = frame[k].how
                          /\ frame'[k].rest = frame[k].rest /\ frame'[k].frags = frame[k].frags
                          /\ Active(k)' <=> Active(k)
                          /\ frame'[k].pc \in Holding => k # l /\ frame'[k] = frame[k]
                          /\ frame'[k].pc \in Splitting => k # l /\ frame'[k] = frame[k]
                          /\ frame[k].pc \in Splitting => k # l /\ frame'[k] = frame[k]
      /\ LevelsRight' /\ Apart'
  BY <1>1, LeaveHands
<1>3. frame[l].pc = "dispatch"
  BY DEF Busy
<1>4. PICK p \in Packet : p = i
  BY <1>2
<1> HIDE DEF i
<1>5. Whole(p) \/ packet[p].parent # None
  BY <1>3, <1>4 DEF i, Inv, PlacesRight, PlaceRight, Holding
<1>6. Complete(packet, p, s) /\ p \in OnWay
  BY <1>2, <1>4 DEF i, Complete
<1>7. PICK w \in Packet : Effect(p, w, s)
  BY <1>5, <1>6, CompleteEffect
<1>8. OnWay' = OnWay \ {p}
  BY <1>2, <1>4, LevelsAre DEF OnWay
<1>9. Ending(p, w, s)
  <2>1. \A k \in Level : frame'[k].pc \in Holding => /\ frame[k].pc \in Holding
                                                     /\ frame'[k].iop = frame[k].iop
                                                     /\ frame'[k].master = frame[k].master
    BY <1>2
  <2>2. frame'["thread"].pc = "gone" => frame["thread"].pc = "gone"
    BY <1>2, LevelsAre
  <2>3. QED BY <1>2, <1>7, <1>8, <2>1, <2>2 DEF Ending
<1>10. GoesOn(p, s)
  <2>1. CASE l = "thread" /\ frame[l].master
    <3>1. ~Deciding' /\ ~Returned(made)'
      BY <1>2, <2>1, BoundAssumption DEF Deciding, Returned, Holding, Done, Inv, Typed
    <3>2. QED BY <1>2, <1>3, <1>4, <2>1, <3>1 DEF i, GoesOn
  <2>2. CASE l = "thread" /\ ~frame[l].master
    <3>1. ~Deciding' /\ ~Deciding
      BY <1>2, <2>2 DEF Deciding, Holding
    <3>2. Returned(made)' <=> Returned(made)
      BY <1>2, <1>3, <2>2 DEF Returned, Done
    <3>3. QED BY <1>2, <2>2, <3>1, <3>2 DEF GoesOn
  <2>3. CASE l = "apc"
    <3>1. frame'["thread"] = frame["thread"]
      BY <1>2, <2>3, LevelsAre
    <3>2. Deciding => frame["thread"].iop \in HandsOf("thread")
      BY DEF Deciding, HandsOf, Carried
    <3>3. p \notin HandsOf("thread")
      BY <1>2, <1>4, <2>3, LevelsAre
    <3>4. QED BY <3>1, <3>2, <3>3 DEF GoesOn, Deciding, Returned
  <2>4. QED BY <2>1, <2>2, <2>3, LevelsAre
<1>11. QED BY <1>6, <1>9, <1>10, EndingInv

LEMMA FinishAtOnceInv ==
  ASSUME Inv, NEW l \in Level, FinishAtOnce(l)
  PROVE  Inv'
<1>1. PICK s \in Statuses : (s = "ok" => At(l) # "part") /\ Complete(packet, Iop(l), s) /\ Leave(l, s)
  BY DEF FinishAtOnce
<1>2. Busy(l, "dispatch") /\ UNCHANGED <<queue, deferred, iolist, userapcs, finishing, made, told>>
  BY DEF FinishAtOnce
<1>3. Complete(packet, frame[l].iop, s) /\ (s = "ok" => packet[frame[l].iop].at # "part")
  BY <1>1 DEF At, Iop
<1>4. QED BY <1>1, <1>2, <1>3, DispatchEndsInv

LEMMA EndEarlyInv ==
  ASSUME Inv, NEW l \in Level, EndEarly(l)
  PROVE  Inv'
<1>1. PICK s \in Statuses, done \in BOOLEAN :
        /\ done \/ (s = "ok" /\ At(l) = "fats")
        /\ Complete(IF done THEN packet ELSE [packet EXCEPT ![Iop(l)].at = "disk"], Iop(l), s)
        /\ IF done THEN Leave(l, s) ELSE UNCHANGED frame
  BY DEF EndEarly
<1>2. /\ Busy(l, "dispatch") /\ UNCHANGED <<queue, deferred, iolist, userapcs, finishing, made, told>>
      /\ At(l) \in {"file", "volume", "fats"}
  BY DEF EndEarly
<1>3. frame[l].iop \in Packet
  BY <1>2 DEF Busy, Inv, LevelsRight, FrameRight, Holding
<1>4. packet[frame[l].iop].at # "fats"
  BY <1>3 DEF Inv, PacketsRight, PacketRight
<1>5. done
  BY <1>1, <1>4 DEF At, Iop
<1>6. Complete(packet, frame[l].iop, s) /\ Leave(l, s) /\ packet[frame[l].iop].at # "part"
  <2> DEFINE f == IF done THEN packet ELSE [packet EXCEPT ![Iop(l)].at = "disk"]
  <2>1. f = packet
    BY <1>5
  <2>2. Complete(f, Iop(l), s)
    BY <1>1
  <2> HIDE DEF f
  <2>3. Complete(packet, Iop(l), s)
    BY <2>1, <2>2 DEF Complete
  <2>4. QED BY <1>1, <1>2, <1>5, <2>3 DEF At, Iop
<1>7. QED BY <1>2, <1>6, DispatchEndsInv

LEMMA FailToSplitInv ==
  ASSUME Inv, NEW l \in Level, FailToSplit(l)
  PROVE  Inv'
<1>1. PICK n \in 1..MaxFragments :
        There(n) /\ Complete(Freed(Allocated(l, Fresh(n)), Fresh(n)), Iop(l), "error")
  BY DEF FailToSplit
<1>2. /\ Busy(l, "dispatch") /\ UNCHANGED <<queue, deferred, iolist, userapcs, finishing, made, told>>
      /\ Leave(l, "error") /\ "error" \in Statuses
  BY DEF FailToSplit, Statuses
<1>3. n \in Nat
  BY BoundAssumption
<1> DEFINE f == Freed(Allocated(l, Fresh(n)), Fresh(n))
<1>4. f = packet
  <2>1. \A q \in Range(Fresh(n)) : packet[q] = Free
    <3>1. Range(Fresh(n)) \subseteq FreePackets
      BY <1>1, <1>3, FreshIs
    <3>2. QED BY <3>1 DEF FreePackets, Inv, PacketsRight, PacketRight, Live
  <2>2. packet \in [Packet -> PacketRecord]
    BY DEF Inv, Typed
  <2>3. QED BY <2>1, <2>2 DEF Freed, Allocated
<1>5. Complete(f, Iop(l), "error")
  BY <1>1
<1> HIDE DEF f
<1>6. Complete(packet, frame[l].iop, "error")
  BY <1>4, <1>5 DEF Complete, Iop
<1>7. QED BY <1>2, <1>6, DispatchEndsInv

-----------------------------------------------------------------------------
(* The end of a packet.                                                    *)

\* A packet that ended was the last of its request.
LEMMA NoPartLeft ==
  ASSUME Inv, NEW w \in Packet, Live(w), Whole(w), packet[w].IOCount = 0, packet[w].request # 0,
         NEW q \in Packet, Live(q), packet[q].request = packet[w].request
  PROVE  q = w
<1>1. PartsOf(w) = {}
  BY PartsHaveWhole
<1>2. w \notin OnWay
  BY OnWayCounts
<1>3. CASE Whole(q)
  BY <1>3 DEF Inv, RootsRight
<1>4. CASE ~Whole(q)
  <2>1. /\ q \in OnWay /\ packet[q].IOCount = 1
        /\ packet[q].parent # None =>
             /\ Live(packet[q].parent) /\ Whole(packet[q].parent)
             /\ packet[q].request = packet[packet[q].parent].request
    BY <1>4 DEF Inv, PacketsRight, PacketRight
  <2>2. packet[q].parent \in Packet \cup {None}
    BY DEF Inv, Typed, PacketRecord
  <2>3. CASE packet[q].parent # None
    <3>1. packet[q].parent = w
      BY <2>1, <2>2, <2>3 DEF Inv, RootsRight
    <3>2. QED BY <3>1, <2>1, <1>1 DEF PartsOf
  <2>4. CASE packet[q].parent = None
    <3>1. PICK k \in Level : q \in HandsOf(k)
      BY <1>4, <2>1, <2>4, OnWayIs DEF Inv, PlacesRight
    <3>2. q \in Range(frame[k].frags)
      BY <1>4, <2>4, <3>1 DEF HandsOf, Carried, Inv, PlacesRight, PlaceRight
    <3>3. packet[q].request = packet[frame[k].iop].request
      BY <3>2 DEF Inv, PlacesRight, PlaceRight
    <3>4. frame[k].pc \in Splitting
      BY <3>2, EmptyList DEF Inv, LevelsRight, FrameRight
    <3>5. frame[k].pc \in Holding /\ frame[k].master
      BY <3>4 DEF Inv, LevelsRight, FrameRight, Holding, Splitting
    <3>6. Whole(frame[k].iop) /\ frame[k].iop \in Packet
      BY <3>5 DEF Inv, LevelsRight, FrameRight, PlacesRight, PlaceRight
    <3>7. frame[k].iop \in OnWay
      BY <3>5, LevelsAre DEF OnWay, HandsOf, Carried
    <3>8. Live(frame[k].iop)
      BY <3>7, OnWayCounts
    <3>9. frame[k].iop = w
      BY <3>3, <3>6, <3>8 DEF Inv, RootsRight
    <3>10. QED BY <3>7, <3>9, <1>2
  <2>5. QED BY <2>3, <2>4
<1>5. QED BY <1>3, <1>4

\* Packets that ended are freed.
LEMMA FreeingKeeps ==
  ASSUME Inv, NEW S \in SUBSET Packet,
         \A q \in S : Live(q) /\ Whole(q) /\ packet[q].IOCount = 0,
         packet' = [q \in Packet |-> IF q \in S THEN Free ELSE packet[q]],
         UNCHANGED <<queue, deferred, made, failed>>,
         \A k \in Level :
           /\ frame'[k].rest = frame[k].rest /\ frame'[k].frags = frame[k].frags
           /\ frame'[k].pc \in Holding \/ frame[k].pc \in Holding => frame'[k] = frame[k]
  PROVE  /\ OnWay' = OnWay /\ Apart' /\ PlacesRight' /\ PacketsRight' /\ Counted' /\ SplitsRight'
         /\ RootsRight' /\ packet' \in [Packet -> PacketRecord]
         /\ \A q \in Packet : (Live(q))' <=> Live(q) /\ q \notin S
         /\ \A q \in Packet : (Live(q))' => packet'[q] = packet[q]
         /\ \A q \in Packet : q \notin S => packet'[q] = packet[q]
<1>1. packet \in [Packet -> PacketRecord]
  BY DEF Inv, Typed
<1>2. packet' \in [Packet -> PacketRecord]
  BY <1>1, FreeIs
<1>3. \A q \in Packet : packet'[q] = IF q \in S THEN Free ELSE packet[q]
  OBVIOUS
<1>4. /\ \A q \in Packet : (Live(q))' <=> Live(q) /\ q \notin S
      /\ \A q \in Packet : (Live(q))' => packet'[q] = packet[q]
      /\ \A q \in Packet : q \notin S => packet'[q] = packet[q]
  BY <1>3, FreeIs DEF Live
<1>5. S \cap OnWay = {}
  BY OnWayCounts
<1>6. \A k \in Level : (HandsOf(k))' = HandsOf(k) /\ (Carried(k))' = Carried(k)
  BY DEF HandsOf, Carried
<1>7. OnWay' = OnWay
  BY <1>6, LevelsAre DEF OnWay
<1>8. Apart'
  BY <1>6, LevelsAre DEF Inv, Apart
<1>9. ASSUME NEW q \in OnWay'
      PROVE  /\ (Live(q))' /\ "COMPLETE" \notin packet'[q].flags
             /\ (Whole(q))' <=> Whole(q)
             /\ packet'[q].parent = packet[q].parent
             /\ packet'[q].request = packet[q].request
  <2>1. q \in OnWay /\ q \in Packet /\ Live(q) /\ "COMPLETE" \notin packet[q].flags
    BY <1>7, OnWayCounts DEF Inv, PlacesRight
  <2>2. packet'[q] = packet[q]
    BY <2>1, <1>4, <1>5
  <2>3. QED BY <2>1, <2>2 DEF Live, Whole
<1>10. ASSUME NEW k \in Level, frame'[k].pc \in Holding
       PROVE  /\ frame[k].pc \in Holding
              /\ frame'[k].iop = frame[k].iop /\ frame'[k].master = frame[k].master
              /\ frame[k].iop \in Packet /\ Live(frame[k].iop) /\ frame[k].iop \notin S
              /\ packet'[frame[k].iop] = packet[frame[k].iop]
              /\ packet'[frame'[k].iop] = packet[frame[k].iop]
  <2>1. frame'[k] = frame[k]
    BY <1>10
  <2>2. frame[k].iop \in OnWay
    BY <1>10, <2>1, LevelsAre DEF OnWay, HandsOf, Carried
  <2>3. QED BY <1>4, <1>5, <1>10, <2>1, <2>2, OnWayCounts
<1>11. \A k \in Level : /\ frame'[k].pc \in Splitting => frame'[k] = frame[k]
                        /\ frame[k].pc \in Splitting => frame'[k] = frame[k]
  BY DEF Holding, Splitting
<1>12. PlacesRight'
  <2>1. \A k \in Level : /\ frame'[k].rest = frame[k].rest /\ frame'[k].frags = frame[k].frags
                         /\ frame'[k].pc \in Holding =>
                              /\ frame[k].pc \in Holding
                              /\ frame'[k].iop = frame[k].iop /\ frame'[k].master = frame[k].master
                         /\ frame'[k].frags # <<>> => frame'[k].pc \in Holding
    <3>1. ASSUME NEW k \in Level, frame'[k].frags # <<>> PROVE frame'[k].pc \in Holding
      <4>1. frame[k].pc \in Holding
        BY <3>1 DEF Inv, LevelsRight, FrameRight, Holding, Splitting
      <4>2. QED BY <4>1
    <3>2. QED BY <1>10, <3>1
  <2>2. \A q \in OnWay' : /\ (Live(q))' /\ "COMPLETE" \notin packet'[q].flags
                          /\ (Whole(q))' <=> Whole(q)
                          /\ packet'[q].parent = packet[q].parent
                          /\ packet'[q].request = packet[q].request
    BY <1>9
  <2>3. OnWay' \subseteq OnWay /\ deferred' = deferred
        /\ \A q \in queue' : q \in queue \/ Whole(q) \/ packet[q].parent # None
    BY <1>7
  <2>4. QED BY <2>1, <2>2, <2>3, PlacesKept
<1>13. \A q \in Packet : (PartsOf(q))' = PartsOf(q)
  <2>1. ASSUME NEW q \in Packet, NEW x \in Packet PROVE x \in (PartsOf(q))' <=> x \in PartsOf(q)
    <3>1. CASE x \in S
      BY <3>1, <1>3, FreeIs, LevelsAre DEF PartsOf
    <3>2. CASE x \notin S
      BY <3>2, <1>4 DEF PartsOf
    <3>3. QED BY <3>1, <3>2
  <2>2. ASSUME NEW q \in Packet PROVE (PartsOf(q))' = PartsOf(q)
    <3>1. (PartsOf(q))' \subseteq Packet /\ PartsOf(q) \subseteq Packet
      BY DEF PartsOf
    <3>2. QED BY <3>1, <2>1
  <2>3. QED BY <2>2
<1>14. SplitsRight'
  <2>1. \A k \in Level : /\ frame'[k].pc \in Holding =>
                              /\ frame[k].pc \in Holding
                              /\ frame'[k].iop = frame[k].iop /\ frame'[k].master = frame[k].master
                         /\ frame'[k].pc \in Splitting => frame'[k] = frame[k]
                         /\ frame[k].pc \in Splitting => frame'[k] = frame[k]
    BY <1>10, <1>11
  <2>2. \A q \in Packet : (Live(q))' => /\ Live(q) /\ (PartsOf(q))' \subseteq PartsOf(q)
                                        /\ packet'[q].at = packet[q].at
    BY <1>4, <1>13
  <2>3. ASSUME NEW k \in Level, frame[k].pc \in Splitting
        PROVE  packet'[frame[k].iop].IOCount = packet[frame[k].iop].IOCount /\ (Live(frame[k].iop))'
    <3>1. frame'[k].pc \in Holding
      BY <2>3, <1>11 DEF Holding, Splitting
    <3>2. QED BY <3>1, <1>10 DEF Live
  <2>4. ASSUME NEW k \in Level, frame'[k].pc \in Holding PROVE (Live(frame[k].iop))'
    BY <2>4, <1>10 DEF Live
  <2>5. \A k \in Level : frame'[k].pc \in Holding /\ frame[k].master /\ packet[frame[k].iop].at # "part" =>
                           packet'[frame[k].iop].status = packet[frame[k].iop].status
    BY <1>10
  <2>6. deferred' = deferred
    OBVIOUS
  <2>7. QED BY <2>1, <2>2, <2>3, <2>4, <2>5, <2>6, SplitsKept
<1>15. RootsRight'
  <2>1. \A q \in Packet : (Live(q))' => packet'[q] = packet[q] /\ Live(q) /\ ((Whole(q))' <=> Whole(q))
    BY <1>4 DEF Whole
  <2>2. QED BY <2>1 DEF Inv, RootsRight
<1>16. Counted'
  <2>1. ASSUME NEW q \in Packet, (Live(q))', (Whole(q))'
        PROVE  packet'[q].IOCount = (Own(q))' + Cardinality((PartsOf(q))')
    <3>1. Live(q) /\ Whole(q) /\ packet'[q] = packet[q] /\ (Own(q))' = Own(q)
      BY <2>1, <1>4, <1>7 DEF Whole, Own
    <3>2. packet[q].IOCount = Own(q) + Cardinality(PartsOf(q))
      BY <3>1 DEF Inv, Counted
    <3>3. QED BY <3>1, <3>2, <1>13
  <2>2. QED BY <2>1 DEF Counted
<1>17. ASSUME NEW q \in Packet PROVE PacketRight(q)'
  <2>0. PacketRight(q)
    BY DEF Inv, PacketsRight
  <2>1. CASE q \in S
    <3>1. packet'[q] = Free /\ ~(Live(q))' /\ Free.at # "fats"
      BY <2>1, <1>3, <1>4, FreeIs
    <3>2. QED BY <3>1 DEF PacketRight
  <2>2. CASE q \notin S
    <3>1. packet'[q] = packet[q] /\ ((Live(q))' <=> Live(q)) /\ ((Whole(q))' <=> Whole(q))
      BY <2>2, <1>4 DEF Whole
    <3>2. PICK m \in Packet \cup {None} : m = packet[q].parent
      BY <1>1 DEF PacketRecord
    <3>3. ASSUME Live(q), ~Whole(q), m # None
          PROVE  (Live(m))' /\ (Whole(m))' /\ packet[q].request = packet'[m].request
      <4>1. Live(m) /\ Whole(m) /\ packet[q].request = packet[m].request /\ packet[q].IOCount = 1 /\ m \in Packet
        BY <2>0, <3>2, <3>3 DEF PacketRight
      <4>2. q \in PartsOf(m)
        BY <4>1, <3>2 DEF PartsOf
      <4>3. packet[m].IOCount > 0
        BY <4>1, <4>2, PartsHaveWhole
      <4>4. m \notin S
        BY <4>3
      <4>5. packet'[m] = packet[m]
        BY <4>1, <4>4, <1>4
      <4>6. QED BY <4>1, <4>5 DEF Live, Whole
    <3>4. packet'[q].parent = m
      BY <3>1, <3>2
    <3>5. ASSUME Live(q), ~Whole(q)
          PROVE  /\ q \in OnWay'
                 /\ packet'[q].IOCount = 1
                 /\ "FREEIOP" \in packet'[q].flags /\ packet'[q].at = "part"
                 /\ packet'[q].status = "ok" /\ ~packet'[q].routine
                 /\ packet'[q].parent # None =>
                      /\ (Live(packet[q].parent))' /\ (Whole(packet[q].parent))'
                      /\ packet'[q].request = packet'[packet'[q].parent].request
      <4>1. q \in OnWay' /\ packet'[q].IOCount = 1 /\ "FREEIOP" \in packet'[q].flags /\ packet'[q].at = "part"
            /\ packet'[q].status = "ok" /\ ~packet'[q].routine
        BY <2>0, <3>1, <3>5, <1>7 DEF PacketRight
      <4>2. packet'[q].parent # None => (Live(packet[q].parent))' /\ (Whole(packet[q].parent))'
        BY <3>3, <3>4, <3>5 DEF Live, Whole
      <4>3. packet'[q].parent # None => packet'[q].request = packet'[packet'[q].parent].request
        BY <3>1, <3>3, <3>4, <3>5
      <4>4. QED BY <4>1, <4>2, <4>3
    <3>6. ~(Live(q))' => packet'[q] = Free
      BY <2>0, <3>1 DEF PacketRight
    <3>7. packet'[q].at # "fats"
      BY <2>0, <3>1 DEF PacketRight
    <3>8. ASSUME Live(q), Whole(q)
          PROVE  /\ packet'[q].parent = None
                 /\ "COMPLETE" \in packet'[q].flags <=> packet'[q].IOCount = 0
                 /\ packet'[q].type = "userasync" =>
                      packet'[q].event = None /\ ("FREEIOP" \in packet'[q].flags <=> ~packet'[q].routine)
                 /\ packet'[q].type = "normal" => "FREEIOP" \notin packet'[q].flags
                 /\ packet'[q].request # 0 /\ packet'[q].request \in failed' => packet'[q].status = "error"
                 /\ packet'[q].request = 0 <=> packet'[q].event = "apc"
                 /\ packet'[q].request <= made'
      BY <2>0, <3>1, <3>8 DEF PacketRight
    <3>9. QED BY <3>1, <3>5, <3>6, <3>7, <3>8 DEF PacketRight
  <2>3. QED BY <2>1, <2>2
<1>18. PacketsRight'
  BY <1>17 DEF PacketsRight
<1>19. QED BY <1>2, <1>4, <1>7, <1>8, <1>12, <1>14, <1>15, <1>16, <1>18

\* What a step does to other requests does not touch this one.
LEMMA RequestKept ==
  ASSUME Inv, NEW r \in 1..MaxRequests,
         told'[r] = told[r], made' = made, r \in failed' => r \in failed,
         frame'["thread"].how = frame["thread"].how, frame'["thread"].ok = frame["thread"].ok,
         Deciding' <=> Deciding, Returned(made)' <=> Returned(made),
         told[r] = <<"ok">> =>
           \A q \in Packet : (Live(q))' /\ packet'[q].request = r => packet'[q].IOCount = 0,
         iolist' \subseteq Packet,
         \A q \in Packet : q \in iolist' /\ packet'[q].request = r <=> q \in iolist /\ packet[q].request = r,
         \A q \in iolist : packet[q].request = r =>
           /\ packet'[q].status = packet[q].status
           /\ "DOCOMPLT" \in packet'[q].flags <=> "DOCOMPLT" \in packet[q].flags
  PROVE  RequestRight(r)'
<1>1. RequestRight(r)
  BY DEF Inv, RequestsRight
<1>2. r \in Int /\ made \in Int /\ iolist \subseteq Packet
  BY BoundAssumption DEF Inv, Typed
<1>3. Returned(r)' <=> Returned(r)
  <2>1. CASE r < made
    BY <2>1 DEF Returned
  <2>2. CASE ~(r < made)
    BY <2>2, <1>2 DEF Returned
  <2>3. QED BY <2>1, <2>2
<1>4. (\E q \in iolist' : packet'[q].request = r) <=> (\E q \in iolist : packet[q].request = r)
  BY <1>2
<1>5. (\A q \in iolist' : packet'[q].request # r) <=> (\A q \in iolist : packet[q].request # r)
  BY <1>4
<1>6. Len(told'[r]) <= 1 /\ (r > made' => told'[r] = <<>> /\ r \notin failed')
  BY <1>1 DEF RequestRight
<1>7. told'[r] = <<"ok">> =>
        r \notin failed' /\ \A q \in Packet : (Live(q))' /\ packet'[q].request = r => packet'[q].IOCount = 0
  BY <1>1 DEF RequestRight
<1>8. r <= made' /\ Returned(r)' /\ (\A q \in iolist' : packet'[q].request # r) => Len(told'[r]) = 1
  BY <1>1, <1>3, <1>5 DEF RequestRight
<1>9. r = made' /\ ~Returned(r)' =>
        /\ frame'["thread"].how = "sync" \/ Deciding' => told'[r] = <<>>
        /\ frame'["thread"].how = "async" /\ ~Deciding' =>
             IF frame'["thread"].ok = "error" THEN told'[r] = <<>>
             ELSE Len(told'[r]) = 1 \/ \E q \in iolist' : packet'[q].request = r
  BY <1>1, <1>3, <1>4 DEF RequestRight
<1>10. ASSUME NEW q \in iolist', packet'[q].request = r
       PROVE  /\ "DOCOMPLT" \in packet'[q].flags => told'[r] = <<>>
              /\ "DOCOMPLT" \notin packet'[q].flags =>
                   /\ told'[r] = IF Returned(r)' THEN <<"error">> ELSE <<>>
                   /\ Returned(r)' \/ ~Deciding' => packet'[q].status = "error"
              /\ ~Returned(r)' => frame'["thread"].how = "async" /\
                   ("DOCOMPLT" \in packet'[q].flags <=> ~Deciding' /\ frame'["thread"].ok = "ok")
  <2>1. q \in iolist /\ packet[q].request = r
    BY <1>10
  <2>2. QED BY <2>1, <1>1, <1>3 DEF RequestRight
<1>11. QED BY <1>6, <1>7, <1>8, <1>9, <1>10 DEF RequestRight, Live

\* The user APC of a packet, and the rundown of them all.
LEMMA UsersFreed ==
  ASSUME Inv, NEW S \in SUBSET userapcs, userapcs' = userapcs \ S,
         packet' = [q \in Packet |-> IF q \in S THEN Free ELSE packet[q]],
         UNCHANGED <<queue, deferred, iolist, apcs, finishing, signaled, made, told, failed>>,
         \/ frame' = frame /\ frame["thread"].pc # "gone"
         \/ frame["thread"].pc = "poll" /\ Goto("thread", "gone") /\ S = userapcs /\ iolist = {}
  PROVE  Inv'
<1>1. /\ S \in SUBSET Packet
      /\ \A q \in S : /\ q \in Packet /\ Live(q) /\ Whole(q) /\ packet[q].IOCount = 0
                      /\ packet[q].type = "userasync" /\ packet[q].event = None /\ q \notin iolist
  <2>1. userapcs \subseteq Packet
    BY DEF Inv, Typed
  <2>2. \A q \in S : Live(q) /\ packet[q].type = "userasync" /\ packet[q].IOCount = 0 /\ q \notin iolist
    BY <2>1 DEF Inv, AsyncRight, AsyncPacketRight
  <2>3. QED BY <2>1, <2>2 DEF Whole, Inv, PacketsRight, PacketRight
<1>2. /\ frame' \in [Level -> FrameRecord]
      /\ \A k \in Level :
           /\ frame'[k].rest = frame[k].rest /\ frame'[k].frags = frame[k].frags
           /\ frame'[k].own = frame[k].own /\ frame'[k].how = frame[k].how
           /\ frame'[k].ok = frame[k].ok /\ frame'[k].master = frame[k].master
           /\ \/ frame'[k] = frame[k]
              \/ k = "thread" /\ frame[k].pc = "poll" /\ frame'[k].pc = "gone"
  <2>1. CASE frame' = frame
    BY <2>1 DEF Inv, Typed
  <2>2. CASE frame["thread"].pc = "poll" /\ Goto("thread", "gone")
    <3>1. "gone" \in PCs /\ Typed
      BY DEF PCs, Inv
    <3>2. QED BY <2>2, <3>1, LevelsAre, GotoIs
  <2>3. QED BY <2>1, <2>2
<1>3. \A k \in Level :
        /\ frame'[k].pc \in Holding \/ frame[k].pc \in Holding => frame'[k] = frame[k]
        /\ frame'[k].pc \in Splitting \/ frame[k].pc \in Splitting => frame'[k] = frame[k]
        /\ (Active(k))' <=> Active(k)
  BY <1>2 DEF Holding, Splitting, Active, Done
<1>4. /\ OnWay' = OnWay /\ Apart' /\ PlacesRight' /\ PacketsRight' /\ Counted' /\ SplitsRight'
      /\ RootsRight' /\ packet' \in [Packet -> PacketRecord]
      /\ \A q \in Packet : (Live(q))' <=> Live(q) /\ q \notin S
      /\ \A q \in Packet : (Live(q))' => packet'[q] = packet[q]
      /\ \A q \in Packet : q \notin S => packet'[q] = packet[q]
  <2>1. \A q \in S : Live(q) /\ Whole(q) /\ packet[q].IOCount = 0
    BY <1>1
  <2>2. \A k \in Level :
          /\ frame'[k].rest = frame[k].rest /\ frame'[k].frags = frame[k].frags
          /\ frame'[k].pc \in Holding \/ frame[k].pc \in Holding => frame'[k] = frame[k]
    BY <1>2, <1>3
  <2>3. UNCHANGED <<queue, deferred, made, failed>>
    OBVIOUS
  <2>4. S \in SUBSET Packet
    BY <1>1
  <2>5. QED BY <2>1, <2>2, <2>3, <2>4, FreeingKeeps
<1>5. Typed'
  <2>1. Typed
    BY DEF Inv
  <2>2. userapcs' \subseteq Packet
    BY <2>1 DEF Typed
  <2>3. UNCHANGED <<queue, deferred, iolist, apcs, finishing, signaled, made, told, failed>>
    OBVIOUS
  <2>4. QED BY <2>1, <2>2, <2>3, <1>2, <1>4 DEF Typed
<1>6. LevelsRight'
  <2>1. LevelsRight
    BY DEF Inv
  <2>2. \A k \in Level : FrameRight(k)'
    BY <2>1, <1>2, <1>3 DEF LevelsRight, FrameRight, Holding, Splitting
  <2>3. /\ frame'["thread"].pc # "routine"
        /\ frame'["apc"] = frame["apc"]
        /\ frame'["thread"].pc \in Splitting => frame["thread"].pc \in Splitting
    BY <2>1, <1>2, <1>3, LevelsAre DEF LevelsRight
  <2>4. QED BY <2>1, <2>2, <2>3 DEF LevelsRight
<1>7. SyncRight'
  <2>1. ASSUME NEW k \in Level, NEW q \in Packet, (Live(q))', packet'[q].event = k
        PROVE  (Active(k))' /\ frame'[k].how = "sync" /\ frame'[k].own = q
    BY <2>1, <1>2, <1>3, <1>4 DEF Inv, SyncRight
  <2>2. ASSUME NEW k \in Level, (Active(k))', frame'[k].how = "sync"
        PROVE  /\ frame'[k].own \in Packet /\ (Live(frame[k].own))'
               /\ packet'[frame'[k].own].event = k /\ packet'[frame'[k].own].type = "normal"
               /\ packet'[frame'[k].own].request = IF k = "thread" THEN made' ELSE 0
               /\ signaled'[k] => packet'[frame'[k].own].IOCount = 0
    <3>1. PICK o \in Packet : o = frame[k].own
      BY <1>2, <1>3, <2>2 DEF Inv, SyncRight
    <3>2. /\ Live(o) /\ packet[o].event = k /\ packet[o].type = "normal"
          /\ packet[o].request = IF k = "thread" THEN made ELSE 0
          /\ signaled[k] => packet[o].IOCount = 0
      BY <1>2, <1>3, <2>2, <3>1 DEF Inv, SyncRight
    <3>3. o \notin S
      BY <1>1, <3>2
    <3>4. packet'[o] = packet[o] /\ frame'[k].own = o
      BY <3>1, <3>3, <1>2, <1>4
    <3>5. QED BY <3>2, <3>4 DEF Live
  <2>3. QED BY <2>1, <2>2 DEF SyncRight, Live
<1>8. AsyncRight'
  <2>1. AsyncRight
    BY DEF Inv
  <2>2. ASSUME NEW q \in Packet PROVE AsyncPacketRight(q)'
    <3>1. AsyncPacketRight(q)
      BY <2>1 DEF AsyncRight
    <3>2. CASE q \in S
      BY <3>2, <1>1, <1>4 DEF AsyncPacketRight
    <3>3. CASE q \notin S
      <4>1. packet'[q] = packet[q] /\ ((Live(q))' <=> Live(q))
        BY <3>3, <1>4
      <4>2. QED BY <3>1, <3>3, <4>1 DEF AsyncPacketRight, LeftBehind
    <3>4. QED BY <3>2, <3>3
  <2>3. ASSUME frame'["thread"].pc \in Holding, frame'["thread"].master, frame'["thread"].how = "async"
        PROVE  frame'["thread"].iop \in iolist' /\ packet'[frame'["thread"].iop].request = made'
    <3>1. frame'["thread"] = frame["thread"]
      BY <2>3, <1>3, LevelsAre
    <3>2. frame["thread"].iop \in iolist /\ packet[frame["thread"].iop].request = made
      BY <2>1, <2>3, <3>1 DEF AsyncRight
    <3>3. frame["thread"].iop \in Packet /\ frame["thread"].iop \notin S
      BY <3>2, <1>1, ListedPackets
    <3>4. packet'[frame["thread"].iop] = packet[frame["thread"].iop]
      BY <3>3, <1>4
    <3>5. QED BY <3>1, <3>2, <3>4
  <2>4. frame'["thread"].pc = "gone" => iolist' = {} /\ userapcs' = {}
    BY <2>1, LevelsAre DEF AsyncRight
  <2>5. QED BY <2>1, <2>2, <2>3, <2>4 DEF AsyncRight
<1>9. RequestsRight'
  <2>1. frame'["thread"].how = frame["thread"].how /\ frame'["thread"].ok = frame["thread"].ok
    BY <1>2, LevelsAre
  <2>2. (Deciding' <=> Deciding) /\ (Returned(made)' <=> Returned(made))
    <3>1. CASE frame'["thread"] = frame["thread"]
      BY <3>1 DEF Deciding, Returned
    <3>2. CASE frame["thread"].pc = "poll" /\ frame'["thread"].pc = "gone"
      BY <3>2 DEF Deciding, Returned, Holding, Done
    <3>3. QED BY <3>1, <3>2, <1>2, LevelsAre
  <2>3. ASSUME NEW r \in 1..MaxRequests PROVE RequestRight(r)'
    <3>1. told[r] = <<"ok">> =>
           \A q \in Packet : (Live(q))' /\ packet'[q].request = r => packet'[q].IOCount = 0
      BY <1>4 DEF Inv, RequestsRight, RequestRight
    <3>2. iolist \subseteq Packet /\ \A q \in iolist : q \in Packet /\ q \notin S /\ packet'[q] = packet[q]
      BY <1>1, <1>4 DEF Inv, Typed
    <3>3. /\ iolist' \subseteq Packet
          /\ \A q \in Packet : q \in iolist' /\ packet'[q].request = r <=> q \in iolist /\ packet[q].request = r
          /\ \A q \in iolist : packet[q].request = r =>
               /\ packet'[q].status = packet[q].status
               /\ "DOCOMPLT" \in packet'[q].flags <=> "DOCOMPLT" \in packet[q].flags
      BY <3>2
    <3>4. told'[r] = told[r] /\ made' = made /\ (r \in failed' => r \in failed)
      OBVIOUS
    <3>5. QED BY <2>1, <2>2, <3>1, <3>3, <3>4, RequestKept
  <2>4. QED BY <2>3 DEF RequestsRight
<1>10. QED BY <1>4, <1>5, <1>6, <1>7, <1>8, <1>9 DEF Inv

LEMMA UserAPCInv ==
  ASSUME Inv, NEW p \in Packet, UserAPC(p)
  PROVE  Inv'
<1>1. /\ p \in userapcs /\ userapcs' = userapcs \ {p} /\ packet' = [packet EXCEPT ![p] = Free]
      /\ UNCHANGED <<queue, deferred, iolist, apcs, finishing, signaled, made, told, failed>>
      /\ frame' = frame /\ frame["thread"].pc = "idle"
  BY DEF UserAPC, Busy
<1>2. packet' = [q \in Packet |-> IF q \in {p} THEN Free ELSE packet[q]]
  <2>1. packet \in [Packet -> PacketRecord]
    BY DEF Inv, Typed
  <2>2. QED BY <2>1, <1>1
<1>3. {p} \in SUBSET userapcs
  BY <1>1
<1> DEFINE S == {p}
<1>4. /\ S \in SUBSET userapcs /\ userapcs' = userapcs \ S
      /\ packet' = [q \in Packet |-> IF q \in S THEN Free ELSE packet[q]]
  BY <1>1, <1>2, <1>3
<1> HIDE DEF S
<1>5. QED BY <1>1, <1>4, UsersFreed

LEMMA GoByeByeInv ==
  ASSUME Inv, GoByeBye
  PROVE  Inv'
<1>1. /\ frame["thread"].pc = "poll" /\ iolist = {} /\ Goto("thread", "gone") /\ userapcs' = {}
      /\ packet' = [p \in Packet |-> IF p \in userapcs THEN Free ELSE packet[p]]
      /\ UNCHANGED <<queue, deferred, iolist, apcs, finishing, signaled, made, told, failed>>
  BY DEF GoByeBye, Busy, Patient
<1>2. userapcs \in SUBSET userapcs /\ userapcs' = userapcs \ userapcs
  BY <1>1
<1>3. QED BY <1>1, <1>2, UsersFreed

LEMMA FinishInv ==
  ASSUME Inv, NEW l \in Level, Finish(l)
  PROVE  Inv'
<1>1. /\ frame[l].pc \in {"wait", "drain"} /\ signaled[l] /\ (l = "thread" => finishing = None)
      /\ UNCHANGED <<queue, deferred, listVars, signaled, made, failed>>
  BY DEF Finish, Busy, Runs
<1>2. Active(l) /\ frame[l].how = "sync"
  BY <1>1 DEF Inv, LevelsRight, FrameRight, Active, Done
<1>3. PICK p \in Packet : p = frame[l].own
  BY <1>2 DEF Inv, SyncRight
<1>4. /\ Live(p) /\ Whole(p) /\ packet[p].event = l /\ packet[p].type = "normal" /\ packet[p].IOCount = 0
      /\ packet[p].request = IF l = "thread" THEN made ELSE 0
  BY <1>1, <1>2, <1>3, LevelsAre DEF Inv, SyncRight, Whole
<1> DEFINE result == IF frame[l].ok = "ok" THEN packet[frame[l].own].status ELSE frame[l].ok
           new == IF l = "thread" THEN Idle ELSE [Idle EXCEPT !.pc = "routine"]
<1>5. /\ packet' = [packet EXCEPT ![p] = Free]
      /\ frame' = [frame EXCEPT ![l] = new]
      /\ told' = IF l = "thread" THEN [told EXCEPT ![made] = Append(@, result)] ELSE told
  BY <1>3 DEF Finish, Tell
<1>6. /\ new \in FrameRecord
      /\ new.pc = (IF l = "thread" THEN "idle" ELSE "routine") /\ new.how = "sync" /\ new.own = None
      /\ new.rest = <<>> /\ new.frags = <<>> /\ new.master = FALSE
  BY IdleIs, "routine" \in PCs DEF FrameRecord, PCs
<1>7. result \in Statuses /\ (result = "ok" => packet[p].status = "ok")
  BY <1>3, FrameFields DEF Inv, Typed, PacketRecord
<1> HIDE DEF result, new
<1>8. /\ frame' \in [Level -> FrameRecord] /\ frame'[l] = new
      /\ \A k \in Level \ {l} : frame'[k] = frame[k]
  BY <1>5, <1>6 DEF Inv, Typed
<1> DEFINE S == {p}
<1>9. /\ S \in SUBSET Packet
      /\ \A q \in S : Live(q) /\ Whole(q) /\ packet[q].IOCount = 0
      /\ packet' = [q \in Packet |-> IF q \in S THEN Free ELSE packet[q]]
  BY <1>4, <1>5 DEF Inv, Typed
<1>10. \A q : q \in S <=> q = p
  OBVIOUS
<1> HIDE DEF S
<1>11. frame[l].rest = <<>> /\ frame[l].frags = <<>> /\ frame[l].pc \notin Holding /\ frame[l].pc \notin Splitting
  BY <1>1 DEF Inv, LevelsRight, FrameRight, Holding, Splitting
<1>12. \A k \in Level :
         /\ frame'[k].rest = frame[k].rest /\ frame'[k].frags = frame[k].frags
         /\ frame'[k].pc \in Holding \/ frame[k].pc \in Holding => frame'[k] = frame[k]
         /\ frame'[k].pc \in Splitting => frame'[k] = frame[k]
  BY <1>6, <1>8, <1>11 DEF Holding, Splitting
<1>13. /\ OnWay' = OnWay /\ Apart' /\ PlacesRight' /\ PacketsRight' /\ Counted' /\ SplitsRight'
       /\ RootsRight' /\ packet' \in [Packet -> PacketRecord]
       /\ \A q \in Packet : (Live(q))' <=> Live(q) /\ q \notin S
       /\ \A q \in Packet : (Live(q))' => packet'[q] = packet[q]
       /\ \A q \in Packet : q \notin S => packet'[q] = packet[q]
  <2>1. \A k \in Level :
          /\ frame'[k].rest = frame[k].rest /\ frame'[k].frags = frame[k].frags
          /\ frame'[k].pc \in Holding \/ frame[k].pc \in Holding => frame'[k] = frame[k]
    BY <1>12
  <2>2. UNCHANGED <<queue, deferred, made, failed>>
    BY <1>1
  <2>3. QED BY <1>9, <2>1, <2>2, FreeingKeeps
<1>14. l = "thread" => made \in 1..MaxRequests
  <2>1. packet[p].request # 0 \/ l = "apc"
    BY <1>4, LevelsAre DEF Inv, PacketsRight, PacketRight
  <2>2. QED BY <2>1, <1>4, BoundAssumption DEF Inv, Typed
<1>15. told \in [1..MaxRequests -> Seq(Statuses)] /\ told' \in [1..MaxRequests -> Seq(Statuses)]
  <2>1. told \in [1..MaxRequests -> Seq(Statuses)]
    BY DEF Inv, Typed
  <2>2. \A t \in Seq(Statuses) : Append(t, result) \in Seq(Statuses)
    BY <1>7
  <2>3. QED BY <1>5, <2>1, <2>2
<1>16. Typed'
  BY <1>1, <1>8, <1>13, <1>15 DEF Inv, Typed, listVars
<1>17. LevelsRight'
  <2>1. LevelsRight
    BY DEF Inv
  <2>2. ASSUME NEW k \in Level PROVE FrameRight(k)'
    <3>1. CASE k = l
      BY <1>6, <1>8, <3>1 DEF FrameRight, Holding, Splitting
    <3>2. CASE k # l
      BY <2>1, <1>8, <3>2 DEF FrameRight, LevelsRight
    <3>3. QED BY <3>1, <3>2
  <2>3. CASE l = "thread"
    <3>1. frame'["apc"] = frame["apc"] /\ frame'["thread"].pc = "idle" /\ finishing' = finishing
      BY <1>1, <1>6, <1>8, <2>3, LevelsAre DEF listVars
    <3>2. QED BY <3>1, <2>1, <2>2 DEF LevelsRight, Splitting
  <2>4. CASE l = "apc"
    <3>1. frame'["thread"] = frame["thread"] /\ frame'["apc"].pc = "routine" /\ finishing' = finishing
          /\ frame'["apc"].how = "sync"
      BY <1>1, <1>6, <1>8, <2>4, LevelsAre DEF listVars
    <3>2. finishing # None
      BY <2>1, <2>4, <1>1 DEF LevelsRight
    <3>3. QED BY <3>1, <3>2, <2>1, <2>2 DEF LevelsRight
  <2>5. QED BY <2>3, <2>4, LevelsAre
<1>18. SyncRight'
  <2>0. SyncRight
    BY DEF Inv
  <2>1. ASSUME NEW k \in Level, NEW q \in Packet, (Live(q))', packet'[q].event = k
        PROVE  (Active(k))' /\ frame'[k].how = "sync" /\ frame'[k].own = q
    <3>1. Live(q) /\ packet[q].event = k /\ q # p
      BY <1>10, <1>13, <2>1
    <3>2. Active(k) /\ frame[k].how = "sync" /\ frame[k].own = q
      BY <2>0, <3>1 DEF SyncRight
    <3>3. k # l
      BY <3>1, <3>2, <1>3
    <3>4. QED BY <3>2, <3>3, <1>8 DEF Active
  <2>2. ASSUME NEW k \in Level, (Active(k))', frame'[k].how = "sync"
        PROVE  /\ frame'[k].own \in Packet /\ (Live(frame[k].own))'
               /\ packet'[frame'[k].own].event = k /\ packet'[frame'[k].own].type = "normal"
               /\ packet'[frame'[k].own].request = IF k = "thread" THEN made' ELSE 0
               /\ signaled'[k] => packet'[frame'[k].own].IOCount = 0
    <3>1. k # l
      BY <2>2, <1>6, <1>8 DEF Active, Done
    <3>2. frame'[k] = frame[k] /\ Active(k) /\ frame[k].how = "sync"
      BY <3>1, <1>8, <2>2 DEF Active
    <3>3. PICK o \in Packet : o = frame[k].own
      BY <2>0, <3>2 DEF SyncRight
    <3>4. /\ Live(o) /\ packet[o].event = k /\ packet[o].type = "normal"
          /\ packet[o].request = IF k = "thread" THEN made ELSE 0
          /\ signaled[k] => packet[o].IOCount = 0
      BY <2>0, <3>2, <3>3 DEF SyncRight
    <3>5. o \notin S
      BY <1>4, <1>10, <3>1, <3>4
    <3>6. packet'[o] = packet[o] /\ frame'[k].own = o
      BY <3>2, <3>3, <3>5, <1>13
    <3>7. signaled' = signaled /\ made' = made
      BY <1>1
    <3>8. QED BY <3>4, <3>6, <3>7 DEF Live
  <2>3. QED BY <2>1, <2>2 DEF SyncRight, Live
<1>19. UNCHANGED <<iolist, apcs, userapcs, finishing, made, failed>>
  BY <1>1 DEF listVars
<1>20. \A q \in iolist : q \in Packet /\ q \notin S /\ packet'[q] = packet[q]
  BY <1>4, <1>10, <1>13, ListedPackets
<1>21. AsyncRight'
  <2>1. AsyncRight
    BY DEF Inv
  <2>2. ASSUME NEW q \in Packet PROVE AsyncPacketRight(q)'
    <3>1. AsyncPacketRight(q)
      BY <2>1 DEF AsyncRight
    <3>2. CASE q \in S
      <4>1. packet[q].type = "normal" /\ ~(Live(q))'
        BY <3>2, <1>4, <1>10, <1>13
      <4>2. QED BY <3>1, <4>1, <1>19 DEF AsyncPacketRight
    <3>3. CASE q \notin S
      <4>1. packet'[q] = packet[q] /\ ((Live(q))' <=> Live(q))
        BY <3>3, <1>13
      <4>2. QED BY <3>1, <3>3, <4>1, <1>19 DEF AsyncPacketRight, LeftBehind
    <3>4. QED BY <3>2, <3>3
  <2>3. ASSUME frame'["thread"].pc \in Holding, frame'["thread"].master, frame'["thread"].how = "async"
        PROVE  frame'["thread"].iop \in iolist' /\ packet'[frame'["thread"].iop].request = made'
    <3>1. frame'["thread"] = frame["thread"]
      BY <2>3, <1>12, LevelsAre
    <3>2. frame["thread"].iop \in iolist /\ packet[frame["thread"].iop].request = made
      BY <2>1, <2>3, <3>1 DEF AsyncRight
    <3>4. packet'[frame["thread"].iop] = packet[frame["thread"].iop]
      BY <3>2, <1>20
    <3>5. QED BY <3>1, <3>2, <3>4, <1>19
  <2>4. frame'["thread"].pc = "gone" => iolist' = {} /\ userapcs' = {}
    <3>1. frame'["thread"].pc = "gone" => frame["thread"].pc = "gone"
      BY <1>6, <1>8, LevelsAre
    <3>2. QED BY <2>1, <3>1, <1>19 DEF AsyncRight
  <2>5. QED BY <2>1, <2>2, <2>3, <2>4, <1>19 DEF AsyncRight
<1>22. ASSUME NEW r \in 1..MaxRequests PROVE RequestRight(r)'
  <2>1. told[r] = <<"ok">> =>
         \A q \in Packet : (Live(q))' /\ packet'[q].request = r => packet'[q].IOCount = 0
    BY <1>13 DEF Inv, RequestsRight, RequestRight
  <2>2. /\ iolist' \subseteq Packet
        /\ \A q \in Packet : q \in iolist' /\ packet'[q].request = r <=> q \in iolist /\ packet[q].request = r
        /\ \A q \in iolist : packet[q].request = r =>
             /\ packet'[q].status = packet[q].status
             /\ "DOCOMPLT" \in packet'[q].flags <=> "DOCOMPLT" \in packet[q].flags
    BY <1>19, <1>20
  <2>3. CASE l = "apc"
    <3>1. frame'["thread"] = frame["thread"] /\ told' = told
      BY <2>3, <1>5, <1>8, LevelsAre
    <3>2. (Deciding' <=> Deciding) /\ (Returned(made)' <=> Returned(made))
      BY <3>1, <1>19 DEF Deciding, Returned
    <3>3. QED BY <3>1, <3>2, <2>1, <2>2, <1>19, RequestKept
  <2>4. CASE l = "thread" /\ r # made
    <3>1. told'[r] = told[r]
      BY <2>4, <1>5, <1>15
    <3>2. \A q \in Packet : (Live(q))' /\ packet'[q].request = r =>
            /\ Live(q) /\ packet[q].request = r
            /\ packet[q].IOCount = 0 => packet'[q].IOCount = 0
      BY <1>13
    <3>3. \A q \in iolist : (Live(q))' /\ packet'[q].request = r =>
            /\ packet'[q].status = packet[q].status
            /\ "DOCOMPLT" \in packet'[q].flags <=> "DOCOMPLT" \in packet[q].flags
      BY <1>20
    <3>4. \A q \in iolist' : (Live(q))' /\ packet'[q].request = packet[q].request
      BY <1>13, <1>19, <1>20, ListedPackets
    <3>5. iolist' \subseteq iolist /\ \A q \in iolist \ iolist' : packet[q].request # r
      BY <1>19
    <3>6. QED BY <3>1, <3>2, <3>3, <3>4, <3>5, <2>4, <1>19, OtherRequest
  <2>5. CASE l = "thread" /\ r = made
    <3>1. RequestRight(made)
      BY <2>5 DEF Inv, RequestsRight
    <3>2. ~Returned(made)
      BY <2>5, <1>1, <1>14, BoundAssumption DEF Returned, Done
    <3>3. told[made] = <<>>
      BY <3>1, <3>2, <2>5, <1>2 DEF RequestRight
    <3>4. told'[made] = <<result>>
      <4>1. Append(<<>>, result) = <<result>>
        OBVIOUS
      <4>2. told'[made] = Append(told[made], result)
        BY <2>5, <1>5, <1>14, <1>15
      <4>3. QED BY <3>3, <4>1, <4>2
    <3>5. packet[p].request = made /\ made # 0
      BY <2>5, <1>4, <1>14
    <3>6. result = "ok" => made \notin failed
      BY <3>5, <1>4, <1>7 DEF Inv, PacketsRight, PacketRight
    <3>7. \A q \in Packet : (Live(q))' => packet'[q].request # made
      <4>1. SUFFICES ASSUME NEW q \in Packet, (Live(q))', packet'[q].request = made PROVE FALSE
        OBVIOUS
      <4>2. Live(q) /\ packet[q].request = packet[p].request /\ q # p
        BY <4>1, <3>5, <1>10, <1>13
      <4>3. QED BY <4>2, <3>5, <1>4, NoPartLeft
    <3>8. \A q \in iolist' : packet'[q].request # made
      <4>1. \A q \in iolist' : q \in Packet /\ (Live(q))'
        BY <1>13, <1>19, <1>20, ListedPackets
      <4>2. QED BY <4>1, <3>7
    <3>9. (Returned(made))'
      BY <2>5, <1>6, <1>8 DEF Returned, Done
    <3>10. Len(<<result>>) = 1 /\ (<<result>> = <<"ok">> => result = "ok") /\ made' = made /\ failed' = failed
      BY <1>19
    <3>11. made \in Int
      BY <1>14, <2>5
    <3>12. (Returned(r))' /\ r = made /\ told'[r] = <<result>> /\ ~(r > made')
      BY <3>4, <3>9, <3>10, <3>11, <2>5 DEF Returned
    <3>13. QED BY <3>6, <3>7, <3>8, <3>10, <3>12 DEF RequestRight
  <2>6. QED BY <2>3, <2>4, <2>5, LevelsAre
<1>23. QED BY <1>13, <1>16, <1>17, <1>18, <1>21, <1>22 DEF Inv, RequestsRight

LEMMA FinishAPCInv ==
  ASSUME Inv, FinishAPC
  PROVE  Inv'
<1>1. /\ frame["apc"].pc = "routine"
      /\ UNCHANGED <<queue, deferred, apcs, signaled, made, failed>>
      /\ finishing' = None /\ iolist' = iolist \ {finishing}
      /\ frame' = [frame EXCEPT !["apc"] = Idle]
  BY DEF FinishAPC, Busy
<1>2. PICK p \in Packet : p = finishing /\ p \in iolist
  <2>1. finishing # None
    BY <1>1 DEF Inv, LevelsRight
  <2>2. QED BY <2>1 DEF Inv, AsyncRight, Typed
<1>3. /\ Live(p) /\ Whole(p) /\ packet[p].type = "userasync" /\ packet[p].IOCount = 0
      /\ p \notin apcs /\ p \notin userapcs
      /\ packet[p].event = None /\ ("FREEIOP" \in packet[p].flags <=> ~packet[p].routine)
      /\ packet[p].request # 0 /\ packet[p].request <= made
      /\ packet[p].request \in failed => packet[p].status = "error"
  <2>1. Live(p) /\ packet[p].type = "userasync" /\ packet[p].IOCount = 0 /\ p \notin apcs /\ p \notin userapcs
    BY <1>2 DEF Inv, AsyncRight, AsyncPacketRight
  <2>2. PacketRight(p) /\ Whole(p)
    BY <2>1 DEF Inv, PacketsRight, Whole
  <2>3. packet[p].request # 0 /\ packet[p].event = None /\ packet[p].request <= made
        /\ ("FREEIOP" \in packet[p].flags <=> ~packet[p].routine)
    BY <2>1, <2>2, LevelsAre DEF PacketRight
  <2>4. QED BY <2>1, <2>2, <2>3 DEF PacketRight
<1> DEFINE q0 == packet[p].request
           st == packet[p].status
<1>4. q0 \in 1..MaxRequests /\ st \in Statuses /\ q0 <= made /\ made \in Int
  <2>1. packet[p] \in PacketRecord /\ MaxRequests \in Nat /\ made \in 0..MaxRequests
    BY BoundAssumption DEF Inv, Typed
  <2>2. packet[p].request \in 0..MaxRequests
    BY <2>1 DEF PacketRecord, Request0
  <2>3. QED BY <1>3, <2>1, <2>2 DEF PacketRecord
<1>5. /\ told' = IF "DOCOMPLT" \in packet[p].flags THEN [told EXCEPT ![q0] = Append(@, st)] ELSE told
      /\ userapcs' = IF "DOCOMPLT" \in packet[p].flags /\ packet[p].routine
                     THEN userapcs \cup {p} ELSE userapcs
      /\ packet' = IF "FREEIOP" \in packet[p].flags THEN [packet EXCEPT ![p] = Free] ELSE packet
  BY <1>2 DEF FinishAPC, ToldByMessage, Tell
<1>6. iolist' = iolist \ {p} /\ finishing' = None
  BY <1>1, <1>2
<1> DEFINE S == IF "FREEIOP" \in packet[p].flags THEN {p} ELSE {}
<1>7. /\ S \in SUBSET Packet
      /\ \A q \in S : Live(q) /\ Whole(q) /\ packet[q].IOCount = 0
      /\ packet' = [q \in Packet |-> IF q \in S THEN Free ELSE packet[q]]
  <2>1. packet \in [Packet -> PacketRecord]
    BY DEF Inv, Typed
  <2>2. QED BY <1>3, <1>5, <2>1
<1>8. \A q : q \in S <=> q = p /\ ~packet[p].routine
  BY <1>3
<1> HIDE DEF S, q0, st
<1>9. /\ frame' \in [Level -> FrameRecord] /\ frame'["apc"] = Idle
      /\ frame'["thread"] = frame["thread"]
  BY <1>1, IdleIs, LevelsAre DEF Inv, Typed
<1>10. frame["apc"].rest = <<>> /\ frame["apc"].frags = <<>>
  BY <1>1, LevelsAre DEF Inv, LevelsRight, FrameRight, Holding, Splitting
<1>11. \A k \in Level :
         /\ frame'[k].rest = frame[k].rest /\ frame'[k].frags = frame[k].frags
         /\ frame'[k].pc \in Holding \/ frame[k].pc \in Holding => frame'[k] = frame[k]
         /\ (Active(k))' => k = "thread"
         /\ Active(k) => k = "thread"
  BY <1>1, <1>9, <1>10, IdleIs, LevelsAre DEF Holding, Active, Done
<1>12. /\ OnWay' = OnWay /\ Apart' /\ PlacesRight' /\ PacketsRight' /\ Counted' /\ SplitsRight'
       /\ RootsRight' /\ packet' \in [Packet -> PacketRecord]
       /\ \A q \in Packet : (Live(q))' <=> Live(q) /\ q \notin S
       /\ \A q \in Packet : (Live(q))' => packet'[q] = packet[q]
       /\ \A q \in Packet : q \notin S => packet'[q] = packet[q]
  <2>1. \A k \in Level :
          /\ frame'[k].rest = frame[k].rest /\ frame'[k].frags = frame[k].frags
          /\ frame'[k].pc \in Holding \/ frame[k].pc \in Holding => frame'[k] = frame[k]
    BY <1>11
  <2>2. UNCHANGED <<queue, deferred, made, failed>>
    BY <1>1
  <2>3. QED BY <1>7, <2>1, <2>2, FreeingKeeps
<1>13. told \in [1..MaxRequests -> Seq(Statuses)] /\ told' \in [1..MaxRequests -> Seq(Statuses)]
  <2>1. told \in [1..MaxRequests -> Seq(Statuses)]
    BY DEF Inv, Typed
  <2>2. \A t \in Seq(Statuses) : Append(t, st) \in Seq(Statuses)
    BY <1>4
  <2>3. QED BY <1>4, <1>5, <2>1, <2>2
<1>14. Typed'
  <2>1. Typed
    BY DEF Inv
  <2>2. userapcs' \subseteq Packet /\ iolist' \subseteq Packet
    BY <2>1, <1>5, <1>6 DEF Typed
  <2>3. QED BY <2>1, <2>2, <1>1, <1>6, <1>9, <1>12, <1>13 DEF Typed
<1>15. LevelsRight'
  <2>1. LevelsRight
    BY DEF Inv
  <2>2. ASSUME NEW k \in Level PROVE FrameRight(k)'
    <3>1. CASE k = "apc"
      BY <1>9, <3>1, IdleIs DEF FrameRight, Holding, Splitting
    <3>2. CASE k = "thread"
      BY <2>1, <1>9, <3>2 DEF FrameRight, LevelsRight
    <3>3. QED BY <3>1, <3>2, LevelsAre
  <2>3. QED BY <2>1, <2>2, <1>6, <1>9, IdleIs DEF LevelsRight
<1>16. SyncRight'
  <2>0. SyncRight
    BY DEF Inv
  <2>1. ASSUME NEW k \in Level, NEW q \in Packet, (Live(q))', packet'[q].event = k
        PROVE  (Active(k))' /\ frame'[k].how = "sync" /\ frame'[k].own = q
    <3>1. Live(q) /\ packet[q].event = k
      BY <1>12, <2>1
    <3>2. Active(k) /\ frame[k].how = "sync" /\ frame[k].own = q
      BY <2>0, <3>1 DEF SyncRight
    <3>3. k = "thread"
      BY <3>2, <1>11
    <3>4. QED BY <3>2, <3>3, <1>9 DEF Active
  <2>2. ASSUME NEW k \in Level, (Active(k))', frame'[k].how = "sync"
        PROVE  /\ frame'[k].own \in Packet /\ (Live(frame[k].own))'
               /\ packet'[frame'[k].own].event = k /\ packet'[frame'[k].own].type = "normal"
               /\ packet'[frame'[k].own].request = IF k = "thread" THEN made' ELSE 0
               /\ signaled'[k] => packet'[frame'[k].own].IOCount = 0
    <3>1. k = "thread"
      BY <2>2, <1>11
    <3>2. frame'[k] = frame[k] /\ Active(k) /\ frame[k].how = "sync"
      BY <3>1, <1>9, <2>2 DEF Active
    <3>3. PICK o \in Packet : o = frame[k].own
      BY <2>0, <3>2 DEF SyncRight
    <3>4. /\ Live(o) /\ packet[o].event = k /\ packet[o].type = "normal"
          /\ packet[o].request = IF k = "thread" THEN made ELSE 0
          /\ signaled[k] => packet[o].IOCount = 0
      BY <2>0, <3>2, <3>3 DEF SyncRight
    <3>5. o \notin S
      BY <1>3, <1>8, <3>4
    <3>6. packet'[o] = packet[o] /\ frame'[k].own = o
      BY <3>2, <3>3, <3>5, <1>12
    <3>7. signaled' = signaled /\ made' = made
      BY <1>1
    <3>8. QED BY <3>4, <3>6, <3>7 DEF Live
  <2>3. QED BY <2>1, <2>2 DEF SyncRight, Live
<1>17. \A q \in iolist' : q \in Packet /\ q \notin S /\ packet'[q] = packet[q] /\ q # p /\ q \in iolist /\ (Live(q))'
  BY <1>6, <1>8, <1>12, ListedPackets
<1>18. AsyncRight'
  <2>1. AsyncRight
    BY DEF Inv
  <2>2. ASSUME NEW q \in Packet PROVE AsyncPacketRight(q)'
    <3>1. AsyncPacketRight(q)
      BY <2>1 DEF AsyncRight
    <3>2. CASE q # p
      <4>1. packet'[q] = packet[q] /\ ((Live(q))' <=> Live(q))
        BY <3>2, <1>8, <1>12
      <4>2. (q \in apcs' \cup {finishing'} <=> q \in apcs \cup {finishing})
            /\ (q \in iolist' <=> q \in iolist) /\ (q \in userapcs' <=> q \in userapcs)
        BY <3>2, <1>1, <1>2, <1>5, <1>6, LevelsAre
      <4>3. QED BY <3>1, <4>1, <4>2 DEF AsyncPacketRight, LeftBehind
    <3>3. CASE q = p /\ packet[p].routine
      <4>1. packet'[q] = packet[q] /\ (Live(q))' /\ q \notin iolist'
        BY <3>3, <1>3, <1>6, <1>8, <1>12
      <4>2. QED BY <4>1, <3>3, <1>3, <1>5 DEF AsyncPacketRight, LeftBehind
    <3>4. CASE q = p /\ ~packet[p].routine
      <4>1. ~(Live(q))' /\ q \notin iolist' /\ q \notin userapcs'
        BY <3>4, <1>3, <1>5, <1>6, <1>8, <1>12
      <4>2. QED BY <4>1 DEF AsyncPacketRight
    <3>5. QED BY <3>2, <3>3, <3>4
  <2>3. ASSUME frame'["thread"].pc \in Holding, frame'["thread"].master, frame'["thread"].how = "async"
        PROVE  frame'["thread"].iop \in iolist' /\ packet'[frame'["thread"].iop].request = made'
    <3>1. frame'["thread"] = frame["thread"]
      BY <1>9
    <3>2. frame["thread"].iop \in iolist /\ packet[frame["thread"].iop].request = made
      BY <2>1, <2>3, <3>1 DEF AsyncRight
    <3>3. frame["thread"].iop \in OnWay
      BY <2>3, <3>1 DEF OnWay, HandsOf, Carried
    <3>4. frame["thread"].iop # p
      BY <3>3, <1>3, OnWayCounts
    <3>5. frame["thread"].iop \in iolist' /\ packet'[frame["thread"].iop] = packet[frame["thread"].iop]
      BY <3>2, <3>4, <1>6, <1>17
    <3>6. QED BY <3>1, <3>2, <3>5, <1>1
  <2>4. frame'["thread"].pc # "gone"
    BY <2>1, <1>2, <1>9 DEF AsyncRight
  <2>5. userapcs' \cap iolist' = {}
    BY <2>1, <1>5, <1>6 DEF AsyncRight
  <2>6. apcs' \subseteq iolist' /\ finishing' \in iolist' \cup {None} /\ finishing' \notin apcs'
    BY <2>1, <1>1, <1>3, <1>6, LevelsAre DEF AsyncRight, Inv, Typed
  <2>7. QED BY <2>2, <2>3, <2>4, <2>5, <2>6 DEF AsyncRight
<1>19. (Deciding' <=> Deciding) /\ (Returned(made)' <=> Returned(made))
  BY <1>1, <1>9 DEF Deciding, Returned
<1>20. ASSUME NEW r \in 1..MaxRequests PROVE RequestRight(r)'
  <2>1. told[r] = <<"ok">> =>
         \A q \in Packet : (Live(q))' /\ packet'[q].request = r => packet'[q].IOCount = 0
    BY <1>12 DEF Inv, RequestsRight, RequestRight
  <2>2. CASE r # q0
    <3>1. told'[r] = told[r]
      BY <2>2, <1>5, <1>13
    <3>2. iolist' \subseteq Packet
      BY <1>17
    <3>3. \A q \in Packet : q \in iolist' /\ packet'[q].request = r <=> q \in iolist /\ packet[q].request = r
      <4>1. \A q \in iolist : packet[q].request = r => q \in iolist'
        BY <2>2, <1>6 DEF q0
      <4>2. QED BY <4>1, <1>17
    <3>4. \A q \in iolist : packet[q].request = r =>
            /\ packet'[q].status = packet[q].status
            /\ "DOCOMPLT" \in packet'[q].flags <=> "DOCOMPLT" \in packet[q].flags
      <4>1. \A q \in iolist : packet[q].request = r => q \in iolist'
        BY <2>2, <1>6 DEF q0
      <4>2. QED BY <4>1, <1>17
    <3>5. made' = made /\ failed' = failed
      BY <1>1
    <3>6. QED BY <3>1, <3>2, <3>3, <3>4, <3>5, <2>1, <1>9, <1>19, RequestKept
  <2>3. CASE r = q0
    <3>1. RequestRight(r)
      BY DEF Inv, RequestsRight
    <3>2. made' = made /\ failed' = failed /\ frame'["thread"] = frame["thread"]
      BY <1>1, <1>9
    <3>3. Returned(r)' <=> Returned(r)
      BY <3>2 DEF Returned
    <3>4. packet[p].request = r /\ p \in iolist
      BY <2>3, <1>2 DEF q0
    <3>5. \A q \in iolist' : packet'[q].request # r
      <4>1. SUFFICES ASSUME NEW q \in iolist', packet'[q].request = r PROVE FALSE
        OBVIOUS
      <4>2. q # p /\ Live(q) /\ Whole(q) /\ packet[q].request = packet[p].request /\ q \in Packet
        BY <4>1, <3>4, <1>17, ListedPackets
      <4>3. QED BY <4>2, <1>3 DEF Inv, RootsRight
    <3>6. \A q \in Packet : (Live(q))' /\ packet'[q].request = r => packet'[q].IOCount = 0
      <4>1. SUFFICES ASSUME NEW q \in Packet, (Live(q))', packet'[q].request = r PROVE packet'[q].IOCount = 0
        OBVIOUS
      <4>2. Live(q) /\ packet[q].request = packet[p].request /\ packet'[q] = packet[q]
        BY <4>1, <3>4, <1>12
      <4>3. q = p
        BY <4>2, <1>3, NoPartLeft
      <4>4. QED BY <4>2, <4>3, <1>3
    <3>7. ~(r > made') /\ r <= made'
      BY <2>3, <3>2, <1>4
    <3>8. CASE "DOCOMPLT" \in packet[p].flags
      <4>1. told[r] = <<>>
        BY <3>1, <3>4, <3>8 DEF RequestRight
      <4>2. told'[r] = <<st>>
        <5>1. told' = [told EXCEPT ![q0] = Append(@, st)]
          BY <1>5, <3>8
        <5>2. told'[r] = Append(told[r], st)
          BY <2>3, <5>1, <1>4, <1>13
        <5>3. Append(<<>>, st) = <<st>>
          OBVIOUS
        <5>4. QED BY <4>1, <5>2, <5>3
      <4>3. Len(<<st>>) = 1 /\ (<<st>> = <<"ok">> => st = "ok")
        OBVIOUS
      <4>4. st = "ok" => r \notin failed
        BY <2>3, <1>3 DEF q0, st
      <4>5. ~Returned(r) => frame["thread"].how = "async" /\ ~Deciding /\ frame["thread"].ok = "ok"
        BY <3>1, <3>4, <3>8 DEF RequestRight
      <4>6. r = made' /\ ~Returned(r)' =>
              /\ frame'["thread"].how = "sync" \/ Deciding' => told'[r] = <<>>
              /\ frame'["thread"].how = "async" /\ ~Deciding' =>
                   IF frame'["thread"].ok = "error" THEN told'[r] = <<>>
                   ELSE Len(told'[r]) = 1 \/ \E q \in iolist' : packet'[q].request = r
        BY <4>2, <4>3, <4>5, <3>2, <3>3, <1>19
      <4>7. QED BY <4>2, <4>3, <4>4, <4>6, <3>2, <3>3, <3>5, <3>6, <3>7 DEF RequestRight
    <3>9. CASE "DOCOMPLT" \notin packet[p].flags
      <4>1. told[r] = IF Returned(r) THEN <<"error">> ELSE <<>>
        BY <3>1, <3>4, <3>9 DEF RequestRight
      <4>2. told' = told
        BY <1>5, <3>9
      <4>3. Len(<<"error">>) = 1 /\ <<"error">> # <<"ok">> /\ Len(<<>>) = 0 /\ <<>> # <<"ok">>
        OBVIOUS
      <4>4. ~Returned(r) => frame["thread"].how = "async" /\ ~(~Deciding /\ frame["thread"].ok = "ok")
        BY <3>1, <3>4, <3>9 DEF RequestRight
      <4>5. frame["thread"].ok \in {"ok", "error"}
        BY LevelsAre, FrameFields DEF Inv, Statuses
      <4>6. r = made' /\ ~Returned(r)' =>
              /\ frame'["thread"].how = "sync" \/ Deciding' => told'[r] = <<>>
              /\ frame'["thread"].how = "async" /\ ~Deciding' =>
                   IF frame'["thread"].ok = "error" THEN told'[r] = <<>>
                   ELSE Len(told'[r]) = 1 \/ \E q \in iolist' : packet'[q].request = r
        BY <4>1, <4>2, <4>4, <4>5, <3>2, <3>3, <1>19
      <4>7. Len(told'[r]) <= 1 /\ told'[r] # <<"ok">> /\ ((Returned(r))' => Len(told'[r]) = 1)
        <5>1. CASE Returned(r)
          <6>1. told'[r] = <<"error">>
            BY <4>1, <4>2, <5>1
          <6>2. QED BY <6>1, <4>3
        <5>2. CASE ~Returned(r)
          <6>1. told'[r] = <<>>
            BY <4>1, <4>2, <5>2
          <6>2. QED BY <6>1, <5>2, <4>3, <3>3
        <5>3. QED BY <5>1, <5>2
      <4>8. QED BY <4>6, <4>7, <3>5, <3>7 DEF RequestRight
    <3>10. QED BY <3>8, <3>9
  <2>4. QED BY <2>2, <2>3
<1>21. QED BY <1>12, <1>14, <1>15, <1>16, <1>18, <1>20 DEF Inv, RequestsRight

-----------------------------------------------------------------------------
(* New packets.                                                            *)

LEMMA EnterIs ==
  ASSUME NEW p \in Packet, NEW how \in {"sync", "async"}
  PROVE  /\ Enter(p, how) \in FrameRecord
         /\ Enter(p, how).pc = "dispatch" /\ Enter(p, how).how = how /\ Enter(p, how).own = p
         /\ Enter(p, how).iop = p /\ Enter(p, how).rest = <<>> /\ Enter(p, how).frags = <<>>
         /\ Enter(p, how).master = TRUE
<1>1. Idle \in FrameRecord
  BY IdleIs
<1>2. "dispatch" \in PCs
  BY DEF PCs
<1> DEFINE i == Idle
<1> HIDE DEF i
<1>3. /\ i \in FrameRecord /\ i.rest = <<>> /\ i.frags = <<>>
      /\ Enter(p, how) = [i EXCEPT !.pc = "dispatch", !.how = how, !.own = p, !.iop = p, !.master = TRUE]
  BY IdleIs DEF i, Enter
<1>4. QED BY <1>2, <1>3 DEF FrameRecord

\* A free packet has nothing to do with any other.
LEMMA FreeOnes ==
  ASSUME Inv, NEW p \in FreePackets
  PROVE  /\ p \in Packet /\ ~Live(p) /\ packet[p] = Free /\ p \notin OnWay
         /\ PartsOf(p) = {} /\ p \notin iolist /\ p \notin apcs \cup userapcs \cup {finishing}
         /\ \A q \in Packet : packet[q].parent # p
<1>1. p \in Packet /\ ~Live(p)
  <2>1. p \in Packet /\ packet[p].state = "free"
    BY DEF FreePackets
  <2>2. QED BY <2>1 DEF Live
<1>2. packet[p] = Free
  BY <1>1 DEF Inv, PacketsRight, PacketRight
<1>3. p \notin OnWay
  BY <1>1, OnWayCounts
<1>4. \A q \in Packet : packet[q].parent # p
  <2>1. SUFFICES ASSUME NEW q \in Packet, packet[q].parent = p PROVE FALSE
    OBVIOUS
  <2>2. PacketRight(q) /\ p # None
    BY <1>1, LevelsAre DEF Inv, PacketsRight
  <2>3. Live(q)
    BY <2>1, <2>2, FreeIs DEF PacketRight
  <2>4. QED BY <1>1, <2>1, <2>2, <2>3 DEF PacketRight
<1>5. PartsOf(p) = {}
  BY <1>4 DEF PartsOf
<1>6. p \notin iolist /\ p \notin apcs \cup userapcs \cup {finishing}
  <2>1. AsyncRight
    BY DEF Inv
  <2>2. AsyncPacketRight(p) /\ apcs \subseteq iolist /\ finishing \in iolist \cup {None} /\ p # None
    BY <1>1, <2>1, LevelsAre DEF AsyncRight
  <2>3. QED BY <1>1, <2>2 DEF AsyncPacketRight
<1>7. QED BY <1>1, <1>2, <1>3, <1>4, <1>5, <1>6

\* A packet goes on its way, at the beginning of IOPacketEnqueue.
LEMMA NewRoot ==
  ASSUME Inv, NEW p \in FreePackets, NEW l \in Level, NEW how \in {"sync", "async"},
         frame[l].pc = "idle",
         packet' \in [Packet -> PacketRecord], \A q \in Packet \ {p} : packet'[q] = packet[q],
         frame' \in [Level -> FrameRecord], frame'[l] = Enter(p, how),
         \A k \in Level \ {l} : frame'[k] = frame[k],
         UNCHANGED <<queue, deferred, failed>>, made \in Int, made' \in Int, made <= made',
         packet'[p].state = "live", packet'[p].IOCount = 1, packet'[p].parent = None,
         packet'[p].status = "ok", "COMPLETE" \notin packet'[p].flags, packet'[p].at # "fats",
         packet'[p].type = "userasync" \/ packet'[p].event # None,
         packet'[p].type = "userasync" =>
           packet'[p].event = None /\ ("FREEIOP" \in packet'[p].flags <=> ~packet'[p].routine),
         packet'[p].type = "normal" => "FREEIOP" \notin packet'[p].flags,
         packet'[p].request = 0 <=> packet'[p].event = "apc",
         packet'[p].request <= made',
         packet'[p].request = 0 \/ packet'[p].request \notin failed,
         \A q \in Packet : Live(q) => packet'[p].request = 0 \/ packet[q].request # packet'[p].request
  PROVE  /\ OnWay' = OnWay \cup {p} /\ Apart' /\ PlacesRight' /\ PacketsRight' /\ Counted' /\ SplitsRight'
         /\ RootsRight'
<1>1. /\ p \in Packet /\ ~Live(p) /\ packet[p] = Free /\ p \notin OnWay /\ PartsOf(p) = {}
      /\ \A q \in Packet : packet[q].parent # p
  BY FreeOnes
<1>0. p \in Packet
  BY <1>1
<1>2. /\ frame'[l].pc = "dispatch" /\ frame'[l].iop = p /\ frame'[l].rest = <<>> /\ frame'[l].frags = <<>>
      /\ frame'[l].master = TRUE
  <2>1. /\ Enter(p, how).pc = "dispatch" /\ Enter(p, how).iop = p /\ Enter(p, how).rest = <<>>
        /\ Enter(p, how).frags = <<>> /\ Enter(p, how).master = TRUE
    BY <1>0, EnterIs
  <2>2. QED BY <2>1
<1>3. frame[l].rest = <<>> /\ frame[l].frags = <<>> /\ frame[l].pc \notin Holding /\ frame[l].pc \notin Splitting
  BY DEF Inv, LevelsRight, FrameRight, Holding, Splitting
<1>4. /\ (Carried(l))' = {p} /\ (HandsOf(l))' = {p} /\ HandsOf(l) = {} /\ Carried(l) = {}
      /\ \A k \in Level \ {l} : (HandsOf(k))' = HandsOf(k) /\ (Carried(k))' = Carried(k)
  BY <1>2, <1>3, EmptyList DEF HandsOf, Carried, Holding
<1>5. OnWay' = OnWay \cup {p}
  BY <1>4, LevelsAre DEF OnWay
<1>6. p \notin queue \cup Range(deferred) /\ \A k \in Level : p \notin HandsOf(k)
  BY <1>1, LevelsAre DEF OnWay
<1>7. Apart'
  <2>0. Apart
    BY DEF Inv
  <2>1. HandsOf("thread")' \cap HandsOf("apc")' = {}
    <3>1. CASE l = "thread"
      BY <3>1, <1>4, <1>6, LevelsAre
    <3>2. CASE l = "apc"
      BY <3>2, <1>4, <1>6, LevelsAre
    <3>3. QED BY <3>1, <3>2, LevelsAre
  <2>2. ASSUME NEW k \in Level
        PROVE  /\ IsInjective(frame'[k].rest) /\ IsInjective(frame'[k].frags)
               /\ (Carried(k))' \cap Range(frame'[k].rest) = {}
               /\ (Carried(k))' \cap Range(frame'[k].frags) = {}
               /\ Range(frame'[k].rest) \cap Range(frame'[k].frags) = {}
               /\ (HandsOf(k))' \cap (queue \cup Range(deferred)) = {}
    <3>1. CASE k = l
      BY <3>1, <1>2, <1>4, <1>6, EmptyList
    <3>2. CASE k # l
      BY <3>2, <2>0, <1>4 DEF Apart
    <3>3. QED BY <3>1, <3>2
  <2>3. QED BY <2>0, <2>1, <2>2 DEF Apart
<1>8. \A q \in OnWay : /\ q \in Packet /\ Live(q) /\ q # p /\ packet'[q] = packet[q]
                       /\ "COMPLETE" \notin packet[q].flags
  BY <1>1, OnWayCounts DEF Inv, PlacesRight
<1>9. (Live(p))' /\ (Whole(p))'
  BY DEF Live, Whole
<1>10. \A k \in Level : \A q \in HandsOf(k) : q \in OnWay
  BY LevelsAre DEF OnWay
<1>11. ASSUME NEW k \in Level \ {l}, frame[k].pc \in Holding
       PROVE  frame[k].iop \in OnWay /\ packet'[frame[k].iop] = packet[frame[k].iop] /\ frame[k].iop # p
  BY <1>8, <1>10, <1>11 DEF HandsOf, Carried
<1>12. PlacesRight'
  <2>1. ASSUME NEW k \in Level PROVE PlaceRight(k)'
    <3>1. CASE k = l
      <4>1. (Whole(frame[k].iop))'
        BY <3>1, <1>2, <1>9 DEF Whole
      <4>2. QED BY <3>1, <4>1, <1>2, EmptyList DEF PlaceRight
    <3>2. CASE k # l
      <4>1. PlaceRight(k) /\ frame'[k] = frame[k]
        BY <3>2 DEF Inv, PlacesRight
      <4>2. frame[k].pc \in Holding => packet'[frame'[k].iop] = packet[frame[k].iop]
        BY <3>2, <4>1, <1>11
      <4>3. \A q \in Range(frame[k].rest) \cup Range(frame[k].frags) : packet'[q] = packet[q]
        BY <1>8, <1>10 DEF HandsOf
      <4>4. \A q \in Range(frame[k].frags) : frame[k].pc \in Holding
        BY EmptyList DEF Inv, LevelsRight, FrameRight, Holding, Splitting
      <4>5. QED BY <4>1, <4>2, <4>3, <4>4 DEF PlaceRight, Whole
    <3>3. QED BY <3>1, <3>2
  <2>2. \A q \in Range(deferred') : (~Whole(q))' /\ packet'[q].parent # None
    BY <1>8 DEF OnWay, Inv, PlacesRight, Whole
  <2>3. \A q \in queue' : (~Whole(q))' => packet'[q].parent # None
    BY <1>8 DEF OnWay, Inv, PlacesRight, Whole
  <2>4. \A q \in OnWay' : (Live(q))' /\ "COMPLETE" \notin packet'[q].flags
    BY <1>5, <1>8 DEF Live
  <2>5. QED BY <2>1, <2>2, <2>3, <2>4 DEF PlacesRight
<1>13. \A q \in Packet : (PartsOf(q))' = PartsOf(q)
  <2>1. ASSUME NEW q \in Packet, NEW x \in Packet PROVE x \in (PartsOf(q))' <=> x \in PartsOf(q)
    <3>1. CASE x = p
      BY <3>1, <1>1, FreeIs, LevelsAre DEF PartsOf
    <3>2. CASE x # p
      BY <3>2 DEF PartsOf
    <3>3. QED BY <3>1, <3>2
  <2>2. ASSUME NEW q \in Packet PROVE (PartsOf(q))' = PartsOf(q)
    <3>1. (PartsOf(q))' \subseteq Packet /\ PartsOf(q) \subseteq Packet
      BY DEF PartsOf
    <3>2. QED BY <3>1, <2>1
  <2>3. QED BY <2>2
<1>14. Counted'
  <2>1. ASSUME NEW q \in Packet, (Live(q))', (Whole(q))'
        PROVE  packet'[q].IOCount = (Own(q))' + Cardinality((PartsOf(q))')
    <3>1. CASE q = p
      <4>1. (PartsOf(q))' = {} /\ Cardinality({}) = 0
        BY <3>1, <1>1, <1>13, FS_EmptySet
      <4>2. (Own(q))' = 1
        BY <3>1, <1>5 DEF Own
      <4>3. QED BY <3>1, <4>1, <4>2
    <3>2. CASE q # p
      <4>1. Live(q) /\ Whole(q) /\ packet'[q] = packet[q] /\ (Own(q))' = Own(q)
        BY <2>1, <3>2, <1>5 DEF Live, Whole, Own
      <4>2. packet[q].IOCount = Own(q) + Cardinality(PartsOf(q))
        BY <4>1 DEF Inv, Counted
      <4>3. QED BY <4>1, <4>2, <1>13
    <3>3. QED BY <3>1, <3>2
  <2>2. QED BY <2>1 DEF Counted
<1>15. RootsRight'
  <2>1. ASSUME NEW a \in Packet, NEW b \in Packet, (Live(a))', (Whole(a))', (Live(b))', (Whole(b))',
               packet'[a].request = packet'[b].request, packet'[a].request # 0
        PROVE  a = b
    <3>1. CASE a # p /\ b # p
      <4>1. Live(a) /\ Whole(a) /\ Live(b) /\ Whole(b) /\ packet'[a] = packet[a] /\ packet'[b] = packet[b]
        BY <3>1, <2>1 DEF Live, Whole
      <4>2. QED BY <4>1, <2>1 DEF Inv, RootsRight
    <3>2. CASE a = p /\ b # p
      <4>1. Live(b) /\ packet'[b] = packet[b]
        BY <3>2, <2>1 DEF Live
      <4>2. QED BY <3>2, <4>1, <2>1
    <3>3. CASE a # p /\ b = p
      <4>1. Live(a) /\ packet'[a] = packet[a]
        BY <3>3, <2>1 DEF Live
      <4>2. QED BY <3>3, <4>1, <2>1
    <3>4. QED BY <3>1, <3>2, <3>3
  <2>2. QED BY <2>1 DEF RootsRight
<1>16. ASSUME NEW q \in Packet PROVE PacketRight(q)'
  <2>1. CASE q = p
    BY <2>1, <1>1, <1>9, LevelsAre DEF PacketRight
  <2>2. CASE q # p
    <3>0. PacketRight(q)
      BY DEF Inv, PacketsRight
    <3>1. packet'[q] = packet[q] /\ ((Live(q))' <=> Live(q)) /\ ((Whole(q))' <=> Whole(q))
      BY <2>2 DEF Whole, Live
    <3>2. PICK m \in Packet \cup {None} : m = packet[q].parent
      BY DEF Inv, Typed, PacketRecord
    <3>3. ASSUME Live(q), ~Whole(q), m # None
          PROVE  (Live(m))' /\ (Whole(m))' /\ packet[q].request = packet'[m].request
      <4>1. m \in Packet /\ m # p /\ Live(m) /\ Whole(m) /\ packet[q].request = packet[m].request
        BY <3>0, <3>2, <3>3, <1>1 DEF PacketRight
      <4>2. packet'[m] = packet[m]
        BY <4>1
      <4>3. QED BY <4>1, <4>2 DEF Live, Whole
    <3>4. packet'[q].parent = m
      BY <3>1, <3>2
    <3>5. ASSUME Live(q), ~Whole(q)
          PROVE  /\ q \in OnWay'
                 /\ packet'[q].IOCount = 1
                 /\ "FREEIOP" \in packet'[q].flags /\ packet'[q].at = "part"
                 /\ packet'[q].status = "ok" /\ ~packet'[q].routine
                 /\ packet'[q].parent # None =>
                      /\ (Live(packet[q].parent))' /\ (Whole(packet[q].parent))'
                      /\ packet'[q].request = packet'[packet'[q].parent].request
      <4>1. q \in OnWay' /\ packet'[q].IOCount = 1 /\ "FREEIOP" \in packet'[q].flags /\ packet'[q].at = "part"
            /\ packet'[q].status = "ok" /\ ~packet'[q].routine
        BY <3>0, <3>1, <3>5, <1>5 DEF PacketRight
      <4>2. packet'[q].parent # None => (Live(packet[q].parent))' /\ (Whole(packet[q].parent))'
        BY <3>3, <3>4, <3>5 DEF Live, Whole
      <4>3. packet'[q].parent # None => packet'[q].request = packet'[packet'[q].parent].request
        BY <3>1, <3>3, <3>4, <3>5
      <4>4. QED BY <4>1, <4>2, <4>3
    <3>6. ~(Live(q))' => packet'[q] = Free
      BY <3>0, <3>1 DEF PacketRight
    <3>7. packet'[q].at # "fats"
      BY <3>0, <3>1 DEF PacketRight
    <3>8. ASSUME Live(q), Whole(q)
          PROVE  /\ packet'[q].parent = None
                 /\ "COMPLETE" \in packet'[q].flags <=> packet'[q].IOCount = 0
                 /\ packet'[q].type = "userasync" =>
                      packet'[q].event = None /\ ("FREEIOP" \in packet'[q].flags <=> ~packet'[q].routine)
                 /\ packet'[q].type = "normal" => "FREEIOP" \notin packet'[q].flags
                 /\ packet'[q].request # 0 /\ packet'[q].request \in failed' => packet'[q].status = "error"
                 /\ packet'[q].request = 0 <=> packet'[q].event = "apc"
                 /\ packet'[q].request <= made'
      <4>1. packet[q].request \in Int
        BY BoundAssumption DEF Inv, Typed, PacketRecord, Request0
      <4>2. packet[q].request <= made
        BY <3>0, <3>8 DEF PacketRight
      <4>3. packet[q].request <= made'
        BY <4>1, <4>2
      <4>4. QED BY <4>3, <3>0, <3>1, <3>8 DEF PacketRight
    <3>9. QED BY <3>1, <3>5, <3>6, <3>7, <3>8 DEF PacketRight
  <2>3. QED BY <2>1, <2>2
<1>17. SplitsRight'
  <2>0. SplitsRight
    BY DEF Inv
  <2>1. ASSUME NEW q \in Packet, (Live(q))', (PartsOf(q))' # {}
        PROVE  packet'[q].at = "part" \/ \E k \in Level : frame'[k].pc \in Splitting /\ frame'[k].iop = q
    <3>1. PartsOf(q) # {} /\ q # p
      BY <2>1, <1>1, <1>13
    <3>2. Live(q) /\ packet'[q] = packet[q]
      BY <2>1, <3>1 DEF Live
    <3>3. packet[q].at = "part" \/ \E k \in Level : frame[k].pc \in Splitting /\ frame[k].iop = q
      BY <2>0, <3>1, <3>2 DEF SplitsRight
    <3>4. QED BY <3>2, <3>3, <1>3
  <2>2. ASSUME NEW k \in Level, frame'[k].pc \in Splitting
        PROVE  /\ (PartsOf(frame[k].iop))' \subseteq Range(deferred')
               /\ packet'[frame'[k].iop].at = "file"
               /\ frame'[k].pc = "bump" => frame'[k].count = packet'[frame'[k].iop].IOCount
    <3>1. k # l
      BY <2>2, <1>2 DEF Splitting
    <3>2. frame'[k] = frame[k] /\ frame[k].pc \in Holding
      BY <3>1, <2>2 DEF Splitting, Holding
    <3>3. PICK j \in Packet : j = frame[k].iop /\ frame'[k].iop = j
      BY <3>1, <3>2, <1>8, <1>11
    <3>4. packet'[j] = packet[j] /\ (PartsOf(j))' = PartsOf(j)
      BY <3>1, <3>2, <3>3, <1>11, <1>13
    <3>5. /\ PartsOf(frame[k].iop) \subseteq Range(deferred) /\ packet[frame[k].iop].at = "file"
          /\ frame[k].pc = "bump" => frame[k].count = packet[frame[k].iop].IOCount
      BY <2>0, <2>2, <3>2 DEF SplitsRight
    <3>6. PartsOf(j) \subseteq Range(deferred)
      BY <3>3, <3>5
    <3>7. (PartsOf(j))' \subseteq Range(deferred')
      BY <3>4, <3>6
    <3>8. (PartsOf(frame[k].iop))' \subseteq Range(deferred')
      BY <3>3, <3>7 DEF PartsOf
    <3>9. QED BY <3>2, <3>3, <3>4, <3>5, <3>8
  <2>3. ASSUME NEW k \in Level, frame'[k].pc \in Holding, frame'[k].master, packet'[frame'[k].iop].at # "part"
        PROVE  packet'[frame'[k].iop].status = "ok"
    <3>1. CASE k = l
      BY <3>1, <1>2
    <3>2. CASE k # l
      BY <3>2, <2>0, <2>3, <1>11 DEF SplitsRight
    <3>3. QED BY <3>1, <3>2
  <2>4. QED BY <2>1, <2>2, <2>3 DEF SplitsRight
<1>18. PacketsRight'
  BY <1>16 DEF PacketsRight
<1>19. QED BY <1>5, <1>7, <1>12, <1>14, <1>15, <1>17, <1>18

LEMMA NewPacketIs ==
  ASSUME Inv, NEW r \in Requests, made < MaxRequests
  PROVE  /\ NewPacket(r) \in PacketRecord
         /\ NewPacket(r).state = "live" /\ NewPacket(r).IOCount = 1 /\ NewPacket(r).parent = None
         /\ NewPacket(r).status = "ok" /\ NewPacket(r).at = r.target /\ NewPacket(r).routine = r.routine
         /\ NewPacket(r).type = IF r.how = "sync" THEN "normal" ELSE "userasync"
         /\ NewPacket(r).event = IF r.how = "sync" THEN "thread" ELSE None
         /\ NewPacket(r).flags = IF r.how = "async" /\ ~r.routine THEN {"FREEIOP"} ELSE {}
         /\ NewPacket(r).request = made + 1
         /\ r.how \in {"sync", "async"} /\ r.target \in Targets
<1>1. r.how \in {"sync", "async"} /\ r.target \in Targets /\ r.routine \in BOOLEAN
  BY RequestAssumption DEF Request
<1>2. made + 1 \in Request0
  BY BoundAssumption DEF Inv, Typed, Request0
<1> DEFINE x == Free
           ty == IF r.how = "sync" THEN "normal" ELSE "userasync"
           ev == IF r.how = "sync" THEN "thread" ELSE None
           fl == IF r.how = "async" /\ ~r.routine THEN {"FREEIOP"} ELSE {}
           ta == r.target
           ro == r.routine
           mm == made + 1
<1>3. /\ ta \in Targets \cup Devices /\ ro \in BOOLEAN /\ mm \in Request0
      /\ ty \in {"normal", "userasync"} /\ ev \in Level \cup {None}
      /\ fl \in SUBSET {"FREEIOP", "DOCOMPLT", "COMPLETE"}
  BY <1>1, <1>2, LevelsAre
<1>4. x \in PacketRecord /\ x.parent = None /\ x.status = "ok"
  BY FreeIs
<1>5. NewPacket(r) = [x EXCEPT !.state = "live", !.IOCount = 1, !.at = ta, !.routine = ro,
                               !.type = ty, !.event = ev, !.flags = fl, !.request = mm]
  BY DEF NewPacket
<1> HIDE DEF x, ty, ev, fl, ta, ro, mm
<1>6. /\ NewPacket(r) \in PacketRecord
      /\ NewPacket(r).state = "live" /\ NewPacket(r).IOCount = 1 /\ NewPacket(r).parent = None
      /\ NewPacket(r).status = "ok" /\ NewPacket(r).at = ta /\ NewPacket(r).routine = ro
      /\ NewPacket(r).type = ty /\ NewPacket(r).event = ev /\ NewPacket(r).flags = fl
      /\ NewPacket(r).request = mm
  <2>1. x.parent \in Packet \cup {None} /\ x.status \in Statuses
    BY <1>4 DEF PacketRecord
  <2>2. x = [state |-> x.state, type |-> x.type, parent |-> x.parent, IOCount |-> x.IOCount,
             status |-> x.status, flags |-> x.flags, at |-> x.at, event |-> x.event,
             routine |-> x.routine, request |-> x.request]
    BY <1>4 DEF PacketRecord
  <2>3. NewPacket(r) = [state |-> "live", type |-> ty, parent |-> None, IOCount |-> 1, status |-> "ok",
                        flags |-> fl, at |-> ta, event |-> ev, routine |-> ro, request |-> mm]
    BY <1>4, <1>5, <2>2
  <2>4. QED BY <1>3, <1>4, <2>1, <2>3 DEF PacketRecord
<1>7. QED BY <1>1, <1>6 DEF ty, ev, fl, ta, ro, mm

LEMMA AskInv ==
  ASSUME Inv, NoFATs, NEW r \in Requests, Ask(r)
  PROVE  Inv'
<1>1. /\ frame["thread"].pc = "idle" /\ finishing = None /\ made < MaxRequests /\ There(1)
      /\ made' = made + 1
      /\ UNCHANGED <<queue, deferred, apcs, userapcs, finishing, told, failed>>
  BY DEF Ask, Busy, Runs
<1>2. PICK p \in FreePackets : p = Fresh(1)[1]
  <2>1. 1 \in Nat /\ 1 > 0
    OBVIOUS
  <2>2. Fresh(1)[1] \in FreePackets
    BY <1>1, <2>1, FreshIs
  <2>3. QED BY <2>2
<1>3. /\ packet' = [packet EXCEPT ![p] = NewPacket(r)]
      /\ frame' = [frame EXCEPT !["thread"] = Enter(p, r.how)]
      /\ iolist' = IF r.how = "async" THEN iolist \cup {p} ELSE iolist
      /\ signaled' = [signaled EXCEPT !["thread"] = @ /\ r.how = "async"]
  BY <1>2 DEF Ask
<1>4. /\ p \in Packet /\ ~Live(p) /\ packet[p] = Free /\ p \notin OnWay /\ PartsOf(p) = {}
      /\ p \notin iolist /\ p \notin apcs \cup userapcs \cup {finishing}
  BY FreeOnes
<1>5. p \in Packet
  BY <1>4
<1>6. /\ NewPacket(r) \in PacketRecord
      /\ NewPacket(r).state = "live" /\ NewPacket(r).IOCount = 1 /\ NewPacket(r).parent = None
      /\ NewPacket(r).status = "ok" /\ NewPacket(r).at = r.target /\ NewPacket(r).routine = r.routine
      /\ NewPacket(r).type = (IF r.how = "sync" THEN "normal" ELSE "userasync")
      /\ NewPacket(r).event = (IF r.how = "sync" THEN "thread" ELSE None)
      /\ NewPacket(r).flags = (IF r.how = "async" /\ ~r.routine THEN {"FREEIOP"} ELSE {})
      /\ NewPacket(r).request = made + 1
      /\ r.how \in {"sync", "async"} /\ r.target \in Targets
  BY <1>1, NewPacketIs
<1>7. r.target # "fats"
  BY DEF NoFATs
<1>8. made \in Nat /\ made + 1 \in 1..MaxRequests /\ made + 1 \in Nat /\ MaxRequests \in Nat
  BY <1>1, BoundAssumption DEF Inv, Typed
<1>9. packet' \in [Packet -> PacketRecord] /\ (\A q \in Packet \ {p} : packet'[q] = packet[q])
      /\ packet'[p] = NewPacket(r)
  BY <1>3, <1>5, <1>6 DEF Inv, Typed
<1>10. /\ Enter(p, r.how) \in FrameRecord
       /\ Enter(p, r.how).pc = "dispatch" /\ Enter(p, r.how).how = r.how /\ Enter(p, r.how).own = p
       /\ Enter(p, r.how).iop = p /\ Enter(p, r.how).rest = <<>> /\ Enter(p, r.how).frags = <<>>
       /\ Enter(p, r.how).master = TRUE
  BY <1>5, <1>6, EnterIs
<1>11. /\ frame' \in [Level -> FrameRecord] /\ frame'["thread"] = Enter(p, r.how)
       /\ \A k \in Level \ {"thread"} : frame'[k] = frame[k]
       /\ frame'["apc"] = frame["apc"]
  BY <1>3, <1>10, LevelsAre DEF Inv, Typed
<1>12. frame["apc"].pc = "idle"
  BY <1>1 DEF Inv, LevelsRight
<1>13. \A k \in Level : HandsOf(k) = {}
  <2>1. \A k \in Level : frame[k].pc = "idle"
    BY <1>1, <1>12, LevelsAre
  <2>2. \A k \in Level : frame[k].rest = <<>> /\ frame[k].frags = <<>> /\ Carried(k) = {}
    BY <2>1 DEF Inv, LevelsRight, FrameRight, Holding, Splitting, Carried
  <2>3. QED BY <2>2, EmptyList DEF HandsOf
<1>14. \A q \in Packet : Live(q) => packet[q].request <= made /\ packet[q].request \in Nat
  <2>1. SUFFICES ASSUME NEW q \in Packet, Live(q) PROVE packet[q].request <= made /\ packet[q].request \in Nat
    OBVIOUS
  <2>2. packet[q].request \in Nat /\ PacketRight(q) /\ packet[q].parent \in Packet \cup {None}
    BY <1>8 DEF Inv, Typed, PacketRecord, Request0, PacketsRight
  <2>3. CASE Whole(q)
    BY <2>1, <2>2, <2>3 DEF PacketRight
  <2>4. CASE ~Whole(q)
    <3>1. q \in queue \cup Range(deferred)
      BY <2>1, <2>2, <2>4, <1>13, LevelsAre DEF PacketRight, OnWay
    <3>2. packet[q].parent # None
      BY <2>4, <3>1 DEF Inv, PlacesRight
    <3>3. PICK m \in Packet : m = packet[q].parent
      BY <2>2, <3>2
    <3>4. Live(m) /\ Whole(m) /\ packet[q].request = packet[m].request
      BY <2>1, <2>2, <2>4, <3>2, <3>3 DEF PacketRight
    <3>5. packet[m].request <= made
      BY <3>4 DEF Inv, PacketsRight, PacketRight
    <3>6. QED BY <2>2, <3>4, <3>5
  <2>5. QED BY <2>3, <2>4
<1>15. told[made + 1] = <<>> /\ made + 1 \notin failed
  <2>1. RequestRight(made + 1) /\ made + 1 > made
    BY <1>8 DEF Inv, RequestsRight
  <2>2. QED BY <2>1 DEF RequestRight
<1>16. OnWay' = OnWay \cup {p} /\ Apart' /\ PlacesRight' /\ PacketsRight' /\ Counted' /\ SplitsRight' /\ RootsRight'
  <2> DEFINE x == r.how
  <2>1. /\ "COMPLETE" \notin packet'[p].flags /\ packet'[p].at # "fats"
        /\ packet'[p].type = "userasync" \/ packet'[p].event # None
        /\ packet'[p].type = "userasync" =>
             packet'[p].event = None /\ ("FREEIOP" \in packet'[p].flags <=> ~packet'[p].routine)
        /\ packet'[p].type = "normal" => "FREEIOP" \notin packet'[p].flags
        /\ packet'[p].request = 0 <=> packet'[p].event = "apc"
        /\ packet'[p].request <= made'
        /\ packet'[p].request = 0 \/ packet'[p].request \notin failed
    BY <1>1, <1>6, <1>7, <1>8, <1>9, <1>15, LevelsAre
  <2>2. \A q \in Packet : Live(q) => packet'[p].request = 0 \/ packet[q].request # packet'[p].request
    BY <1>6, <1>8, <1>9, <1>14
  <2>3. made \in Int /\ made' \in Int /\ made <= made' /\ "thread" \in Level /\ x \in {"sync", "async"}
    BY <1>1, <1>6, <1>8, LevelsAre
  <2>4. packet'[p].state = "live" /\ packet'[p].IOCount = 1 /\ packet'[p].parent = None /\ packet'[p].status = "ok"
    BY <1>6, <1>9
  <2>5. frame'["thread"] = Enter(p, x)
    BY <1>11
  <2> HIDE DEF x
  <2>6. UNCHANGED <<queue, deferred, failed>>
    BY <1>1
  <2>7. QED BY <1>1, <1>9, <1>11, <2>1, <2>2, <2>3, <2>4, <2>5, <2>6, NewRoot
<1>17. Typed'
  <2>1. Typed
    BY DEF Inv
  <2>2. iolist' \subseteq Packet /\ made' \in 0..MaxRequests
    BY <1>1, <1>3, <1>5, <1>8, <2>1 DEF Typed
  <2>3. signaled' \in [Level -> BOOLEAN]
    <3>1. signaled \in [Level -> BOOLEAN]
      BY <2>1 DEF Typed
    <3>2. (signaled["thread"] /\ r.how = "async") \in BOOLEAN
      OBVIOUS
    <3>3. QED BY <3>1, <3>2, <1>3
  <2>4. QED BY <2>1, <2>2, <2>3, <1>1, <1>9, <1>11 DEF Typed
<1>18. LevelsRight'
  <2>1. LevelsRight
    BY DEF Inv
  <2>2. FrameRight("thread")'
    BY <1>5, <1>10, <1>11 DEF FrameRight, Holding, Splitting
  <2>3. FrameRight("apc")'
    BY <2>1, <1>11, LevelsAre DEF FrameRight, LevelsRight
  <2>4. QED BY <2>1, <2>2, <2>3, <1>1, <1>10, <1>11, LevelsAre DEF LevelsRight, Splitting
<1>19. SyncRight'
  <2>0. SyncRight
    BY DEF Inv
  <2>1. ~Active("thread") /\ ~Active("apc") /\ ~(Active("apc"))' /\ (Active("thread"))'
    BY <1>1, <1>10, <1>11, <1>12 DEF Active, Done
  <2>2. \A q \in Packet : Live(q) => packet[q].event = None
    <3>1. SUFFICES ASSUME NEW q \in Packet, Live(q), packet[q].event # None PROVE FALSE
      OBVIOUS
    <3>2. PICK k \in Level : packet[q].event = k
      BY <3>1 DEF Inv, Typed, PacketRecord
    <3>3. QED BY <2>0, <2>1, <3>1, <3>2, LevelsAre DEF SyncRight
  <2>3. ASSUME NEW k \in Level, NEW q \in Packet, (Live(q))', packet'[q].event = k
        PROVE  (Active(k))' /\ frame'[k].how = "sync" /\ frame'[k].own = q
    <3>1. q = p
      BY <2>2, <2>3, <1>9, LevelsAre DEF Live
    <3>2. r.how = "sync" /\ k = "thread"
      BY <3>1, <2>3, <1>6, <1>9, LevelsAre
    <3>3. QED BY <3>1, <3>2, <2>1, <1>10, <1>11
  <2>4. ASSUME NEW k \in Level, (Active(k))', frame'[k].how = "sync"
        PROVE  /\ frame'[k].own \in Packet /\ (Live(frame[k].own))'
               /\ packet'[frame'[k].own].event = k /\ packet'[frame'[k].own].type = "normal"
               /\ packet'[frame'[k].own].request = IF k = "thread" THEN made' ELSE 0
               /\ signaled'[k] => packet'[frame'[k].own].IOCount = 0
    <3>1. k = "thread"
      BY <2>1, <2>4, LevelsAre
    <3>2. r.how = "sync" /\ frame'[k].own = p
      BY <3>1, <2>4, <1>10, <1>11
    <3>3. signaled'[k] = FALSE
      BY <3>1, <3>2, <1>3, LevelsAre DEF Inv, Typed
    <3>4. packet'[p].state = "live" /\ packet'[p].event = "thread" /\ packet'[p].type = "normal"
          /\ packet'[p].request = made'
      BY <3>2, <1>1, <1>6, <1>9
    <3>5. QED BY <3>1, <3>2, <3>3, <3>4, <1>5 DEF Live
  <2>5. QED BY <2>3, <2>4 DEF SyncRight, Live
<1>20. AsyncRight'
  <2>1. AsyncRight
    BY DEF Inv
  <2>2. ASSUME NEW q \in Packet PROVE AsyncPacketRight(q)'
    <3>1. CASE q = p
      <4>1. packet'[p].IOCount # 0 /\ (Live(p))'
            /\ (packet'[p].type = "userasync" <=> r.how = "async")
        BY <1>6, <1>9 DEF Live
      <4>2. p \in iolist' <=> r.how = "async"
        BY <1>3, <1>4
      <4>3. QED BY <3>1, <4>1, <4>2, <1>1, <1>4 DEF AsyncPacketRight
    <3>2. CASE q # p
      <4>1. packet'[q] = packet[q] /\ (q \in iolist' <=> q \in iolist) /\ AsyncPacketRight(q)
        BY <3>2, <2>1, <1>3, <1>9 DEF AsyncRight
      <4>2. QED BY <4>1, <1>1 DEF AsyncPacketRight, Live, LeftBehind
    <3>3. QED BY <3>1, <3>2
  <2>3. frame'["thread"].how = "async" =>
          frame'["thread"].iop \in iolist' /\ packet'[frame'["thread"].iop].request = made'
    BY <1>1, <1>3, <1>6, <1>9, <1>10, <1>11
  <2>4. frame'["thread"].pc # "gone"
    BY <1>10, <1>11
  <2>5. apcs' \subseteq iolist' /\ finishing' \in iolist' \cup {None} /\ finishing' \notin apcs'
        /\ userapcs' \cap iolist' = {}
    BY <2>1, <1>1, <1>3, <1>4 DEF AsyncRight
  <2>6. QED BY <2>2, <2>3, <2>4, <2>5 DEF AsyncRight
<1>21. ASSUME NEW n \in 1..MaxRequests PROVE RequestRight(n)'
  <2>0. n \in Int /\ n >= 1
    BY <1>8
  <2>1. RequestRight(n)
    BY DEF Inv, RequestsRight
  <2>2. CASE n = made + 1
    <3>1. told'[n] = <<>> /\ n \notin failed' /\ n = made' /\ Len(<<>>) = 0 /\ <<>> # <<"ok">>
      BY <2>2, <1>1, <1>15
    <3>2. ~(Returned(n))' /\ Deciding'
      BY <3>1, <2>0, <1>10, <1>11 DEF Returned, Deciding, Holding, Done
    <3>3. ASSUME NEW q \in iolist', packet'[q].request = n
          PROVE  "DOCOMPLT" \notin packet'[q].flags /\ frame'["thread"].how = "async"
      <4>1. q = p
        <5>1. ASSUME q # p PROVE FALSE
          <6>1. q \in iolist
            BY <5>1, <1>3
          <6>2. packet[q].request <= made /\ q \in Packet /\ packet[q].request \in Int
            BY <6>1, ListedPackets
          <6>3. packet'[q] = packet[q]
            BY <5>1, <6>2, <1>9
          <6>4. QED BY <6>2, <6>3, <3>3, <2>2, <1>8
        <5>2. QED BY <5>1
      <4>2. r.how = "async"
        BY <4>1, <3>3, <1>3, <1>4
      <4>3. QED BY <4>1, <4>2, <1>6, <1>9, <1>10, <1>11
    <3>4. \A q \in iolist' : packet'[q].request = n =>
            /\ "DOCOMPLT" \in packet'[q].flags => told'[n] = <<>>
            /\ "DOCOMPLT" \notin packet'[q].flags =>
                 /\ told'[n] = IF Returned(n)' THEN <<"error">> ELSE <<>>
                 /\ Returned(n)' \/ ~Deciding' => packet'[q].status = "error"
            /\ ~Returned(n)' => frame'["thread"].how = "async" /\
                 ("DOCOMPLT" \in packet'[q].flags <=> ~Deciding' /\ frame'["thread"].ok = "ok")
      BY <3>1, <3>2, <3>3
    <3>5. Len(told'[n]) <= 1 /\ told'[n] # <<"ok">>
      BY <3>1
    <3>6. n > made' => told'[n] = <<>> /\ n \notin failed'
      BY <3>1
    <3>7. QED BY <3>1, <3>2, <3>4, <3>5, <3>6 DEF RequestRight
  <2>3. CASE n # made + 1
    <3>1. told'[n] = told[n] /\ failed' = failed /\ n # made'
      BY <2>3, <1>1
    <3>2. \A q \in iolist' : packet'[q].request = n => q \in iolist /\ packet'[q] = packet[q]
      BY <2>3, <1>3, <1>6, <1>9, ListedPackets
    <3>3. \A q \in iolist : q \in iolist' /\ packet'[q] = packet[q]
      BY <1>3, <1>4, <1>9, ListedPackets
    <3>4. n <= made => Returned(n) /\ (Returned(n))'
      <4>1. n <= made => n < made'
        BY <2>0, <1>1, <1>8
      <4>2. n <= made => n < made \/ frame["thread"].pc \in Done
        BY <1>1 DEF Done
      <4>3. Returned(made) => TRUE
        OBVIOUS
      <4>4. QED BY <4>1, <4>2 DEF Returned
    <3>5. Len(told'[n]) <= 1
      BY <2>1, <3>1 DEF RequestRight
    <3>6. n > made' => told'[n] = <<>> /\ n \notin failed'
      BY <2>0, <2>1, <3>1, <1>1, <1>8 DEF RequestRight
    <3>7. told'[n] = <<"ok">> =>
            n \notin failed' /\ \A q \in Packet : (Live(q))' /\ packet'[q].request = n => packet'[q].IOCount = 0
      <4>1. \A q \in Packet : (Live(q))' /\ packet'[q].request = n => Live(q) /\ packet'[q] = packet[q]
        BY <2>3, <1>6, <1>9 DEF Live
      <4>2. QED BY <4>1, <2>1, <3>1 DEF RequestRight
    <3>8. n <= made' => n <= made
      BY <2>0, <2>3, <1>1, <1>8
    <3>9. n <= made' /\ (Returned(n))' /\ (\A q \in iolist' : packet'[q].request # n) => Len(told'[n]) = 1
      <4>1. (\A q \in iolist' : packet'[q].request # n) => (\A q \in iolist : packet[q].request # n)
        BY <3>3
      <4>2. QED BY <4>1, <3>1, <3>4, <3>8, <2>1 DEF RequestRight
    <3>10. ASSUME NEW q \in iolist', packet'[q].request = n
           PROVE  /\ "DOCOMPLT" \in packet'[q].flags => told'[n] = <<>>
                  /\ "DOCOMPLT" \notin packet'[q].flags =>
                       /\ told'[n] = <<"error">>
                       /\ packet'[q].status = "error"
                  /\ Returned(n)'
      <4>1. q \in iolist /\ packet'[q] = packet[q] /\ packet[q].request = n
        BY <3>2, <3>10
      <4>2. n <= made
        BY <4>1, ListedPackets
      <4>3. Returned(n) /\ (Returned(n))'
        BY <4>2, <3>4
      <4>4. QED BY <4>1, <4>3, <2>1, <3>1 DEF RequestRight
    <3>11. \A q \in iolist' : packet'[q].request = n =>
            /\ "DOCOMPLT" \in packet'[q].flags => told'[n] = <<>>
            /\ "DOCOMPLT" \notin packet'[q].flags =>
                 /\ told'[n] = IF Returned(n)' THEN <<"error">> ELSE <<>>
                 /\ Returned(n)' \/ ~Deciding' => packet'[q].status = "error"
            /\ ~Returned(n)' => frame'["thread"].how = "async" /\
                 ("DOCOMPLT" \in packet'[q].flags <=> ~Deciding' /\ frame'["thread"].ok = "ok")
      BY <3>10
    <3>12. QED BY <3>1, <3>5, <3>6, <3>7, <3>9, <3>11 DEF RequestRight, Live
  <2>4. QED BY <2>2, <2>3
<1>22. QED BY <1>16, <1>17, <1>18, <1>19, <1>20, <1>21 DEF Inv, RequestsRight

-----------------------------------------------------------------------------
(* A completion APC.                                                       *)

\* What the two ways in which an APC begins have in common.
LEMMA BegunAPC ==
  ASSUME Inv, NEW p \in apcs, finishing = None, frame["thread"].pc # "rundown",
         apcs' = apcs \ {p}, finishing' = p,
         UNCHANGED <<queue, deferred, iolist, userapcs, made, told, failed>>,
         frame' \in [Level -> FrameRecord], frame'["thread"] = frame["thread"],
         FrameRight("apc")', frame'["apc"].how = "sync",
         frame'["apc"].pc \in {"dispatch", "routine"},
         frame["thread"].pc \in Splitting => frame'["apc"].pc = "routine",
         packet' \in [Packet -> PacketRecord], signaled' \in [Level -> BOOLEAN],
         \A q \in Packet : Live(q) => packet'[q] = packet[q],
         \A q \in Packet : ~Live(q) => /\ packet'[q].type = "normal"
                                       /\ packet'[q].request = 0
  PROVE  Typed' /\ LevelsRight' /\ AsyncRight' /\ RequestsRight'
<1>1. AsyncRight /\ LevelsRight /\ Typed
  BY DEF Inv
<1>2. p \in Packet /\ p \in iolist /\ p # None
  BY <1>1, LevelsAre DEF AsyncRight, Typed
<1>3. Typed'
  <2>1. apcs' \subseteq Packet
    BY <1>1 DEF Typed
  <2>2. QED BY <1>1, <1>2, <2>1 DEF Typed
<1>4. LevelsRight'
  <2>1. FrameRight("thread")'
    BY <1>1, LevelsAre DEF LevelsRight, FrameRight
  <2>2. \A k \in Level : FrameRight(k)'
    BY <2>1, LevelsAre
  <2>3. QED BY <1>1, <1>2, <2>2, LevelsAre DEF LevelsRight
<1>5. \A q \in iolist : q \in Packet /\ Live(q) /\ packet'[q] = packet[q]
  BY ListedPackets
<1>6. \A q \in Packet : packet[q].type = "userasync" \/ packet[q].request # 0 => Live(q) /\ packet'[q] = packet[q]
  <2>1. SUFFICES ASSUME NEW q \in Packet, ~Live(q) PROVE packet[q].type = "normal" /\ packet[q].request = 0
    OBVIOUS
  <2>2. packet[q] = Free
    BY <2>1 DEF Inv, PacketsRight, PacketRight
  <2>3. QED BY <2>2, FreeIs
<1>7. AsyncRight'
  <2>1. ASSUME NEW q \in Packet PROVE AsyncPacketRight(q)'
    <3>1. AsyncPacketRight(q)
      BY <1>1 DEF AsyncRight
    <3>2. q \in apcs' \cup {finishing'} <=> q \in apcs \cup {finishing}
      BY LevelsAre
    <3>3. CASE Live(q)
      <4>1. packet'[q] = packet[q] /\ (Live(q))'
        BY <3>3 DEF Live
      <4>2. QED BY <3>1, <3>2, <3>3, <4>1 DEF AsyncPacketRight, LeftBehind
    <3>4. CASE ~Live(q)
      BY <3>1, <3>4 DEF AsyncPacketRight
    <3>5. QED BY <3>3, <3>4
  <2>2. ASSUME frame'["thread"].pc \in Holding, frame'["thread"].master, frame'["thread"].how = "async"
        PROVE  frame'["thread"].iop \in iolist' /\ packet'[frame'["thread"].iop].request = made'
    <3>1. frame["thread"].iop \in iolist /\ packet[frame["thread"].iop].request = made
      BY <1>1, <2>2 DEF AsyncRight
    <3>2. QED BY <3>1, <1>5
  <2>3. frame'["thread"].pc = "gone" => iolist' = {} /\ userapcs' = {}
    BY <1>1 DEF AsyncRight
  <2>4. apcs' \subseteq iolist' /\ finishing' \in iolist' \cup {None} /\ finishing' \notin apcs'
        /\ userapcs' \cap iolist' = {}
    BY <1>1, <1>2 DEF AsyncRight
  <2>5. QED BY <2>1, <2>2, <2>3, <2>4 DEF AsyncRight
<1>8. ASSUME NEW r \in 1..MaxRequests PROVE RequestRight(r)'
  <2>1. r # 0
    BY BoundAssumption
  <2>2. \A q \in Packet : packet'[q].request = r => Live(q) /\ packet'[q] = packet[q]
    BY <2>1
  <2>3. told[r] = <<"ok">> =>
         \A q \in Packet : (Live(q))' /\ packet'[q].request = r => packet'[q].IOCount = 0
    BY <2>2 DEF Inv, RequestsRight, RequestRight
  <2>4. (Deciding' <=> Deciding) /\ (Returned(made)' <=> Returned(made))
    BY DEF Deciding, Returned
  <2>5. /\ iolist' \subseteq Packet
        /\ \A q \in Packet : q \in iolist' /\ packet'[q].request = r <=> q \in iolist /\ packet[q].request = r
        /\ \A q \in iolist : packet[q].request = r =>
             /\ packet'[q].status = packet[q].status
             /\ "DOCOMPLT" \in packet'[q].flags <=> "DOCOMPLT" \in packet[q].flags
    BY <1>1, <1>5 DEF Typed
  <2>6. told'[r] = told[r] /\ made' = made /\ (r \in failed' => r \in failed)
        /\ frame'["thread"].how = frame["thread"].how /\ frame'["thread"].ok = frame["thread"].ok
    OBVIOUS
  <2>7. QED BY <2>3, <2>4, <2>5, <2>6, RequestKept
<1>9. QED BY <1>3, <1>4, <1>7, <1>8 DEF RequestsRight

\* Without a page-in.
LEMMA BeginRoutineInv ==
  ASSUME Inv, NEW p \in apcs, finishing = None, frame["thread"].pc # "rundown",
         apcs' = apcs \ {p}, finishing' = p,
         Goto("apc", "routine"),
         UNCHANGED <<packet, queue, deferred, iolist, userapcs, signaled, made, told, failed>>
  PROVE  Inv'
<1>1. "apc" \in Level /\ "routine" \in PCs /\ Typed
  BY LevelsAre DEF PCs, Inv
<1>2. /\ frame' \in [Level -> FrameRecord]
      /\ frame'["apc"].pc = "routine" /\ frame'["apc"].how = frame["apc"].how /\ frame'["apc"].own = frame["apc"].own
      /\ frame'["apc"].iop = frame["apc"].iop /\ frame'["apc"].rest = frame["apc"].rest
      /\ frame'["apc"].frags = frame["apc"].frags /\ frame'["apc"].master = frame["apc"].master
      /\ frame'["apc"].ok = frame["apc"].ok
      /\ \A k \in Level \ {"apc"} : frame'[k] = frame[k]
  BY <1>1, GotoIs
<1>3. frame["apc"].pc = "idle" /\ frame["apc"].how = "sync"
  BY DEF Inv, LevelsRight
<1>4. frame'["thread"] = frame["thread"]
  BY <1>2, LevelsAre
<1>5. /\ frame["apc"].rest = <<>> /\ frame["apc"].frags = <<>>
      /\ "idle" \notin Holding \cup Splitting /\ "routine" \notin Holding \cup Splitting
  BY <1>3, LevelsAre DEF Inv, LevelsRight, FrameRight, Holding, Splitting
<1>6. \A k \in Level : /\ frame'[k].rest = frame[k].rest /\ frame'[k].frags = frame[k].frags
                       /\ frame'[k].iop = frame[k].iop /\ frame'[k].master = frame[k].master
                       /\ frame'[k].own = frame[k].own /\ frame'[k].how = frame[k].how
                       /\ frame'[k].pc \in Holding <=> frame[k].pc \in Holding
                       /\ frame'[k].pc \in Splitting => frame'[k] = frame[k]
                       /\ frame[k].pc \in Splitting => frame'[k] = frame[k]
                       /\ Active(k)' <=> Active(k)
  BY <1>2, <1>3, <1>4, <1>5, LevelsAre DEF Active, Done
<1>7. \A k \in Level : (Carried(k))' = Carried(k) /\ (HandsOf(k))' = HandsOf(k)
  BY <1>6 DEF Carried, HandsOf
<1>8. OnWay' = OnWay /\ Apart'
  BY <1>6, <1>7, LevelsAre DEF OnWay, Inv, Apart
<1>9. \A q \in Packet : Alike(q)
  BY DEF Alike
<1>10. PacketsRight' /\ Counted' /\ RootsRight' /\ SyncRight' /\ PlacesRight'
  <2>1. \A k \in Level : /\ frame'[k].own = frame[k].own /\ frame'[k].how = frame[k].how
                         /\ Active(k)' <=> Active(k)
    BY <1>6
  <2>2. \A k \in Level : /\ frame'[k].rest = frame[k].rest /\ frame'[k].frags = frame[k].frags
                         /\ frame'[k].iop = frame[k].iop /\ frame'[k].master = frame[k].master
                         /\ frame'[k].pc \in Holding <=> frame[k].pc \in Holding
    BY <1>6
  <2>3. UNCHANGED <<made, failed>> /\ UNCHANGED <<signaled, made>> /\ UNCHANGED <<queue, deferred>>
    OBVIOUS
  <2>4. QED BY <1>8, <1>9, <2>1, <2>2, <2>3, AlikeStep, AlikeSync, AlikePlaces
<1>11. SplitsRight'
  <2>1. SplitsRight
    BY DEF Inv
  <2>2. \A q \in Packet : (PartsOf(q))' = PartsOf(q) /\ (Live(q))' = Live(q)
    BY DEF PartsOf, Live
  <2>3. ASSUME NEW k \in Level, frame'[k].pc \in Splitting
        PROVE  /\ (PartsOf(frame[k].iop))' \subseteq Range(deferred')
               /\ packet'[frame'[k].iop].at = "file"
               /\ frame'[k].pc = "bump" => frame'[k].count = packet'[frame'[k].iop].IOCount
    <3>1. frame'[k] = frame[k]
      BY <1>6, <2>3
    <3>2. QED BY <2>1, <2>3, <3>1 DEF SplitsRight, PartsOf
  <2>4. ASSUME NEW q \in Packet, Live(q), PartsOf(q) # {}
        PROVE  packet[q].at = "part" \/ \E k \in Level : frame'[k].pc \in Splitting /\ frame'[k].iop = q
    BY <2>1, <2>4, <1>6 DEF SplitsRight
  <2>5. \A k \in Level :
          frame'[k].pc \in Holding /\ frame'[k].master /\ packet'[frame'[k].iop].at # "part" =>
            packet'[frame'[k].iop].status = "ok"
    BY <2>1, <1>6 DEF SplitsRight
  <2>6. QED BY <2>2, <2>3, <2>4, <2>5 DEF SplitsRight
<1>12. FrameRight("apc")'
  BY <1>2, <1>3, <1>5 DEF FrameRight, Holding, Splitting
<1>13. \A q \in Packet : ~Live(q) => packet'[q].type = "normal" /\ packet'[q].request = 0
  BY FreeIs DEF Inv, PacketsRight, PacketRight
<1>14. /\ packet' \in [Packet -> PacketRecord] /\ signaled' \in [Level -> BOOLEAN]
       /\ \A q \in Packet : Live(q) => packet'[q] = packet[q]
  BY DEF Inv, Typed
<1>15. /\ frame'["apc"].how = "sync" /\ frame'["apc"].pc \in {"dispatch", "routine"}
       /\ frame["thread"].pc \in Splitting => frame'["apc"].pc = "routine"
       /\ UNCHANGED <<queue, deferred, iolist, userapcs, made, told, failed>>
  BY <1>2, <1>3
<1>16. Typed' /\ LevelsRight' /\ AsyncRight' /\ RequestsRight'
  BY <1>2, <1>4, <1>12, <1>13, <1>14, <1>15, BegunAPC
<1>17. QED BY <1>8, <1>10, <1>11, <1>16 DEF Inv

\* With one.
PageIn == [Free EXCEPT !.state = "live", !.IOCount = 1, !.at = "file", !.event = "apc"]
PagesIn(q) ==
  /\ packet' = [packet EXCEPT ![q] = PageIn]
  /\ frame' = [frame EXCEPT !["apc"] = Enter(q, "sync")]
  /\ signaled' = [signaled EXCEPT !["apc"] = FALSE]

LEMMA PageInIs ==
  /\ PageIn \in PacketRecord
  /\ PageIn.state = "live" /\ PageIn.type = "normal" /\ PageIn.parent = None /\ PageIn.IOCount = 1
  /\ PageIn.status = "ok" /\ PageIn.flags = {} /\ PageIn.at = "file" /\ PageIn.event = "apc"
  /\ PageIn.routine = FALSE /\ PageIn.request = 0
<1> DEFINE x == Free
           ta == "file"
           ev == "apc"
<1>0. PageIn = [x EXCEPT !.state = "live", !.IOCount = 1, !.at = ta, !.event = ev]
  BY DEF PageIn
<1>4. /\ x \in PacketRecord /\ x.type = "normal" /\ x.parent = None /\ x.status = "ok"
      /\ x.flags = {} /\ x.routine = FALSE /\ x.request = 0
  BY FreeIs
<1> HIDE DEF x, ta, ev
<1>5. x = [state |-> x.state, type |-> x.type, parent |-> x.parent, IOCount |-> x.IOCount,
           status |-> x.status, flags |-> x.flags, at |-> x.at, event |-> x.event,
           routine |-> x.routine, request |-> x.request]
  BY <1>4 DEF PacketRecord
<1>6. PageIn = [state |-> "live", type |-> x.type, parent |-> x.parent, IOCount |-> 1,
                status |-> x.status, flags |-> x.flags, at |-> ta, event |-> ev,
                routine |-> x.routine, request |-> x.request]
  BY <1>0, <1>5
<1>1. PageIn = [state |-> "live", type |-> "normal", parent |-> None, IOCount |-> 1, status |-> "ok",
                flags |-> {}, at |-> "file", event |-> "apc", routine |-> FALSE, request |-> 0]
  BY <1>4, <1>6 DEF ta, ev
<1>2. "file" \in Targets /\ "apc" \in Level /\ "ok" \in Statuses /\ 0 \in Request0
  BY LevelsAre, BoundAssumption DEF Targets, Statuses, Request0
<1>3. QED BY <1>1, <1>2 DEF PacketRecord

LEMMA EnterSync ==
  ASSUME NEW q \in Packet
  PROVE  /\ Enter(q, "sync") \in FrameRecord
         /\ Enter(q, "sync").pc = "dispatch" /\ Enter(q, "sync").how = "sync" /\ Enter(q, "sync").own = q
         /\ Enter(q, "sync").iop = q /\ Enter(q, "sync").rest = <<>> /\ Enter(q, "sync").frags = <<>>
         /\ Enter(q, "sync").master = TRUE
BY EnterIs

LEMMA BeginPageInInv ==
  ASSUME Inv, NEW p \in apcs, finishing = None, frame["thread"].pc # "rundown",
         apcs' = apcs \ {p}, finishing' = p,
         frame["thread"].pc \notin Splitting, NEW q \in FreePackets, PagesIn(q),
         UNCHANGED <<queue, deferred, iolist, userapcs, made, told, failed>>
  PROVE  Inv'
<1>1. q \in Packet
  BY FreeOnes
<1>2. ~Live(q) /\ \A k \in Packet : Live(k) => k # q
  BY FreeOnes
<1> DEFINE x == PageIn
<1>3. /\ x \in PacketRecord
      /\ x.state = "live" /\ x.type = "normal" /\ x.parent = None /\ x.IOCount = 1 /\ x.status = "ok"
      /\ x.flags = {} /\ x.at = "file" /\ x.event = "apc" /\ x.routine = FALSE /\ x.request = 0
  BY PageInIs
<1>4. packet' = [packet EXCEPT ![q] = x] /\ frame' = [frame EXCEPT !["apc"] = Enter(q, "sync")]
      /\ signaled' = [signaled EXCEPT !["apc"] = FALSE]
  BY DEF PagesIn
<1> HIDE DEF x
<1>5. packet' \in [Packet -> PacketRecord] /\ packet'[q] = x /\ \A k \in Packet \ {q} : packet'[k] = packet[k]
  BY <1>1, <1>3, <1>4 DEF Inv, Typed
<1>6. /\ Enter(q, "sync") \in FrameRecord
      /\ Enter(q, "sync").pc = "dispatch" /\ Enter(q, "sync").how = "sync" /\ Enter(q, "sync").own = q
      /\ Enter(q, "sync").iop = q /\ Enter(q, "sync").rest = <<>> /\ Enter(q, "sync").frags = <<>>
      /\ Enter(q, "sync").master = TRUE
  BY <1>1, EnterSync
<1>7. /\ frame' \in [Level -> FrameRecord] /\ frame'["apc"] = Enter(q, "sync")
      /\ \A k \in Level \ {"apc"} : frame'[k] = frame[k]
      /\ frame'["thread"] = frame["thread"]
  BY <1>4, <1>6, LevelsAre DEF Inv, Typed
<1>8. frame["apc"].pc = "idle"
  BY DEF Inv, LevelsRight
<1>9. OnWay' = OnWay \cup {q} /\ Apart' /\ PlacesRight' /\ PacketsRight' /\ Counted' /\ SplitsRight' /\ RootsRight'
  <2> DEFINE l == "apc"
             how == "sync"
  <2>1. l \in Level /\ how \in {"sync", "async"} /\ frame[l].pc = "idle" /\ frame'[l] = Enter(q, how)
        /\ \A k \in Level \ {l} : frame'[k] = frame[k]
    BY <1>7, <1>8, LevelsAre
  <2>2. made \in Int /\ made' \in Int /\ made <= made' /\ 0 <= made'
    BY BoundAssumption DEF Inv, Typed
  <2>3. /\ "COMPLETE" \notin packet'[q].flags /\ packet'[q].at # "fats"
        /\ packet'[q].type = "userasync" \/ packet'[q].event # None
        /\ packet'[q].type = "userasync" =>
             packet'[q].event = None /\ ("FREEIOP" \in packet'[q].flags <=> ~packet'[q].routine)
        /\ packet'[q].type = "normal" => "FREEIOP" \notin packet'[q].flags
        /\ packet'[q].request = 0 <=> packet'[q].event = "apc"
        /\ packet'[q].request <= made'
        /\ packet'[q].request = 0 \/ packet'[q].request \notin failed
        /\ \A k \in Packet : Live(k) => packet'[q].request = 0 \/ packet[k].request # packet'[q].request
    BY <1>3, <1>5, <2>2, LevelsAre
  <2>4. packet'[q].state = "live" /\ packet'[q].IOCount = 1 /\ packet'[q].parent = None /\ packet'[q].status = "ok"
    BY <1>3, <1>5
  <2>5. UNCHANGED <<queue, deferred, failed>>
    OBVIOUS
  <2> HIDE DEF l, how
  <2>6. QED BY <1>5, <1>7, <2>1, <2>2, <2>3, <2>4, <2>5, NewRoot
<1>10. FrameRight("apc")'
  BY <1>1, <1>6, <1>7 DEF FrameRight, Holding, Splitting
<1>11. signaled' \in [Level -> BOOLEAN] /\ signaled'["thread"] = signaled["thread"] /\ signaled'["apc"] = FALSE
  BY <1>4, LevelsAre DEF Inv, Typed
<1>12. \A k \in Packet : Live(k) => packet'[k] = packet[k]
  BY <1>2, <1>5
<1>13. \A k \in Packet : ~Live(k) => packet'[k].type = "normal" /\ packet'[k].request = 0
  <2>1. SUFFICES ASSUME NEW k \in Packet, ~Live(k) PROVE packet'[k].type = "normal" /\ packet'[k].request = 0
    OBVIOUS
  <2>2. packet[k] = Free
    BY <2>1 DEF Inv, PacketsRight, PacketRight
  <2>3. QED BY <2>2, <1>3, <1>5, FreeIs
<1>14. /\ frame'["apc"].how = "sync" /\ frame'["apc"].pc \in {"dispatch", "routine"}
       /\ frame["thread"].pc \in Splitting => frame'["apc"].pc = "routine"
  BY <1>6, <1>7 DEF Splitting
<1>15. Typed' /\ LevelsRight' /\ AsyncRight' /\ RequestsRight'
  BY <1>5, <1>7, <1>10, <1>11, <1>12, <1>13, <1>14, BegunAPC
<1>16. SyncRight'
  <2>0. SyncRight
    BY DEF Inv
  <2>1. (Active("thread"))' <=> Active("thread")
    BY <1>7 DEF Active
  <2>2. ~Active("apc") /\ (Active("apc"))'
    BY <1>6, <1>7, <1>8 DEF Active, Done
  <2>3. ASSUME NEW k \in Level, NEW j \in Packet, (Live(j))', packet'[j].event = k
        PROVE  (Active(k))' /\ frame'[k].how = "sync" /\ frame'[k].own = j
    <3>1. CASE j = q
      BY <3>1, <2>2, <2>3, <1>3, <1>5, <1>6, <1>7
    <3>2. CASE j # q
      <4>1. Live(j) /\ packet[j].event = k
        BY <3>2, <2>3, <1>5 DEF Live
      <4>2. Active(k) /\ frame[k].how = "sync" /\ frame[k].own = j
        BY <2>0, <4>1 DEF SyncRight
      <4>3. k = "thread"
        BY <4>2, <2>2, LevelsAre
      <4>4. QED BY <4>2, <4>3, <2>1, <1>7
    <3>3. QED BY <3>1, <3>2
  <2>4. ASSUME NEW k \in Level, (Active(k))', frame'[k].how = "sync"
        PROVE  /\ frame'[k].own \in Packet /\ (Live(frame[k].own))'
               /\ packet'[frame'[k].own].event = k /\ packet'[frame'[k].own].type = "normal"
               /\ packet'[frame'[k].own].request = IF k = "thread" THEN made' ELSE 0
               /\ signaled'[k] => packet'[frame'[k].own].IOCount = 0
    <3>1. CASE k = "apc"
      <4>1. frame'[k].own = q /\ signaled'[k] = FALSE
        BY <3>1, <1>6, <1>7, <1>11
      <4>2. packet'[q].state = "live" /\ packet'[q].event = "apc" /\ packet'[q].type = "normal"
            /\ packet'[q].request = 0
        BY <1>3, <1>5
      <4>3. QED BY <3>1, <4>1, <4>2, <1>1 DEF Live
    <3>2. CASE k = "thread"
      <4>1. frame'[k] = frame[k] /\ Active(k) /\ frame[k].how = "sync"
        BY <3>2, <2>1, <2>4, <1>7
      <4>2. PICK o \in Packet : o = frame[k].own
        BY <2>0, <4>1 DEF SyncRight
      <4>3. /\ Live(o) /\ packet[o].event = k /\ packet[o].type = "normal"
            /\ packet[o].request = IF k = "thread" THEN made ELSE 0
            /\ signaled[k] => packet[o].IOCount = 0
        BY <2>0, <4>1, <4>2 DEF SyncRight
      <4>4. packet'[o] = packet[o] /\ frame'[k].own = o
        BY <4>1, <4>2, <4>3, <1>12
      <4>5. QED BY <3>2, <4>3, <4>4, <1>11 DEF Live
    <3>3. QED BY <3>1, <3>2, LevelsAre
  <2>5. QED BY <2>3, <2>4 DEF SyncRight, Live
<1>17. QED BY <1>9, <1>15, <1>16 DEF Inv

LEMMA BeginAPCInv ==
  ASSUME Inv, Undisturbed, NEW p \in Packet, BeginAPC(p)
  PROVE  Inv'
<1>1. /\ p \in apcs /\ finishing = None /\ frame["thread"].pc # "rundown"
      /\ apcs' = apcs \ {p} /\ finishing' = p
      /\ UNCHANGED <<queue, deferred, iolist, userapcs, made, told, failed>>
  BY DEF BeginAPC
<1>2. CASE Goto("apc", "routine") /\ UNCHANGED <<packet, signaled>>
  BY <1>1, <1>2, BeginRoutineInv
<1>3. CASE There(1) /\ frame["thread"].pc \notin Splitting /\ PagesIn(Fresh(1)[1])
  <2>1. 1 \in Nat /\ 1 > 0
    OBVIOUS
  <2>2. Fresh(1)[1] \in FreePackets
    BY <1>3, <2>1, FreshIs
  <2>3. PICK q \in FreePackets : q = Fresh(1)[1]
    BY <2>2
  <2>4. PagesIn(q)
    BY <1>3, <2>3
  <2>5. QED BY <1>1, <1>3, <2>4, BeginPageInInv
<1>4. QED BY <1>2, <1>3 DEF BeginAPC, Goto, PagesIn, PageIn, Splitting

-----------------------------------------------------------------------------
(* Splitting a packet.                                                     *)

NewPart(r) == [Free EXCEPT !.state = "live", !.IOCount = 1, !.flags = {"FREEIOP"}, !.request = r]
SplitTo(l, s) ==
  /\ packet' = [q \in Packet |-> IF q \in Range(s) THEN NewPart(packet[frame[l].iop].request) ELSE packet[q]]
  /\ frame' = [frame EXCEPT ![l].pc = "associate", ![l].frags = s]

LEMMA NewPartIs ==
  ASSUME NEW r \in Request0
  PROVE  /\ NewPart(r) \in PacketRecord
         /\ NewPart(r).state = "live" /\ NewPart(r).type = "normal" /\ NewPart(r).parent = None
         /\ NewPart(r).IOCount = 1 /\ NewPart(r).status = "ok" /\ NewPart(r).flags = {"FREEIOP"}
         /\ NewPart(r).at = "part" /\ NewPart(r).event = None /\ NewPart(r).routine = FALSE
         /\ NewPart(r).request = r
<1> DEFINE x == Free
           fl == {"FREEIOP"}
<1>1. NewPart(r) = [x EXCEPT !.state = "live", !.IOCount = 1, !.flags = fl, !.request = r]
  BY DEF NewPart
<1>2. /\ x \in PacketRecord /\ x.type = "normal" /\ x.parent = None /\ x.status = "ok"
      /\ x.at = "part" /\ x.event = None /\ x.routine = FALSE
  BY FreeIs
<1> HIDE DEF x, fl
<1>3. x = [state |-> x.state, type |-> x.type, parent |-> x.parent, IOCount |-> x.IOCount,
           status |-> x.status, flags |-> x.flags, at |-> x.at, event |-> x.event,
           routine |-> x.routine, request |-> x.request]
  BY <1>2 DEF PacketRecord
<1>4. NewPart(r) = [state |-> "live", type |-> x.type, parent |-> x.parent, IOCount |-> 1,
                    status |-> x.status, flags |-> fl, at |-> x.at, event |-> x.event,
                    routine |-> x.routine, request |-> r]
  BY <1>1, <1>3
<1>5. fl \in SUBSET {"FREEIOP", "DOCOMPLT", "COMPLETE"}
  BY DEF fl
<1>6. /\ x.type \in {"normal", "userasync"} /\ x.parent \in Packet \cup {None} /\ x.status \in Statuses
      /\ x.at \in Targets \cup Devices /\ x.event \in Level \cup {None} /\ x.routine \in BOOLEAN
  BY <1>2 DEF PacketRecord
<1>7. NewPart(r) \in PacketRecord
  BY <1>4, <1>5, <1>6 DEF PacketRecord
<1>8. QED BY <1>2, <1>4, <1>7 DEF fl

\* What is in which hands, and which packet is which, after a split.
LEMMA SplitIs ==
  ASSUME Inv, NEW l \in Level, Busy(l, "dispatch"), packet[frame[l].iop].at = "file",
         NEW s \in Seq(Packet), IsInjective(s), Range(s) \subseteq FreePackets, SplitTo(l, s),
         UNCHANGED <<queue, deferred, listVars>>
  PROVE  /\ frame[l].iop \in OnWay /\ Whole(frame[l].iop) /\ frame[l].master
         /\ frame[l].pc = "dispatch" /\ frame[l].frags = <<>>
         /\ frame' \in [Level -> FrameRecord]
         /\ frame'[l].pc = "associate" /\ frame'[l].how = frame[l].how /\ frame'[l].own = frame[l].own
         /\ frame'[l].iop = frame[l].iop /\ frame'[l].rest = frame[l].rest
         /\ frame'[l].frags = s /\ frame'[l].master = frame[l].master
         /\ frame'[l].ok = frame[l].ok
         /\ \A k \in Level \ {l} : frame'[k] = frame[k]
         /\ packet' \in [Packet -> PacketRecord]
         /\ \A q \in Packet \ Range(s) : packet'[q] = packet[q]
         /\ \A q \in Range(s) :
              /\ q \in Packet /\ ~Live(q) /\ q \notin OnWay /\ q \notin iolist
              /\ q \notin apcs \cup userapcs \cup {finishing}
              /\ packet'[q] = NewPart(packet[frame[l].iop].request)
              /\ \A o \in Packet : packet[o].parent # q
         /\ packet[frame[l].iop].request \in Request0
<1>1. frame[l].pc = "dispatch" /\ l \in Level /\ Typed
  BY DEF Busy, Inv
<1>2. frame[l].iop \in Packet /\ frame[l].iop \in OnWay /\ frame[l].frags = <<>>
  <2>1. frame[l].iop \in HandsOf(l)
    BY <1>1 DEF HandsOf, Carried, Holding
  <2>2. frame[l].iop \in OnWay
    BY <2>1, OnWayIs
  <2>3. QED BY <1>1, <2>2, OnWayCounts DEF Inv, LevelsRight, FrameRight, Splitting
<1>3. Whole(frame[l].iop)
  BY <1>2, OnWayCounts DEF Inv, PacketsRight, PacketRight
<1>4. frame[l].master
  BY <1>1, <1>3 DEF Inv, PlacesRight, PlaceRight, Holding
<1>5. /\ frame' \in [Level -> FrameRecord]
      /\ frame'[l].pc = "associate" /\ frame'[l].how = frame[l].how /\ frame'[l].own = frame[l].own
      /\ frame'[l].iop = frame[l].iop /\ frame'[l].rest = frame[l].rest
      /\ frame'[l].frags = s /\ frame'[l].master = frame[l].master
      /\ frame'[l].ok = frame[l].ok
      /\ \A k \in Level \ {l} : frame'[k] = frame[k]
  <2>1. frame \in [Level -> FrameRecord] /\ frame[l] \in FrameRecord
    BY <1>1 DEF Typed
  <2> DEFINE f == [frame[l] EXCEPT !.pc = "associate", !.frags = s]
  <2>2. /\ f \in FrameRecord
        /\ f.pc = "associate" /\ f.how = frame[l].how /\ f.own = frame[l].own
        /\ f.iop = frame[l].iop /\ f.rest = frame[l].rest
        /\ f.frags = s /\ f.master = frame[l].master /\ f.ok = frame[l].ok
    BY <2>1 DEF FrameRecord, PCs
  <2>3. frame' = [frame EXCEPT ![l] = f]
    BY <2>1 DEF SplitTo
  <2> HIDE DEF f
  <2>4. QED BY <2>1, <2>2, <2>3
<1>6. packet[frame[l].iop].request \in Request0 /\ packet \in [Packet -> PacketRecord]
  BY <1>1, <1>2 DEF Typed, PacketRecord
<1> DEFINE x == NewPart(packet[frame[l].iop].request)
<1>7. x \in PacketRecord
  BY <1>6, NewPartIs
<1>8. packet' = [q \in Packet |-> IF q \in Range(s) THEN x ELSE packet[q]]
  BY DEF SplitTo
<1>9. \A q \in Range(s) :
        /\ q \in Packet /\ ~Live(q) /\ q \notin OnWay /\ q \notin iolist
        /\ q \notin apcs \cup userapcs \cup {finishing}
        /\ \A o \in Packet : packet[o].parent # q
  <2>1. ASSUME NEW q \in Range(s)
        PROVE  /\ q \in Packet /\ ~Live(q) /\ q \notin OnWay /\ q \notin iolist
               /\ q \notin apcs \cup userapcs \cup {finishing}
               /\ \A o \in Packet : packet[o].parent # q
    <3>1. q \in FreePackets
      OBVIOUS
    <3>2. QED BY <3>1, FreeOnes
  <2>2. QED BY <2>1
<1> HIDE DEF x
<1>10. /\ packet' \in [Packet -> PacketRecord]
       /\ \A q \in Packet \ Range(s) : packet'[q] = packet[q]
       /\ \A q \in Range(s) : packet'[q] = x
  BY <1>6, <1>7, <1>8, <1>9
<1>11. QED BY <1>1, <1>2, <1>3, <1>4, <1>5, <1>6, <1>9, <1>10 DEF x

LEMMA SplitToInv ==
  ASSUME Inv, NEW l \in Level, Busy(l, "dispatch"), packet[frame[l].iop].at = "file",
         NEW s \in Seq(Packet), IsInjective(s), Range(s) \subseteq FreePackets, SplitTo(l, s),
         UNCHANGED <<queue, deferred, listVars, signaled, made, told, failed>>
  PROVE  Inv'
<1> DEFINE x == NewPart(packet[frame[l].iop].request)
<1>1. /\ frame[l].iop \in OnWay /\ Whole(frame[l].iop) /\ frame[l].master
      /\ frame[l].pc = "dispatch" /\ frame[l].frags = <<>>
      /\ frame' \in [Level -> FrameRecord]
      /\ frame'[l].pc = "associate" /\ frame'[l].how = frame[l].how /\ frame'[l].own = frame[l].own
      /\ frame'[l].iop = frame[l].iop /\ frame'[l].rest = frame[l].rest
      /\ frame'[l].frags = s /\ frame'[l].master = frame[l].master
      /\ frame'[l].ok = frame[l].ok
      /\ \A k \in Level \ {l} : frame'[k] = frame[k]
      /\ packet' \in [Packet -> PacketRecord]
      /\ \A q \in Packet \ Range(s) : packet'[q] = packet[q]
      /\ \A q \in Range(s) :
           /\ q \in Packet /\ ~Live(q) /\ q \notin OnWay /\ q \notin iolist
           /\ q \notin apcs \cup userapcs \cup {finishing}
           /\ packet'[q] = x
           /\ \A o \in Packet : packet[o].parent # q
      /\ packet[frame[l].iop].request \in Request0
  BY SplitIs
<1>2. PICK i \in Packet : i = frame[l].iop /\ i \in OnWay /\ Live(i) /\ Whole(i) /\ packet[i].at = "file"
                          /\ packet[i].IOCount > 0 /\ packet[i].request \in Request0
  BY <1>1, OnWayCounts
<1>3. /\ x.state = "live" /\ x.type = "normal" /\ x.parent = None
      /\ x.IOCount = 1 /\ x.status = "ok" /\ x.flags = {"FREEIOP"}
      /\ x.at = "part" /\ x.event = None /\ x.routine = FALSE
      /\ x.request = packet[i].request
  BY <1>1, <1>2, NewPartIs
<1>4. UNCHANGED <<queue, deferred, iolist, apcs, userapcs, finishing, signaled, made, told, failed>>
  BY DEF listVars
<1> HIDE DEF x
<1>5. \A q \in OnWay : q \in Packet /\ Live(q) /\ q \notin Range(s) /\ packet'[q] = packet[q]
  BY <1>1, OnWayCounts
<1>6. /\ \A q \in Packet : Live(q) => q \notin Range(s) /\ packet'[q] = packet[q]
      /\ \A q \in Range(s) : /\ q \in Packet /\ packet'[q] = x /\ (Live(q))' /\ ~(Whole(q))' /\ ~Live(q)
                             /\ "COMPLETE" \notin packet'[q].flags
      /\ \A q \in Packet : q \notin Range(s) => packet'[q] = packet[q] /\ ((Live(q))' <=> Live(q))
                                                /\ ((Whole(q))' <=> Whole(q))
      /\ \A q \in Packet : Live(q) \/ q \in Range(s) <=> (Live(q))'
  BY <1>1, <1>3 DEF Live, Whole
<1>7. /\ \A k \in Level : (Carried(k))' = Carried(k)
      /\ (HandsOf(l))' = HandsOf(l) \cup Range(s)
      /\ \A k \in Level \ {l} : (HandsOf(k))' = HandsOf(k)
      /\ OnWay' = OnWay \cup Range(s)
  <2>1. \A k \in Level : (Carried(k))' = Carried(k)
    BY <1>1 DEF Carried, Holding
  <2>2. (HandsOf(l))' = HandsOf(l) \cup Range(s)
    BY <1>1, <2>1, EmptyList DEF HandsOf
  <2>3. \A k \in Level \ {l} : (HandsOf(k))' = HandsOf(k)
    BY <1>1, <2>1 DEF HandsOf
  <2>4. OnWay' = OnWay \cup Range(s)
    BY <1>4, <2>2, <2>3, LevelsAre DEF OnWay
  <2>5. QED BY <2>1, <2>2, <2>3, <2>4
<1>8. Typed'
  BY <1>1, <1>4 DEF Inv, Typed
<1>9. Apart'
  <2>1. Apart
    BY DEF Inv
  <2>2. /\ Range(s) \cap (queue \cup Range(deferred)) = {}
        /\ \A k \in Level : Range(s) \cap HandsOf(k) = {}
    BY <1>1, LevelsAre DEF OnWay
  <2>3. HandsOf("thread")' \cap HandsOf("apc")' = {}
    <3>1. CASE l = "thread"
      BY <3>1, <2>1, <2>2, <1>7, LevelsAre DEF Apart
    <3>2. CASE l = "apc"
      BY <3>2, <2>1, <2>2, <1>7, LevelsAre DEF Apart
    <3>3. QED BY <3>1, <3>2, LevelsAre
  <2>4. ASSUME NEW k \in Level
        PROVE  /\ IsInjective(frame'[k].rest) /\ IsInjective(frame'[k].frags)
               /\ (Carried(k))' \cap Range(frame'[k].rest) = {}
               /\ (Carried(k))' \cap Range(frame'[k].frags) = {}
               /\ Range(frame'[k].rest) \cap Range(frame'[k].frags) = {}
               /\ (HandsOf(k))' \cap (queue \cup Range(deferred)) = {}
    <3>1. CASE k = l
      <4>1. frame'[k].rest = frame[k].rest /\ frame'[k].frags = s /\ (Carried(k))' = Carried(k)
            /\ (HandsOf(k))' = HandsOf(k) \cup Range(s)
        BY <3>1, <1>1, <1>7
      <4>2. Carried(k) \subseteq HandsOf(k) /\ Range(frame[k].rest) \subseteq HandsOf(k)
        BY DEF HandsOf
      <4>3. QED BY <4>1, <4>2, <2>1, <2>2 DEF Apart
    <3>2. CASE k # l
      <4>1. frame'[k] = frame[k] /\ (Carried(k))' = Carried(k) /\ (HandsOf(k))' = HandsOf(k)
        BY <3>2, <1>1, <1>7
      <4>2. QED BY <4>1, <2>1 DEF Apart
    <3>3. QED BY <3>1, <3>2
  <2>5. QED BY <2>1, <2>3, <2>4, <1>4 DEF Apart
<1>10. LevelsRight'
  <2>1. LevelsRight
    BY DEF Inv
  <2>2. \A k \in Level : FrameRight(k)'
    <3>1. FrameRight(l)'
      <4>1. FrameRight(l)
        BY <2>1 DEF LevelsRight
      <4>2. QED BY <4>1, <1>1 DEF FrameRight, Holding, Splitting
    <3>2. \A k \in Level \ {l} : FrameRight(k)'
      BY <2>1, <1>1 DEF LevelsRight, FrameRight
    <3>3. QED BY <3>1, <3>2
  <2>3. frame["thread"].pc \in Splitting => frame["apc"].pc \in {"idle", "routine"}
    BY <2>1 DEF LevelsRight
  <2>4. CASE l = "thread"
    <3>1. finishing = None /\ frame["apc"].pc = "idle"
      BY <2>1, <2>4 DEF Busy, Runs, LevelsRight
    <3>2. frame'["apc"] = frame["apc"] /\ frame'["thread"].pc = "associate"
      BY <2>4, <1>1, LevelsAre
    <3>3. QED BY <2>1, <2>2, <3>1, <3>2, <1>4 DEF LevelsRight
  <2>5. CASE l = "apc"
    <3>1. frame'["thread"] = frame["thread"] /\ frame'["apc"].pc = "associate" /\ frame["apc"].pc = "dispatch"
          /\ frame'["apc"].how = frame["apc"].how
      BY <2>5, <1>1, LevelsAre
    <3>2. QED BY <2>1, <2>2, <2>3, <3>1, <1>4 DEF LevelsRight
  <2>6. QED BY <2>4, <2>5, LevelsAre
<1>11. \A k \in Level : frame[k].pc \in Holding =>
         /\ frame[k].iop \in Packet /\ frame[k].iop \in OnWay
         /\ packet'[frame[k].iop] = packet[frame[k].iop]
  <2>1. \A k \in Level : frame[k].pc \in Holding => frame[k].iop \in OnWay
    BY OnWayIs DEF HandsOf, Carried
  <2>2. QED BY <2>1, <1>5
<1>12. PlacesRight'
  <2>0. PlacesRight
    BY DEF Inv
  <2>1. ASSUME NEW k \in Level PROVE PlaceRight(k)'
    <3>0. PlaceRight(k)
      BY <2>0 DEF PlacesRight
    <3>1. \A q \in Range(frame[k].rest) \cup Range(frame[k].frags) : packet'[q] = packet[q]
      BY <1>5, OnWayIs DEF HandsOf
    <3>2. CASE k = l
      <4>1. frame'[k].pc \in Holding /\ frame'[k].iop = i /\ frame'[k].master /\ (Whole(frame[k].iop))'
        <5>1. frame'[k].pc \in Holding /\ frame'[k].iop = i /\ frame'[k].master
          BY <3>2, <1>1, <1>2 DEF Holding
        <5>2. packet'[i] = packet[i]
          BY <1>2, <1>5
        <5>3. QED BY <5>1, <5>2, <1>2 DEF Whole
      <4>2. \A q \in Range(frame'[k].rest) : ~(Whole(q))' /\ packet'[q].parent # None
        BY <3>0, <3>1, <3>2, <1>1 DEF PlaceRight, Whole
      <4>3. packet'[i].request = packet[i].request
        BY <1>2, <1>5
      <4>4. \A q \in Range(frame'[k].frags) : ~(Whole(q))' /\ packet'[q].parent = None
                                             /\ packet'[q].request = packet'[frame'[k].iop].request
        BY <3>2, <4>1, <4>3, <1>1, <1>3, <1>6
      <4>5. QED BY <4>1, <4>2, <4>4 DEF PlaceRight
    <3>3. CASE k # l
      <4>1. frame'[k] = frame[k]
        BY <3>3, <1>1
      <4>2. frame[k].pc \in Holding => packet'[frame'[k].iop] = packet[frame[k].iop]
        BY <4>1, <1>11
      <4>3. \A q \in Range(frame[k].frags) : frame[k].pc \in Holding
        BY EmptyList DEF Inv, LevelsRight, FrameRight, Holding, Splitting
      <4>4. QED BY <3>0, <3>1, <4>1, <4>2, <4>3 DEF PlaceRight, Whole
    <3>4. QED BY <3>2, <3>3
  <2>2. \A q \in Range(deferred') : (~Whole(q))' /\ packet'[q].parent # None
    BY <2>0, <1>4, <1>5 DEF OnWay, PlacesRight, Whole
  <2>3. \A q \in queue' : (~Whole(q))' => packet'[q].parent # None
    BY <2>0, <1>4, <1>5 DEF OnWay, PlacesRight, Whole
  <2>4. \A q \in OnWay' : (Live(q))' /\ "COMPLETE" \notin packet'[q].flags
    BY <2>0, <1>5, <1>6, <1>7 DEF Live, PlacesRight
  <2>5. QED BY <2>1, <2>2, <2>3, <2>4 DEF PlacesRight
<1>13. \A q \in Packet : (PartsOf(q))' = PartsOf(q)
  <2>1. ASSUME NEW q \in Packet, NEW o \in Packet PROVE o \in (PartsOf(q))' <=> o \in PartsOf(q)
    <3>1. CASE o \in Range(s)
      <4>1. packet'[o].parent = None /\ q # None
        BY <3>1, <1>3, <1>6, LevelsAre
      <4>2. packet[o] = Free
        BY <3>1, <1>6 DEF Inv, PacketsRight, PacketRight
      <4>3. QED BY <4>1, <4>2, FreeIs DEF PartsOf
    <3>2. CASE o \notin Range(s)
      BY <3>2, <1>6 DEF PartsOf
    <3>3. QED BY <3>1, <3>2
  <2>2. ASSUME NEW q \in Packet PROVE (PartsOf(q))' = PartsOf(q)
    <3>1. (PartsOf(q))' \subseteq Packet /\ PartsOf(q) \subseteq Packet
      BY DEF PartsOf
    <3>2. QED BY <3>1, <2>1
  <2>3. QED BY <2>2
<1>14. Counted'
  <2>1. ASSUME NEW q \in Packet, (Live(q))', (Whole(q))'
        PROVE  packet'[q].IOCount = (Own(q))' + Cardinality((PartsOf(q))')
    <3>1. q \notin Range(s)
      BY <2>1, <1>6
    <3>2. Live(q) /\ Whole(q) /\ packet'[q] = packet[q] /\ (Own(q))' = Own(q)
      BY <2>1, <3>1, <1>6, <1>7 DEF Own
    <3>3. packet[q].IOCount = Own(q) + Cardinality(PartsOf(q))
      BY <3>2 DEF Inv, Counted
    <3>4. QED BY <3>2, <3>3, <1>13
  <2>2. QED BY <2>1 DEF Counted
<1>15. RootsRight'
  <2>1. ASSUME NEW a \in Packet, NEW b \in Packet, (Live(a))', (Whole(a))', (Live(b))', (Whole(b))',
               packet'[a].request = packet'[b].request, packet'[a].request # 0
        PROVE  a = b
    <3>1. Live(a) /\ Whole(a) /\ Live(b) /\ Whole(b) /\ packet'[a] = packet[a] /\ packet'[b] = packet[b]
      BY <2>1, <1>6
    <3>2. QED BY <3>1, <2>1 DEF Inv, RootsRight
  <2>2. QED BY <2>1 DEF RootsRight
<1>16. PacketsRight'
  <2>1. ASSUME NEW q \in Packet, q \in Range(s) PROVE PacketRight(q)'
    <3>1. packet'[q] = x /\ (Live(q))' /\ ~(Whole(q))' /\ q \in OnWay'
      BY <2>1, <1>6, <1>7
    <3>2. QED BY <3>1, <1>3 DEF PacketRight
  <2>2. ASSUME NEW q \in Packet, q \notin Range(s) PROVE PacketRight(q)'
    <3>0. PacketRight(q)
      BY DEF Inv, PacketsRight
    <3>1. packet'[q] = packet[q] /\ ((Live(q))' <=> Live(q)) /\ ((Whole(q))' <=> Whole(q))
      BY <2>2, <1>6
    <3>2. PICK m \in Packet \cup {None} : m = packet[q].parent
      BY DEF Inv, Typed, PacketRecord
    <3>3. ASSUME Live(q), ~Whole(q), m # None
          PROVE  (Live(m))' /\ (Whole(m))' /\ packet[q].request = packet'[m].request
      <4>1. m \in Packet /\ Live(m) /\ Whole(m) /\ packet[q].request = packet[m].request
        BY <3>0, <3>2, <3>3 DEF PacketRight
      <4>2. packet'[m] = packet[m]
        BY <4>1, <1>6
      <4>3. QED BY <4>1, <4>2 DEF Live, Whole
    <3>4. packet'[q].parent = m
      BY <3>1, <3>2
    <3>5. ASSUME Live(q), ~Whole(q)
          PROVE  /\ q \in OnWay'
                 /\ packet'[q].IOCount = 1
                 /\ "FREEIOP" \in packet'[q].flags /\ packet'[q].at = "part"
                 /\ packet'[q].status = "ok" /\ ~packet'[q].routine
                 /\ packet'[q].parent # None =>
                      /\ (Live(packet[q].parent))' /\ (Whole(packet[q].parent))'
                      /\ packet'[q].request = packet'[packet'[q].parent].request
      <4>1. q \in OnWay' /\ packet'[q].IOCount = 1 /\ "FREEIOP" \in packet'[q].flags /\ packet'[q].at = "part"
            /\ packet'[q].status = "ok" /\ ~packet'[q].routine
        BY <3>0, <3>1, <3>5, <1>7 DEF PacketRight
      <4>2. packet'[q].parent # None => (Live(packet[q].parent))' /\ (Whole(packet[q].parent))'
        BY <3>3, <3>4, <3>5 DEF Live, Whole
      <4>3. packet'[q].parent # None => packet'[q].request = packet'[packet'[q].parent].request
        BY <3>1, <3>3, <3>4, <3>5
      <4>4. QED BY <4>1, <4>2, <4>3
    <3>6. ~(Live(q))' => packet'[q] = Free
      BY <3>0, <3>1 DEF PacketRight
    <3>7. packet'[q].at # "fats"
      BY <3>0, <3>1 DEF PacketRight
    <3>8. ASSUME Live(q), Whole(q)
          PROVE  /\ packet'[q].parent = None
                 /\ "COMPLETE" \in packet'[q].flags <=> packet'[q].IOCount = 0
                 /\ packet'[q].type = "userasync" =>
                      packet'[q].event = None /\ ("FREEIOP" \in packet'[q].flags <=> ~packet'[q].routine)
                 /\ packet'[q].type = "normal" => "FREEIOP" \notin packet'[q].flags
                 /\ packet'[q].request # 0 /\ packet'[q].request \in failed' => packet'[q].status = "error"
                 /\ packet'[q].request = 0 <=> packet'[q].event = "apc"
                 /\ packet'[q].request <= made'
      BY <3>0, <3>1, <3>8, <1>4 DEF PacketRight
    <3>9. QED BY <3>1, <3>5, <3>6, <3>7, <3>8 DEF PacketRight
  <2>3. QED BY <2>1, <2>2 DEF PacketsRight
<1>17. SplitsRight'
  <2>0. SplitsRight
    BY DEF Inv
  <2>1. ASSUME NEW q \in Packet, (Live(q))', (PartsOf(q))' # {}
        PROVE  packet'[q].at = "part" \/ \E k \in Level : frame'[k].pc \in Splitting /\ frame'[k].iop = q
    <3>1. PartsOf(q) # {}
      BY <2>1, <1>13
    <3>2. q \notin Range(s)
      BY <3>1, <1>1 DEF PartsOf
    <3>3. Live(q) /\ packet'[q] = packet[q]
      BY <2>1, <3>2, <1>6
    <3>4. packet[q].at = "part" \/ \E k \in Level : frame[k].pc \in Splitting /\ frame[k].iop = q
      BY <2>0, <3>1, <3>3 DEF SplitsRight
    <3>5. frame[l].pc \notin Splitting
      BY <1>1 DEF Splitting
    <3>6. QED BY <3>3, <3>4, <3>5, <1>1
  <2>2. PartsOf(i) = {}
    <3>1. SUFFICES ASSUME PartsOf(i) # {} PROVE FALSE
      OBVIOUS
    <3>2. PICK k \in Level : frame[k].pc \in Splitting /\ frame[k].iop = i
      BY <2>0, <3>1, <1>2 DEF SplitsRight
    <3>3. k # l
      BY <3>2, <1>1 DEF Splitting
    <3>4. i \in HandsOf(k) /\ i \in HandsOf(l)
      BY <3>2, <1>1, <1>2 DEF HandsOf, Carried, Holding, Splitting
    <3>5. QED BY <3>3, <3>4, LevelsAre DEF Inv, Apart
  <2>3. ASSUME NEW k \in Level, frame'[k].pc \in Splitting
        PROVE  /\ (PartsOf(frame[k].iop))' \subseteq Range(deferred')
               /\ packet'[frame'[k].iop].at = "file"
               /\ frame'[k].pc = "bump" => frame'[k].count = packet'[frame'[k].iop].IOCount
    <3>1. CASE k = l
      <4>1. frame'[k].iop = i /\ frame'[k].pc = "associate" /\ packet'[i] = packet[i]
        BY <3>1, <1>1, <1>2, <1>5
      <4>2. (PartsOf(i))' = {}
        BY <2>2, <1>13
      <4>3. (PartsOf(frame[k].iop))' = (PartsOf(i))'
        BY <4>1 DEF PartsOf
      <4>4. QED BY <4>1, <4>2, <4>3, <1>2
    <3>2. CASE k # l
      <4>1. frame'[k] = frame[k] /\ frame[k].pc \in Holding
        BY <3>2, <2>3, <1>1 DEF Splitting, Holding
      <4>2. PICK j \in Packet : j = frame[k].iop /\ frame'[k].iop = j /\ packet'[j] = packet[j]
        BY <4>1, <1>11
      <4>3. /\ PartsOf(frame[k].iop) \subseteq Range(deferred) /\ packet[frame[k].iop].at = "file"
            /\ frame[k].pc = "bump" => frame[k].count = packet[frame[k].iop].IOCount
        BY <2>0, <2>3, <4>1 DEF SplitsRight
      <4>4. PartsOf(j) \subseteq Range(deferred)
        BY <4>2, <4>3
      <4>5. (PartsOf(j))' \subseteq Range(deferred')
        BY <4>4, <1>4, <1>13
      <4>6. (PartsOf(frame[k].iop))' \subseteq Range(deferred')
        BY <4>2, <4>5 DEF PartsOf
      <4>7. QED BY <4>1, <4>2, <4>3, <4>6
    <3>3. QED BY <3>1, <3>2
  <2>4. ASSUME NEW k \in Level, frame'[k].pc \in Holding, frame'[k].master, packet'[frame'[k].iop].at # "part"
        PROVE  packet'[frame'[k].iop].status = "ok"
    <3>1. frame[k].pc \in Holding /\ frame[k].master /\ frame'[k].iop = frame[k].iop
      <4>1. frame[l].pc \in Holding
        BY <1>1 DEF Holding
      <4>2. QED BY <4>1, <2>4, <1>1
    <3>2. packet'[frame'[k].iop] = packet[frame[k].iop]
      BY <3>1, <1>11
    <3>3. QED BY <3>1, <3>2, <2>0, <2>4 DEF SplitsRight
  <2>5. QED BY <2>1, <2>3, <2>4 DEF SplitsRight
<1>18. \A k \in Level : ((Active(k))' <=> Active(k)) /\ frame'[k].own = frame[k].own /\ frame'[k].how = frame[k].how
  BY <1>1 DEF Active, Done
<1>19. SyncRight'
  <2>0. SyncRight
    BY DEF Inv
  <2>1. ASSUME NEW k \in Level, NEW j \in Packet, (Live(j))', packet'[j].event = k
        PROVE  (Active(k))' /\ frame'[k].how = "sync" /\ frame'[k].own = j
    <3>1. j \notin Range(s)
      BY <2>1, <1>3, <1>6, LevelsAre
    <3>2. Live(j) /\ packet[j].event = k
      BY <3>1, <2>1, <1>6
    <3>3. Active(k) /\ frame[k].how = "sync" /\ frame[k].own = j
      BY <2>0, <3>2 DEF SyncRight
    <3>4. QED BY <3>3, <1>18
  <2>2. ASSUME NEW k \in Level, (Active(k))', frame'[k].how = "sync"
        PROVE  /\ frame'[k].own \in Packet /\ (Live(frame[k].own))'
               /\ packet'[frame'[k].own].event = k /\ packet'[frame'[k].own].type = "normal"
               /\ packet'[frame'[k].own].request = IF k = "thread" THEN made' ELSE 0
               /\ signaled'[k] => packet'[frame'[k].own].IOCount = 0
    <3>1. Active(k) /\ frame[k].how = "sync" /\ frame'[k].own = frame[k].own
      BY <2>2, <1>18
    <3>2. PICK o \in Packet : o = frame[k].own
      BY <2>0, <3>1 DEF SyncRight
    <3>3. /\ Live(o) /\ packet[o].event = k /\ packet[o].type = "normal"
          /\ packet[o].request = IF k = "thread" THEN made ELSE 0
          /\ signaled[k] => packet[o].IOCount = 0
      BY <2>0, <3>1, <3>2 DEF SyncRight
    <3>4. packet'[o] = packet[o] /\ frame'[k].own = o
      BY <3>1, <3>2, <3>3, <1>6
    <3>5. QED BY <3>3, <3>4, <1>4 DEF Live
  <2>3. QED BY <2>1, <2>2 DEF SyncRight, Live
<1>20. \A q \in iolist : q \in Packet /\ Live(q) /\ packet'[q] = packet[q]
  BY <1>6, ListedPackets
<1>21. (Deciding' <=> Deciding) /\ frame'["thread"].iop = frame["thread"].iop
       /\ frame'["thread"].how = frame["thread"].how /\ frame'["thread"].ok = frame["thread"].ok
       /\ (frame'["thread"].pc = "gone" <=> frame["thread"].pc = "gone")
       /\ (Returned(made)' <=> Returned(made))
  <2>1. CASE l = "thread"
    BY <2>1, <1>1, <1>4 DEF Deciding, Returned, Holding, Done
  <2>2. CASE l # "thread"
    BY <2>2, <1>1, <1>4, LevelsAre DEF Deciding, Returned
  <2>3. QED BY <2>1, <2>2
<1>22. AsyncRight'
  <2>0. AsyncRight
    BY DEF Inv
  <2>1. ASSUME NEW q \in Packet PROVE AsyncPacketRight(q)'
    <3>1. AsyncPacketRight(q)
      BY <2>0 DEF AsyncRight
    <3>2. CASE q \in Range(s)
      <4>1. q \notin iolist' /\ q \notin userapcs' /\ packet'[q].type = "normal"
        BY <3>2, <1>1, <1>3, <1>4
      <4>2. QED BY <4>1 DEF AsyncPacketRight
    <3>3. CASE q \notin Range(s)
      <4>1. packet'[q] = packet[q] /\ ((Live(q))' <=> Live(q))
        BY <3>3, <1>6
      <4>2. QED BY <3>1, <4>1, <1>4 DEF AsyncPacketRight, LeftBehind
    <3>4. QED BY <3>2, <3>3
  <2>2. ASSUME frame'["thread"].pc \in Holding, frame'["thread"].master, frame'["thread"].how = "async"
        PROVE  frame'["thread"].iop \in iolist' /\ packet'[frame'["thread"].iop].request = made'
    <3>1. frame["thread"].pc \in Holding /\ frame["thread"].master /\ frame["thread"].how = "async"
      BY <2>2, <1>21 DEF Deciding
    <3>2. frame["thread"].iop \in iolist /\ packet[frame["thread"].iop].request = made
      BY <2>0, <3>1 DEF AsyncRight
    <3>3. QED BY <3>2, <1>4, <1>20, <1>21
  <2>3. frame'["thread"].pc = "gone" => iolist' = {} /\ userapcs' = {}
    BY <2>0, <1>4, <1>21 DEF AsyncRight
  <2>4. apcs' \subseteq iolist' /\ finishing' \in iolist' \cup {None} /\ finishing' \notin apcs'
        /\ userapcs' \cap iolist' = {}
    BY <2>0, <1>4 DEF AsyncRight
  <2>5. QED BY <2>1, <2>2, <2>3, <2>4 DEF AsyncRight
<1>23. ASSUME NEW r \in 1..MaxRequests PROVE RequestRight(r)'
  <2>1. told[r] = <<"ok">> =>
          \A q \in Packet : (Live(q))' /\ packet'[q].request = r => packet'[q].IOCount = 0
    <3>1. SUFFICES ASSUME told[r] = <<"ok">>, NEW q \in Packet, (Live(q))', packet'[q].request = r
                   PROVE  packet'[q].IOCount = 0
      OBVIOUS
    <3>2. \A o \in Packet : Live(o) /\ packet[o].request = r => packet[o].IOCount = 0
      BY <3>1 DEF Inv, RequestsRight, RequestRight
    <3>3. packet[i].IOCount # 0
      BY <1>2, OnWayCounts
    <3>4. CASE q \in Range(s)
      BY <3>1, <3>2, <3>3, <3>4, <1>2, <1>3, <1>6
    <3>5. CASE q \notin Range(s)
      BY <3>1, <3>2, <3>5, <1>6
    <3>6. QED BY <3>4, <3>5
  <2>2. /\ iolist' \subseteq Packet
        /\ \A q \in Packet : q \in iolist' /\ packet'[q].request = r <=> q \in iolist /\ packet[q].request = r
        /\ \A q \in iolist : packet[q].request = r =>
             /\ packet'[q].status = packet[q].status
             /\ "DOCOMPLT" \in packet'[q].flags <=> "DOCOMPLT" \in packet[q].flags
    BY <1>4, <1>20
  <2>3. told'[r] = told[r] /\ made' = made /\ (r \in failed' => r \in failed)
    BY <1>4
  <2>4. QED BY <2>1, <2>2, <2>3, <1>21, RequestKept
<1>24. QED BY <1>8, <1>9, <1>10, <1>12, <1>14, <1>15, <1>16, <1>17, <1>19, <1>22, <1>23 DEF Inv, RequestsRight

LEMMA SplitInv ==
  ASSUME Inv, NEW l \in Level, Split(l)
  PROVE  Inv'
<1>1. /\ Busy(l, "dispatch") /\ At(l) \in {"file", "fats"}
      /\ UNCHANGED <<queue, deferred, listVars, signaled, made, told, failed>>
  BY DEF Split
<1>2. PICK n \in 0..MaxFragments :
        /\ There(n)
        /\ packet' = Allocated(l, Fresh(n))
        /\ frame' = [frame EXCEPT ![l].pc = "associate", ![l].frags = Fresh(n)]
  BY DEF Split
<1>3. n \in Nat
  BY BoundAssumption
<1>4. Fresh(n) \in Seq(Packet) /\ IsInjective(Fresh(n)) /\ Range(Fresh(n)) \subseteq FreePackets
  BY <1>2, <1>3, FreshIs
<1>5. SplitTo(l, Fresh(n))
  BY <1>2 DEF SplitTo, Allocated, NewPart, Iop
<1>6. packet[frame[l].iop].at = "file"
  <2>1. frame[l].iop \in Packet
    BY <1>1 DEF Busy, Inv, LevelsRight, FrameRight, Holding
  <2>2. QED BY <2>1, <1>1 DEF At, Iop, Inv, PacketsRight, PacketRight
<1>7. PICK s \in Seq(Packet) : s = Fresh(n)
  BY <1>4
<1>8. IsInjective(s) /\ Range(s) \subseteq FreePackets /\ SplitTo(l, s)
  BY <1>4, <1>5, <1>7
<1>9. QED BY <1>1, <1>6, <1>8, SplitToInv

\* Its first fragment becomes a part of it.
AssociateTo(l, i, h) ==
  /\ frame[l].pc = "bump" /\ Runs(l) /\ i = frame[l].iop /\ h = Head(frame[l].frags)
  /\ packet' = [packet EXCEPT ![i].IOCount = frame[l].count + 1, ![h].parent = i]
  /\ deferred' = Append(deferred, h)
  /\ frame' = [frame EXCEPT ![l].pc = "associate", ![l].frags = Tail(frame[l].frags)]

LEMMA AssociateIs ==
  ASSUME Inv, NEW l \in Level, NEW i \in Packet, NEW h \in Packet, AssociateTo(l, i, h)
  PROVE  /\ i = frame[l].iop /\ i \in OnWay /\ Live(i) /\ Whole(i) /\ packet[i].at = "file"
         /\ packet[i].IOCount > 0 /\ packet[i].IOCount \in Int
         /\ h # i /\ h \in OnWay /\ Live(h) /\ ~Whole(h) /\ packet[h].parent = None /\ packet[h].IOCount = 1
         /\ packet[h].request = packet[i].request
         /\ frame[l].pc = "bump" /\ frame[l].master
         /\ frame' \in [Level -> FrameRecord]
         /\ frame'[l].pc = "associate" /\ frame'[l].how = frame[l].how /\ frame'[l].own = frame[l].own
         /\ frame'[l].iop = frame[l].iop /\ frame'[l].rest = frame[l].rest
         /\ frame'[l].master = frame[l].master /\ frame'[l].ok = frame[l].ok
         /\ \A k \in Level \ {l} : frame'[k] = frame[k]
         /\ packet' \in [Packet -> PacketRecord]
         /\ \A q \in Packet \ {i, h} : packet'[q] = packet[q]
         /\ \A q \in Packet : /\ packet'[q].state = packet[q].state /\ packet'[q].type = packet[q].type
                              /\ packet'[q].status = packet[q].status /\ packet'[q].flags = packet[q].flags
                              /\ packet'[q].at = packet[q].at /\ packet'[q].event = packet[q].event
                              /\ packet'[q].routine = packet[q].routine
                              /\ packet'[q].request = packet[q].request
                              /\ q # i => packet'[q].IOCount = packet[q].IOCount
                              /\ q # h => packet'[q].parent = packet[q].parent
         /\ packet'[i].IOCount = packet[i].IOCount + 1 /\ packet'[h].parent = i
<1>1. /\ frame[l].pc = "bump" /\ i = frame[l].iop /\ h = Head(frame[l].frags) /\ frame[l].frags # <<>>
      /\ frame[l].master /\ frame[l].count = packet[i].IOCount /\ packet[i].at = "file"
      /\ frame[l].frags \in Seq(Packet)
  <2>1. /\ frame[l].pc = "bump" /\ i = frame[l].iop /\ h = Head(frame[l].frags)
    BY DEF AssociateTo
  <2>2. frame[l].frags # <<>> /\ frame[l].master
    BY <2>1 DEF Inv, LevelsRight, FrameRight, Splitting
  <2>3. frame[l].count = packet[i].IOCount /\ packet[i].at = "file"
    BY <2>1 DEF Inv, SplitsRight, Splitting
  <2>4. QED BY <2>1, <2>2, <2>3, FrameFields DEF Inv
<1>2. i \in HandsOf(l) /\ h \in HandsOf(l) /\ h \in Range(frame[l].frags)
      /\ Tail(frame[l].frags) \in Seq(Packet)
  BY <1>1, HeadOff DEF HandsOf, Carried, Holding
<1>3. i \in OnWay /\ h \in OnWay
  BY <1>2, OnWayIs
<1>4. Live(i) /\ Whole(i) /\ packet[i].IOCount > 0 /\ packet[i].IOCount \in Int /\ Live(h)
  <2>1. Live(i) /\ packet[i].IOCount > 0 /\ packet[i].IOCount \in Int /\ Live(h)
    BY <1>3, OnWayCounts
  <2>2. QED BY <2>1, <1>1 DEF Inv, PacketsRight, PacketRight
<1>5. ~Whole(h) /\ packet[h].parent = None /\ packet[h].request = packet[i].request
  BY <1>1, <1>2 DEF Inv, PlacesRight, PlaceRight
<1>6. packet[h].IOCount = 1 /\ h # i
  BY <1>4, <1>5 DEF Inv, PacketsRight, PacketRight
<1>7. /\ frame' \in [Level -> FrameRecord]
      /\ frame'[l].pc = "associate" /\ frame'[l].how = frame[l].how /\ frame'[l].own = frame[l].own
      /\ frame'[l].iop = frame[l].iop /\ frame'[l].rest = frame[l].rest
      /\ frame'[l].master = frame[l].master /\ frame'[l].ok = frame[l].ok
      /\ \A k \in Level \ {l} : frame'[k] = frame[k]
  <2>1. frame \in [Level -> FrameRecord] /\ frame[l] \in FrameRecord
    BY DEF Inv, Typed
  <2> DEFINE tl == Tail(frame[l].frags)
  <2>2. tl \in Seq(Packet) /\ frame' = [frame EXCEPT ![l].pc = "associate", ![l].frags = tl]
    BY <1>2 DEF AssociateTo
  <2> HIDE DEF tl
  <2> DEFINE f == [frame[l] EXCEPT !.pc = "associate", !.frags = tl]
  <2>3. /\ f \in FrameRecord
        /\ f.pc = "associate" /\ f.how = frame[l].how /\ f.own = frame[l].own
        /\ f.iop = frame[l].iop /\ f.rest = frame[l].rest
        /\ f.master = frame[l].master /\ f.ok = frame[l].ok
    BY <2>1, <2>2 DEF FrameRecord, PCs
  <2>4. frame' = [frame EXCEPT ![l] = f]
    BY <2>1, <2>2
  <2> HIDE DEF f
  <2>5. QED BY <2>1, <2>3, <2>4
<1>8. /\ packet' \in [Packet -> PacketRecord]
      /\ \A q \in Packet \ {i, h} : packet'[q] = packet[q]
      /\ \A q \in Packet : /\ packet'[q].state = packet[q].state /\ packet'[q].type = packet[q].type
                           /\ packet'[q].status = packet[q].status /\ packet'[q].flags = packet[q].flags
                           /\ packet'[q].at = packet[q].at /\ packet'[q].event = packet[q].event
                           /\ packet'[q].routine = packet[q].routine
                           /\ packet'[q].request = packet[q].request
                           /\ q # i => packet'[q].IOCount = packet[q].IOCount
                           /\ q # h => packet'[q].parent = packet[q].parent
      /\ packet'[i].IOCount = packet[i].IOCount + 1 /\ packet'[h].parent = i
  <2>1. packet \in [Packet -> PacketRecord] /\ packet[i] \in PacketRecord /\ packet[h] \in PacketRecord
    BY DEF Inv, Typed
  <2> DEFINE n == packet[i].IOCount + 1
             x == [packet[i] EXCEPT !.IOCount = n]
             y == [packet[h] EXCEPT !.parent = i]
  <2>2. n \in Int /\ i \in Packet \cup {None}
    BY <1>4
  <2>3. packet' = [packet EXCEPT ![i].IOCount = n, ![h].parent = i]
    BY <1>1 DEF AssociateTo
  <2> HIDE DEF n
  <2>4. /\ x \in PacketRecord
        /\ x.state = packet[i].state /\ x.type = packet[i].type /\ x.parent = packet[i].parent
        /\ x.IOCount = n /\ x.status = packet[i].status /\ x.flags = packet[i].flags
        /\ x.at = packet[i].at /\ x.event = packet[i].event
        /\ x.routine = packet[i].routine /\ x.request = packet[i].request
    BY <2>1, <2>2 DEF PacketRecord
  <2>5. /\ y \in PacketRecord
        /\ y.state = packet[h].state /\ y.type = packet[h].type /\ y.parent = i
        /\ y.IOCount = packet[h].IOCount /\ y.status = packet[h].status /\ y.flags = packet[h].flags
        /\ y.at = packet[h].at /\ y.event = packet[h].event
        /\ y.routine = packet[h].routine /\ y.request = packet[h].request
    BY <2>1, <2>2 DEF PacketRecord
  <2>6. packet' = [packet EXCEPT ![i] = x, ![h] = y]
    BY <2>1, <2>3, <1>6
  <2> HIDE DEF x, y
  <2>7. packet'[i] = x /\ packet'[h] = y /\ packet' \in [Packet -> PacketRecord]
        /\ \A q \in Packet \ {i, h} : packet'[q] = packet[q]
    BY <2>1, <2>4, <2>5, <2>6, <1>6
  <2>8. QED BY <2>4, <2>5, <2>7 DEF n
<1>9. QED BY <1>1, <1>3, <1>4, <1>5, <1>6, <1>7, <1>8

LEMMA AssociateToInv ==
  ASSUME Inv, NEW l \in Level, NEW i \in Packet, NEW h \in Packet, AssociateTo(l, i, h),
         UNCHANGED <<queue, listVars, signaled, made, told, failed>>
  PROVE  Inv'
<1>1. /\ i = frame[l].iop /\ i \in OnWay /\ Live(i) /\ Whole(i) /\ packet[i].at = "file"
      /\ packet[i].IOCount > 0 /\ packet[i].IOCount \in Int
      /\ h # i /\ h \in OnWay /\ Live(h) /\ ~Whole(h) /\ packet[h].parent = None /\ packet[h].IOCount = 1
      /\ packet[h].request = packet[i].request
      /\ frame[l].pc = "bump" /\ frame[l].master
      /\ frame' \in [Level -> FrameRecord]
      /\ frame'[l].pc = "associate" /\ frame'[l].how = frame[l].how /\ frame'[l].own = frame[l].own
      /\ frame'[l].iop = frame[l].iop /\ frame'[l].rest = frame[l].rest
      /\ frame'[l].master = frame[l].master /\ frame'[l].ok = frame[l].ok
      /\ \A k \in Level \ {l} : frame'[k] = frame[k]
      /\ packet' \in [Packet -> PacketRecord]
      /\ \A q \in Packet \ {i, h} : packet'[q] = packet[q]
      /\ \A q \in Packet : /\ packet'[q].state = packet[q].state /\ packet'[q].type = packet[q].type
                           /\ packet'[q].status = packet[q].status /\ packet'[q].flags = packet[q].flags
                           /\ packet'[q].at = packet[q].at /\ packet'[q].event = packet[q].event
                           /\ packet'[q].routine = packet[q].routine
                           /\ packet'[q].request = packet[q].request
                           /\ q # i => packet'[q].IOCount = packet[q].IOCount
                           /\ q # h => packet'[q].parent = packet[q].parent
      /\ packet'[i].IOCount = packet[i].IOCount + 1 /\ packet'[h].parent = i
  BY AssociateIs
<1>2. UNCHANGED <<queue, iolist, apcs, userapcs, finishing, signaled, made, told, failed>>
  BY DEF listVars
<1>3. /\ frame[l].frags \in Seq(Packet) /\ frame[l].frags # <<>> /\ h = Head(frame[l].frags)
      /\ frame'[l].frags = Tail(frame[l].frags) /\ IsInjective(frame[l].frags)
      /\ deferred' = Append(deferred, h)
  <2>1. h = Head(frame[l].frags) /\ deferred' = Append(deferred, h)
    BY DEF AssociateTo
  <2>2. frame[l].frags # <<>>
    BY <1>1 DEF Inv, LevelsRight, FrameRight
  <2>3. frame'[l].frags = Tail(frame[l].frags)
    BY FrameFields DEF AssociateTo, Inv, Typed, FrameRecord
  <2>4. QED BY <2>1, <2>2, <2>3, FrameFields DEF Inv, Apart
<1>4. /\ frame'[l].frags \in Seq(Packet) /\ IsInjective(frame'[l].frags) /\ h \notin Range(frame'[l].frags)
      /\ Range(frame[l].frags) = {h} \cup Range(frame'[l].frags)
  BY <1>3, HeadOff
<1>5. h \notin queue \cup Range(deferred) /\ h \notin Carried(l) \cup Range(frame[l].rest)
      /\ (\A k \in Level \ {l} : h \notin HandsOf(k)) /\ h \in HandsOf(l)
  <2>1. h \in HandsOf(l) /\ h \in Range(frame[l].frags)
    BY <1>4 DEF HandsOf
  <2>2. QED BY <2>1, LevelsAre DEF Inv, Apart
<1>6. /\ deferred' \in Seq(Packet) /\ IsInjective(deferred') /\ Range(deferred') = Range(deferred) \cup {h}
  BY <1>3, <1>5, Appended DEF Inv, Typed, Apart
<1>7. /\ \A k \in Level : (Carried(k))' = Carried(k)
      /\ (HandsOf(l))' = HandsOf(l) \ {h}
      /\ \A k \in Level \ {l} : (HandsOf(k))' = HandsOf(k)
      /\ OnWay' = OnWay
  <2>1. \A k \in Level : (Carried(k))' = Carried(k)
    BY <1>1 DEF Carried, Holding
  <2>2. (HandsOf(l))' = HandsOf(l) \ {h}
    <3>1. (HandsOf(l))' = Carried(l) \cup Range(frame[l].rest) \cup Range(frame'[l].frags)
      BY <2>1, <1>1 DEF HandsOf
    <3>2. HandsOf(l) = Carried(l) \cup Range(frame[l].rest) \cup {h} \cup Range(frame'[l].frags)
      BY <1>4 DEF HandsOf
    <3>3. QED BY <3>1, <3>2, <1>4, <1>5
  <2>3. \A k \in Level \ {l} : (HandsOf(k))' = HandsOf(k)
    BY <1>1, <2>1 DEF HandsOf
  <2>4. OnWay' = OnWay
    <3>1. CASE l = "thread"
      BY <3>1, <1>2, <1>5, <1>6, <2>2, <2>3, LevelsAre DEF OnWay
    <3>2. CASE l = "apc"
      BY <3>2, <1>2, <1>5, <1>6, <2>2, <2>3, LevelsAre DEF OnWay
    <3>3. QED BY <3>1, <3>2, LevelsAre
  <2>5. QED BY <2>1, <2>2, <2>3, <2>4
<1>8. \A q \in Packet : ((Live(q))' <=> Live(q)) /\ ((Whole(q))' <=> Whole(q))
  BY <1>1 DEF Live, Whole
<1>9. Typed'
  BY <1>1, <1>2, <1>6 DEF Inv, Typed
<1>10. Apart'
  <2>1. Apart
    BY DEF Inv
  <2>2. HandsOf("thread")' \cap HandsOf("apc")' = {}
    BY <2>1, <1>7, LevelsAre DEF Apart
  <2>3. queue' \cap Range(deferred') = {}
    BY <2>1, <1>2, <1>5, <1>6 DEF Apart
  <2>4. ASSUME NEW k \in Level
        PROVE  /\ IsInjective(frame'[k].rest) /\ IsInjective(frame'[k].frags)
               /\ (Carried(k))' \cap Range(frame'[k].rest) = {}
               /\ (Carried(k))' \cap Range(frame'[k].frags) = {}
               /\ Range(frame'[k].rest) \cap Range(frame'[k].frags) = {}
               /\ (HandsOf(k))' \cap (queue' \cup Range(deferred')) = {}
    <3>1. CASE k = l
      <4>1. frame'[k].rest = frame[k].rest /\ IsInjective(frame'[k].frags) /\ (Carried(k))' = Carried(k)
            /\ (HandsOf(k))' = HandsOf(k) \ {h} /\ Range(frame'[k].frags) \subseteq Range(frame[k].frags)
        BY <3>1, <1>1, <1>4, <1>7
      <4>2. QED BY <4>1, <2>1, <1>2, <1>6 DEF Apart
    <3>2. CASE k # l
      <4>1. frame'[k] = frame[k] /\ (Carried(k))' = Carried(k) /\ (HandsOf(k))' = HandsOf(k)
            /\ h \notin HandsOf(k)
        BY <3>2, <1>1, <1>5, <1>7
      <4>2. QED BY <4>1, <2>1, <1>2, <1>6 DEF Apart
    <3>3. QED BY <3>1, <3>2
  <2>5. QED BY <2>2, <2>3, <2>4, <1>6 DEF Apart
<1>11. LevelsRight'
  <2>1. LevelsRight
    BY DEF Inv
  <2>2. \A k \in Level : FrameRight(k)'
    <3>1. FrameRight(l)'
      <4>1. FrameRight(l)
        BY <2>1 DEF LevelsRight
      <4>2. QED BY <4>1, <1>1 DEF FrameRight, Holding, Splitting
    <3>2. \A k \in Level \ {l} : FrameRight(k)'
      BY <2>1, <1>1 DEF LevelsRight, FrameRight
    <3>3. QED BY <3>1, <3>2
  <2>3. frame["thread"].pc \in Splitting => frame["apc"].pc \in {"idle", "routine"}
    BY <2>1 DEF LevelsRight
  <2>4. CASE l = "thread"
    <3>1. frame["apc"].pc \in {"idle", "routine"}
      BY <2>3, <2>4, <1>1 DEF Splitting
    <3>2. frame'["apc"] = frame["apc"] /\ frame'["thread"].pc = "associate"
      BY <2>4, <1>1, LevelsAre
    <3>3. QED BY <2>1, <2>2, <3>1, <3>2, <1>2 DEF LevelsRight
  <2>5. CASE l = "apc"
    <3>1. frame'["thread"] = frame["thread"] /\ frame'["apc"].pc = "associate" /\ frame["apc"].pc = "bump"
          /\ frame'["apc"].how = frame["apc"].how
      BY <2>5, <1>1, LevelsAre
    <3>2. QED BY <2>1, <2>2, <2>3, <3>1, <1>2 DEF LevelsRight
  <2>6. QED BY <2>4, <2>5, LevelsAre
<1>12. \A q \in OnWay : q \in Packet /\ Live(q)
  BY OnWayCounts
<1>13. PlacesRight'
  <2>0. PlacesRight
    BY DEF Inv
  <2>1. ASSUME NEW k \in Level PROVE PlaceRight(k)'
    <3>0. PlaceRight(k)
      BY <2>0 DEF PlacesRight
    <3>1. /\ frame'[k].iop = frame[k].iop /\ frame'[k].rest = frame[k].rest
          /\ frame'[k].master = frame[k].master /\ (frame'[k].pc \in Holding <=> frame[k].pc \in Holding)
          /\ Range(frame'[k].frags) \subseteq Range(frame[k].frags) /\ h \notin Range(frame'[k].frags)
          /\ h \notin Range(frame[k].rest) /\ h \notin Carried(k)
      <4>1. CASE k = l
        BY <4>1, <1>1, <1>4, <1>5 DEF Holding
      <4>2. CASE k # l
        BY <4>2, <1>1, <1>5 DEF HandsOf
      <4>3. QED BY <4>1, <4>2
    <3>2. Range(frame[k].rest) \subseteq Packet /\ Range(frame[k].frags) \subseteq Packet
      BY <1>12, OnWayIs DEF HandsOf
    <3>3. \A q \in Range(frame'[k].rest) : ~(Whole(q))' /\ packet'[q].parent # None
      BY <3>0, <3>1, <3>2, <1>1, <1>8 DEF PlaceRight
    <3>4. \A q \in Range(frame[k].frags) : frame[k].pc \in Holding
      BY EmptyList DEF Inv, LevelsRight, FrameRight, Holding, Splitting
    <3>5. CASE frame[k].pc \in Holding
      <4>1. PICK j \in Packet : j = frame[k].iop /\ j # h
        <5>1. frame[k].iop \in OnWay /\ frame[k].iop \in Carried(k)
          BY <3>5, OnWayIs DEF HandsOf, Carried
        <5>2. QED BY <5>1, <3>1, <1>12
      <4>2. packet'[j].parent = packet[j].parent /\ packet'[j].request = packet[j].request
            /\ ((Whole(j))' <=> Whole(j))
        BY <4>1, <1>1, <1>8
      <4>3. frame'[k].iop = j /\ (Whole(frame[k].iop)' <=> (Whole(j))')
        BY <3>1, <4>1 DEF Whole
      <4>4. Whole(frame[k].iop)' <=> frame'[k].master
        BY <3>0, <3>1, <3>5, <4>1, <4>2, <4>3 DEF PlaceRight
      <4>5. ~frame'[k].master => packet'[frame'[k].iop].parent # None
        BY <3>0, <3>1, <3>5, <4>1, <4>2, <4>3 DEF PlaceRight
      <4>6. \A q \in Range(frame'[k].frags) : ~(Whole(q))' /\ packet'[q].parent = None
                                             /\ packet'[q].request = packet'[frame'[k].iop].request
        BY <3>0, <3>1, <3>2, <4>1, <4>2, <4>3, <1>1, <1>8 DEF PlaceRight
      <4>7. QED BY <3>3, <4>4, <4>5, <4>6 DEF PlaceRight
    <3>6. CASE frame[k].pc \notin Holding
      <4>1. Range(frame'[k].frags) = {} /\ frame'[k].pc \notin Holding
        BY <3>1, <3>4, <3>6
      <4>2. QED BY <3>3, <4>1 DEF PlaceRight
    <3>7. QED BY <3>5, <3>6
  <2>2. \A q \in Range(deferred') : (~Whole(q))' /\ packet'[q].parent # None
    <3>1. \A q \in Range(deferred) : q \in OnWay
      BY OnWayIs
    <3>2. \A q \in Range(deferred) : (~Whole(q))' /\ packet'[q].parent # None
      BY <2>0, <3>1, <1>1, <1>5, <1>8, <1>12 DEF PlacesRight
    <3>3. ~(Whole(h))' /\ packet'[h].parent # None
      BY <1>1, <1>8, LevelsAre
    <3>4. QED BY <3>2, <3>3, <1>6
  <2>3. \A q \in queue' : (~Whole(q))' => packet'[q].parent # None
    <3>1. \A q \in queue : q \in OnWay
      BY OnWayIs
    <3>2. QED BY <2>0, <3>1, <1>1, <1>2, <1>5, <1>8, <1>12 DEF PlacesRight
  <2>4. \A q \in OnWay' : (Live(q))' /\ "COMPLETE" \notin packet'[q].flags
    BY <2>0, <1>1, <1>7, <1>8, <1>12 DEF PlacesRight
  <2>5. QED BY <2>1, <2>2, <2>3, <2>4 DEF PlacesRight
<1>14. /\ (PartsOf(i))' = PartsOf(i) \cup {h} /\ h \notin PartsOf(i)
       /\ \A q \in Packet \ {i} : (PartsOf(q))' = PartsOf(q)
  <2>1. ASSUME NEW q \in Packet, NEW o \in Packet
        PROVE  o \in (PartsOf(q))' <=> o \in PartsOf(q) \/ (q = i /\ o = h)
    <3>1. CASE o = h
      <4>1. packet'[h].parent = i /\ packet'[h].IOCount > 0 /\ packet[h].parent # q
        BY <1>1, LevelsAre
      <4>2. QED BY <3>1, <4>1 DEF PartsOf
    <3>2. CASE o = i
      <4>1. packet[i].parent = None /\ packet'[i].parent = None /\ q # None
        BY <1>1, LevelsAre DEF Inv, PacketsRight, PacketRight
      <4>2. QED BY <3>2, <4>1, <1>1 DEF PartsOf
    <3>3. CASE o # h /\ o # i
      <4>1. packet'[o] = packet[o]
        BY <3>3, <1>1
      <4>2. QED BY <3>3, <4>1 DEF PartsOf
    <3>4. QED BY <3>1, <3>2, <3>3
  <2>2. ASSUME NEW q \in Packet PROVE (PartsOf(q))' \subseteq Packet /\ PartsOf(q) \subseteq Packet
    BY DEF PartsOf
  <2>3. h \notin PartsOf(i)
    BY <1>1, LevelsAre DEF PartsOf
  <2>4. QED BY <2>1, <2>2, <2>3
<1>15. Counted'
  <2>1. ASSUME NEW q \in Packet, (Live(q))', (Whole(q))'
        PROVE  packet'[q].IOCount = (Own(q))' + Cardinality((PartsOf(q))')
    <3>1. Live(q) /\ Whole(q) /\ (Own(q))' = Own(q)
      BY <2>1, <1>7, <1>8 DEF Own
    <3>2. packet[q].IOCount = Own(q) + Cardinality(PartsOf(q))
      BY <3>1 DEF Inv, Counted
    <3>3. CASE q = i
      <4>1. IsFiniteSet(PartsOf(i)) /\ Cardinality(PartsOf(i)) \in Nat
        BY PartsFinite
      <4>2. Cardinality(PartsOf(i) \cup {h}) = Cardinality(PartsOf(i)) + 1
        BY <4>1, <1>14, FS_AddElement
      <4>3. Own(q) \in Int /\ packet'[q].IOCount = packet[q].IOCount + 1
        BY <3>3, <1>1 DEF Own
      <4>4. Cardinality((PartsOf(q))') = Cardinality(PartsOf(i)) + 1
        BY <3>3, <4>2, <1>14
      <4>5. Cardinality(PartsOf(q)) = Cardinality(PartsOf(i))
        BY <3>3
      <4>6. QED BY <3>1, <3>2, <4>1, <4>3, <4>4, <4>5
    <3>4. CASE q # i
      <4>1. packet'[q].IOCount = packet[q].IOCount /\ (PartsOf(q))' = PartsOf(q)
        BY <3>4, <1>1, <1>14
      <4>2. QED BY <3>1, <3>2, <4>1
    <3>5. QED BY <3>3, <3>4
  <2>2. QED BY <2>1 DEF Counted
<1>16. RootsRight'
  BY <1>1, <1>8 DEF Inv, RootsRight
<1>17. PacketsRight'
  <2>1. ASSUME NEW q \in Packet PROVE PacketRight(q)'
    <3>0. PacketRight(q)
      BY DEF Inv, PacketsRight
    <3>1. ((Live(q))' <=> Live(q)) /\ ((Whole(q))' <=> Whole(q))
      BY <1>8
    <3>2. CASE q = h
      <4>1. /\ (Live(h))' /\ ~(Whole(h))' /\ h \in OnWay' /\ packet'[h].parent = i
            /\ (Live(i))' /\ (Whole(i))' /\ packet'[h].request = packet'[i].request
            /\ packet'[h].IOCount = 1
        BY <1>1, <1>7, <1>8
      <4>2. (Live(packet[h].parent))' /\ (Whole(packet[h].parent))'
        BY <4>1 DEF Live, Whole
      <4>3. /\ "FREEIOP" \in packet'[h].flags /\ packet'[h].at = "part"
            /\ packet'[h].status = "ok" /\ ~packet'[h].routine
        BY <3>0, <3>2, <1>1 DEF PacketRight
      <4>4. QED BY <3>2, <4>1, <4>2, <4>3 DEF PacketRight
    <3>3. CASE q = i
      <4>1. packet'[i].IOCount # 0 /\ packet[i].IOCount # 0 /\ packet'[i].parent = packet[i].parent
        BY <1>1
      <4>2. (Live(i))' /\ (Whole(i))'
        BY <1>1, <1>8
      <4>3. QED BY <3>0, <3>3, <4>1, <4>2, <1>1, <1>2 DEF PacketRight
    <3>4. CASE q # h /\ q # i
      <4>1. packet'[q] = packet[q]
        BY <3>4, <1>1
      <4>2. PICK m \in Packet \cup {None} : m = packet[q].parent
        BY DEF Inv, Typed, PacketRecord
      <4>3. ASSUME Live(q), ~Whole(q), m # None
            PROVE  (Live(m))' /\ (Whole(m))' /\ packet[q].request = packet'[m].request
        <5>1. m \in Packet /\ Live(m) /\ Whole(m) /\ packet[q].request = packet[m].request
          BY <3>0, <4>2, <4>3 DEF PacketRight
        <5>2. QED BY <5>1, <1>1, <1>8
      <4>4. packet'[q].parent = m
        BY <4>1, <4>2
      <4>5. ASSUME Live(q), ~Whole(q)
            PROVE  /\ q \in OnWay'
                   /\ packet'[q].IOCount = 1
                   /\ "FREEIOP" \in packet'[q].flags /\ packet'[q].at = "part"
                   /\ packet'[q].status = "ok" /\ ~packet'[q].routine
                   /\ packet'[q].parent # None =>
                        /\ (Live(packet[q].parent))' /\ (Whole(packet[q].parent))'
                        /\ packet'[q].request = packet'[packet'[q].parent].request
        <5>1. q \in OnWay' /\ packet'[q].IOCount = 1 /\ "FREEIOP" \in packet'[q].flags /\ packet'[q].at = "part"
              /\ packet'[q].status = "ok" /\ ~packet'[q].routine
          BY <3>0, <4>1, <4>5, <1>7 DEF PacketRight
        <5>2. packet'[q].parent # None => (Live(packet[q].parent))' /\ (Whole(packet[q].parent))'
          BY <4>3, <4>4, <4>5 DEF Live, Whole
        <5>3. packet'[q].parent # None => packet'[q].request = packet'[packet'[q].parent].request
          BY <4>1, <4>3, <4>4, <4>5
        <5>4. QED BY <5>1, <5>2, <5>3
      <4>6. ~(Live(q))' => packet'[q] = Free
        BY <3>0, <3>1, <4>1 DEF PacketRight
      <4>7. packet'[q].at # "fats"
        BY <3>0, <4>1 DEF PacketRight
      <4>8. ASSUME Live(q), Whole(q)
            PROVE  /\ packet'[q].parent = None
                   /\ "COMPLETE" \in packet'[q].flags <=> packet'[q].IOCount = 0
                   /\ packet'[q].type = "userasync" =>
                        packet'[q].event = None /\ ("FREEIOP" \in packet'[q].flags <=> ~packet'[q].routine)
                   /\ packet'[q].type = "normal" => "FREEIOP" \notin packet'[q].flags
                   /\ packet'[q].request # 0 /\ packet'[q].request \in failed' => packet'[q].status = "error"
                   /\ packet'[q].request = 0 <=> packet'[q].event = "apc"
                   /\ packet'[q].request <= made'
        BY <3>0, <4>1, <4>8, <1>2 DEF PacketRight
      <4>9. QED BY <3>1, <4>5, <4>6, <4>7, <4>8 DEF PacketRight
    <3>5. QED BY <3>2, <3>3, <3>4
  <2>2. QED BY <2>1 DEF PacketsRight
<1>18. \A k \in Level \ {l} : frame[k].pc \notin Splitting
  BY <1>1, LevelsAre DEF Inv, LevelsRight, Splitting
<1>19. SplitsRight'
  <2>0. SplitsRight
    BY DEF Inv
  <2>1. ASSUME NEW q \in Packet, (Live(q))', (PartsOf(q))' # {}
        PROVE  packet'[q].at = "part" \/ \E k \in Level : frame'[k].pc \in Splitting /\ frame'[k].iop = q
    <3>1. CASE q = i
      BY <3>1, <1>1 DEF Splitting
    <3>2. CASE q # i
      <4>1. PartsOf(q) # {} /\ Live(q)
        BY <2>1, <3>2, <1>8, <1>14
      <4>2. packet[q].at = "part" \/ \E k \in Level : frame[k].pc \in Splitting /\ frame[k].iop = q
        BY <2>0, <4>1 DEF SplitsRight
      <4>3. packet[q].at = "part"
        BY <3>2, <4>2, <1>1, <1>18
      <4>4. QED BY <4>3, <1>1
    <3>3. QED BY <3>1, <3>2
  <2>2. ASSUME NEW k \in Level, frame'[k].pc \in Splitting
        PROVE  /\ (PartsOf(frame[k].iop))' \subseteq Range(deferred')
               /\ packet'[frame'[k].iop].at = "file"
               /\ frame'[k].pc = "bump" => frame'[k].count = packet'[frame'[k].iop].IOCount
    <3>1. k = l
      BY <2>2, <1>1, <1>18
    <3>2. frame'[k].iop = i /\ frame'[k].pc = "associate"
      BY <3>1, <1>1
    <3>3. PartsOf(i) \subseteq Range(deferred)
      BY <2>0, <1>1 DEF SplitsRight, Splitting
    <3>4. (PartsOf(i))' \subseteq Range(deferred')
      BY <3>3, <1>6, <1>14
    <3>5. (PartsOf(frame[k].iop))' = (PartsOf(i))'
      BY <3>2 DEF PartsOf
    <3>6. packet'[i].at = "file"
      BY <1>1
    <3>7. QED BY <3>2, <3>4, <3>5, <3>6
  <2>3. ASSUME NEW k \in Level, frame'[k].pc \in Holding, frame'[k].master, packet'[frame'[k].iop].at # "part"
        PROVE  packet'[frame'[k].iop].status = "ok"
    <3>1. frame[k].pc \in Holding /\ frame[k].master /\ frame'[k].iop = frame[k].iop
      <4>1. frame[l].pc \in Holding
        BY <1>1 DEF Holding
      <4>2. QED BY <4>1, <2>3, <1>1
    <3>2. frame[k].iop \in Packet
      BY <3>1 DEF Inv, LevelsRight, FrameRight
    <3>3. packet'[frame[k].iop].status = packet[frame[k].iop].status
          /\ packet'[frame[k].iop].at = packet[frame[k].iop].at
      BY <3>2, <1>1
    <3>4. QED BY <3>1, <3>3, <2>0, <2>3 DEF SplitsRight
  <2>4. QED BY <2>1, <2>2, <2>3 DEF SplitsRight
<1>20. \A k \in Level : ((Active(k))' <=> Active(k)) /\ frame'[k].own = frame[k].own /\ frame'[k].how = frame[k].how
  BY <1>1 DEF Active, Done
<1>21. \A q \in Packet : packet'[q].IOCount = 0 <=> packet[q].IOCount = 0
  <2>1. packet'[i].IOCount # 0 /\ packet[i].IOCount # 0
    BY <1>1
  <2>2. QED BY <2>1, <1>1
<1>22. SyncRight'
  <2>0. SyncRight
    BY DEF Inv
  <2>1. ASSUME NEW k \in Level, NEW j \in Packet, (Live(j))', packet'[j].event = k
        PROVE  (Active(k))' /\ frame'[k].how = "sync" /\ frame'[k].own = j
    <3>1. Live(j) /\ packet[j].event = k
      BY <2>1, <1>1, <1>8
    <3>2. Active(k) /\ frame[k].how = "sync" /\ frame[k].own = j
      BY <2>0, <3>1 DEF SyncRight
    <3>3. QED BY <3>2, <1>20
  <2>2. ASSUME NEW k \in Level, (Active(k))', frame'[k].how = "sync"
        PROVE  /\ frame'[k].own \in Packet /\ (Live(frame[k].own))'
               /\ packet'[frame'[k].own].event = k /\ packet'[frame'[k].own].type = "normal"
               /\ packet'[frame'[k].own].request = IF k = "thread" THEN made' ELSE 0
               /\ signaled'[k] => packet'[frame'[k].own].IOCount = 0
    <3>1. Active(k) /\ frame[k].how = "sync" /\ frame'[k].own = frame[k].own
      BY <2>2, <1>20
    <3>2. PICK o \in Packet : o = frame[k].own
      BY <2>0, <3>1 DEF SyncRight
    <3>3. /\ Live(o) /\ packet[o].event = k /\ packet[o].type = "normal"
          /\ packet[o].request = IF k = "thread" THEN made ELSE 0
          /\ signaled[k] => packet[o].IOCount = 0
      BY <2>0, <3>1, <3>2 DEF SyncRight
    <3>4. /\ (Live(o))' /\ packet'[o].event = packet[o].event /\ packet'[o].type = packet[o].type
          /\ packet'[o].request = packet[o].request /\ frame'[k].own = o
      BY <3>1, <3>2, <3>3, <1>1, <1>8
    <3>5. signaled'[k] => packet'[o].IOCount = 0
      BY <3>3, <1>2, <1>21
    <3>6. QED BY <3>3, <3>4, <3>5, <1>2 DEF Live
  <2>3. QED BY <2>1, <2>2 DEF SyncRight, Live
<1>23. (Deciding' <=> Deciding) /\ frame'["thread"].iop = frame["thread"].iop
       /\ frame'["thread"].how = frame["thread"].how /\ frame'["thread"].ok = frame["thread"].ok
       /\ (frame'["thread"].pc = "gone" <=> frame["thread"].pc = "gone")
       /\ (Returned(made)' <=> Returned(made))
  <2>1. CASE l = "thread"
    BY <2>1, <1>1, <1>2 DEF Deciding, Returned, Holding, Done
  <2>2. CASE l # "thread"
    BY <2>2, <1>1, <1>2, LevelsAre DEF Deciding, Returned
  <2>3. QED BY <2>1, <2>2
<1>24. iolist \subseteq Packet
  BY DEF Inv, Typed
<1>25. AsyncRight'
  <2>0. AsyncRight
    BY DEF Inv
  <2>1. ASSUME NEW q \in Packet PROVE AsyncPacketRight(q)'
    <3>1. AsyncPacketRight(q)
      BY <2>0 DEF AsyncRight
    <3>2. /\ packet'[q].type = packet[q].type /\ packet'[q].routine = packet[q].routine
          /\ packet'[q].flags = packet[q].flags
          /\ packet'[q].IOCount = 0 <=> packet[q].IOCount = 0
          /\ (Live(q))' <=> Live(q)
      BY <1>1, <1>8, <1>21
    <3>3. (LeftBehind(q))' <=> LeftBehind(q)
      BY <3>2 DEF LeftBehind
    <3>4. QED BY <3>1, <3>2, <3>3, <1>2 DEF AsyncPacketRight
  <2>2. ASSUME frame'["thread"].pc \in Holding, frame'["thread"].master, frame'["thread"].how = "async"
        PROVE  frame'["thread"].iop \in iolist' /\ packet'[frame'["thread"].iop].request = made'
    <3>1. frame["thread"].pc \in Holding /\ frame["thread"].master /\ frame["thread"].how = "async"
      BY <2>2, <1>23 DEF Deciding
    <3>2. frame["thread"].iop \in iolist /\ packet[frame["thread"].iop].request = made
      BY <2>0, <3>1 DEF AsyncRight
    <3>3. packet'[frame["thread"].iop].request = packet[frame["thread"].iop].request
      BY <3>2, <1>1, <1>24
    <3>4. QED BY <3>2, <3>3, <1>2, <1>23
  <2>3. frame'["thread"].pc = "gone" => iolist' = {} /\ userapcs' = {}
    BY <2>0, <1>2, <1>23 DEF AsyncRight
  <2>4. apcs' \subseteq iolist' /\ finishing' \in iolist' \cup {None} /\ finishing' \notin apcs'
        /\ userapcs' \cap iolist' = {}
    BY <2>0, <1>2 DEF AsyncRight
  <2>5. QED BY <2>1, <2>2, <2>3, <2>4 DEF AsyncRight
<1>26. ASSUME NEW r \in 1..MaxRequests PROVE RequestRight(r)'
  <2>1. told[r] = <<"ok">> =>
          \A q \in Packet : (Live(q))' /\ packet'[q].request = r => packet'[q].IOCount = 0
    <3>1. told[r] = <<"ok">> => \A q \in Packet : Live(q) /\ packet[q].request = r => packet[q].IOCount = 0
      BY DEF Inv, RequestsRight, RequestRight
    <3>2. \A q \in Packet : ((Live(q))' <=> Live(q)) /\ packet'[q].request = packet[q].request
                            /\ (packet'[q].IOCount = 0 <=> packet[q].IOCount = 0)
      BY <1>1, <1>8, <1>21
    <3>3. QED BY <3>1, <3>2
  <2>2. /\ iolist' \subseteq Packet
        /\ \A q \in Packet : q \in iolist' /\ packet'[q].request = r <=> q \in iolist /\ packet[q].request = r
        /\ \A q \in iolist : packet[q].request = r =>
             /\ packet'[q].status = packet[q].status
             /\ "DOCOMPLT" \in packet'[q].flags <=> "DOCOMPLT" \in packet[q].flags
    BY <1>1, <1>2, <1>24
  <2>3. told'[r] = told[r] /\ made' = made /\ (r \in failed' => r \in failed)
    BY <1>2
  <2>4. QED BY <2>1, <2>2, <2>3, <1>23, RequestKept
<1>27. QED BY <1>9, <1>10, <1>11, <1>13, <1>15, <1>16, <1>17, <1>19, <1>22, <1>25, <1>26
           DEF Inv, RequestsRight

LEMMA IOPacketAssociateInv ==
  ASSUME Inv, NEW l \in Level, IOPacketAssociate(l)
  PROVE  Inv'
<1>1. /\ frame[l].pc = "bump" /\ Runs(l)
      /\ UNCHANGED <<queue, listVars, signaled, made, told, failed>>
  BY DEF IOPacketAssociate, Busy
<1>2. frame[l].iop \in Packet /\ frame[l].frags # <<>> /\ frame[l].frags \in Seq(Packet)
  BY <1>1, FrameFields DEF Inv, LevelsRight, FrameRight, Holding
<1>3. PICK i \in Packet : i = frame[l].iop
  BY <1>2
<1>4. PICK h \in Packet : h = Head(frame[l].frags)
  BY <1>2, HeadOff
<1>5. frame' = [frame EXCEPT ![l].pc = "associate", ![l].frags = Tail(frame[l].frags)]
  <2>1. frame \in [Level -> FrameRecord] /\ frame[l] \in FrameRecord
    BY DEF Inv, Typed
  <2>2. QED BY <2>1 DEF IOPacketAssociate, FrameRecord
<1>6. AssociateTo(l, i, h)
  BY <1>1, <1>3, <1>4, <1>5 DEF IOPacketAssociate, AssociateTo, Iop
<1>7. QED BY <1>1, <1>6, AssociateToInv

-----------------------------------------------------------------------------
(* All steps, and what holds of every behaviour.                           *)

LEMMA StutterInv ==
  ASSUME Inv, UNCHANGED vars
  PROVE  Inv'
<1>1. UNCHANGED <<packet, queue, deferred, iolist, apcs, userapcs, finishing, frame, signaled, made, told, failed>>
  BY DEF vars
<1>2. Typed'
  BY <1>1 DEF Inv, Typed
<1>3. Apart' /\ LevelsRight'
  BY <1>1 DEF Inv, Apart, LevelsRight, FrameRight, HandsOf, Carried
<1>4. PlacesRight' /\ PacketsRight'
  BY <1>1 DEF Inv, PlacesRight, PlaceRight, PacketsRight, PacketRight, Live, Whole, OnWay, HandsOf, Carried
<1>5. Counted' /\ SplitsRight' /\ RootsRight'
  BY <1>1 DEF Inv, Counted, SplitsRight, RootsRight, Own, PartsOf, Live, Whole, OnWay, HandsOf, Carried
<1>6. SyncRight' /\ AsyncRight'
  BY <1>1 DEF Inv, SyncRight, AsyncRight, AsyncPacketRight, LeftBehind, Live, Active
<1>7. RequestsRight'
  BY <1>1 DEF Inv, RequestsRight, RequestRight, Returned, Deciding, Live
<1>8. QED BY <1>2, <1>3, <1>4, <1>5, <1>6, <1>7 DEF Inv

LEMMA GoOnInv ==
  ASSUME Inv, NEW l \in Level, GoOn(l)
  PROVE  Inv'
<1>1. CASE EndEarly(l)
  BY <1>1, EndEarlyInv
<1>2. CASE Split(l)
  BY <1>2, SplitInv
<1>3. CASE FailToSplit(l)
  BY <1>3, FailToSplitInv
<1>4. CASE PassOn(l)
  BY <1>4, PassOnInv
<1>5. CASE ReadCount(l)
  BY <1>5, ReadCountInv
<1>6. CASE IOPacketAssociate(l)
  BY <1>6, IOPacketAssociateInv
<1>7. CASE Keep(l)
  BY <1>7, KeepInv
<1>8. CASE FinishAtOnce(l)
  BY <1>8, FinishAtOnceInv
<1>9. CASE NextPacket(l)
  BY <1>9, NextPacketInv
<1>10. CASE WaitForEvent(l)
  BY <1>10, WaitForEventInv
<1>11. CASE Finish(l)
  BY <1>11, FinishInv
<1>12. QED BY <1>1, <1>2, <1>3, <1>4, <1>5, <1>6, <1>7, <1>8, <1>9, <1>10, <1>11 DEF GoOn

LEMMA NextInv ==
  ASSUME Undisturbed, NoFATs, Inv, [Next]_vars
  PROVE  Inv'
<1>1. CASE \E r \in Requests : Ask(r)
  BY <1>1, AskInv
<1>2. CASE ThreadStep
  <2>1. CASE GoOn("thread")
    BY <2>1, LevelsAre, GoOnInv
  <2>2. CASE ReturnFromAsync
    BY <2>2, ReturnFromAsyncInv
  <2>3. CASE CancelRequest
    BY <2>3, CancelRequestInv
  <2>4. CASE RundownCancel
    BY <2>4, RundownCancelInv
  <2>5. CASE GoByeBye
    BY <2>5, GoByeByeInv
  <2>6. QED BY <1>2, <2>1, <2>2, <2>3, <2>4, <2>5 DEF ThreadStep
<1>3. CASE APCStep
  <2>1. CASE GoOn("apc")
    BY <2>1, LevelsAre, GoOnInv
  <2>2. CASE FinishAPC
    BY <2>2, FinishAPCInv
  <2>3. QED BY <1>3, <2>1, <2>2 DEF APCStep
<1>4. CASE Interrupt
  BY <1>4, InterruptInv
<1>5. CASE PsiThreadExit
  BY <1>5, PsiThreadExitInv
<1>6. CASE \E p \in Packet : BeginAPC(p) \/ UserAPC(p) \/ Finishes(p)
  <2>1. PICK p \in Packet : BeginAPC(p) \/ UserAPC(p) \/ Finishes(p)
    BY <1>6
  <2>2. CASE BeginAPC(p)
    BY <2>2, BeginAPCInv
  <2>3. CASE UserAPC(p)
    BY <2>3, UserAPCInv
  <2>4. CASE Finishes(p)
    BY <2>4, FinishesInv
  <2>5. QED BY <2>1, <2>2, <2>3, <2>4
<1>7. CASE UNCHANGED vars
  BY <1>7, StutterInv
<1>8. QED BY <1>1, <1>2, <1>3, <1>4, <1>5, <1>6, <1>7 DEF Next

LEMMA InvHolds ==
  ASSUME Undisturbed, NoFATs
  PROVE  Spec => []Inv
<1>1. Init => Inv
  BY InitInv
<1>2. Inv /\ [Next]_vars => Inv'
  BY NextInv
<1>3. QED BY <1>1, <1>2, PTL DEF Spec

\* No driver, chain or list has a packet that another has, that ended or that
\* was freed: neither the splitting of packets, nor their completion in any
\* order, cancellation, nor page-ins by APCs gives one to two.
THEOREM EachHeldOnce ==
  ASSUME Undisturbed, NoFATs
  PROVE  Spec => []HeldOnce
BY InvHolds, InvHeldOnce, PTL

\* The count of a packet is that of its parts that have not ended, and its
\* own: it ends with the last of them, whichever that is.
THEOREM CountsAreRight ==
  ASSUME Undisturbed, NoFATs
  PROVE  Spec => []CountsParts
BY InvHolds, InvCountsParts, PTL

\* A packet that ended is freed by its sender or by an APC, and a thread that
\* is gone leaves none behind, except those with a completion routine whose
\* call failed.
THEOREM NoneIsLost ==
  ASSUME Undisturbed, NoFATs
  PROVE  Spec => []NothingLost
BY InvHolds, InvNothingLost, PTL

\* Whatever its parts come to and in which order, whether it was cancelled or
\* its call failed at once: the sender is told of a request once, and of no
\* success when a part failed.
THEOREM EachToldOnce ==
  ASSUME Undisturbed, NoFATs
  PROVE  Spec => []ToldOnce
BY InvHolds, InvToldOnce, PTL
=============================================================================
