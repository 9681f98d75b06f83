---------------------------- MODULE AHCI_proofs ----------------------------
(***************************************************************************)
(* Proofs about the AHCI driver, for every number of ports, disks and      *)
(* packets.                                                                *)
(***************************************************************************)
EXTENDS AHCI, SequenceTheorems, WellFoundedInduction, TLAPS

PortOf(r) == DiskPort[iopl[r].disk]
Size(r)   == BlockSize[PortOf(r)]

\* Where a packet is, its stage says, and a queue is sorted.
CurrentInPlace ==
  /\ \A p \in Port : currentRequest[p] # None =>
       stage[currentRequest[p]] = "current" /\ PortOf(currentRequest[p]) = p
  /\ \A r \in Packet : stage[r] = "current" => currentRequest[PortOf(r)] = r
QueueInPlace ==
  /\ \A p \in Port : \A i \in 1..Len(requestList[p]) :
       stage[requestList[p][i]] = "queued" /\ PortOf(requestList[p][i]) = p
  /\ \A r \in Packet : stage[r] = "queued" =>
       \E i \in 1..Len(requestList[PortOf(r)]) : requestList[PortOf(r)][i] = r
Sorted ==
  \A p \in Port : \A i, j \in 1..Len(requestList[p]) : i < j =>
    /\ requestList[p][i] # requestList[p][j]
    /\ iopl[requestList[p][i]].Offset <= iopl[requestList[p][j]].Offset
Known ==
  /\ \A r \in Packet : stage[r] \in {"checked", "queued", "current"} => iopl[r].disk \in Disk
  /\ \A r \in Packet : stage[r] = "new" => iopl[r] = NoLocation
  /\ \A r \in Packet : stage[r] # "new" => \A p \in Port : phase[p] = "ready"
  /\ \A p \in Port : currentRequest[p] = None => requestList[p] = <<>>
HandlerInPlace == irq.at \in {"port", "issue"} => irq.port \in Port
InPlace == CurrentInPlace /\ QueueInPlace /\ Sorted /\ Known /\ HandlerInPlace

\* Where a packet lies on its drive, how far it has come, what was moved for
\* it and what its sender is told.
Executed(p) == p \notin PxCI /\ starting # p
Origin(r)   == iopl[r].Offset - iopl[r].Context
OnDrive(r) ==
  iopl[r].disk \in Disk =>
    /\ iopl[r].Context <= iopl[r].Offset /\ Origin(r) % Size(r) = 0
    /\ iopl[r].Length % Size(r) = 0 /\ iopl[r].Length > 0
    /\ Origin(r) >= BlockOffset[iopl[r].disk] * Size(r)
    /\ Origin(r) + iopl[r].Length <= (BlockOffset[iopl[r].disk] + Blocks[iopl[r].disk]) * Size(r)
Waits(r) ==
  stage[r] \in {"new", "checked", "queued"} => iopl[r].Context = 0 /\ moved[r] = <<>>
Works(r) ==
  stage[r] = "current" =>
    /\ iopl[r].Context < iopl[r].Length
    /\ Len(moved[r]) * Size(r) = IF Executed(PortOf(r)) THEN iopl[r].Context + Size(r) ELSE iopl[r].Context
Ended(r) ==
  stage[r] = "done" =>
    IF iopl[r].disk \in Disk THEN Len(moved[r]) * Size(r) = iopl[r].Length ELSE moved[r] = <<>>
InOrder(r) ==
  iopl[r].disk \in Disk => \A i \in 1..Len(moved[r]) :
    moved[r][i] = [lba |-> (Origin(r) \div Size(r)) + i - 1, at |-> (i - 1) * Size(r)]
Told(r) ==
  /\ iopl[r].disk \in Disk => StatusBlock[r].Status = "SUCCESS" /\ StatusBlock[r].Length = iopl[r].Length
  /\ stage[r] = "done" /\ iopl[r].disk \notin Disk =>
       ~ (StatusBlock[r].Status = "SUCCESS" /\ StatusBlock[r].Length # 0)
PacketRight(r) == OnDrive(r) /\ Waits(r) /\ Works(r) /\ Ended(r) /\ InOrder(r) /\ Told(r)
CommandRight ==
  \A p \in Port :
    /\ starting = p => currentRequest[p] # None
    /\ starting = p \/ p \in PxCI =>
         IF currentRequest[p] = None THEN command[p].packet = None
         ELSE command[p] = BlockOf(currentRequest[p], iopl[currentRequest[p]], p)
Progress == (\A r \in Packet : PacketRight(r)) /\ CommandRight

Inv == TypeOK /\ OneCommandEach /\ CompletionsNoticed /\ InPlace /\ Progress

-----------------------------------------------------------------------------
(* Arithmetic.                                                             *)

LEMMA WholeBlocks ==
  ASSUME NEW s \in Nat \ {0}, NEW n \in Nat
  PROVE  (n * s) \div s = n /\ (n * s) % s = 0
  OBVIOUS

LEMMA Multiples ==
  ASSUME NEW s \in Nat \ {0}, NEW n \in Nat, n % s = 0
  PROVE  n \div s \in Nat /\ n = (n \div s) * s
  OBVIOUS

LEMMA FewerBlocks ==
  ASSUME NEW s \in Nat \ {0}, NEW m \in Nat, NEW n \in Nat
  PROVE  /\ m * s < n * s <=> m < n
         /\ m * s = n * s <=> m = n
         /\ (m + 1) * s = m * s + s
  OBVIOUS

-----------------------------------------------------------------------------
(* Types.                                                                  *)

LEMMA BytesTyped == \A d \in Disk : Bytes(d) \in Nat
  BY DiskAssumption DEF Bytes

LEMMA CallsTyped ==
  ASSUME NEW c \in Request
  PROVE  /\ c.disk \in Disk /\ c.offset \in Nat /\ c.length \in Nat /\ DiskPort[c.disk] \in Port
         /\ BlockOffset[c.disk] \in Nat /\ BlockSize[DiskPort[c.disk]] \in Nat \ {0}
<1>1. c.disk \in Disk /\ c.offset \in Nat /\ c.length \in Nat
  BY DEF Request
<1>2. \A d \in Disk : DiskPort[d] \in Port /\ BlockOffset[d] \in Nat /\ BlockSize[DiskPort[d]] \in Nat \ {0}
  BY DiskAssumption
<1> QED BY <1>1, <1>2

Accepted(c) == Verdict(c) = "go on"

LEMMA AcceptedTyped ==
  ASSUME NEW c \in Request, Accepted(c)
  PROVE  /\ Available(c) \in Nat \ {0}
         /\ Available(c) % BlockSize[DiskPort[c.disk]] = 0
         /\ c.offset % BlockSize[DiskPort[c.disk]] = 0
         /\ c.offset + Available(c) <= Bytes(c.disk)
         /\ Translated(c) \in Location
         /\ Translated(c).disk = c.disk /\ Translated(c).Context = 0
         /\ Translated(c).Length = Available(c)
         /\ Translated(c).Offset = c.offset + BlockOffset[c.disk] * BlockSize[DiskPort[c.disk]]
<1>1. c.disk \in Disk /\ c.offset \in Nat /\ c.length \in Nat /\ Bytes(c.disk) \in Nat
  BY CallsTyped, BytesTyped
<1>2. BlockSize[DiskPort[c.disk]] \in Nat \ {0} /\ BlockOffset[c.disk] \in Nat
  BY CallsTyped
<1>0. ~ StartsPastEnd(c) /\ ~ Odd(c, c.offset) /\ ~ Odd(c, Available(c)) /\ Available(c) # 0
  <2> DEFINE a == StartsPastEnd(c)
             b == Odd(c, c.offset) \/ ~c.aligned \/ Odd(c, Available(c))
             d == Available(c) = 0
  <2>1. Verdict(c) = IF a THEN IF c.write THEN "END_OF_DISK" ELSE "SUCCESS"
                     ELSE IF b THEN "UNALIGNED"
                     ELSE IF d THEN "SUCCESS"
                     ELSE IF c.pinned THEN "go on" ELSE "FAULT"
    BY Zenon DEF Verdict
  <2> HIDE DEF a, b, d
  <2>2. ~ a /\ ~ b /\ ~ d
    BY <2>1 DEF Accepted
  <2> QED BY <2>2 DEF a, b, d
<1>3. c.offset < Bytes(c.disk) /\ c.offset % BlockSize[DiskPort[c.disk]] = 0
  BY <1>0, <1>1, <1>2 DEF StartsPastEnd, Odd
<1>4. Available(c) # 0 /\ Available(c) % BlockSize[DiskPort[c.disk]] = 0
  BY <1>0 DEF Odd
<1>5. Available(c) \in Nat /\ c.offset + Available(c) <= Bytes(c.disk)
  BY <1>1, <1>3 DEF Available
<1> DEFINE base == BlockOffset[c.disk] * BlockSize[DiskPort[c.disk]]
<1>6. base \in Nat
  BY <1>2
<1>7. Translated(c) = [disk |-> c.disk, write |-> c.write, Length |-> Available(c), Context |-> 0,
                       Offset |-> c.offset + base]
  BY DEF Translated
<1> HIDE DEF base
<1>8. Translated(c) \in Location
  <2>1. c.write \in BOOLEAN
    BY DEF Request
  <2>2. Available(c) \in Nat /\ c.offset + base \in Nat
    BY <1>1, <1>5, <1>6
  <2> QED BY <1>1, <1>7, <2>1, <2>2 DEF Location
<1>9. /\ Translated(c).disk = c.disk /\ Translated(c).Context = 0
      /\ Translated(c).Length = Available(c) /\ Translated(c).Offset = c.offset + base
  BY <1>7
<1> QED BY <1>3, <1>4, <1>5, <1>8, <1>9 DEF base

LEMMA BlockTyped ==
  ASSUME TypeOK, NEW p \in Port, NEW r \in Packet, NEW l \in Location
  PROVE  BlockOf(r, l, p) \in Command
<1>1. BlockSize[p] \in Nat \ {0} /\ l.Offset \in Nat /\ l.Context \in Nat /\ l.write \in BOOLEAN
  BY DiskAssumption DEF Location
<1>2. l.Offset \div BlockSize[p] \in Nat
  BY <1>1
<1>3. BlockOf(r, l, p) = [packet |-> r, lba |-> l.Offset \div BlockSize[p], at |-> l.Context, write |-> l.write]
  BY DEF BlockOf
<1> QED BY <1>1, <1>2, <1>3 DEF Command

LEMMA AdvancedTyped ==
  ASSUME NEW p \in Port, NEW l \in Location
  PROVE  /\ Advanced(l, p) \in Location
         /\ Advanced(l, p).Offset = l.Offset + BlockSize[p]
         /\ Advanced(l, p).Context = l.Context + BlockSize[p]
         /\ Advanced(l, p).disk = l.disk /\ Advanced(l, p).Length = l.Length
<1>1. BlockSize[p] \in Nat \ {0}
  BY DiskAssumption
<1> QED BY <1>1 DEF Advanced, Location

\* What InsertPacket does to a queue.
Position(q, r) ==
  LET after == {i \in 1..Len(q) : iopl[q[i]].Offset > iopl[r].Offset}
  IN IF after = {} THEN Len(q) + 1 ELSE CHOOSE i \in after : \A j \in after : i <= j

\* A nonempty set of numbers has a least one.
LEMMA LeastExists ==
  ASSUME NEW S \in SUBSET Nat, S # {}
  PROVE  \E i \in S : \A j \in S : i <= j
<1> DEFINE R == {ss \in Nat \X Nat : ss[1] < ss[2]}
<1>1. IsWellFoundedOn(R, Nat)
  BY NatLessThanWellFounded DEF OpToRel
<1>2. PICK m \in S : \A y \in S : <<y, m>> \notin R
  <2> HIDE DEF R
  <2> QED BY <1>1, WFMin
<1>3. ASSUME NEW y \in S PROVE m <= y
  <2>1. CASE y < m
    <3>1. <<y, m>> \in R
      BY <2>1
    <3> QED BY <1>2, <3>1
  <2> QED BY <2>1
<1> QED BY <1>3

LEMMA PositionFits ==
  ASSUME NEW q \in Seq(Packet), NEW r \in Packet, iopl \in [Packet -> Location]
  PROVE  LET k == Position(q, r) IN
         /\ k \in 1..(Len(q) + 1)
         /\ \A i \in 1..Len(q) : i < k => iopl[q[i]].Offset <= iopl[r].Offset
         /\ k <= Len(q) => iopl[q[k]].Offset > iopl[r].Offset
         /\ InsertPacket(q, r) = IF k = Len(q) + 1 THEN Append(q, r)
                                 ELSE SubSeq(q, 1, k - 1) \o <<r>> \o SubSeq(q, k, Len(q))
<1> DEFINE after == {i \in 1..Len(q) : iopl[q[i]].Offset > iopl[r].Offset}
           least == CHOOSE i \in after : \A j \in after : i <= j
<1>1. Len(q) \in Nat /\ after \in SUBSET Nat /\ \A i \in 1..Len(q) : q[i] \in Packet
  BY LenProperties, ElementOfSeq
<1>2. \A i \in 1..Len(q) : iopl[q[i]].Offset \in Nat /\ iopl[r].Offset \in Nat
  BY <1>1 DEF Location
<1>3. CASE after = {}
  <2>1. Position(q, r) = Len(q) + 1 /\ InsertPacket(q, r) = Append(q, r)
    BY <1>3 DEF Position, InsertPacket
  <2> QED BY <1>1, <1>2, <1>3, <2>1
<1>4. CASE after # {}
  <2>1. \E i \in after : \A j \in after : i <= j
    <3> HIDE DEF after
    <3> QED BY <1>1, <1>4, LeastExists
  <2>2. least \in after /\ \A j \in after : least <= j
    <3> HIDE DEF after
    <3> QED BY <2>1
  <2>3. /\ Position(q, r) = least
        /\ InsertPacket(q, r) = SubSeq(q, 1, least - 1) \o <<r>> \o SubSeq(q, least, Len(q))
    BY <1>4 DEF Position, InsertPacket
  <2>4. \A i \in 1..Len(q) : i < least => i \notin after
    <3> HIDE DEF least
    <3> QED BY <2>2, <1>1
  <2>5. least \in 1..Len(q) /\ iopl[q[least]].Offset > iopl[r].Offset
    <3> HIDE DEF least
    <3> QED BY <2>2
  <2>6. \A i \in 1..Len(q) : i < least => iopl[q[i]].Offset <= iopl[r].Offset
    <3> HIDE DEF least
    <3> QED BY <2>4, <1>2
  <2> HIDE DEF least, after
  <2> QED BY <1>1, <2>3, <2>5, <2>6
<1> QED BY <1>3, <1>4

\* The queue with the packet at its place.
LEMMA Inserted ==
  ASSUME NEW q \in Seq(Packet), NEW r \in Packet, iopl \in [Packet -> Location]
  PROVE  LET k == Position(q, r)
             n == InsertPacket(q, r) IN
         /\ n \in Seq(Packet) /\ Len(n) = Len(q) + 1
         /\ \A i \in 1..Len(n) : n[i] = IF i < k THEN q[i] ELSE IF i = k THEN r ELSE q[i - 1]
<1> DEFINE k == Position(q, r)
           a == SubSeq(q, 1, k - 1)
           b == SubSeq(q, k, Len(q))
<1>1. /\ k \in 1..(Len(q) + 1) /\ Len(q) \in Nat
      /\ InsertPacket(q, r) = IF k = Len(q) + 1 THEN Append(q, r) ELSE (a \o <<r>>) \o b
  BY PositionFits, LenProperties
<1> HIDE DEF k
<1>2. \A i \in 1..Len(q) : q[i] \in Packet
  BY ElementOfSeq
<1>3. CASE k = Len(q) + 1
  <2>1. InsertPacket(q, r) = Append(q, r)
    BY <1>1, <1>3
  <2> QED BY <1>1, <1>3, <2>1, AppendProperties DEF k
<1>4. CASE k # Len(q) + 1
  <2>1. /\ a \in Seq(Packet) /\ Len(a) = k - 1
        /\ \A i \in 1..(k - 1) : a[i] = q[i]
    <3>1. k - 1 \in Int /\ \A i \in 1..(k - 1) : q[i] \in Packet
      BY <1>1, <1>2
    <3>2. /\ a \in Seq(Packet) /\ Len(a) = IF 1 <= k - 1 THEN k - 1 - 1 + 1 ELSE 0
          /\ \A i \in 1..(k - 1 - 1 + 1) : a[i] = q[1 + i - 1]
      BY <3>1, SubSeqProperties
    <3> HIDE DEF a
    <3> QED BY <1>1, <3>2
  <2>2. /\ b \in Seq(Packet) /\ Len(b) = Len(q) - k + 1
        /\ \A i \in 1..(Len(q) - k + 1) : b[i] = q[k + i - 1]
    <3>1. k \in Int /\ Len(q) \in Int /\ \A i \in k..Len(q) : q[i] \in Packet
      BY <1>1, <1>2
    <3>2. /\ b \in Seq(Packet) /\ Len(b) = IF k <= Len(q) THEN Len(q) - k + 1 ELSE 0
          /\ \A i \in 1..(Len(q) - k + 1) : b[i] = q[k + i - 1]
      BY <3>1, SubSeqProperties
    <3> HIDE DEF b
    <3> QED BY <1>1, <3>2
  <2>3. <<r>> \in Seq(Packet) /\ Len(<<r>>) = 1 /\ <<r>>[1] = r
    OBVIOUS
  <2> DEFINE c == a \o <<r>>
  <2> HIDE DEF a, b
  <2>4. /\ c \in Seq(Packet) /\ Len(c) = k
        /\ \A i \in 1..k : c[i] = IF i <= k - 1 THEN a[i] ELSE <<r>>[i - (k - 1)]
    <3>1. /\ a \o <<r>> \in Seq(Packet)
          /\ Len(a \o <<r>>) = Len(a) + Len(<<r>>)
          /\ \A i \in 1..(Len(a) + Len(<<r>>)) : (a \o <<r>>)[i] =
               IF i <= Len(a) THEN a[i] ELSE <<r>>[i - Len(a)]
      BY <2>1, <2>3, ConcatProperties
    <3>2. Len(a) + Len(<<r>>) = k
      BY <1>1, <2>1, <2>3
    <3> QED BY <3>1, <3>2, <2>1
  <2> HIDE DEF c
  <2>5. /\ c \o b \in Seq(Packet) /\ Len(c \o b) = Len(q) + 1
        /\ \A i \in 1..(Len(q) + 1) : (c \o b)[i] = IF i <= k THEN c[i] ELSE b[i - k]
    <3>1. /\ c \o b \in Seq(Packet)
          /\ Len(c \o b) = Len(c) + Len(b)
          /\ \A i \in 1..(Len(c) + Len(b)) : (c \o b)[i] = IF i <= Len(c) THEN c[i] ELSE b[i - Len(c)]
      BY <2>4, <2>2, ConcatProperties
    <3>2. Len(c) + Len(b) = Len(q) + 1
      BY <1>1, <2>4, <2>2
    <3> QED BY <3>1, <3>2, <2>4
  <2>6. ASSUME NEW i \in 1..(Len(q) + 1)
        PROVE  (c \o b)[i] = IF i < k THEN q[i] ELSE IF i = k THEN r ELSE q[i - 1]
    <3>1. CASE i < k
      <4>1. (c \o b)[i] = a[i] /\ i \in 1..(k - 1)
        BY <3>1, <2>4, <2>5, <1>1
      <4> QED BY <3>1, <4>1, <2>1
    <3>2. CASE i = k
      BY <3>2, <2>3, <2>4, <2>5, <1>1
    <3>3. CASE i > k
      <4>1. (c \o b)[i] = b[i - k] /\ i - k \in 1..(Len(q) - k + 1)
        BY <3>3, <2>5, <1>1
      <4>2. b[i - k] = q[k + (i - k) - 1] /\ k + (i - k) - 1 = i - 1
        BY <4>1, <2>2, <1>1
      <4> QED BY <3>3, <4>1, <4>2, <1>1
    <3>4. i < k \/ i = k \/ i > k
      BY <1>1
    <3> QED BY <3>1, <3>2, <3>3, <3>4
  <2>7. InsertPacket(q, r) = c \o b
    BY <1>1, <1>4 DEF c
  <2> QED BY <2>5, <2>6, <2>7 DEF k
<1> QED BY <1>3, <1>4

-----------------------------------------------------------------------------
(* Types.                                                                  *)

LEMMA InitTyped == Init => TypeOK
<1>1. Identify \in Command /\ NoLocation \in Location /\ Away \in Handler
  BY DEF Identify, Command, NoLocation, Location, Away, Handler
<1>2. <<>> \in Seq(Packet) /\ <<>> \in Seq([lba : Nat, at : Nat])
  OBVIOUS
<1> QED BY <1>1, <1>2 DEF Init, TypeOK

\* What a transfer begins with: the drive, or a place in its queue.
Starts(r) ==
  /\ currentRequest[PortOf(r)] = None
  /\ currentRequest' = [currentRequest EXCEPT ![PortOf(r)] = r]
  /\ stage' = [stage EXCEPT ![r] = "current"]
  /\ command' = [command EXCEPT ![PortOf(r)] = BlockOf(r, iopl[r], PortOf(r))]
  /\ starting' = PortOf(r)
  /\ UNCHANGED requestList
Queues(r) ==
  /\ currentRequest[PortOf(r)] # None
  /\ requestList' = [requestList EXCEPT ![PortOf(r)] = InsertPacket(requestList[PortOf(r)], r)]
  /\ stage' = [stage EXCEPT ![r] = "queued"]
  /\ UNCHANGED <<currentRequest, command, starting>>

LEMMA TransferOutcome ==
  ASSUME TypeOK, InPlace, NEW r \in Packet, PerformTransfer(r)
  PROVE  /\ AtThread /\ stage[r] = "checked" /\ PortOf(r) \in Port /\ iopl[r] \in Location
         /\ requestList[PortOf(r)] \in Seq(Packet)
         /\ UNCHANGED <<phase, pendingCommands, signaled, enqueued, irq, iopl, StatusBlock,
                        PxCI, raising, PxIS, IS, moved>>
         /\ Starts(r) \/ Queues(r)
<1>1. /\ AtThread /\ stage[r] = "checked"
      /\ UNCHANGED <<phase, pendingCommands, signaled, enqueued, irq, iopl, StatusBlock, hbaVars>>
  BY DEF PerformTransfer
<1>2. iopl[r] \in Location /\ PortOf(r) \in Port
  BY <1>1, DiskAssumption DEF TypeOK, InPlace, Known, PortOf
<1>3. Starts(r) \/ Queues(r)
  BY DEF PerformTransfer, StartTransfer, PortOf, Starts, Queues
<1>4. requestList[PortOf(r)] \in Seq(Packet)
  BY <1>2 DEF TypeOK
<1> QED BY <1>1, <1>2, <1>3, <1>4 DEF hbaVars

\* What the DPC goes on with: the thread that identifies the port, the next
\* block, nothing, or the next packet.
Wakes(p) ==
  /\ currentRequest[p] = None
  /\ signaled' = signaled \cup {p}
  /\ UNCHANGED <<currentRequest, requestList, command, starting, stage, iopl>>
Continues(p, r, l) ==
  /\ l.Context < l.Length
  /\ iopl' = [iopl EXCEPT ![r] = l]
  /\ command' = [command EXCEPT ![p] = BlockOf(r, l, p)] /\ starting' = p
  /\ UNCHANGED <<currentRequest, requestList, stage, signaled>>
Rests(p, r, l) ==
  /\ l.Context >= l.Length /\ requestList[p] = <<>>
  /\ iopl' = [iopl EXCEPT ![r] = l]
  /\ currentRequest' = [currentRequest EXCEPT ![p] = None]
  /\ stage' = [stage EXCEPT ![r] = "done"]
  /\ UNCHANGED <<requestList, command, starting, signaled>>
GoesOn(p, r, l, n) ==
  /\ l.Context >= l.Length /\ requestList[p] # <<>>
  /\ iopl' = [iopl EXCEPT ![r] = l]
  /\ currentRequest' = [currentRequest EXCEPT ![p] = n]
  /\ requestList' = [requestList EXCEPT ![p] = Tail(requestList[p])]
  /\ stage' = [stage EXCEPT ![r] = "done", ![n] = "current"]
  /\ command' = [command EXCEPT ![p] = BlockOf(n, iopl[n], p)] /\ starting' = p
  /\ UNCHANGED signaled

LEMMA DPCOutcome ==
  ASSUME TypeOK, NEW p \in Port, AHCIDPCFunction(p)
  PROVE  LET r == currentRequest[p]
             l == Advanced(iopl[r], p)
             n == Head(requestList[p]) IN
         /\ AtDPC /\ p \in enqueued /\ enqueued' = enqueued \ {p}
         /\ UNCHANGED <<phase, pendingCommands, irq, StatusBlock, PxCI, raising, PxIS, IS, moved>>
         /\ \/ Wakes(p)
            \/ /\ r \in Packet /\ l \in Location
               /\ \/ Continues(p, r, l)
                  \/ Rests(p, r, l)
                  \/ GoesOn(p, r, l, n) /\ n \in Packet /\ Tail(requestList[p]) \in Seq(Packet)
<1> DEFINE r == currentRequest[p]
           l == Advanced(iopl[r], p)
           n == Head(requestList[p])
<1>1. /\ AtDPC /\ p \in enqueued /\ enqueued' = enqueued \ {p}
      /\ UNCHANGED <<phase, pendingCommands, irq, StatusBlock, PxCI, raising, PxIS, IS, moved>>
  BY DEF AHCIDPCFunction, hbaVars
<1>2. CASE r = None
  <2>1. Wakes(p)
    BY <1>2, Zenon DEF AHCIDPCFunction, Wakes
  <2> QED BY <1>1, <2>1
<1>3. CASE r # None
  <2>1. r \in Packet
    BY <1>3 DEF TypeOK
  <2>2. l \in Location
    BY <2>1, AdvancedTyped DEF TypeOK
  <2>3. requestList[p] # <<>> => n \in Packet /\ Tail(requestList[p]) \in Seq(Packet)
    BY HeadTailProperties DEF TypeOK
  <2>4. Continues(p, r, l) \/ Rests(p, r, l) \/ GoesOn(p, r, l, n)
    BY <1>3, Zenon DEF AHCIDPCFunction, StartTransfer, Rest, Continues, Rests, GoesOn
  <2>5. GoesOn(p, r, l, n) => requestList[p] # <<>>
    BY Zenon DEF GoesOn
  <2> HIDE DEF r, l, n
  <2> QED BY <1>1, <2>1, <2>2, <2>3, <2>4, <2>5, Zenon DEF r, l, n
<1> QED BY <1>2, <1>3

LEMMA StepTyped ==
  ASSUME TypeOK, InPlace, [Next]_vars
  PROVE  TypeOK'
<1> USE DEF TypeOK
<1>1. ASSUME NEW r \in Packet, NEW c \in Calls[r], AHCIOperation(r, c) PROVE TypeOK'
  <2>1. c \in Request
    BY CallAssumption
  <2>2. UNCHANGED <<portVars, starting, irq, hbaVars>>
    BY <1>1 DEF AHCIOperation
  <2>3. CASE Accepted(c)
    <3>1. /\ stage' = [stage EXCEPT ![r] = "checked"]
          /\ iopl' = [iopl EXCEPT ![r] = Translated(c)]
          /\ StatusBlock' = [StatusBlock EXCEPT ![r] = [Status |-> "SUCCESS", Length |-> Available(c)]]
      BY <1>1, <2>3, Zenon DEF AHCIOperation, Accepted
    <3>2. Translated(c) \in Location /\ Available(c) \in Nat
      BY <2>1, <2>3, AcceptedTyped
    <3> QED BY <2>2, <3>1, <3>2 DEF portVars, hbaVars
  <2>4. CASE ~ Accepted(c)
    <3>1. /\ stage' = [stage EXCEPT ![r] = "done"]
          /\ StatusBlock' = [StatusBlock EXCEPT ![r] =
               [Status |-> Verdict(c), Length |-> IF Verdict(c) = "SUCCESS" THEN 0 ELSE c.length]]
          /\ UNCHANGED iopl
      BY <1>1, <2>4, Zenon DEF AHCIOperation, Accepted
    <3>2. Verdict(c) \in {"SUCCESS", "END_OF_DISK", "UNALIGNED", "FAULT"}
      BY <2>4 DEF Verdict, Accepted
    <3>3. (IF Verdict(c) = "SUCCESS" THEN 0 ELSE c.length) \in Nat
      BY <2>1, CallsTyped
    <3> QED BY <2>2, <3>1, <3>2, <3>3 DEF portVars, hbaVars
  <2> QED BY <2>3, <2>4
<1>2. ASSUME NEW r \in Packet, PerformTransfer(r) PROVE TypeOK'
  <2> DEFINE p == PortOf(r)
  <2>1. /\ p \in Port /\ iopl[r] \in Location /\ requestList[p] \in Seq(Packet)
        /\ UNCHANGED <<phase, pendingCommands, signaled, enqueued, irq, iopl, StatusBlock,
                       PxCI, raising, PxIS, IS, moved>>
        /\ Starts(r) \/ Queues(r)
    BY <1>2, TransferOutcome
  <2>2. BlockOf(r, iopl[r], p) \in Command /\ InsertPacket(requestList[p], r) \in Seq(Packet)
    BY <2>1, BlockTyped, Inserted
  <2>3. CASE Starts(r)
    <3>1. /\ currentRequest' = [currentRequest EXCEPT ![p] = r]
          /\ stage' = [stage EXCEPT ![r] = "current"]
          /\ command' = [command EXCEPT ![p] = BlockOf(r, iopl[r], p)]
          /\ starting' = p /\ UNCHANGED requestList
      BY <2>3, Zenon DEF Starts
    <3>2. /\ UNCHANGED <<phase, pendingCommands, signaled, enqueued, irq, iopl, StatusBlock,
                         PxCI, raising, PxIS, IS, moved>>
          /\ p \in Port
      BY <2>1
    <3> HIDE DEF p
    <3> QED BY <2>2, <3>1, <3>2
  <2>4. CASE Queues(r)
    <3>1. /\ requestList' = [requestList EXCEPT ![p] = InsertPacket(requestList[p], r)]
          /\ stage' = [stage EXCEPT ![r] = "queued"]
          /\ UNCHANGED <<currentRequest, command, starting>>
      BY <2>4, Zenon DEF Queues
    <3>2. /\ UNCHANGED <<phase, pendingCommands, signaled, enqueued, irq, iopl, StatusBlock,
                         PxCI, raising, PxIS, IS, moved>>
          /\ p \in Port
      BY <2>1
    <3> HIDE DEF p
    <3> QED BY <2>2, <3>1, <3>2
  <2> QED BY <2>1, <2>3, <2>4
<1>3. ASSUME NEW p \in Port, AHCIDPCFunction(p) PROVE TypeOK'
  <2> DEFINE r == currentRequest[p]
             l == Advanced(iopl[r], p)
             n == Head(requestList[p])
  <2>1. /\ enqueued' = enqueued \ {p}
        /\ UNCHANGED <<phase, pendingCommands, irq, StatusBlock, PxCI, raising, PxIS, IS, moved>>
    BY <1>3, DPCOutcome
  <2>2. CASE Wakes(p)
    BY <2>1, <2>2 DEF Wakes
  <2>3. CASE ~ Wakes(p)
    <3>1. /\ r \in Packet /\ l \in Location
          /\ \/ Continues(p, r, l)
             \/ Rests(p, r, l)
             \/ GoesOn(p, r, l, n) /\ n \in Packet /\ Tail(requestList[p]) \in Seq(Packet)
      BY <1>3, <2>3, DPCOutcome
    <3>2. BlockOf(r, l, p) \in Command
      BY <3>1, BlockTyped
    <3> HIDE DEF r, l, n
    <3>4. CASE Continues(p, r, l)
      BY <2>1, <3>1, <3>2, <3>4 DEF Continues
    <3>5. CASE Rests(p, r, l)
      BY <2>1, <3>1, <3>5 DEF Rests
    <3>6. CASE GoesOn(p, r, l, n) /\ n \in Packet /\ Tail(requestList[p]) \in Seq(Packet)
      <4>1. BlockOf(n, iopl[n], p) \in Command
        BY <3>6, BlockTyped
      <4> QED BY <2>1, <3>1, <3>6, <4>1 DEF GoesOn
    <3> QED BY <3>1, <3>4, <3>5, <3>6
  <2> QED BY <2>2, <2>3
<1>4. CASE IssueCommand
  BY <1>4 DEF IssueCommand, packetVars
<1>5. ASSUME NEW p \in Port, BeginIdentify(p) PROVE TypeOK'
  <2>1. Identify \in Command
    BY DEF Identify, Command
  <2> QED BY <1>5, <2>1 DEF BeginIdentify, packetVars
<1>6. ASSUME NEW p \in Port, EndIdentify(p) PROVE TypeOK'
  BY <1>6 DEF EndIdentify, packetVars, hbaVars
<1>7. ASSUME NEW p \in Port, Complete(p) PROVE TypeOK'
  <2> DEFINE c == command[p]
  <2>1. UNCHANGED <<portVars, starting, irq, packetVars, PxIS, IS>> /\ PxCI' = PxCI \ {p} /\ raising' = raising \cup {p}
    BY <1>7 DEF Complete
  <2>2. moved' \in [Packet -> Seq([lba : Nat, at : Nat])]
    <3>1. c \in Command
      OBVIOUS
    <3>2. CASE c.packet = None
      BY <1>7, <3>2 DEF Complete
    <3>3. CASE c.packet # None
      <4>1. c.packet \in Packet /\ c.lba \in Nat /\ c.at \in Nat
        BY <3>1, <3>3 DEF Command
      <4>2. moved' = [moved EXCEPT ![c.packet] = Append(@, [lba |-> c.lba, at |-> c.at])]
        BY <1>7, <3>3 DEF Complete
      <4>3. Append(moved[c.packet], [lba |-> c.lba, at |-> c.at]) \in Seq([lba : Nat, at : Nat])
        BY <4>1, AppendProperties
      <4> QED BY <4>1, <4>2, <4>3
    <3> QED BY <3>2, <3>3
  <2> QED BY <2>1, <2>2 DEF portVars, packetVars
<1>8. ASSUME NEW p \in Port, NEW bit \in {"DHR", "ERROR"}, Raise(p, bit) PROVE TypeOK'
  BY <1>8 DEF Raise, portVars, packetVars
<1>9. ASSUME Interrupt PROVE TypeOK'
  <2>1. ASSUME EnterInterrupt PROVE TypeOK'
    BY <2>1 DEF EnterInterrupt, Handler, portVars, packetVars, hbaVars
  <2>2. ASSUME ClearIS PROVE TypeOK'
    <3>1. irq' \in Handler /\ IS' \subseteq Port
      BY <2>2 DEF ClearIS, Handler, StatusWritten
    <3> QED BY <2>2, <3>1 DEF ClearIS, portVars, packetVars
  <2>3. ASSUME ScanPorts PROVE TypeOK'
    <3>1. irq' \in Handler
      BY <2>3 DEF ScanPorts, Handler, Away
    <3> QED BY <2>3, <3>1 DEF ScanPorts, portVars, packetVars, hbaVars
  <2>4. ASSUME ClearPortStatus PROVE TypeOK'
    <3>1. irq' \in Handler
      BY <2>4 DEF ClearPortStatus, Handler
    <3> QED BY <2>4, <3>1 DEF ClearPortStatus, portVars, packetVars
  <2>5. ASSUME ReadIssued PROVE TypeOK'
    <3>1. irq' \in Handler
      BY <2>5 DEF ReadIssued, Handler
    <3>2. irq.port \in Port
      BY <2>5, Zenon DEF ReadIssued, InPlace, HandlerInPlace
    <3>3. \/ UNCHANGED <<pendingCommands, enqueued>>
          \/ /\ pendingCommands' = [pendingCommands EXCEPT ![irq.port] = 0]
             /\ enqueued' = enqueued \cup {irq.port}
      BY <2>5, Zenon DEF ReadIssued
    <3>4. UNCHANGED <<phase, currentRequest, requestList, signaled, command, starting, packetVars, hbaVars>>
      BY <2>5, Zenon DEF ReadIssued
    <3>5. enqueued' \subseteq Port /\ pendingCommands' \in [Port -> 0..1]
      <4> DEFINE q == irq.port
      <4>1. pendingCommands \in [Port -> 0..1] /\ enqueued \subseteq Port /\ q \in Port
        BY <3>2
      <4> HIDE DEF TypeOK, q
      <4>2. \/ pendingCommands' = pendingCommands /\ enqueued' = enqueued
            \/ /\ pendingCommands' = [pendingCommands EXCEPT ![q] = 0]
               /\ enqueued' = enqueued \cup {q}
        BY <3>3, Zenon DEF q
      <4> QED BY <4>1, <4>2
    <3> QED BY <3>1, <3>4, <3>5 DEF packetVars, hbaVars
  <2> QED BY <1>9, <2>1, <2>2, <2>3, <2>4, <2>5 DEF Interrupt
<1>10. CASE UNCHANGED vars
  BY <1>10 DEF vars, portVars, packetVars, hbaVars
<1> QED BY <1>1, <1>2, <1>3, <1>4, <1>5, <1>6, <1>7, <1>8, <1>9, <1>10 DEF Next, Halted

-----------------------------------------------------------------------------
(* One command for each port, and no completion lost.                      *)

LEMMA StepCommands ==
  ASSUME TypeOK, InPlace, OneCommandEach, CommandRight, [Next]_vars
  PROVE  OneCommandEach'
<1> USE DEF OneCommandEach, Busy
<1>1. ASSUME NEW r \in Packet, NEW c \in Calls[r], AHCIOperation(r, c) PROVE OneCommandEach'
  BY <1>1 DEF AHCIOperation, portVars, hbaVars
<1>2. ASSUME NEW r \in Packet, PerformTransfer(r) PROVE OneCommandEach'
  <2> DEFINE p == PortOf(r)
  <2>1. /\ p \in Port /\ stage[r] = "checked"
        /\ UNCHANGED <<phase, pendingCommands, signaled, enqueued, PxCI>>
        /\ (Starts(r) \/ Queues(r)) /\ AtThread
    BY <1>2, TransferOutcome
  <2>2. phase[p] = "ready" /\ starting = None /\ r # None
    BY <2>1, <1>2, PortAssumption DEF InPlace, Known, PerformTransfer, AtThread, AtDPC
  <2>3. CASE Queues(r)
    BY <2>1, <2>3 DEF Queues
  <2>4. CASE Starts(r)
    <3>1. /\ currentRequest[p] = None /\ currentRequest' = [currentRequest EXCEPT ![p] = r]
          /\ starting' = p
      BY <2>4 DEF Starts
    <3> HIDE DEF p
    <3>2. starting # p /\ pendingCommands[p] # 1 /\ p \notin enqueued
      BY <2>1, <2>2, <3>1
    <3>3. currentRequest'[p] = r /\ \A q \in Port : q # p => currentRequest'[q] = currentRequest[q]
      BY <2>1, <3>1 DEF TypeOK
    <3>4. p \notin PxCI
      BY <2>1, <3>2
    <3> HIDE DEF OneCommandEach
    <3> SUFFICES ASSUME NEW q \in Port
                 PROVE  /\ Busy(q)' <=> (starting' = q \/ pendingCommands'[q] = 1 \/ q \in enqueued')
                        /\ pendingCommands'[q] = 1 => starting' # q /\ q \notin enqueued'
                        /\ starting' = q => q \notin enqueued'
                        /\ q \in PxCI' => pendingCommands'[q] = 1
      BY DEF OneCommandEach
    <3>5. CASE q = p
      BY <2>1, <2>2, <3>1, <3>2, <3>3, <3>4, <3>5
    <3>6. CASE q # p
      <4>1. Busy(q)' <=> Busy(q)
        BY <2>1, <3>3, <3>6
      <4> QED BY <2>1, <2>2, <3>1, <3>6, <4>1, PortAssumption DEF OneCommandEach
    <3> QED BY <3>5, <3>6
  <2> QED BY <2>1, <2>3, <2>4
<1>3. ASSUME NEW p \in Port, AHCIDPCFunction(p) PROVE OneCommandEach'
  <2> DEFINE r == currentRequest[p]
             l == Advanced(iopl[r], p)
             n == Head(requestList[p])
  <2>1. /\ AtDPC /\ p \in enqueued /\ enqueued' = enqueued \ {p}
        /\ UNCHANGED <<phase, pendingCommands, PxCI>>
        /\ \/ Wakes(p)
           \/ /\ r \in Packet /\ l \in Location
              /\ \/ Continues(p, r, l)
                 \/ Rests(p, r, l)
                 \/ GoesOn(p, r, l, n) /\ n \in Packet /\ Tail(requestList[p]) \in Seq(Packet)
    BY <1>3, DPCOutcome
  <2>2. starting = None /\ pendingCommands[p] # 1 /\ None \notin Port /\ None \notin Packet
    BY <2>1, PortAssumption DEF AtDPC
  <2>3. CASE Wakes(p)
    BY <2>1, <2>2, <2>3 DEF Wakes, TypeOK
  <2>4. CASE r \in Packet
    <3>1. phase[p] = "ready"
      BY <2>4, <2>2 DEF InPlace, Known, CurrentInPlace
    <3> HIDE DEF l, n
    <3>2. CASE Continues(p, r, l)
      BY <2>1, <2>2, <2>4, <3>2 DEF Continues, TypeOK
    <3>3. CASE Rests(p, r, l)
      <4>1. currentRequest' = [currentRequest EXCEPT ![p] = None] /\ UNCHANGED <<starting, signaled>>
        BY <3>3 DEF Rests
      <4> QED BY <2>1, <2>2, <3>1, <4>1 DEF TypeOK
    <3>4. CASE GoesOn(p, r, l, n) /\ n \in Packet
      <4>1. currentRequest' = [currentRequest EXCEPT ![p] = n] /\ starting' = p /\ UNCHANGED signaled
        BY <3>4 DEF GoesOn
      <4> QED BY <2>1, <2>2, <3>4, <4>1 DEF TypeOK
    <3>5. CASE Wakes(p)
      BY <2>4, <2>2, <3>5 DEF Wakes
    <3> QED BY <2>1, <3>2, <3>3, <3>4, <3>5
  <2> QED BY <2>1, <2>3, <2>4
<1>4. CASE IssueCommand
  <2>1. /\ starting \in Port
        /\ pendingCommands' = [pendingCommands EXCEPT ![starting] = 1]
        /\ PxCI' = PxCI \cup {starting} /\ starting' = None
        /\ UNCHANGED <<phase, currentRequest, signaled, enqueued>>
    BY <1>4 DEF IssueCommand, TypeOK
  <2>2. starting \notin enqueued /\ None \notin Port
    BY <2>1, PortAssumption
  <2> QED BY <2>1, <2>2 DEF TypeOK
<1>5. ASSUME NEW p \in Port, BeginIdentify(p) PROVE OneCommandEach'
  <2>0. phase[p] = "off"
    BY <1>5 DEF BeginIdentify
  <2>1. currentRequest[p] = None /\ ~ Busy(p)
    <3>1. currentRequest[p] \in Packet => stage[currentRequest[p]] = "current"
      BY PortAssumption DEF InPlace, CurrentInPlace
    <3>2. currentRequest[p] \in Packet => phase[p] = "ready"
      BY <3>1 DEF InPlace, Known
    <3> QED BY <2>0, <3>2 DEF TypeOK
  <2> QED BY <1>5, <2>1 DEF BeginIdentify, TypeOK
<1>6. ASSUME NEW p \in Port, EndIdentify(p) PROVE OneCommandEach'
  BY <1>6 DEF EndIdentify, hbaVars, TypeOK
<1>7. ASSUME NEW p \in Port, Complete(p) PROVE OneCommandEach'
  BY <1>7 DEF Complete, portVars
<1>8. ASSUME NEW p \in Port, NEW bit \in {"DHR", "ERROR"}, Raise(p, bit) PROVE OneCommandEach'
  BY <1>8 DEF Raise, portVars
<1>9. ASSUME Interrupt PROVE OneCommandEach'
  <2>1. CASE EnterInterrupt
    BY <2>1 DEF EnterInterrupt, portVars, hbaVars
  <2>2. CASE ClearIS
    BY <2>2 DEF ClearIS, portVars
  <2>3. CASE ScanPorts
    BY <2>3 DEF ScanPorts, portVars, hbaVars
  <2>4. CASE ClearPortStatus
    BY <2>4 DEF ClearPortStatus, portVars
  <2>5. CASE ReadIssued
    <3> DEFINE q == irq.port
    <3>1. UNCHANGED <<phase, currentRequest, signaled, starting, PxCI>>
      BY <2>5, Zenon DEF ReadIssued, hbaVars
    <3>2. \/ UNCHANGED <<pendingCommands, enqueued>>
          \/ /\ q \notin PxCI /\ pendingCommands[q] = 1
             /\ pendingCommands' = [pendingCommands EXCEPT ![q] = 0]
             /\ enqueued' = enqueued \cup {q}
      BY <2>5, Zenon DEF ReadIssued, Completed
    <3>3. q \in Port
      BY <2>5, Zenon DEF ReadIssued, InPlace, HandlerInPlace
    <3> HIDE DEF q
    <3> QED BY <3>1, <3>2, <3>3 DEF TypeOK
  <2> QED BY <1>9, <2>1, <2>2, <2>3, <2>4, <2>5 DEF Interrupt
<1>10. CASE UNCHANGED vars
  BY <1>10 DEF vars, portVars, hbaVars
<1> QED BY <1>1, <1>2, <1>3, <1>4, <1>5, <1>6, <1>7, <1>8, <1>9, <1>10 DEF Next, Halted

LEMMA StepNoticed ==
  ASSUME TypeOK, InPlace, OneCommandEach, CompletionsNoticed, [Next]_vars
  PROVE  CompletionsNoticed'
<1> USE DEF CompletionsNoticed
<1>1. ASSUME NEW r \in Packet, NEW c \in Calls[r], AHCIOperation(r, c) PROVE CompletionsNoticed'
  BY <1>1 DEF AHCIOperation, portVars, hbaVars
<1>2. ASSUME NEW r \in Packet, PerformTransfer(r) PROVE CompletionsNoticed'
  BY <1>2 DEF PerformTransfer, hbaVars
<1>3. ASSUME NEW p \in Port, AHCIDPCFunction(p) PROVE CompletionsNoticed'
  BY <1>3 DEF AHCIDPCFunction, hbaVars
<1>4. CASE IssueCommand
  BY <1>4 DEF IssueCommand, TypeOK
<1>5. ASSUME NEW p \in Port, BeginIdentify(p) PROVE CompletionsNoticed'
  BY <1>5 DEF BeginIdentify, TypeOK
<1>6. ASSUME NEW p \in Port, EndIdentify(p) PROVE CompletionsNoticed'
  BY <1>6 DEF EndIdentify, hbaVars
<1>7. ASSUME NEW p \in Port, Complete(p) PROVE CompletionsNoticed'
  BY <1>7 DEF Complete, portVars
<1>8. ASSUME NEW p \in Port, NEW bit \in {"DHR", "ERROR"}, Raise(p, bit) PROVE CompletionsNoticed'
  BY <1>8 DEF Raise, portVars
<1>9. ASSUME Interrupt PROVE CompletionsNoticed'
  <2>1. CASE EnterInterrupt
    BY <2>1 DEF EnterInterrupt, portVars, hbaVars, TypeOK, Handler
  <2>2. CASE ClearIS
    BY <2>2 DEF ClearIS, portVars, StatusWritten, TypeOK, Handler
  <2>3. CASE ScanPorts
    BY <2>3 DEF ScanPorts, portVars, hbaVars, Away, TypeOK, Handler
  <2>4. CASE ClearPortStatus
    BY <2>4 DEF ClearPortStatus, portVars, TypeOK, Handler
  <2>5. CASE ReadIssued
    <3> DEFINE q == irq.port
    <3>1. UNCHANGED <<PxCI, raising, IS>> /\ irq' = [irq EXCEPT !.at = "scan"] /\ irq.at = "issue"
      BY <2>5, Zenon DEF ReadIssued, hbaVars
    <3>2. \/ UNCHANGED pendingCommands /\ ~Completed(q)
          \/ pendingCommands' = [pendingCommands EXCEPT ![q] = 0]
      BY <2>5, Zenon DEF ReadIssued
    <3>3. q \in Port /\ irq \in Handler /\ pendingCommands \in [Port -> 0..1]
      BY <2>5, Zenon DEF ReadIssued, InPlace, HandlerInPlace, TypeOK
    <3>4. irq'.at = "scan" /\ irq'.ports = irq.ports
      BY <3>1, <3>3 DEF Handler
    <3>5. ASSUME NEW p \in Port, pendingCommands'[p] = 1, p \notin PxCI
          PROVE  p # q /\ pendingCommands[p] = 1
      BY <3>2, <3>3, <3>5 DEF Completed
    <3> HIDE DEF q
    <3>6. ASSUME NEW p \in Port, pendingCommands'[p] = 1, p \notin PxCI
          PROVE  p \in raising \cup IS \/ p \in irq.ports
      BY <3>1, <3>5, <3>6 DEF q
    <3> QED BY <3>1, <3>4, <3>6
  <2> QED BY <1>9, <2>1, <2>2, <2>3, <2>4, <2>5 DEF Interrupt
<1>10. CASE UNCHANGED vars
  BY <1>10 DEF vars, portVars, hbaVars
<1> QED BY <1>1, <1>2, <1>3, <1>4, <1>5, <1>6, <1>7, <1>8, <1>9, <1>10 DEF Next, Halted

-----------------------------------------------------------------------------
(* Every packet is where its stage says, in queues that stay sorted.       *)

LEMMA QueueElements ==
  ASSUME TypeOK
  PROVE  \A p \in Port : /\ Len(requestList[p]) \in Nat
                         /\ \A i \in 1..Len(requestList[p]) : requestList[p][i] \in Packet
  BY LenProperties, ElementOfSeq DEF TypeOK

LEMMA AcceptInPlace ==
  ASSUME TypeOK, InPlace, NEW r \in Packet, NEW c \in Calls[r], AHCIOperation(r, c)
  PROVE  InPlace'
<1>1. c \in Request
  BY CallAssumption
<1>2. /\ stage[r] = "new" /\ \A p \in Port : phase[p] = "ready"
      /\ UNCHANGED <<phase, currentRequest, requestList, irq>>
  BY DEF AHCIOperation, portVars
<1>3. PICK s \in {"checked", "done"} : stage' = [stage EXCEPT ![r] = s]
  BY Zenon DEF AHCIOperation
<1>4. \A q \in Packet : q # r => iopl'[q] = iopl[q] /\ stage'[q] = stage[q]
  <2>1. UNCHANGED iopl \/ iopl' = [iopl EXCEPT ![r] = Translated(c)]
    BY Zenon DEF AHCIOperation
  <2> QED BY <2>1, <1>3 DEF TypeOK
<1>5. stage'[r] = "checked" => iopl'[r].disk \in Disk
  <2>1. CASE Accepted(c)
    <3>1. iopl' = [iopl EXCEPT ![r] = Translated(c)]
      BY <2>1, Zenon DEF AHCIOperation, Accepted
    <3>2. Translated(c).disk = c.disk
      BY <1>1, <2>1, AcceptedTyped
    <3>3. c.disk \in Disk
      BY <1>1, CallsTyped
    <3>4. iopl'[r] = Translated(c)
      BY <3>1, Zenon DEF TypeOK
    <3> QED BY <3>2, <3>3, <3>4
  <2>2. CASE ~ Accepted(c)
    <3>1. stage' = [stage EXCEPT ![r] = "done"]
      BY <2>2, Zenon DEF AHCIOperation, Accepted
    <3> QED BY <3>1 DEF TypeOK
  <2> QED BY <2>1, <2>2
<1>6. stage'[r] \in {"checked", "done"}
  BY <1>3 DEF TypeOK
<1>7. \A q \in Packet : q # r => PortOf(q)' = PortOf(q)
  BY <1>4 DEF PortOf
<1>8. CurrentInPlace'
  <2>1. ASSUME NEW p \in Port, currentRequest[p] # None
        PROVE  stage'[currentRequest[p]] = "current" /\ PortOf(currentRequest[p])' = p
    <3>1. currentRequest[p] \in Packet /\ stage[currentRequest[p]] = "current" /\ PortOf(currentRequest[p]) = p
      BY <2>1 DEF TypeOK, InPlace, CurrentInPlace
    <3>2. currentRequest[p] # r
      BY <3>1, <1>2
    <3>3. PortOf(currentRequest[p])' = DiskPort[iopl'[currentRequest[p]].disk]
      BY <1>2 DEF PortOf
    <3> QED BY <3>1, <3>2, <3>3, <1>4 DEF PortOf
  <2>2. ASSUME NEW q \in Packet, stage'[q] = "current" PROVE currentRequest[PortOf(q)'] = q
    <3>1. q # r
      BY <2>2, <1>6
    <3> QED BY <3>1, <2>2, <1>4, <1>7 DEF InPlace, CurrentInPlace
  <2> QED BY <2>1, <2>2, <1>2 DEF CurrentInPlace
<1>9. QueueInPlace'
  <2>1. \A p \in Port : \A i \in 1..Len(requestList[p]) : requestList[p][i] \in Packet /\ requestList[p][i] # r
    BY <1>2, QueueElements DEF InPlace, QueueInPlace
  <2> QED BY <1>2, <1>4, <1>6, <1>7, <2>1 DEF QueueInPlace, InPlace
<1>10. Sorted'
  <2>1. \A p \in Port : \A i \in 1..Len(requestList[p]) : requestList[p][i] \in Packet /\ requestList[p][i] # r
    BY <1>2, QueueElements DEF InPlace, QueueInPlace
  <2> QED BY <1>2, <1>4, <2>1 DEF Sorted, InPlace
<1>11. Known'
  BY <1>2, <1>4, <1>5, <1>6 DEF Known, InPlace
<1>12. HandlerInPlace'
  BY <1>2 DEF HandlerInPlace, InPlace
<1> QED BY <1>8, <1>9, <1>10, <1>11, <1>12 DEF InPlace

LEMMA StartInPlace ==
  ASSUME TypeOK, InPlace, NEW r \in Packet, PerformTransfer(r), Starts(r)
  PROVE  InPlace'
<1> DEFINE p == PortOf(r)
<1>1. /\ p \in Port /\ stage[r] = "checked" /\ UNCHANGED <<phase, iopl, irq>>
  BY TransferOutcome
<1>2. /\ currentRequest[p] = None /\ currentRequest' = [currentRequest EXCEPT ![p] = r]
      /\ stage' = [stage EXCEPT ![r] = "current"] /\ UNCHANGED requestList
  BY DEF Starts
<1>3. /\ currentRequest'[p] = r /\ \A q \in Port : q # p => currentRequest'[q] = currentRequest[q]
      /\ stage'[r] = "current" /\ \A q \in Packet : q # r => stage'[q] = stage[q]
  BY <1>1, <1>2 DEF TypeOK
<1>4. \A q : PortOf(q)' = PortOf(q)
  BY <1>1 DEF PortOf
<1>5. \A q \in Port : \A i \in 1..Len(requestList[q]) : requestList[q][i] \in Packet /\ requestList[q][i] # r
  BY <1>1, QueueElements DEF InPlace, QueueInPlace
<1>6. iopl[r].disk \in Disk /\ \A q \in Port : phase[q] = "ready"
  BY <1>1 DEF InPlace, Known
<1>7. p = PortOf(r) /\ r # None
  BY PortAssumption
<1> HIDE DEF p
<1>8. CurrentInPlace'
  <2>1. ASSUME NEW q \in Port, currentRequest'[q] # None
        PROVE  stage'[currentRequest'[q]] = "current" /\ PortOf(currentRequest'[q]) = q
    <3>1. CASE q = p
      BY <3>1, <1>3, <1>7
    <3>2. CASE q # p
      <4>1. currentRequest'[q] = currentRequest[q] /\ currentRequest[q] \in Packet
        BY <2>1, <3>2, <1>3 DEF TypeOK
      <4>2. stage[currentRequest[q]] = "current" /\ PortOf(currentRequest[q]) = q
        BY <2>1, <4>1 DEF InPlace, CurrentInPlace
      <4>3. currentRequest[q] # r
        BY <4>2, <1>1
      <4> QED BY <4>1, <4>2, <4>3, <1>3
    <3> QED BY <3>1, <3>2
  <2>2. ASSUME NEW q \in Packet, stage'[q] = "current" PROVE currentRequest'[PortOf(q)] = q
    <3>1. CASE q = r
      BY <3>1, <1>3, <1>7
    <3>2. CASE q # r
      <4>1. stage[q] = "current"
        BY <2>2, <3>2, <1>3
      <4>2. currentRequest[PortOf(q)] = q
        BY <4>1 DEF InPlace, CurrentInPlace
      <4>3. PortOf(q) \in Port
        <5>1. iopl[q].disk \in Disk
          BY <4>1 DEF InPlace, Known
        <5> QED BY <5>1, DiskAssumption DEF PortOf
      <4>4. PortOf(q) # p
        BY <4>2, <1>2, PortAssumption
      <4> QED BY <4>2, <4>3, <4>4, <1>3
    <3> QED BY <3>1, <3>2
  <2> QED BY <2>1, <2>2, <1>4 DEF CurrentInPlace
<1>9. QueueInPlace'
  BY <1>2, <1>3, <1>4, <1>5 DEF QueueInPlace, InPlace
<1>10. Sorted'
  BY <1>1, <1>2 DEF Sorted, InPlace
<1>11. Known'
  BY <1>1, <1>2, <1>3, <1>6, <1>7 DEF Known, InPlace
<1> QED BY <1>1, <1>8, <1>9, <1>10, <1>11 DEF InPlace, HandlerInPlace

LEMMA QueueStaysInPlace ==
  ASSUME TypeOK, InPlace, NEW r \in Packet, PerformTransfer(r), Queues(r)
  PROVE  InPlace'
<1> DEFINE p == PortOf(r)
           q == requestList[p]
           k == Position(q, r)
           s == InsertPacket(q, r)
<1>1. /\ p \in Port /\ stage[r] = "checked" /\ q \in Seq(Packet)
      /\ UNCHANGED <<phase, iopl, irq>>
  BY TransferOutcome
<1>2. /\ currentRequest[p] # None /\ UNCHANGED currentRequest
      /\ requestList' = [requestList EXCEPT ![p] = s]
      /\ stage' = [stage EXCEPT ![r] = "queued"]
  BY Zenon DEF Queues
<1>3. /\ s \in Seq(Packet) /\ Len(s) = Len(q) + 1
      /\ \A i \in 1..Len(s) : s[i] = IF i < k THEN q[i] ELSE IF i = k THEN r ELSE q[i - 1]
  BY <1>1, Inserted DEF TypeOK
<1>4. /\ k \in 1..(Len(q) + 1)
      /\ \A i \in 1..Len(q) : i < k => iopl[q[i]].Offset <= iopl[r].Offset
      /\ k <= Len(q) => iopl[q[k]].Offset > iopl[r].Offset
  BY <1>1, PositionFits DEF TypeOK
<1>5. /\ requestList'[p] = s /\ \A o \in Port : o # p => requestList'[o] = requestList[o]
      /\ stage'[r] = "queued" /\ \A o \in Packet : o # r => stage'[o] = stage[o]
  BY <1>1, <1>2 DEF TypeOK
<1>6. \A o : PortOf(o)' = PortOf(o)
  BY <1>1 DEF PortOf
<1>7. \A o \in Port : /\ Len(requestList[o]) \in Nat
                     /\ \A i \in 1..Len(requestList[o]) : requestList[o][i] \in Packet /\ requestList[o][i] # r
  BY <1>1, QueueElements DEF InPlace, QueueInPlace
<1>8. \A o \in Packet : iopl[o].Offset \in Nat
  BY DEF TypeOK, Location
<1>9. iopl[r].disk \in Disk /\ \A o \in Port : phase[o] = "ready"
  BY <1>1 DEF InPlace, Known
<1>10. p = PortOf(r) /\ q = requestList[p] /\ r # None /\ r \notin {q[i] : i \in 1..Len(q)}
  BY <1>1, <1>7, PortAssumption
<1>11. /\ Len(q) \in Nat /\ \A i \in 1..Len(q) : q[i] \in Packet
       /\ \A i \in 1..Len(q) : stage[q[i]] = "queued" /\ PortOf(q[i]) = p
       /\ \A i, j \in 1..Len(q) : i < j => q[i] # q[j] /\ iopl[q[i]].Offset <= iopl[q[j]].Offset
  BY <1>1, <1>7 DEF InPlace, QueueInPlace, Sorted
<1> HIDE DEF p, q, k, s
<1>12. CurrentInPlace'
  BY <1>1, <1>2, <1>5, <1>6 DEF CurrentInPlace, InPlace, TypeOK
<1>13. QueueInPlace'
  <2>1. ASSUME NEW i \in 1..Len(s) PROVE stage'[s[i]] = "queued" /\ PortOf(s[i]) = p
    <3>1. CASE i < k
      <4>1. s[i] = q[i] /\ i \in 1..Len(q)
        BY <3>1, <1>3, <1>4, <1>11
      <4> QED BY <4>1, <1>5, <1>10, <1>11
    <3>2. CASE i = k
      BY <3>2, <1>3, <1>4, <1>5, <1>10
    <3>3. CASE i > k
      <4>1. s[i] = q[i - 1] /\ i - 1 \in 1..Len(q)
        BY <3>3, <1>3, <1>4, <1>11
      <4> QED BY <4>1, <1>5, <1>10, <1>11
    <3>4. i < k \/ i = k \/ i > k
      BY <1>3, <1>4, <1>11
    <3> QED BY <3>1, <3>2, <3>3, <3>4
  <2>2. ASSUME NEW o \in Packet, stage'[o] = "queued", PortOf(o) = p
        PROVE  \E i \in 1..Len(s) : s[i] = o
    <3>1. CASE o = r
      BY <3>1, <1>3, <1>4, <1>11
    <3>2. CASE o # r
      <4>1. PICK i \in 1..Len(q) : q[i] = o
        BY <2>2, <3>2, <1>5, <1>10 DEF InPlace, QueueInPlace
      <4>2. CASE i < k
        BY <4>1, <4>2, <1>3, <1>4, <1>11
      <4>3. CASE ~ (i < k)
        <5>1. i + 1 \in 1..Len(s) /\ s[i + 1] = q[(i + 1) - 1] /\ (i + 1) - 1 = i
          BY <4>1, <4>3, <1>3, <1>4, <1>11
        <5> QED BY <4>1, <5>1
      <4> QED BY <4>2, <4>3
    <3> QED BY <3>1, <3>2
  <2>3. ASSUME NEW o \in Port, o # p
        PROVE  \A i \in 1..Len(requestList[o]) :
                 stage'[requestList[o][i]] = "queued" /\ PortOf(requestList[o][i]) = o
    BY <2>3, <1>5, <1>7 DEF InPlace, QueueInPlace
  <2>4. ASSUME NEW o \in Packet, stage'[o] = "queued", PortOf(o) # p
        PROVE  \E i \in 1..Len(requestList[PortOf(o)]) : requestList[PortOf(o)][i] = o
    BY <2>4, <1>5, <1>10 DEF InPlace, QueueInPlace
  <2>5. ASSUME NEW o \in Port
        PROVE  \A i \in 1..Len(requestList'[o]) :
                 stage'[requestList'[o][i]] = "queued" /\ PortOf(requestList'[o][i]) = o
    <3>1. CASE o = p
      BY <3>1, <2>1, <1>5
    <3>2. CASE o # p
      BY <3>2, <2>3, <1>5
    <3> QED BY <3>1, <3>2
  <2>6. ASSUME NEW o \in Packet, stage'[o] = "queued"
        PROVE  \E i \in 1..Len(requestList'[PortOf(o)]) : requestList'[PortOf(o)][i] = o
    <3>1. CASE PortOf(o) = p
      BY <3>1, <2>6, <2>2, <1>5, <1>6
    <3>2. CASE PortOf(o) # p
      <4>1. iopl[o].disk \in Disk
        BY <2>6, <1>1, <1>5, <1>9 DEF InPlace, Known
      <4>2. PortOf(o) \in Port
        BY <4>1, DiskAssumption DEF PortOf
      <4> QED BY <3>2, <4>2, <2>6, <2>4, <1>5, <1>6
    <3> QED BY <3>1, <3>2
  <2> QED BY <2>5, <2>6, <1>6 DEF QueueInPlace
<1>14. Sorted'
  <2>1. ASSUME NEW i \in 1..Len(s), NEW j \in 1..Len(s), i < j
        PROVE  s[i] # s[j] /\ iopl[s[i]].Offset <= iopl[s[j]].Offset
    <3>1. i \in Nat /\ j \in Nat /\ k \in Nat
      BY <1>4, <1>11
    <3>2. CASE j < k
      <4>1. s[i] = q[i] /\ s[j] = q[j] /\ i \in 1..Len(q) /\ j \in 1..Len(q)
        BY <2>1, <3>1, <3>2, <1>3, <1>4, <1>11
      <4> QED BY <4>1, <2>1, <1>11
    <3>3. CASE j = k
      <4>1. s[i] = q[i] /\ s[j] = r /\ i \in 1..Len(q) /\ i < k
        BY <2>1, <3>1, <3>3, <1>3, <1>4, <1>11
      <4> QED BY <4>1, <1>4, <1>10
    <3>4. CASE j > k /\ i < k
      <4>1. s[i] = q[i] /\ s[j] = q[j - 1] /\ i \in 1..Len(q) /\ j - 1 \in 1..Len(q) /\ i < j - 1
        BY <2>1, <3>1, <3>4, <1>3, <1>4, <1>11
      <4> QED BY <4>1, <1>11
    <3>5. CASE j > k /\ i = k
      <4>1. s[i] = r /\ s[j] = q[j - 1] /\ k \in 1..Len(q) /\ j - 1 \in 1..Len(q)
        BY <2>1, <3>1, <3>5, <1>3, <1>4, <1>11
      <4>2. iopl[q[k]].Offset > iopl[r].Offset
        BY <4>1, <1>4, <1>11
      <4>3. k = j - 1 \/ (k < j - 1 /\ iopl[q[k]].Offset <= iopl[q[j - 1]].Offset)
        BY <4>1, <3>1, <3>5, <1>11
      <4>4. iopl[q[k]].Offset \in Nat /\ iopl[q[j - 1]].Offset \in Nat /\ iopl[r].Offset \in Nat
        BY <4>1, <1>8, <1>11
      <4>5. iopl[q[k]].Offset <= iopl[q[j - 1]].Offset
        BY <4>3, <4>4
      <4>6. iopl[r].Offset <= iopl[q[j - 1]].Offset
        BY <4>2, <4>4, <4>5
      <4> QED BY <4>1, <4>6, <1>10
    <3>6. CASE i > k
      <4>1. s[i] = q[i - 1] /\ s[j] = q[j - 1] /\ i - 1 \in 1..Len(q) /\ j - 1 \in 1..Len(q) /\ i - 1 < j - 1
        BY <2>1, <3>1, <3>6, <1>3, <1>4, <1>11
      <4> QED BY <4>1, <1>11
    <3>7. j < k \/ j = k \/ (j > k /\ i < k) \/ (j > k /\ i = k) \/ i > k
      BY <3>1
    <3> QED BY <3>2, <3>3, <3>4, <3>5, <3>6, <3>7
  <2>2. ASSUME NEW o \in Port
        PROVE  \A i, j \in 1..Len(requestList'[o]) : i < j =>
                 /\ requestList'[o][i] # requestList'[o][j]
                 /\ iopl'[requestList'[o][i]].Offset <= iopl'[requestList'[o][j]].Offset
    <3>1. CASE o = p
      BY <3>1, <2>1, <1>1, <1>5
    <3>2. CASE o # p
      BY <3>2, <1>1, <1>5 DEF InPlace, Sorted
    <3> QED BY <3>1, <3>2
  <2> QED BY <2>2 DEF Sorted
<1>15. Known'
  BY <1>1, <1>2, <1>5, <1>9 DEF Known, InPlace
<1> QED BY <1>1, <1>12, <1>13, <1>14, <1>15 DEF InPlace, HandlerInPlace

\* To advance a packet moves it to no other port.
LEMMA AdvanceStays ==
  ASSUME TypeOK, NEW p \in Port, NEW r \in Packet,
         iopl' = [iopl EXCEPT ![r] = Advanced(iopl[r], p)]
  PROVE  /\ \A o \in Packet : iopl'[o].disk = iopl[o].disk /\ PortOf(o)' = PortOf(o)
         /\ \A o \in Packet : o # r => iopl'[o] = iopl[o]
         /\ iopl'[r] = Advanced(iopl[r], p)
<1> DEFINE l == Advanced(iopl[r], p)
<1>1. iopl[r] \in Location
  BY DEF TypeOK
<1>2. l.disk = iopl[r].disk
  BY <1>1, AdvancedTyped
<1> HIDE DEF l
<1>3. iopl' = [iopl EXCEPT ![r] = l]
  BY DEF l
<1>4. iopl'[r] = l /\ \A o \in Packet : o # r => iopl'[o] = iopl[o]
  BY <1>3 DEF TypeOK
<1>5. \A o \in Packet : iopl'[o].disk = iopl[o].disk
  BY <1>2, <1>4
<1>6. \A o \in Packet : PortOf(o)' = PortOf(o)
  BY <1>5 DEF PortOf
<1> QED BY <1>4, <1>5, <1>6 DEF l

LEMMA ContinueInPlace ==
  ASSUME TypeOK, InPlace, NEW p \in Port, NEW r \in Packet, r = currentRequest[p],
         Continues(p, r, Advanced(iopl[r], p)), UNCHANGED <<phase, irq>>
  PROVE  InPlace'
<1>1. /\ iopl' = [iopl EXCEPT ![r] = Advanced(iopl[r], p)]
      /\ UNCHANGED <<currentRequest, requestList, stage>>
  BY DEF Continues
<1>2. /\ \A o \in Packet : iopl'[o].disk = iopl[o].disk /\ PortOf(o)' = PortOf(o)
      /\ \A o \in Packet : o # r => iopl'[o] = iopl[o]
  BY <1>1, AdvanceStays
<1>3. stage[r] = "current"
  BY PortAssumption DEF InPlace, CurrentInPlace
<1>4. \A o \in Port : \A i \in 1..Len(requestList[o]) : requestList[o][i] \in Packet /\ requestList[o][i] # r
  BY <1>3, QueueElements DEF InPlace, QueueInPlace
<1>5. CurrentInPlace'
  <2>1. \A o \in Port : currentRequest[o] # None => currentRequest[o] \in Packet
    BY DEF TypeOK
  <2>2. ASSUME NEW o \in Port, currentRequest[o] # None
        PROVE  stage[currentRequest[o]] = "current" /\ PortOf(currentRequest[o])' = o
    <3>1. currentRequest[o] \in Packet /\ PortOf(currentRequest[o]) = o /\ stage[currentRequest[o]] = "current"
      BY <2>1, <2>2 DEF InPlace, CurrentInPlace
    <3>2. iopl'[currentRequest[o]].disk = iopl[currentRequest[o]].disk
      BY <3>1, <1>2
    <3> QED BY <3>1, <3>2, <1>1 DEF PortOf
  <2>3. ASSUME NEW o \in Packet, stage[o] = "current" PROVE currentRequest[PortOf(o)'] = o
    BY <2>3, <1>2 DEF InPlace, CurrentInPlace
  <2> QED BY <2>2, <2>3, <1>1 DEF CurrentInPlace
<1>6. QueueInPlace'
  <2>1. ASSUME NEW o \in Port, NEW i \in 1..Len(requestList[o])
        PROVE  stage[requestList[o][i]] = "queued" /\ PortOf(requestList[o][i])' = o
    <3>1. /\ requestList[o][i] \in Packet /\ PortOf(requestList[o][i]) = o
          /\ stage[requestList[o][i]] = "queued"
      BY <1>4 DEF InPlace, QueueInPlace
    <3>2. iopl'[requestList[o][i]].disk = iopl[requestList[o][i]].disk
      BY <3>1, <1>2
    <3> QED BY <3>1, <3>2, <1>1 DEF PortOf
  <2>2. ASSUME NEW o \in Packet, stage[o] = "queued"
        PROVE  \E i \in 1..Len(requestList[PortOf(o)']) : requestList[PortOf(o)'][i] = o
    BY <2>2, <1>2 DEF InPlace, QueueInPlace
  <2> QED BY <2>1, <2>2, <1>1 DEF QueueInPlace
<1>7. Sorted'
  <2>1. \A o \in Port : \A i \in 1..Len(requestList[o]) : iopl'[requestList[o][i]] = iopl[requestList[o][i]]
    BY <1>2, <1>4
  <2> QED BY <1>1, <2>1 DEF InPlace, Sorted
<1>8. Known'
  BY <1>1, <1>2, <1>3 DEF InPlace, Known
<1> QED BY <1>5, <1>6, <1>7, <1>8 DEF InPlace, HandlerInPlace

LEMMA RestInPlace ==
  ASSUME TypeOK, InPlace, NEW p \in Port, NEW r \in Packet, r = currentRequest[p],
         Rests(p, r, Advanced(iopl[r], p)), UNCHANGED <<phase, irq>>
  PROVE  InPlace'
<1>1. /\ iopl' = [iopl EXCEPT ![r] = Advanced(iopl[r], p)]
      /\ currentRequest' = [currentRequest EXCEPT ![p] = None]
      /\ stage' = [stage EXCEPT ![r] = "done"]
      /\ requestList[p] = <<>> /\ UNCHANGED requestList
  BY DEF Rests
<1>2. /\ \A o \in Packet : iopl'[o].disk = iopl[o].disk /\ PortOf(o)' = PortOf(o)
      /\ \A o \in Packet : o # r => iopl'[o] = iopl[o]
  BY <1>1, AdvanceStays
<1>3. /\ currentRequest'[p] = None /\ \A o \in Port : o # p => currentRequest'[o] = currentRequest[o]
      /\ stage'[r] = "done" /\ \A o \in Packet : o # r => stage'[o] = stage[o]
  BY <1>1 DEF TypeOK
<1>4. stage[r] = "current" /\ PortOf(r) = p
  BY PortAssumption DEF InPlace, CurrentInPlace
<1>5. \A o \in Port : \A i \in 1..Len(requestList[o]) : requestList[o][i] \in Packet /\ requestList[o][i] # r
  BY <1>4, QueueElements DEF InPlace, QueueInPlace
<1>6. \A o \in Packet : stage[o] \in {"current", "queued"} => PortOf(o) \in Port
  BY DiskAssumption DEF InPlace, Known, PortOf
<1>7. CurrentInPlace'
  <2>1. ASSUME NEW o \in Port, currentRequest'[o] # None
        PROVE  stage'[currentRequest'[o]] = "current" /\ DiskPort[iopl'[currentRequest'[o]].disk] = o
    <3>1. o # p /\ currentRequest'[o] = currentRequest[o] /\ currentRequest[o] \in Packet
      BY <2>1, <1>3 DEF TypeOK
    <3>2. stage[currentRequest[o]] = "current" /\ PortOf(currentRequest[o]) = o
      BY <2>1, <3>1 DEF InPlace, CurrentInPlace
    <3>3. currentRequest[o] # r
      BY <3>1, <3>2, <1>4
    <3> QED BY <3>1, <3>2, <3>3, <1>2, <1>3 DEF PortOf
  <2>2. ASSUME NEW o \in Packet, stage'[o] = "current" PROVE currentRequest'[PortOf(o)'] = o
    <3>1. o # r /\ stage[o] = "current"
      BY <2>2, <1>3
    <3>2. currentRequest[PortOf(o)] = o /\ PortOf(o) \in Port
      BY <3>1, <1>6 DEF InPlace, CurrentInPlace
    <3>3. PortOf(o) # p
      BY <3>1, <3>2
    <3> QED BY <3>2, <3>3, <1>2, <1>3
  <2> QED BY <2>1, <2>2 DEF CurrentInPlace, PortOf
<1>8. QueueInPlace'
  <2>1. ASSUME NEW o \in Port, NEW i \in 1..Len(requestList[o])
        PROVE  stage'[requestList[o][i]] = "queued" /\ DiskPort[iopl'[requestList[o][i]].disk] = o
    <3>1. /\ requestList[o][i] \in Packet /\ PortOf(requestList[o][i]) = o
          /\ stage[requestList[o][i]] = "queued" /\ requestList[o][i] # r
      BY <1>5 DEF InPlace, QueueInPlace
    <3> QED BY <3>1, <1>2, <1>3 DEF PortOf
  <2>2. ASSUME NEW o \in Packet, stage'[o] = "queued"
        PROVE  \E i \in 1..Len(requestList[PortOf(o)']) : requestList[PortOf(o)'][i] = o
    <3>1. o # r /\ stage[o] = "queued"
      BY <2>2, <1>3
    <3> QED BY <3>1, <1>2 DEF InPlace, QueueInPlace
  <2> QED BY <2>1, <2>2, <1>1 DEF QueueInPlace, PortOf
<1>9. Sorted'
  <2>1. \A o \in Port : \A i \in 1..Len(requestList[o]) : iopl'[requestList[o][i]] = iopl[requestList[o][i]]
    BY <1>2, <1>5
  <2> QED BY <1>1, <2>1 DEF InPlace, Sorted
<1>10. Known'
  <2>1. \A o \in Packet : o # r => iopl'[o] = iopl[o] /\ stage'[o] = stage[o]
    BY <1>2, <1>3
  <2>2. \A o \in Port : phase[o] = "ready"
    BY <1>4 DEF InPlace, Known
  <2> QED BY <1>1, <1>3, <2>1, <2>2 DEF InPlace, Known
<1> QED BY <1>7, <1>8, <1>9, <1>10 DEF InPlace, HandlerInPlace

LEMMA GoOnInPlace ==
  ASSUME TypeOK, InPlace, NEW p \in Port, NEW r \in Packet, r = currentRequest[p], NEW n \in Packet,
         n = Head(requestList[p]),
         GoesOn(p, r, Advanced(iopl[r], p), n), UNCHANGED <<phase, irq>>
  PROVE  InPlace'
<1> DEFINE q == requestList[p]
           t == Tail(q)
<1>1. /\ iopl' = [iopl EXCEPT ![r] = Advanced(iopl[r], p)]
      /\ currentRequest' = [currentRequest EXCEPT ![p] = n]
      /\ stage' = [stage EXCEPT ![r] = "done", ![n] = "current"]
      /\ q # <<>> /\ requestList' = [requestList EXCEPT ![p] = t]
  BY DEF GoesOn
<1>2. /\ \A o \in Packet : iopl'[o].disk = iopl[o].disk /\ PortOf(o)' = PortOf(o)
      /\ \A o \in Packet : o # r => iopl'[o] = iopl[o]
  BY <1>1, AdvanceStays
<1>3. stage[r] = "current" /\ PortOf(r) = p
  BY PortAssumption DEF InPlace, CurrentInPlace
<1>4. /\ t \in Seq(Packet) /\ Len(t) = Len(q) - 1 /\ n = q[1] /\ Len(q) \in Nat /\ Len(q) >= 1
      /\ \A i \in 1..Len(t) : t[i] = q[i + 1]
  BY <1>1, HeadTailProperties, EmptySeq, LenProperties DEF TypeOK
<1>5. \A o \in Port : \A i \in 1..Len(requestList[o]) :
        /\ requestList[o][i] \in Packet /\ requestList[o][i] # r
        /\ stage[requestList[o][i]] = "queued" /\ PortOf(requestList[o][i]) = o
  BY <1>3, QueueElements DEF InPlace, QueueInPlace
<1>6. stage[n] = "queued" /\ n # r /\ PortOf(n) = p
  BY <1>4, <1>5
<1>7. \A i, j \in 1..Len(q) : i < j => q[i] # q[j] /\ iopl[q[i]].Offset <= iopl[q[j]].Offset
  BY DEF InPlace, Sorted
<1>8. \A i \in 1..Len(q) : q[i] \in Packet /\ q[i] # r /\ stage[q[i]] = "queued" /\ PortOf(q[i]) = p
  BY <1>5
<1>9. requestList'[p] = t /\ \A o \in Port : o # p => requestList'[o] = requestList[o]
  BY <1>1 DEF TypeOK
<1> HIDE DEF t, q
<1>10. /\ currentRequest'[p] = n /\ \A o \in Port : o # p => currentRequest'[o] = currentRequest[o]
       /\ stage'[r] = "done" /\ stage'[n] = "current"
       /\ \A o \in Packet : o # r /\ o # n => stage'[o] = stage[o]
  BY <1>1, <1>6 DEF TypeOK
<1>11. \A i \in 1..Len(t) : i + 1 \in 1..Len(q) /\ t[i] = q[i + 1] /\ q[i + 1] # n
  <2>1. \A i \in 1..Len(t) : i + 1 \in 1..Len(q) /\ t[i] = q[i + 1] /\ 1 < i + 1 /\ 1 \in 1..Len(q)
    BY <1>4
  <2> QED BY <2>1, <1>4, <1>7
<1>12. \A o \in Packet : stage[o] \in {"current", "queued"} => PortOf(o) \in Port
  BY DiskAssumption DEF InPlace, Known, PortOf
<1>13. CurrentInPlace'
  <2>1. ASSUME NEW o \in Port, currentRequest'[o] # None
        PROVE  stage'[currentRequest'[o]] = "current" /\ DiskPort[iopl'[currentRequest'[o]].disk] = o
    <3>1. CASE o = p
      BY <3>1, <1>2, <1>6, <1>10 DEF PortOf
    <3>2. CASE o # p
      <4>1. currentRequest'[o] = currentRequest[o] /\ currentRequest[o] \in Packet
        BY <2>1, <3>2, <1>10 DEF TypeOK
      <4>2. stage[currentRequest[o]] = "current" /\ PortOf(currentRequest[o]) = o
        BY <2>1, <4>1 DEF InPlace, CurrentInPlace
      <4>3. currentRequest[o] # r /\ currentRequest[o] # n
        BY <3>2, <4>2, <1>3, <1>6
      <4> QED BY <4>1, <4>2, <4>3, <1>2, <1>10 DEF PortOf
    <3> QED BY <3>1, <3>2
  <2>2. ASSUME NEW o \in Packet, stage'[o] = "current" PROVE currentRequest'[PortOf(o)'] = o
    <3>1. CASE o = n
      BY <3>1, <1>2, <1>6, <1>10
    <3>2. CASE o # n
      <4>1. o # r /\ stage[o] = "current"
        BY <2>2, <3>2, <1>10
      <4>2. currentRequest[PortOf(o)] = o /\ PortOf(o) \in Port
        BY <4>1, <1>12 DEF InPlace, CurrentInPlace
      <4>3. PortOf(o) # p
        BY <4>1, <4>2
      <4> QED BY <4>2, <4>3, <1>2, <1>10
    <3> QED BY <3>1, <3>2
  <2> QED BY <2>1, <2>2 DEF CurrentInPlace, PortOf
<1>14. QueueInPlace'
  <2>1. ASSUME NEW o \in Port, NEW i \in 1..Len(requestList'[o])
        PROVE  stage'[requestList'[o][i]] = "queued" /\ DiskPort[iopl'[requestList'[o][i]].disk] = o
    <3>1. CASE o = p
      <4>1. requestList'[o][i] = t[i] /\ i \in 1..Len(t)
        BY <2>1, <3>1, <1>9
      <4>2. /\ t[i] \in Packet /\ t[i] # r /\ t[i] # n /\ stage[t[i]] = "queued" /\ PortOf(t[i]) = p
        BY <4>1, <1>8, <1>11
      <4> QED BY <3>1, <4>1, <4>2, <1>2, <1>10 DEF PortOf
    <3>2. CASE o # p
      <4>1. requestList'[o] = requestList[o]
        BY <3>2, <1>9
      <4>2. /\ requestList[o][i] \in Packet /\ PortOf(requestList[o][i]) = o
            /\ stage[requestList[o][i]] = "queued" /\ requestList[o][i] # r
        BY <2>1, <4>1, <1>5
      <4>3. requestList[o][i] # n
        BY <3>2, <4>2, <1>6
      <4> QED BY <4>1, <4>2, <4>3, <1>2, <1>10 DEF PortOf
    <3> QED BY <3>1, <3>2
  <2>2. ASSUME NEW o \in Packet, stage'[o] = "queued"
        PROVE  \E i \in 1..Len(requestList'[PortOf(o)']) : requestList'[PortOf(o)'][i] = o
    <3>1. o # r /\ o # n /\ stage[o] = "queued" /\ PortOf(o) \in Port /\ PortOf(o)' = PortOf(o)
      BY <2>2, <1>2, <1>10, <1>12
    <3>2. PICK i \in 1..Len(requestList[PortOf(o)]) : requestList[PortOf(o)][i] = o
      BY <3>1 DEF InPlace, QueueInPlace
    <3>3. CASE PortOf(o) = p
      <4>1. i \in 1..Len(q) /\ q[i] = o
        BY <3>2, <3>3 DEF q
      <4>2. i # 1
        BY <4>1, <3>1, <1>4
      <4>3. i - 1 \in 1..Len(t) /\ (i - 1) + 1 = i
        BY <4>1, <4>2, <1>4
      <4>4. t[i - 1] = o
        BY <4>1, <4>3, <1>4
      <4> QED BY <3>1, <3>3, <4>3, <4>4, <1>9
    <3>4. CASE PortOf(o) # p
      BY <3>1, <3>2, <3>4, <1>9
    <3> QED BY <3>3, <3>4
  <2> QED BY <2>1, <2>2 DEF QueueInPlace, PortOf
<1>15. Sorted'
  <2>1. ASSUME NEW i \in 1..Len(t), NEW j \in 1..Len(t), i < j
        PROVE  t[i] # t[j] /\ iopl'[t[i]].Offset <= iopl'[t[j]].Offset
    <3>1. /\ t[i] = q[i + 1] /\ t[j] = q[j + 1] /\ i + 1 \in 1..Len(q) /\ j + 1 \in 1..Len(q)
          /\ i + 1 < j + 1
      BY <2>1, <1>11, <1>4
    <3>2. iopl'[q[i + 1]] = iopl[q[i + 1]] /\ iopl'[q[j + 1]] = iopl[q[j + 1]]
      BY <3>1, <1>2, <1>8
    <3> QED BY <3>1, <3>2, <1>7
  <2>2. ASSUME NEW o \in Port
        PROVE  \A i, j \in 1..Len(requestList'[o]) : i < j =>
                 /\ requestList'[o][i] # requestList'[o][j]
                 /\ iopl'[requestList'[o][i]].Offset <= iopl'[requestList'[o][j]].Offset
    <3>1. CASE o = p
      BY <3>1, <2>1, <1>9
    <3>2. CASE o # p
      <4>1. \A i \in 1..Len(requestList[o]) : iopl'[requestList[o][i]] = iopl[requestList[o][i]]
        BY <1>2, <1>5
      <4> QED BY <3>2, <4>1, <1>9 DEF InPlace, Sorted
    <3> QED BY <3>1, <3>2
  <2> QED BY <2>2 DEF Sorted
<1>16. Known'
  <2>1. \A o \in Port : phase[o] = "ready"
    BY <1>3 DEF InPlace, Known
  <2>2. iopl[n].disk \in Disk
    BY <1>6 DEF InPlace, Known
  <2>3. ASSUME NEW o \in Packet
        PROVE  /\ stage'[o] \in {"checked", "queued", "current"} => iopl'[o].disk \in Disk
               /\ stage'[o] = "new" => iopl'[o] = NoLocation
    <3>1. CASE o = r
      BY <3>1, <1>10
    <3>2. CASE o = n
      BY <3>2, <2>2, <1>2, <1>10
    <3>3. CASE o # r /\ o # n
      <4>1. stage'[o] = stage[o] /\ iopl'[o] = iopl[o]
        BY <3>3, <1>2, <1>10
      <4> QED BY <4>1 DEF InPlace, Known
    <3> QED BY <3>1, <3>2, <3>3
  <2>4. ASSUME NEW o \in Port, currentRequest'[o] = None PROVE requestList'[o] = <<>>
    <3>1. o # p
      BY <2>4, <1>10, PortAssumption
    <3> QED BY <2>4, <3>1, <1>9, <1>10 DEF InPlace, Known
  <2> QED BY <2>1, <2>3, <2>4 DEF Known
<1> QED BY <1>13, <1>14, <1>15, <1>16 DEF InPlace, HandlerInPlace

\* What changes neither packets nor queues keeps everything in place.
LEMMA FrameInPlace ==
  ASSUME InPlace, UNCHANGED <<currentRequest, requestList, stage, iopl>>,
         \A p \in Port : phase[p] = "ready" => phase'[p] = "ready",
         HandlerInPlace'
  PROVE  InPlace'
<1>1. \A o : PortOf(o)' = PortOf(o)
  BY DEF PortOf
<1> QED BY <1>1 DEF InPlace, CurrentInPlace, QueueInPlace, Sorted, Known

LEMMA StepInPlace ==
  ASSUME TypeOK, InPlace, [Next]_vars
  PROVE  InPlace'
<1>1. ASSUME NEW r \in Packet, NEW c \in Calls[r], AHCIOperation(r, c) PROVE InPlace'
  BY <1>1, AcceptInPlace
<1>2. ASSUME NEW r \in Packet, PerformTransfer(r) PROVE InPlace'
  BY <1>2, TransferOutcome, StartInPlace, QueueStaysInPlace
<1>3. ASSUME NEW p \in Port, AHCIDPCFunction(p) PROVE InPlace'
  <2> DEFINE r == currentRequest[p]
             l == Advanced(iopl[r], p)
             n == Head(requestList[p])
  <2>1. /\ UNCHANGED <<phase, irq>>
        /\ \/ Wakes(p)
           \/ /\ r \in Packet
              /\ \/ Continues(p, r, l)
                 \/ Rests(p, r, l)
                 \/ GoesOn(p, r, l, n) /\ n \in Packet
    BY <1>3, DPCOutcome
  <2>2. CASE Wakes(p)
    BY <2>1, <2>2, FrameInPlace DEF Wakes, InPlace, HandlerInPlace
  <2>3. CASE r \in Packet /\ Continues(p, r, l)
    BY <2>1, <2>3, ContinueInPlace
  <2>4. CASE r \in Packet /\ Rests(p, r, l)
    BY <2>1, <2>4, RestInPlace
  <2>5. CASE r \in Packet /\ GoesOn(p, r, l, n) /\ n \in Packet
    BY <2>1, <2>5, GoOnInPlace
  <2> QED BY <2>1, <2>2, <2>3, <2>4, <2>5
<1>4. CASE IssueCommand
  BY <1>4, FrameInPlace DEF IssueCommand, packetVars, InPlace, HandlerInPlace
<1>5. ASSUME NEW p \in Port, BeginIdentify(p) PROVE InPlace'
  <2>1. /\ UNCHANGED <<currentRequest, requestList, stage, iopl, irq>>
        /\ phase[p] = "off" /\ phase' = [phase EXCEPT ![p] = "identify"]
    BY <1>5 DEF BeginIdentify, packetVars
  <2> QED BY <2>1, FrameInPlace DEF TypeOK, InPlace, HandlerInPlace
<1>6. ASSUME NEW p \in Port, EndIdentify(p) PROVE InPlace'
  <2>1. /\ UNCHANGED <<currentRequest, requestList, stage, iopl, irq>>
        /\ phase' = [phase EXCEPT ![p] = "ready"]
    BY <1>6 DEF EndIdentify, packetVars
  <2> QED BY <2>1, FrameInPlace DEF TypeOK, InPlace, HandlerInPlace
<1>7. ASSUME NEW p \in Port, Complete(p) PROVE InPlace'
  BY <1>7, FrameInPlace DEF Complete, portVars, packetVars, InPlace, HandlerInPlace
<1>8. ASSUME NEW p \in Port, NEW bit \in {"DHR", "ERROR"}, Raise(p, bit) PROVE InPlace'
  BY <1>8, FrameInPlace DEF Raise, portVars, packetVars, InPlace, HandlerInPlace
<1>9. ASSUME Interrupt PROVE InPlace'
  <2>1. CASE EnterInterrupt
    BY <2>1, FrameInPlace DEF EnterInterrupt, portVars, packetVars, HandlerInPlace, TypeOK, Handler
  <2>2. CASE ClearIS
    BY <2>2, FrameInPlace DEF ClearIS, portVars, packetVars, HandlerInPlace, TypeOK, Handler
  <2>3. CASE ScanPorts
    BY <2>3, FrameInPlace DEF ScanPorts, portVars, packetVars, HandlerInPlace, Away, TypeOK, Handler
  <2>4. CASE ClearPortStatus
    BY <2>4, FrameInPlace DEF ClearPortStatus, portVars, packetVars, InPlace, HandlerInPlace, TypeOK, Handler
  <2>5. CASE ReadIssued
    <3>1. UNCHANGED <<phase, currentRequest, requestList, stage, iopl>> /\ irq' = [irq EXCEPT !.at = "scan"]
      BY <2>5 DEF ReadIssued, packetVars
    <3> QED BY <3>1, FrameInPlace DEF HandlerInPlace, TypeOK, Handler
  <2> QED BY <1>9, <2>1, <2>2, <2>3, <2>4, <2>5 DEF Interrupt
<1>10. CASE UNCHANGED vars
  BY <1>10, FrameInPlace DEF vars, portVars, packetVars, InPlace, HandlerInPlace
<1> QED BY <1>1, <1>2, <1>3, <1>4, <1>5, <1>6, <1>7, <1>8, <1>9, <1>10 DEF Next, Halted

-----------------------------------------------------------------------------
(* Every packet is as far as its stage says.                               *)

\* A packet nothing is done to stays right, as long as its port does not
\* begin or end a command for it.
LEMMA PacketFrame ==
  ASSUME NEW o \in Packet, PacketRight(o),
         iopl'[o] = iopl[o], moved'[o] = moved[o], stage'[o] = stage[o], StatusBlock'[o] = StatusBlock[o],
         stage[o] = "current" => (Executed(PortOf(o)) <=> PortOf(o) \notin PxCI' /\ starting' # PortOf(o))
  PROVE  PacketRight(o)'
<1>1. PortOf(o)' = PortOf(o) /\ Size(o)' = Size(o) /\ Origin(o)' = Origin(o)
  BY DEF PortOf, Size, Origin
<1>2. OnDrive(o)' /\ Waits(o)' /\ Ended(o)' /\ InOrder(o)' /\ Told(o)'
  BY <1>1 DEF PacketRight, OnDrive, Waits, Ended, InOrder, Told
<1>3. Works(o)'
  BY <1>1 DEF PacketRight, Works, Executed
<1> QED BY <1>2, <1>3 DEF PacketRight

LEMMA SizeTyped ==
  ASSUME TypeOK, NEW o \in Packet, iopl[o].disk \in Disk
  PROVE  PortOf(o) \in Port /\ Size(o) \in Nat \ {0}
  BY DiskAssumption DEF PortOf, Size

LEMMA AcceptProgress ==
  ASSUME TypeOK, Progress, NEW r \in Packet, NEW c \in Calls[r], AHCIOperation(r, c), InPlace
  PROVE  Progress'
<1>1. c \in Request /\ None \notin Disk
  BY CallAssumption, PortAssumption
<1>2. stage[r] = "new" /\ UNCHANGED <<currentRequest, command, starting, PxCI, moved>>
  BY DEF AHCIOperation, portVars, hbaVars
<1>3. moved[r] = <<>> /\ iopl[r] = NoLocation
  BY <1>2 DEF Progress, PacketRight, Waits, InPlace, Known
<1>4. CASE Accepted(c)
  <2>1. /\ stage' = [stage EXCEPT ![r] = "checked"] /\ iopl' = [iopl EXCEPT ![r] = Translated(c)]
        /\ StatusBlock' = [StatusBlock EXCEPT ![r] = [Status |-> "SUCCESS", Length |-> Available(c)]]
    BY <1>4, Zenon DEF AHCIOperation, Accepted
  <2> DEFINE l == Translated(c)
             a == Available(c)
             t == BlockSize[DiskPort[c.disk]]
             b == BlockOffset[c.disk]
             m == Blocks[c.disk]
  <2>2. /\ l.disk = c.disk /\ l.Context = 0 /\ l.Length = a /\ l.Offset = c.offset + b * t
        /\ a \in Nat \ {0} /\ a % t = 0 /\ c.offset % t = 0 /\ c.offset + a <= Bytes(c.disk)
    BY <1>1, <1>4, AcceptedTyped
  <2>3. /\ c.disk \in Disk /\ c.offset \in Nat /\ t \in Nat \ {0} /\ b \in Nat /\ m \in Nat
        /\ Bytes(c.disk) = m * t
    BY <1>1, CallsTyped, DiskAssumption DEF Bytes
  <2>4. /\ iopl'[r] = l /\ stage'[r] = "checked"
        /\ StatusBlock'[r] = [Status |-> "SUCCESS", Length |-> a]
        /\ \A o \in Packet : o # r => iopl'[o] = iopl[o] /\ stage'[o] = stage[o] /\ StatusBlock'[o] = StatusBlock[o]
    BY <2>1 DEF TypeOK
  <2>5. Size(r)' = t /\ Origin(r)' = l.Offset - l.Context
    BY <2>2, <2>4 DEF Size, PortOf, Origin
  <2> HIDE DEF l, a, t, b, m
  <2>6. (c.offset + b * t) % t = 0
    <3>1. PICK k \in Nat : c.offset = k * t
      BY <2>2, <2>3, Multiples
    <3>2. c.offset + b * t = (k + b) * t /\ k + b \in Nat
      BY <3>1, <2>3
    <3> QED BY <3>2, <2>3, WholeBlocks
  <2>7. b * t \in Nat /\ m * t \in Nat /\ (b + m) * t = b * t + m * t
    BY <2>3
  <2>8. Origin(r)' = c.offset + b * t
    BY <2>2, <2>3, <2>5, <2>7
  <2>9. OnDrive(r)'
    <3> DEFINE bt == b * t
               mt == m * t
    <3> HIDE DEF bt, mt
    <3>1. /\ Origin(r)' = c.offset + bt /\ (b + m) * t = bt + mt /\ l.Offset = c.offset + bt
          /\ bt \in Nat /\ mt \in Nat /\ c.offset + a <= mt
      BY <2>2, <2>3, <2>7, <2>8 DEF bt, mt
    <3>2. /\ l.Context <= l.Offset /\ l.Length % t = 0 /\ l.Length > 0
      BY <2>2, <2>3, <3>1
    <3>3. Origin(r)' >= bt /\ Origin(r)' + l.Length <= (b + m) * t
      BY <2>2, <2>3, <3>1
    <3>4. Origin(r)' % t = 0
      BY <2>6, <2>8
    <3>5. BlockOffset[iopl'[r].disk] = b /\ Blocks[iopl'[r].disk] = m
      BY <2>2, <2>4 DEF b, m
    <3>6. bt = BlockOffset[iopl'[r].disk] * Size(r)'
          /\ (b + m) * t = (BlockOffset[iopl'[r].disk] + Blocks[iopl'[r].disk]) * Size(r)'
      BY <2>5, <3>5 DEF bt
    <3> QED BY <2>4, <2>5, <3>2, <3>3, <3>4, <3>6 DEF OnDrive
  <2>10. PacketRight(r)'
    <3>1. Waits(r)' /\ InOrder(r)'
      BY <1>2, <1>3, <2>2, <2>4 DEF Waits, InOrder
    <3>2. Works(r)' /\ Ended(r)'
      BY <2>4 DEF Works, Ended
    <3>3. Told(r)'
      BY <2>2, <2>3, <2>4 DEF Told
    <3> QED BY <2>9, <3>1, <3>2, <3>3 DEF PacketRight
  <2>11. \A o \in Packet : o # r => PacketRight(o)'
    BY <1>2, <2>4, PacketFrame DEF Progress, Executed
  <2>12. CommandRight'
    <3>1. \A q \in Port : currentRequest[q] # None => currentRequest[q] # r
      BY <1>2 DEF InPlace, CurrentInPlace
    <3>2. \A q \in Port : currentRequest[q] # None => iopl'[currentRequest[q]] = iopl[currentRequest[q]]
      BY <3>1, <2>4 DEF TypeOK
    <3> QED BY <1>2, <3>2 DEF Progress, CommandRight, BlockOf
  <2> QED BY <2>10, <2>11, <2>12 DEF Progress
<1>5. CASE ~ Accepted(c)
  <2>1. /\ stage' = [stage EXCEPT ![r] = "done"] /\ UNCHANGED iopl
        /\ StatusBlock' = [StatusBlock EXCEPT ![r] =
             [Status |-> Verdict(c), Length |-> IF Verdict(c) = "SUCCESS" THEN 0 ELSE c.length]]
    BY <1>5, Zenon DEF AHCIOperation, Accepted
  <2>2. /\ stage'[r] = "done" /\ \A o \in Packet : o # r => stage'[o] = stage[o]
        /\ \A o \in Packet : o # r => StatusBlock'[o] = StatusBlock[o]
    BY <2>1 DEF TypeOK
  <2>3. StatusBlock'[r].Status = "SUCCESS" => StatusBlock'[r].Length = 0
    BY <2>1 DEF TypeOK
  <2>4. iopl'[r].disk \notin Disk /\ iopl'[r] = iopl[r]
    BY <1>1, <1>3, <2>1 DEF NoLocation
  <2>5. PacketRight(r)'
    BY <1>2, <1>3, <2>2, <2>3, <2>4 DEF PacketRight, OnDrive, Waits, Works, Ended, InOrder, Told
  <2>6. \A o \in Packet : o # r => PacketRight(o)'
    BY <1>2, <2>1, <2>2, PacketFrame DEF Progress, Executed
  <2>7. CommandRight'
    BY <1>2, <2>1 DEF Progress, CommandRight, BlockOf
  <2> QED BY <2>5, <2>6, <2>7 DEF Progress
<1> QED BY <1>4, <1>5

LEMMA TransferProgress ==
  ASSUME TypeOK, InPlace, Progress, NEW r \in Packet, PerformTransfer(r)
  PROVE  Progress'
<1> DEFINE p == PortOf(r)
<1>1. /\ AtThread /\ stage[r] = "checked" /\ p \in Port /\ UNCHANGED <<iopl, StatusBlock, PxCI, moved>>
      /\ Starts(r) \/ Queues(r)
  BY TransferOutcome
<1>2. starting = None /\ None \notin Port
  BY <1>1, PortAssumption DEF AtThread, AtDPC
<1>3. iopl[r].disk \in Disk /\ iopl[r].Context = 0 /\ moved[r] = <<>> /\ Size(r) \in Nat \ {0}
  BY <1>1, SizeTyped DEF InPlace, Known, Progress, PacketRight, Waits
<1>4. \A o \in Packet : PortOf(o)' = PortOf(o) /\ Size(o)' = Size(o) /\ Origin(o)' = Origin(o)
  BY <1>1 DEF PortOf, Size, Origin
<1>5. /\ OnDrive(r)' /\ InOrder(r)'
  BY <1>1, <1>4 DEF Progress, PacketRight, OnDrive, InOrder
<1>6. \A o \in Packet : stage[o] = "current" => PortOf(o) \in Port /\ currentRequest[PortOf(o)] = o
  BY SizeTyped DEF InPlace, Known, CurrentInPlace
<1>7. CASE Starts(r)
  <2>1. /\ currentRequest[p] = None /\ currentRequest' = [currentRequest EXCEPT ![p] = r]
        /\ stage' = [stage EXCEPT ![r] = "current"] /\ starting' = p
        /\ command' = [command EXCEPT ![p] = BlockOf(r, iopl[r], p)]
    BY <1>7 DEF Starts
  <2>2. /\ stage'[r] = "current" /\ \A o \in Packet : o # r => stage'[o] = stage[o]
        /\ currentRequest'[p] = r /\ command'[p] = BlockOf(r, iopl[r], p)
        /\ \A q \in Port : q # p => currentRequest'[q] = currentRequest[q] /\ command'[q] = command[q]
    BY <1>1, <2>1 DEF TypeOK
  <2>3. \A o \in Packet : o # r => PacketRight(o)'
    <3>1. \A o \in Packet : stage[o] = "current" => PortOf(o) # p
      BY <1>6, <2>1, PortAssumption
    <3>2. \A o \in Packet : stage[o] = "current" =>
            (Executed(PortOf(o)) <=> PortOf(o) \notin PxCI' /\ starting' # PortOf(o))
      BY <1>1, <1>2, <1>6, <2>1, <3>1 DEF Executed
    <3> QED BY <1>1, <2>2, <3>2, PacketFrame DEF Progress
  <2>4. Works(r)'
    <3>1. iopl[r].Length > 0 /\ PortOf(r)' = starting'
      BY <1>1, <1>3, <1>4, <2>1 DEF Progress, PacketRight, OnDrive
    <3>2. Len(moved[r]) * Size(r) = 0
      BY <1>3
    <3>3. iopl'[r].Context < iopl'[r].Length /\ Len(moved'[r]) * Size(r)' = iopl'[r].Context
      BY <1>1, <1>3, <1>4, <3>1, <3>2
    <3> QED BY <3>1, <3>3 DEF Works, Executed
  <2>5. PacketRight(r)'
    <3>1. Waits(r)' /\ Ended(r)'
      BY <2>2 DEF Waits, Ended
    <3>2. Told(r)'
      BY <1>1, <1>3, <2>2 DEF Told, Progress, PacketRight
    <3> QED BY <1>5, <2>4, <3>1, <3>2 DEF PacketRight
  <2> HIDE DEF p
  <2>6. CommandRight'
    <3> SUFFICES ASSUME NEW q \in Port
                 PROVE  /\ starting' = q => currentRequest'[q] # None
                        /\ starting' = q \/ q \in PxCI' =>
                             IF currentRequest'[q] = None THEN command'[q].packet = None
                             ELSE command'[q] = BlockOf(currentRequest'[q], iopl'[currentRequest'[q]], q)
      BY DEF CommandRight, BlockOf
    <3>1. CASE q = p
      BY <3>1, <1>1, <2>2, PortAssumption
    <3>2. CASE q # p
      BY <3>2, <1>1, <1>2, <2>1, <2>2 DEF Progress, CommandRight
    <3> QED BY <3>1, <3>2
  <2> QED BY <2>3, <2>5, <2>6 DEF Progress
<1>8. CASE Queues(r)
  <2>1. stage' = [stage EXCEPT ![r] = "queued"] /\ UNCHANGED <<currentRequest, command, starting>>
    BY <1>8 DEF Queues
  <2>2. stage'[r] = "queued" /\ \A o \in Packet : o # r => stage'[o] = stage[o]
    BY <2>1 DEF TypeOK
  <2>3. \A o \in Packet : o # r => PacketRight(o)'
    BY <1>1, <2>1, <2>2, PacketFrame DEF Progress, Executed
  <2>4. PacketRight(r)'
    <3>1. Waits(r)' /\ Works(r)' /\ Ended(r)'
      BY <1>1, <1>3, <2>2 DEF Waits, Works, Ended
    <3>2. Told(r)'
      BY <1>1, <1>3, <2>2 DEF Told, Progress, PacketRight
    <3> QED BY <1>5, <3>1, <3>2 DEF PacketRight
  <2>5. CommandRight'
    BY <1>1, <2>1 DEF Progress, CommandRight, BlockOf
  <2> QED BY <2>3, <2>4, <2>5 DEF Progress
<1> QED BY <1>1, <1>7, <1>8

\* A packet one block further, nothing having moved since.
LEMMA AdvanceRight ==
  ASSUME TypeOK, NEW p \in Port, NEW r \in Packet, PortOf(r) = p, iopl[r].disk \in Disk, PacketRight(r),
         iopl' = [iopl EXCEPT ![r] = Advanced(iopl[r], p)],
         UNCHANGED <<moved, StatusBlock>>
  PROVE  /\ Size(r) \in Nat \ {0} /\ Size(r)' = Size(r) /\ PortOf(r)' = p /\ iopl'[r].disk \in Disk
         /\ iopl[r].Context \in Nat /\ iopl[r].Length \in Nat /\ iopl'[r].Length = iopl[r].Length
         /\ iopl'[r].Context = iopl[r].Context + Size(r)
         /\ OnDrive(r)' /\ InOrder(r)' /\ Origin(r)' = Origin(r)
<1> DEFINE l == Advanced(iopl[r], p)
<1>1. /\ l.Offset = iopl[r].Offset + BlockSize[p] /\ l.Context = iopl[r].Context + BlockSize[p]
      /\ l.disk = iopl[r].disk /\ l.Length = iopl[r].Length
      /\ iopl[r].Context \in Nat /\ iopl[r].Length \in Nat /\ iopl[r].Offset \in Nat
  <2>1. iopl[r] \in Location
    BY DEF TypeOK
  <2> QED BY <2>1, AdvancedTyped DEF Location
<1>2. iopl'[r] = l /\ PortOf(r)' = p
  BY AdvanceStays
<1> HIDE DEF l
<1>3. Size(r) = BlockSize[p] /\ Size(r)' = BlockSize[p] /\ Size(r) \in Nat \ {0}
  BY <1>2, SizeTyped DEF Size
<1>4. Origin(r)' = Origin(r)
  BY <1>1, <1>2, <1>3 DEF Origin
<1>5. OnDrive(r)'
  <2>1. iopl'[r].Context <= iopl'[r].Offset
    BY <1>1, <1>2, <1>3 DEF PacketRight, OnDrive
  <2> QED BY <2>1, <1>1, <1>2, <1>3, <1>4 DEF PacketRight, OnDrive
<1>6. InOrder(r)'
  BY <1>1, <1>2, <1>3, <1>4 DEF PacketRight, InOrder
<1> QED BY <1>1, <1>2, <1>3, <1>4, <1>5, <1>6

LEMMA DPCProgress ==
  ASSUME TypeOK, InPlace, OneCommandEach, Progress, NEW p \in Port, AHCIDPCFunction(p)
  PROVE  Progress'
<1> DEFINE Goes(r) == LET l == Advanced(iopl[r], p)
                          n == Head(requestList[p])
                      IN \/ Continues(p, r, l)
                         \/ Rests(p, r, l)
                         \/ GoesOn(p, r, l, n) /\ n \in Packet
<1>1. /\ AtDPC /\ p \in enqueued
      /\ UNCHANGED <<StatusBlock, PxCI, moved>>
      /\ Wakes(p) \/ (currentRequest[p] \in Packet /\ Goes(currentRequest[p]))
  BY DPCOutcome
<1>2. starting = None /\ None \notin Port /\ p \notin PxCI
  BY <1>1, PortAssumption DEF AtDPC, OneCommandEach
<1>3. Executed(p)
  BY <1>2 DEF Executed
<1>4. \A o \in Packet : stage[o] = "current" => PortOf(o) \in Port /\ currentRequest[PortOf(o)] = o
  BY SizeTyped DEF InPlace, Known, CurrentInPlace
<1>5. CASE Wakes(p)
  <2>1. UNCHANGED <<currentRequest, command, starting, stage, iopl>>
    BY <1>5 DEF Wakes
  <2>2. \A o \in Packet : PacketRight(o)'
    BY <1>1, <2>1, PacketFrame DEF Progress, Executed
  <2> QED BY <1>1, <2>1, <2>2 DEF Progress, CommandRight, BlockOf
<1>6. ASSUME NEW r \in Packet, r = currentRequest[p], Goes(r) PROVE Progress'
  <2> DEFINE l == Advanced(iopl[r], p)
  <2>0. \/ Continues(p, r, l)
        \/ Rests(p, r, l)
        \/ \E n \in Packet : n = Head(requestList[p]) /\ GoesOn(p, r, l, n)
    BY <1>6
  <2> HIDE DEF Goes
  <2>1. stage[r] = "current" /\ PortOf(r) = p /\ r # None
    BY <1>6, PortAssumption DEF InPlace, CurrentInPlace
  <2>2. iopl[r].disk \in Disk /\ PacketRight(r)
    BY <2>1, <1>6 DEF InPlace, Known, Progress
  <2>3. iopl' = [iopl EXCEPT ![r] = l]
    BY <2>0 DEF Continues, Rests, GoesOn
  <2>4. /\ Size(r) \in Nat \ {0} /\ Size(r)' = Size(r) /\ PortOf(r)' = p /\ iopl'[r].disk \in Disk
        /\ iopl[r].Context \in Nat /\ iopl[r].Length \in Nat /\ iopl'[r].Length = iopl[r].Length
        /\ iopl'[r].Context = iopl[r].Context + Size(r)
        /\ OnDrive(r)' /\ InOrder(r)'
    BY <1>1, <1>6, <2>1, <2>2, <2>3, AdvanceRight
  <2>5. iopl'[r] = l /\ \A o \in Packet : o # r => iopl'[o] = iopl[o]
    BY <1>6, <2>3, AdvanceStays
  <2>6. Len(moved[r]) \in Nat /\ Len(moved[r]) * Size(r) = iopl'[r].Context /\ iopl[r].Context < iopl[r].Length
    <3>1. Len(moved[r]) * Size(r) = iopl[r].Context + Size(r) /\ iopl[r].Context < iopl[r].Length
      BY <2>1, <2>2, <1>3 DEF PacketRight, Works
    <3>2. Len(moved[r]) \in Nat
      BY <1>6, LenProperties DEF TypeOK
    <3> QED BY <3>1, <3>2, <2>4
  <2>7. \A o \in Packet : stage[o] = "current" /\ o # r => PortOf(o) # p
    BY <1>4, <1>6
  <2>8. iopl[r].Length % Size(r) = 0
    BY <2>2 DEF PacketRight, OnDrive
  <2>9. l.Context >= l.Length => Len(moved[r]) * Size(r) = iopl'[r].Length
    <3> HIDE DEF l
    <3> SUFFICES ASSUME l.Context >= l.Length PROVE Len(moved[r]) * Size(r) = iopl'[r].Length
      OBVIOUS
    <3> DEFINE m == Len(moved[r])
               t == Size(r)
               x == iopl[r].Context
               y == iopl[r].Length
    <3>1. /\ m \in Nat /\ t \in Nat \ {0} /\ x \in Nat /\ y \in Nat
          /\ m * t = x + t /\ x < y /\ y % t = 0 /\ m * t >= y /\ iopl'[r].Length = y
      BY <2>4, <2>5, <2>6, <2>8
    <3> HIDE DEF m, t, x, y
    <3>2. PICK k \in Nat : y = k * t
      BY <3>1, Multiples
    <3>3. m # 0
      BY <3>1
    <3>4. m - 1 \in Nat /\ (m - 1) * t = x
      <4>1. m - 1 \in Nat /\ ((m - 1) + 1) * t = (m - 1) * t + t /\ (m - 1) + 1 = m
        BY <3>1, <3>3, FewerBlocks
      <4>2. (m - 1) * t \in Nat
        BY <4>1, <3>1
      <4> QED BY <4>1, <4>2, <3>1
    <3>5. m - 1 < k
      BY <3>1, <3>2, <3>4, FewerBlocks
    <3>6. ~ (m < k)
      <4>1. ~ (m * t < k * t)
        <5>1. m * t \in Nat
          BY <3>1
        <5> QED BY <5>1, <3>1, <3>2
      <4> QED BY <4>1, <3>1, <3>2, FewerBlocks
    <3>7. m = k
      BY <3>1, <3>2, <3>4, <3>5, <3>6
    <3> QED BY <3>1, <3>2, <3>7 DEF m, t
  <2>10. Told(r) /\ Told(r)'
    <3>1. Told(r)
      BY <2>2 DEF PacketRight
    <3> QED BY <3>1, <2>2, <2>4, <1>1 DEF Told
  <2> HIDE DEF l
  <2>11. CASE Continues(p, r, l)
    <3>1. /\ l.Context < l.Length /\ command' = [command EXCEPT ![p] = BlockOf(r, l, p)] /\ starting' = p
          /\ UNCHANGED <<currentRequest, requestList, stage>>
      BY <2>11 DEF Continues
    <3>2. \A o \in Packet : o # r => PacketRight(o)'
      <4>1. \A o \in Packet : stage[o] = "current" /\ o # r =>
              (Executed(PortOf(o)) <=> PortOf(o) \notin PxCI' /\ starting' # PortOf(o))
        BY <1>1, <1>2, <1>4, <2>7, <3>1 DEF Executed
      <4> QED BY <1>1, <2>5, <3>1, <4>1, PacketFrame DEF Progress
    <3>3. PacketRight(r)'
      <4>1. Works(r)'
        BY <1>1, <2>4, <2>5, <2>6, <3>1 DEF Works, Executed
      <4> QED BY <2>1, <2>4, <2>10, <3>1, <4>1 DEF PacketRight, Waits, Ended
    <3>4. CommandRight'
      <4> SUFFICES ASSUME NEW q \in Port
                   PROVE  /\ starting' = q => currentRequest'[q] # None
                          /\ starting' = q \/ q \in PxCI' =>
                               IF currentRequest'[q] = None THEN command'[q].packet = None
                               ELSE command'[q] = BlockOf(currentRequest'[q], iopl'[currentRequest'[q]], q)
        BY DEF CommandRight, BlockOf
      <4>1. CASE q = p
        <5>1. command'[p] = BlockOf(r, l, p)
          BY <3>1 DEF TypeOK
        <5> QED BY <4>1, <5>1, <2>1, <2>5, <3>1, <1>6
      <4>2. CASE q # p
        <5>1. command'[q] = command[q] /\ currentRequest'[q] = currentRequest[q]
          BY <4>2, <3>1 DEF TypeOK
        <5>2. currentRequest[q] # None => iopl'[currentRequest[q]] = iopl[currentRequest[q]]
          <6>1. currentRequest[q] # None => currentRequest[q] \in Packet /\ PortOf(currentRequest[q]) = q
            BY DEF TypeOK, InPlace, CurrentInPlace
          <6>2. currentRequest[q] # None => currentRequest[q] # r
            BY <4>2, <2>1, <6>1
          <6> QED BY <6>1, <6>2, <2>5
        <5> QED BY <4>2, <5>1, <5>2, <1>1, <1>2, <3>1 DEF Progress, CommandRight
      <4> QED BY <4>1, <4>2
    <3> QED BY <3>2, <3>3, <3>4 DEF Progress
  <2>12. CASE Rests(p, r, l)
    <3>1. /\ l.Context >= l.Length /\ currentRequest' = [currentRequest EXCEPT ![p] = None]
          /\ stage' = [stage EXCEPT ![r] = "done"] /\ UNCHANGED <<command, starting>>
      BY <2>12 DEF Rests
    <3>2. /\ stage'[r] = "done" /\ \A o \in Packet : o # r => stage'[o] = stage[o]
          /\ currentRequest'[p] = None /\ \A q \in Port : q # p => currentRequest'[q] = currentRequest[q]
      BY <3>1 DEF TypeOK
    <3>3. \A o \in Packet : o # r => PacketRight(o)'
      BY <1>1, <2>5, <3>1, <3>2, PacketFrame DEF Progress, Executed
    <3>4. PacketRight(r)'
      <4>1. Ended(r)'
        BY <1>1, <2>4, <2>9, <3>1, <3>2 DEF Ended
      <4> QED BY <2>4, <2>10, <3>2, <4>1 DEF PacketRight, Waits, Works
    <3>5. CommandRight'
      <4> SUFFICES ASSUME NEW q \in Port
                   PROVE  /\ starting' = q => currentRequest'[q] # None
                          /\ starting' = q \/ q \in PxCI' =>
                               IF currentRequest'[q] = None THEN command'[q].packet = None
                               ELSE command'[q] = BlockOf(currentRequest'[q], iopl'[currentRequest'[q]], q)
        BY DEF CommandRight, BlockOf
      <4>1. CASE q = p
        BY <4>1, <1>1, <1>2, <3>1
      <4>2. CASE q # p
        <5>2. currentRequest[q] # None => iopl'[currentRequest[q]] = iopl[currentRequest[q]]
          <6>1. currentRequest[q] # None => currentRequest[q] \in Packet /\ PortOf(currentRequest[q]) = q
            BY DEF TypeOK, InPlace, CurrentInPlace
          <6>2. currentRequest[q] # None => currentRequest[q] # r
            BY <4>2, <2>1, <6>1
          <6> QED BY <6>1, <6>2, <2>5
        <5> QED BY <4>2, <5>2, <1>1, <1>2, <3>1, <3>2 DEF Progress, CommandRight
      <4> QED BY <4>1, <4>2
    <3> QED BY <3>3, <3>4, <3>5 DEF Progress
  <2>13. ASSUME NEW n \in Packet, n = Head(requestList[p]), GoesOn(p, r, l, n) PROVE Progress'
    <3>1. /\ l.Context >= l.Length /\ requestList[p] # <<>>
          /\ currentRequest' = [currentRequest EXCEPT ![p] = n]
          /\ stage' = [stage EXCEPT ![r] = "done", ![n] = "current"]
          /\ command' = [command EXCEPT ![p] = BlockOf(n, iopl[n], p)] /\ starting' = p
      BY <2>13 DEF GoesOn
    <3>2. stage[n] = "queued" /\ PortOf(n) = p /\ n # r /\ n # None
      <4>1. n = requestList[p][1] /\ 1 \in 1..Len(requestList[p])
        <5>1. requestList[p] \in Seq(Packet) /\ requestList[p] # <<>>
          BY <3>1 DEF TypeOK
        <5>2. Len(requestList[p]) \in Nat /\ Len(requestList[p]) # 0
          BY <5>1, EmptySeq, LenProperties
        <5> QED BY <5>1, <5>2, <2>13
      <4>2. stage[n] = "queued" /\ PortOf(n) = p
        BY <4>1 DEF InPlace, QueueInPlace
      <4> QED BY <4>2, <2>1, <2>13, PortAssumption
    <3>3. /\ stage'[r] = "done" /\ stage'[n] = "current"
          /\ \A o \in Packet : o # r /\ o # n => stage'[o] = stage[o]
          /\ currentRequest'[p] = n /\ \A q \in Port : q # p => currentRequest'[q] = currentRequest[q]
          /\ command'[p] = BlockOf(n, iopl[n], p) /\ \A q \in Port : q # p => command'[q] = command[q]
      BY <3>1, <3>2, <1>6, <2>13 DEF TypeOK
    <3>4. \A o \in Packet : o # r /\ o # n => PacketRight(o)'
      <4>1. \A o \in Packet : stage[o] = "current" /\ o # r =>
              (Executed(PortOf(o)) <=> PortOf(o) \notin PxCI' /\ starting' # PortOf(o))
        BY <1>1, <1>2, <1>4, <2>7, <3>1 DEF Executed
      <4> QED BY <1>1, <2>5, <3>3, <4>1, PacketFrame DEF Progress
    <3>5. PacketRight(r)'
      <4>1. Ended(r)'
        BY <1>1, <2>4, <2>9, <3>1, <3>3 DEF Ended
      <4> QED BY <2>4, <2>10, <3>3, <4>1 DEF PacketRight, Waits, Works
    <3>6. PacketRight(n)'
      <4>1. iopl'[n] = iopl[n] /\ moved'[n] = moved[n] /\ StatusBlock'[n] = StatusBlock[n]
        BY <1>1, <2>5, <2>13, <3>2
      <4>2. PortOf(n)' = p /\ Size(n)' = Size(n) /\ Origin(n)' = Origin(n)
        BY <4>1, <3>2 DEF PortOf, Size, Origin
      <4>3. PacketRight(n) /\ iopl[n].disk \in Disk /\ Size(n) \in Nat \ {0}
        BY <2>13, <3>2, SizeTyped DEF Progress, InPlace, Known
      <4>4. OnDrive(n)' /\ InOrder(n)' /\ Told(n)'
        BY <3>3, <4>1, <4>2, <4>3 DEF PacketRight, OnDrive, InOrder, Told
      <4>5. iopl[n].Context = 0 /\ moved[n] = <<>> /\ iopl[n].Length > 0
        BY <3>2, <4>3 DEF PacketRight, Waits, OnDrive
      <4>6. Len(moved[n]) * Size(n) = 0
        BY <4>3, <4>5
      <4>7. Works(n)'
        BY <3>1, <4>1, <4>2, <4>5, <4>6 DEF Works, Executed
      <4> QED BY <3>3, <4>4, <4>7 DEF PacketRight, Waits, Ended
    <3>7. CommandRight'
      <4> SUFFICES ASSUME NEW q \in Port
                   PROVE  /\ starting' = q => currentRequest'[q] # None
                          /\ starting' = q \/ q \in PxCI' =>
                               IF currentRequest'[q] = None THEN command'[q].packet = None
                               ELSE command'[q] = BlockOf(currentRequest'[q], iopl'[currentRequest'[q]], q)
        BY DEF CommandRight, BlockOf
      <4>1. CASE q = p
        BY <4>1, <2>5, <2>13, <3>1, <3>2, <3>3
      <4>2. CASE q # p
        <5>2. currentRequest[q] # None => iopl'[currentRequest[q]] = iopl[currentRequest[q]]
          <6>1. currentRequest[q] # None => currentRequest[q] \in Packet /\ PortOf(currentRequest[q]) = q
            BY DEF TypeOK, InPlace, CurrentInPlace
          <6>2. currentRequest[q] # None => currentRequest[q] # r
            BY <4>2, <2>1, <6>1
          <6> QED BY <6>1, <6>2, <2>5
        <5> QED BY <4>2, <5>2, <1>1, <1>2, <3>1, <3>3 DEF Progress, CommandRight
      <4> QED BY <4>1, <4>2
    <3> QED BY <3>4, <3>5, <3>6, <3>7 DEF Progress
  <2> QED BY <2>0, <2>11, <2>12, <2>13
<1> QED BY <1>1, <1>5, <1>6

\* The adapter moves the block the command names.
LEMMA CompleteProgress ==
  ASSUME TypeOK, InPlace, OneCommandEach, Progress, NEW p \in Port, Complete(p)
  PROVE  Progress'
<1>1. /\ p \in PxCI /\ PxCI' = PxCI \ {p}
      /\ moved' = IF command[p].packet = None THEN moved
                  ELSE [moved EXCEPT ![command[p].packet] =
                          Append(@, [lba |-> command[p].lba, at |-> command[p].at])]
      /\ UNCHANGED <<currentRequest, command, starting, stage, iopl, StatusBlock>>
  BY DEF Complete, portVars, packetVars
<1>2. starting # p
  BY <1>1 DEF OneCommandEach
<1>3. \A o \in Packet : stage[o] = "current" => PortOf(o) \in Port /\ currentRequest[PortOf(o)] = o
  BY SizeTyped DEF InPlace, Known, CurrentInPlace
<1>4. CommandRight'
  BY <1>1 DEF Progress, CommandRight, BlockOf
<1>5. ASSUME NEW o \in Packet, moved'[o] = moved[o], currentRequest[p] # o PROVE PacketRight(o)'
  <2>1. stage[o] = "current" => PortOf(o) # p
    BY <1>3, <1>5
  <2> QED BY <1>1, <1>5, <2>1, PacketFrame DEF Progress, Executed
<1>6. CASE currentRequest[p] = None
  <2>1. moved' = moved
    BY <1>1, <1>6 DEF Progress, CommandRight
  <2> QED BY <1>4, <1>5, <1>6, <2>1, PortAssumption DEF Progress
<1>7. ASSUME NEW r \in Packet, currentRequest[p] = r PROVE Progress'
  <2>1. stage[r] = "current" /\ PortOf(r) = p /\ r # None
    BY <1>7, PortAssumption DEF InPlace, CurrentInPlace
  <2>2. iopl[r].disk \in Disk /\ PacketRight(r)
    BY <2>1 DEF InPlace, Known, Progress
  <2>3. command[p] = BlockOf(r, iopl[r], p)
    BY <1>1, <1>7, <2>1 DEF Progress, CommandRight
  <2> DEFINE t == Size(r)
             m == Len(moved[r])
             x == iopl[r].Context
             b == [lba |-> iopl[r].Offset \div t, at |-> x]
  <2>4. t = BlockSize[p] /\ t \in Nat \ {0}
    BY <2>1, <2>2, SizeTyped DEF Size
  <2>5. command[p].packet = r /\ command[p].lba = iopl[r].Offset \div t /\ command[p].at = x
    BY <2>3, <2>4 DEF BlockOf
  <2>6. moved' = [moved EXCEPT ![r] = Append(moved[r], b)]
    BY <1>1, <2>1, <2>5
  <2>7. iopl[r].Offset \in Nat /\ x \in Nat
    BY DEF TypeOK, Location
  <2>8. b \in [lba : Nat, at : Nat]
    <3>1. iopl[r].Offset \div t \in Nat
      BY <2>4, <2>7
    <3> QED BY <2>7, <3>1
  <2>9. moved[r] \in Seq([lba : Nat, at : Nat]) /\ m \in Nat
    BY LenProperties DEF TypeOK
  <2> HIDE DEF b
  <2>10. /\ moved'[r] = Append(moved[r], b) /\ \A o \in Packet : o # r => moved'[o] = moved[o]
    BY <2>6 DEF TypeOK
  <2>11. /\ Len(moved'[r]) = m + 1
         /\ \A i \in 1..m : moved'[r][i] = moved[r][i]
         /\ moved'[r][m + 1] = b
    BY <2>8, <2>9, <2>10, AppendProperties
  <2>12. ~ Executed(p) /\ Executed(p)'
    BY <1>1, <1>2 DEF Executed
  <2>13. m * t = x /\ x < iopl[r].Length
    BY <2>1, <2>2, <2>12 DEF PacketRight, Works
  <2>14. PortOf(r)' = p /\ Size(r)' = t /\ Origin(r)' = Origin(r)
    BY <1>1, <2>1 DEF PortOf, Size, Origin
  <2>15. Works(r)'
    <3>1. (m + 1) * t = x + t
      BY <2>4, <2>9, <2>13, FewerBlocks
    <3> QED BY <1>1, <2>11, <2>12, <2>13, <2>14, <3>1 DEF Works
  <2>16. InOrder(r)'
    <3> DEFINE g == Origin(r)
    <3>1. g \in Nat /\ iopl[r].Offset = g + x /\ g % t = 0
      BY <2>2, <2>7 DEF PacketRight, OnDrive, Origin
    <3>2. \A i \in 1..m : moved[r][i] = [lba |-> (g \div t) + i - 1, at |-> (i - 1) * t]
      BY <2>2 DEF PacketRight, InOrder
    <3>3. b = [lba |-> (g \div t) + (m + 1) - 1, at |-> ((m + 1) - 1) * t]
      <4> HIDE DEF g, m, x, t
      <4>1. PICK k \in Nat : g = k * t /\ g \div t = k
        BY <2>4, <3>1, Multiples
      <4>2. g + x = (k + m) * t /\ k + m \in Nat
        BY <2>4, <2>9, <2>13, <4>1
      <4>3. (g + x) \div t = k + m
        BY <2>4, <4>2, WholeBlocks
      <4>4. b.lba = k + m /\ b.at = m * t /\ b = [lba |-> b.lba, at |-> b.at]
        BY <3>1, <4>3, <2>13 DEF b
      <4>5. (m + 1) - 1 = m /\ (g \div t) + (m + 1) - 1 = k + m
        BY <2>9, <4>1
      <4> QED BY <4>4, <4>5
    <3> HIDE DEF g, m, t
    <3>4. ASSUME NEW i \in 1..(m + 1)
          PROVE  moved'[r][i] = [lba |-> (g \div t) + i - 1, at |-> (i - 1) * t]
      <4>1. CASE i = m + 1
        BY <4>1, <3>3, <2>11
      <4>2. CASE i # m + 1
        <5>1. i \in 1..m
          BY <4>2, <2>9
        <5> QED BY <5>1, <3>2, <2>11
      <4> QED BY <4>1, <4>2
    <3>5. g = Origin(r)'
      BY <2>14 DEF g
    <3> QED BY <2>11, <2>14, <3>4, <3>5 DEF InOrder
  <2>17. PacketRight(r)'
    <3>1. OnDrive(r)' /\ Told(r)'
      BY <1>1, <2>2, <2>14 DEF PacketRight, OnDrive, Told
    <3>2. Waits(r)' /\ Ended(r)'
      BY <1>1, <2>1 DEF Waits, Ended
    <3> QED BY <2>15, <2>16, <3>1, <3>2 DEF PacketRight
  <2>18. \A o \in Packet : o # r => PacketRight(o)'
    BY <1>5, <1>7, <2>10
  <2> QED BY <1>4, <2>17, <2>18 DEF Progress
<1> QED BY <1>6, <1>7 DEF TypeOK

\* What neither moves a packet on nor begins or ends a command.
LEMMA FrameProgress ==
  ASSUME Progress, UNCHANGED <<currentRequest, command, starting, stage, iopl, StatusBlock, PxCI, moved>>
  PROVE  Progress'
<1>1. \A o \in Packet : PacketRight(o)'
  BY PacketFrame DEF Progress, Executed
<1> QED BY <1>1 DEF Progress, CommandRight, BlockOf

LEMMA StepProgress ==
  ASSUME TypeOK, InPlace, OneCommandEach, Progress, [Next]_vars
  PROVE  Progress'
<1>1. ASSUME NEW r \in Packet, NEW c \in Calls[r], AHCIOperation(r, c) PROVE Progress'
  BY <1>1, AcceptProgress
<1>2. ASSUME NEW r \in Packet, PerformTransfer(r) PROVE Progress'
  BY <1>2, TransferProgress
<1>3. ASSUME NEW p \in Port, AHCIDPCFunction(p) PROVE Progress'
  BY <1>3, DPCProgress
<1>4. CASE IssueCommand
  <2>1. /\ starting \in Port /\ PxCI' = PxCI \cup {starting} /\ starting' = None
        /\ UNCHANGED <<currentRequest, command, stage, iopl, StatusBlock, moved>>
    BY <1>4 DEF IssueCommand, packetVars, TypeOK
  <2>2. \A o \in Packet : stage[o] = "current" => PortOf(o) \in Port
    BY SizeTyped DEF InPlace, Known
  <2>3. \A o \in Packet : stage[o] = "current" =>
          (Executed(PortOf(o)) <=> PortOf(o) \notin PxCI' /\ starting' # PortOf(o))
    BY <2>1, <2>2, PortAssumption DEF Executed
  <2>4. \A o \in Packet : PacketRight(o)'
    BY <2>1, <2>3, PacketFrame DEF Progress
  <2>5. CommandRight'
    BY <2>1, PortAssumption DEF Progress, CommandRight, BlockOf
  <2> QED BY <2>4, <2>5 DEF Progress
<1>5. ASSUME NEW p \in Port, BeginIdentify(p) PROVE Progress'
  <2>1. /\ phase[p] = "off" /\ command' = [command EXCEPT ![p] = Identify] /\ PxCI' = PxCI \cup {p}
        /\ UNCHANGED <<currentRequest, starting, stage, iopl, StatusBlock, moved>>
        /\ starting = None
    BY <1>5 DEF BeginIdentify, packetVars, AtThread, AtDPC
  <2>2. \A o \in Packet : stage[o] # "current"
    BY <2>1 DEF InPlace, Known
  <2>3. \A o \in Packet : PacketRight(o)'
    BY <2>1, <2>2, PacketFrame DEF Progress
  <2>4. \A q \in Port : currentRequest[q] = None
    BY <2>2 DEF TypeOK, InPlace, CurrentInPlace
  <2>5. command'[p].packet = None /\ \A q \in Port : q # p => command'[q] = command[q]
    BY <2>1 DEF TypeOK, Identify
  <2>6. CommandRight'
    BY <2>1, <2>4, <2>5, PortAssumption DEF Progress, CommandRight
  <2> QED BY <2>3, <2>6 DEF Progress
<1>6. ASSUME NEW p \in Port, EndIdentify(p) PROVE Progress'
  BY <1>6, FrameProgress DEF EndIdentify, packetVars, hbaVars
<1>7. ASSUME NEW p \in Port, Complete(p) PROVE Progress'
  BY <1>7, CompleteProgress
<1>8. ASSUME NEW p \in Port, NEW bit \in {"DHR", "ERROR"}, Raise(p, bit) PROVE Progress'
  BY <1>8, FrameProgress DEF Raise, portVars, packetVars
<1>9. ASSUME Interrupt PROVE Progress'
  BY <1>9, FrameProgress DEF Interrupt, EnterInterrupt, ClearIS, ScanPorts, ClearPortStatus, ReadIssued,
     portVars, packetVars, hbaVars
<1>10. CASE UNCHANGED vars
  BY <1>10, FrameProgress DEF vars, portVars, packetVars, hbaVars
<1> QED BY <1>1, <1>2, <1>3, <1>4, <1>5, <1>6, <1>7, <1>8, <1>9, <1>10 DEF Next, Halted

-----------------------------------------------------------------------------
(* The theorems.                                                           *)

LEMMA InitInv == Init => Inv
<1> SUFFICES ASSUME Init PROVE Inv
  OBVIOUS
<1>1. TypeOK
  BY InitTyped
<1>2. OneCommandEach /\ CompletionsNoticed
  BY PortAssumption DEF Init, OneCommandEach, CompletionsNoticed, Busy
<1>3. InPlace
  BY DEF Init, InPlace, CurrentInPlace, QueueInPlace, Sorted, Known, HandlerInPlace, Away
<1>4. Progress
  <2>1. \A r \in Packet : /\ iopl[r].disk \notin Disk /\ iopl[r].Context = 0
                          /\ moved[r] = <<>> /\ stage[r] = "new"
    BY PortAssumption DEF Init, NoLocation
  <2>2. \A r \in Packet : PacketRight(r)
    BY <2>1 DEF PacketRight, OnDrive, Waits, Works, Ended, InOrder, Told
  <2> QED BY <2>2, PortAssumption DEF Init, Progress, CommandRight
<1> QED BY <1>1, <1>2, <1>3, <1>4 DEF Inv

LEMMA StepInv == Inv /\ [Next]_vars => Inv'
  BY StepTyped, StepCommands, StepNoticed, StepInPlace, StepProgress DEF Inv, Progress

LEMMA Invariance == Spec => []Inv
  BY InitInv, StepInv, PTL DEF Spec

\* Every variable of the driver and the adapter keeps its type.
THEOREM TypeCorrect == Spec => []TypeOK
<1>1. Inv => TypeOK
  BY DEF Inv
<1> QED BY <1>1, Invariance, PTL

\* A port with work has exactly one command, whatever interrupts and DPCs
\* fall in between: currentRequest and pendingCommands always agree.
THEOREM CommandsAreSingle == Spec => []OneCommandEach
<1>1. Inv => OneCommandEach
  BY DEF Inv
<1> QED BY <1>1, Invariance, PTL

\* AHCIInterrupt loses no completion, in whatever order IS, PxIS and PxCI are
\* read, set and cleared.
THEOREM CompletionsAreNoticed == Spec => []CompletionsNoticed
<1>1. Inv => CompletionsNoticed
  BY DEF Inv
<1> QED BY <1>1, Invariance, PTL

\* The blocks of a packet are moved once each, in order, to their place in
\* the buffer, and all of them before the packet ends.
THEOREM BlocksMoveInOrder == Spec => []BlocksInOrder
<1>1. Inv => BlocksInOrder
  <2> SUFFICES ASSUME Inv, NEW r \in Packet, iopl[r].disk # None
               PROVE  /\ \A i \in 1..Len(moved[r]) :
                           moved[r][i] = [lba |-> FirstBlock(r) + i - 1, at |-> (i - 1) * Size(r)]
                      /\ stage[r] = "done" => Len(moved[r]) * Size(r) = iopl[r].Length
    BY DEF BlocksInOrder, Size, PortOf
  <2>1. iopl[r].disk \in Disk
    BY DEF Inv, TypeOK, Location
  <2>2. PacketRight(r)
    BY DEF Inv, Progress
  <2>3. FirstBlock(r) = Origin(r) \div Size(r)
    BY DEF FirstBlock, Origin, Size, PortOf
  <2> QED BY <2>1, <2>2, <2>3 DEF PacketRight, InOrder, Ended
<1> QED BY <1>1, Invariance, PTL

\* A sender is told how many bytes were moved for its packet.
THEOREM ReportsAreTrue == Spec => []ReportsWhatMoved
<1>1. Inv => ReportsWhatMoved
  <2> SUFFICES ASSUME Inv, NEW r \in Packet, stage[r] = "done"
               PROVE  IF StatusBlock[r].Status = "SUCCESS" /\ StatusBlock[r].Length # 0
                      THEN StatusBlock[r].Length = Len(moved[r]) * Size(r)
                      ELSE moved[r] = <<>>
    BY DEF ReportsWhatMoved, Size, PortOf
  <2>1. PacketRight(r)
    BY DEF Inv, Progress
  <2>2. CASE iopl[r].disk \in Disk
    <3>1. /\ StatusBlock[r].Status = "SUCCESS" /\ StatusBlock[r].Length = iopl[r].Length
          /\ iopl[r].Length > 0 /\ Len(moved[r]) * Size(r) = iopl[r].Length
      BY <2>1, <2>2 DEF PacketRight, Told, OnDrive, Ended
    <3>2. iopl[r].Length \in Nat
      BY DEF Inv, TypeOK, Location
    <3> QED BY <3>1, <3>2
  <2>3. CASE iopl[r].disk \notin Disk
    BY <2>1, <2>3 DEF PacketRight, Told, Ended
  <2> QED BY <2>2, <2>3
<1> QED BY <1>1, Invariance, PTL

\* No packet for a partition reaches a block outside it.
THEOREM PacketsStayOnDisk == Spec => []StaysOnDisk
<1>1. Inv => StaysOnDisk
  <2> SUFFICES ASSUME Inv, NEW r \in Packet, NEW i \in 1..Len(moved[r])
               PROVE  moved[r][i].lba \in BlockOffset[iopl[r].disk]..(BlockOffset[iopl[r].disk] + Blocks[iopl[r].disk] - 1)
    BY DEF StaysOnDisk
  <2> DEFINE d == iopl[r].disk
             t == Size(r)
             m == Len(moved[r])
             g == Origin(r)
  <2>1. PacketRight(r) /\ TypeOK /\ stage[r] \in {"new", "checked", "queued", "current", "done"}
    BY DEF Inv, Progress, TypeOK
  <2>2. moved[r] # <<>> /\ m \in Nat /\ i \in Nat /\ 1 <= i /\ i <= m
    BY <2>1, LenProperties DEF TypeOK
  <2>3. d \in Disk
    <3>1. stage[r] = "current" \/ stage[r] = "done"
      BY <2>1, <2>2 DEF PacketRight, Waits
    <3> QED BY <2>1, <2>2, <3>1 DEF Inv, InPlace, Known, PacketRight, Ended
  <2>4. t \in Nat \ {0} /\ BlockOffset[d] \in Nat /\ Blocks[d] \in Nat
    BY <2>1, <2>3, SizeTyped, DiskAssumption
  <2>5. /\ iopl[r].Context \in Nat /\ iopl[r].Offset \in Nat /\ iopl[r].Length \in Nat
        /\ iopl[r].Context <= iopl[r].Offset
        /\ g % t = 0 /\ iopl[r].Length % t = 0
        /\ g >= BlockOffset[d] * t /\ g + iopl[r].Length <= (BlockOffset[d] + Blocks[d]) * t
    BY <2>1, <2>3 DEF TypeOK, Location, PacketRight, OnDrive
  <2>6. g \in Nat
    BY <2>5 DEF Origin
  <2>7. m * t <= iopl[r].Length
    <3>1. CASE stage[r] = "done"
      BY <2>1, <2>3, <2>5, <3>1 DEF PacketRight, Ended
    <3>2. CASE stage[r] = "current"
      <4>1. iopl[r].Context < iopl[r].Length /\ (m * t = iopl[r].Context + t \/ m * t = iopl[r].Context)
        BY <2>1, <3>2 DEF PacketRight, Works
      <4> DEFINE x == iopl[r].Context
                 y == iopl[r].Length
      <4>2. x \in Nat /\ y \in Nat /\ x < y /\ (m * t = x + t \/ m * t = x) /\ y % t = 0
        BY <4>1, <2>5
      <4> HIDE DEF x, y, m, t
      <4>3. PICK k \in Nat : y = k * t
        BY <4>2, <2>4, Multiples
      <4>0. m * t \in Nat /\ k * t \in Nat
        BY <2>2, <2>4
      <4>4. ASSUME m * t = x PROVE m * t <= y
        BY <4>0, <4>2, <4>4
      <4>5. ASSUME m * t = x + t PROVE m * t <= y
        <5>1. m - 1 \in Nat /\ (m - 1) + 1 = m
          BY <2>2
        <5>2. ((m - 1) + 1) * t = (m - 1) * t + t
          BY <5>1, <2>4, FewerBlocks
        <5>3. (m - 1) * t \in Nat
          BY <5>1, <2>4
        <5>4. (m - 1) * t < k * t
          <6>1. (m - 1) * t + t = x + t
            BY <4>5, <5>1, <5>2
          <6>2. (m - 1) * t = x
            BY <4>2, <5>3, <6>1, <2>4
          <6> QED BY <4>2, <4>3, <6>2
        <5>5. m - 1 < k
          BY <5>1, <5>4, <2>4, FewerBlocks
        <5>6. m = k \/ m < k
          BY <5>1, <5>5, <2>2
        <5>7. m * t = k * t \/ m * t < k * t
          BY <5>6, <2>2, <2>4, FewerBlocks
        <5> QED BY <5>7, <4>0, <4>3
      <4>6. m * t <= y
        BY <4>2, <4>4, <4>5
      <4> QED BY <4>6 DEF m, t, y
    <3> QED BY <2>1, <2>2, <3>1, <3>2 DEF PacketRight, Waits
  <2>8. moved[r][i].lba = (g \div t) + i - 1
    <3>1. moved[r][i] = [lba |-> (Origin(r) \div Size(r)) + i - 1, at |-> (i - 1) * Size(r)]
      BY <2>1, <2>3, Zenon DEF PacketRight, InOrder
    <3> QED BY <3>1
  <2> DEFINE o == BlockOffset[d]
             b == Blocks[d]
             y == iopl[r].Length
  <2>9. /\ o \in Nat /\ b \in Nat /\ y \in Nat /\ g >= o * t /\ g + y <= (o + b) * t /\ m * t <= y
        /\ g \in Nat /\ t \in Nat \ {0} /\ g % t = 0 /\ i \in Nat /\ 1 <= i /\ i <= m /\ m \in Nat
    BY <2>2, <2>4, <2>5, <2>6, <2>7
  <2> HIDE DEF o, b, y, g, t, m
  <2>10. PICK k \in Nat : g = k * t /\ g \div t = k
    BY <2>9, Multiples
  <2>11. k >= o
    <3>1. ~ (k * t < o * t)
      <4>1. o * t \in Nat /\ k * t \in Nat
        BY <2>9
      <4> QED BY <4>1, <2>9, <2>10
    <3>2. ~ (k < o)
      BY <3>1, <2>9, FewerBlocks
    <3> QED BY <3>2, <2>9
  <2>12. k + m <= o + b
    <3>1. (k + m) * t = k * t + m * t /\ k + m \in Nat /\ o + b \in Nat
      BY <2>9
    <3>2. ~ ((o + b) * t < (k + m) * t)
      <4>1. (o + b) * t \in Nat /\ k * t \in Nat /\ m * t \in Nat
        BY <2>9
      <4> QED BY <3>1, <4>1, <2>9, <2>10
    <3>3. ~ (o + b < k + m)
      BY <3>1, <3>2, <2>9, FewerBlocks
    <3> QED BY <3>1, <3>3
  <2>13. (g \div t) + i - 1 \in o..(o + b - 1)
    BY <2>9, <2>10, <2>11, <2>12
  <2> QED BY <2>8, <2>13 DEF o, b
<1> QED BY <1>1, Invariance, PTL

-----------------------------------------------------------------------------
(* Every port is an elevator.                                              *)

bars == <<servedState, servedDrive, servedStart, servedSize, servedMoved>>

\* What the elevator sees of a packet.
LEMMA Seen ==
  ASSUME TypeOK, NEW o \in Packet
  PROVE  /\ stage[o] \in {"new", "checked"} => servedState[o] = "new"
         /\ stage[o] = "queued" => servedState[o] = "waiting"
         /\ stage[o] = "current" => servedState[o] = "served"
         /\ stage[o] = "done" => servedState[o] = "ended"
         /\ iopl[o].disk \in Disk /\ stage[o] # "checked" =>
              servedDrive[o] = PortOf(o) /\ servedStart[o] = Origin(o) /\ servedSize[o] = iopl[o].Length \div Size(o)
         /\ ~ (iopl[o].disk \in Disk /\ stage[o] # "checked") =>
              servedDrive[o] = None /\ servedStart[o] = 0 /\ servedSize[o] = 0
         /\ servedMoved[o] = Len(moved[o])
<1>1. Placed(o) <=> iopl[o].disk \in Disk /\ stage[o] # "checked"
  BY PortAssumption DEF Placed, TypeOK, Location
<1>2. /\ stage[o] \in {"new", "checked"} => servedState[o] = "new"
      /\ stage[o] = "queued" => servedState[o] = "waiting"
      /\ stage[o] = "current" => servedState[o] = "served"
      /\ stage[o] = "done" => servedState[o] = "ended"
  BY DEF servedState
<1>3. /\ Placed(o) => /\ servedDrive[o] = PortOf(o) /\ servedStart[o] = Origin(o)
                      /\ servedSize[o] = iopl[o].Length \div Size(o)
      /\ ~ Placed(o) => servedDrive[o] = None /\ servedStart[o] = 0 /\ servedSize[o] = 0
  BY DEF servedDrive, servedStart, servedSize, PortOf, Origin, Size
<1>4. servedMoved[o] = Len(moved[o])
  BY DEF servedMoved
<1> QED BY <1>1, <1>2, <1>3, <1>4

LEMMA Domains ==
  /\ servedState = [o \in Packet |-> servedState[o]] /\ servedDrive = [o \in Packet |-> servedDrive[o]]
  /\ servedStart = [o \in Packet |-> servedStart[o]] /\ servedSize = [o \in Packet |-> servedSize[o]]
  /\ servedMoved = [o \in Packet |-> servedMoved[o]]
<1>1. servedState = [o \in Packet |-> servedState[o]]
  BY Zenon DEF servedState
<1>2. servedDrive = [o \in Packet |-> servedDrive[o]]
  BY Zenon DEF servedDrive
<1>3. servedStart = [o \in Packet |-> servedStart[o]]
  BY Zenon DEF servedStart
<1>4. servedSize = [o \in Packet |-> servedSize[o]]
  BY Zenon DEF servedSize
<1>5. servedMoved = [o \in Packet |-> servedMoved[o]]
  BY Zenon DEF servedMoved
<1> QED BY <1>1, <1>2, <1>3, <1>4, <1>5

LEMMA DomainsAfter ==
  /\ servedState' = [o \in Packet |-> servedState'[o]] /\ servedDrive' = [o \in Packet |-> servedDrive'[o]]
  /\ servedStart' = [o \in Packet |-> servedStart'[o]] /\ servedSize' = [o \in Packet |-> servedSize'[o]]
  /\ servedMoved' = [o \in Packet |-> servedMoved'[o]]
<1>1. servedState' = [o \in Packet |-> servedState'[o]]
  BY Zenon DEF servedState
<1>2. servedDrive' = [o \in Packet |-> servedDrive'[o]]
  BY Zenon DEF servedDrive
<1>3. servedStart' = [o \in Packet |-> servedStart'[o]]
  BY Zenon DEF servedStart
<1>4. servedSize' = [o \in Packet |-> servedSize'[o]]
  BY Zenon DEF servedSize
<1>5. servedMoved' = [o \in Packet |-> servedMoved'[o]]
  BY Zenon DEF servedMoved
<1> QED BY <1>1, <1>2, <1>3, <1>4, <1>5

Same(o) ==
  /\ servedState'[o] = servedState[o] /\ servedDrive'[o] = servedDrive[o]
  /\ servedStart'[o] = servedStart[o] /\ servedSize'[o] = servedSize[o]
  /\ servedMoved'[o] = servedMoved[o]

LEMMA SameFrame ==
  ASSUME TypeOK, NEW o \in Packet,
         iopl'[o] = iopl[o], moved'[o] = moved[o], stage'[o] = stage[o]
  PROVE  Same(o)
<1>1. Placed(o)' <=> Placed(o)
  BY DEF Placed
<1>2. servedState'[o] = servedState[o]
  BY DEF servedState
<1>3. /\ servedDrive'[o] = servedDrive[o] /\ servedStart'[o] = servedStart[o]
      /\ servedSize'[o] = servedSize[o] /\ servedMoved'[o] = servedMoved[o]
  BY <1>1 DEF servedDrive, servedStart, servedSize, servedMoved
<1> QED BY <1>2, <1>3 DEF Same

LEMMA AllSame ==
  ASSUME \A o \in Packet : Same(o)
  PROVE  UNCHANGED bars
<1>1. /\ servedState' = servedState /\ servedDrive' = servedDrive /\ servedStart' = servedStart
      /\ servedSize' = servedSize /\ servedMoved' = servedMoved
  BY Domains, DomainsAfter DEF Same
<1> QED BY <1>1 DEF bars

LEMMA ElevatorBegins == Init => Elevator!Init
<1> SUFFICES ASSUME Init PROVE Elevator!Init
  OBVIOUS
<1>1. \A o \in Packet : stage[o] = "new" /\ iopl[o].disk = None /\ Len(moved[o]) = 0
  BY DEF Init, NoLocation
<1>2. /\ servedState = [r \in Packet |-> "new"] /\ servedDrive = [r \in Packet |-> None]
      /\ servedStart = [r \in Packet |-> 0] /\ servedSize = [r \in Packet |-> 0]
      /\ servedMoved = [r \in Packet |-> 0]
  BY <1>1 DEF servedState, servedDrive, servedStart, servedSize, servedMoved, Placed
<1> QED BY <1>2 DEF Elevator!Init

\* A packet that is refused ends, and one that is not is still new.
LEMMA AcceptIsElevator ==
  ASSUME Inv, Inv', NEW r \in Packet, NEW c \in Calls[r], AHCIOperation(r, c)
  PROVE  Elevator!Next \/ UNCHANGED bars
<1>1. stage[r] = "new" /\ moved' = moved /\ TypeOK /\ TypeOK' /\ moved[r] = <<>> /\ iopl[r] = NoLocation
  BY DEF AHCIOperation, hbaVars, Inv, Progress, PacketRight, Waits, InPlace, Known
<1>2. CASE Accepted(c)
  <2>1. stage' = [stage EXCEPT ![r] = "checked"] /\ iopl' = [iopl EXCEPT ![r] = Translated(c)]
    BY <1>2, Zenon DEF AHCIOperation, Accepted
  <2>2. /\ stage'[r] = "checked"
        /\ \A o \in Packet : o # r => stage'[o] = stage[o] /\ iopl'[o] = iopl[o]
    BY <1>1, <2>1 DEF TypeOK
  <2>3. iopl[r].disk \notin Disk
    BY <1>1, PortAssumption DEF NoLocation
  <2>4. Same(r)
    <3>1. /\ servedState[r] = "new" /\ servedDrive[r] = None /\ servedStart[r] = 0 /\ servedSize[r] = 0
          /\ servedMoved[r] = Len(moved[r])
      BY <1>1, <2>3, Seen
    <3>2. /\ servedState'[r] = "new" /\ servedDrive'[r] = None /\ servedStart'[r] = 0 /\ servedSize'[r] = 0
          /\ servedMoved'[r] = Len(moved'[r])
      BY <2>2 DEF servedState, servedDrive, servedStart, servedSize, servedMoved, Placed
    <3> QED BY <1>1, <3>1, <3>2 DEF Same
  <2>5. \A o \in Packet : o # r => Same(o)
    BY <1>1, <2>2, SameFrame
  <2> QED BY <2>4, <2>5, AllSame
<1>3. CASE ~ Accepted(c)
  <2>1. stage' = [stage EXCEPT ![r] = "done"] /\ UNCHANGED iopl
    BY <1>3, Zenon DEF AHCIOperation, Accepted
  <2>2. stage'[r] = "done" /\ \A o \in Packet : o # r => stage'[o] = stage[o]
    BY <1>1, <2>1 DEF TypeOK
  <2>3. \A o \in Packet : o # r => Same(o)
    BY <1>1, <2>1, <2>2, SameFrame
  <2>4. /\ servedState[r] = "new" /\ servedState'[r] = "ended"
        /\ servedDrive'[r] = servedDrive[r] /\ servedStart'[r] = servedStart[r]
        /\ servedSize'[r] = servedSize[r] /\ servedMoved'[r] = servedMoved[r]
    BY <1>1, <2>1, <2>2 DEF servedState, servedDrive, servedStart, servedSize, servedMoved, Placed, NoLocation
  <2>5. /\ servedState' = [servedState EXCEPT ![r] = "ended"]
        /\ servedDrive' = servedDrive /\ servedStart' = servedStart
        /\ servedSize' = servedSize /\ servedMoved' = servedMoved
    BY <2>3, <2>4, Domains, DomainsAfter DEF Same
  <2> QED BY <2>4, <2>5 DEF Elevator!Next, Elevator!Refuse
<1> QED BY <1>2, <1>3

\* A packet the elevator serves: its port works on it; one that waits is in
\* the queue of its port.
LEMMA ServedIs ==
  ASSUME Inv, NEW o \in Packet, NEW p \in Port
  PROVE  /\ (servedState[o] = "served" /\ servedDrive[o] = p) <=> currentRequest[p] = o
         /\ (servedState[o] = "waiting" /\ servedDrive[o] = p) <=>
              \E i \in 1..Len(requestList[p]) : requestList[p][i] = o
<1>1. /\ TypeOK /\ CurrentInPlace /\ QueueInPlace /\ None \notin Port
      /\ stage[o] \in {"current", "queued"} => iopl[o].disk \in Disk
  BY PortAssumption DEF Inv, InPlace, Known
<1>2. stage[o] \in {"new", "checked", "queued", "current", "done"} /\ o # None
  BY <1>1, PortAssumption DEF TypeOK
<1>3. /\ servedState[o] = "served" <=> stage[o] = "current"
      /\ servedState[o] = "waiting" <=> stage[o] = "queued"
  BY <1>1, <1>2, Seen
<1>4. stage[o] \in {"current", "queued"} => servedDrive[o] = PortOf(o)
  BY <1>1, Seen
<1>5. currentRequest[p] = o => stage[o] = "current" /\ PortOf(o) = p
  BY <1>1, <1>2 DEF CurrentInPlace
<1>6. stage[o] = "current" => currentRequest[PortOf(o)] = o
  BY <1>1 DEF CurrentInPlace
<1>7. (\E i \in 1..Len(requestList[p]) : requestList[p][i] = o) => stage[o] = "queued" /\ PortOf(o) = p
  BY <1>1 DEF QueueInPlace
<1>8. stage[o] = "queued" => \E i \in 1..Len(requestList[PortOf(o)]) : requestList[PortOf(o)][i] = o
  BY <1>1 DEF QueueInPlace
<1> QED BY <1>3, <1>4, <1>5, <1>6, <1>7, <1>8

LEMMA TransferIsElevator ==
  ASSUME Inv, Inv', NEW r \in Packet, PerformTransfer(r)
  PROVE  Elevator!Next
<1> DEFINE p == PortOf(r)
<1>1. /\ stage[r] = "checked" /\ p \in Port /\ UNCHANGED <<iopl, moved>>
      /\ (Starts(r) \/ Queues(r)) /\ TypeOK /\ TypeOK'
  BY TransferOutcome DEF Inv
<1>2. /\ iopl[r].disk \in Disk /\ PortOf(r)' = p /\ Size(r)' = Size(r) /\ Origin(r)' = Origin(r)
      /\ PacketRight(r) /\ Size(r) \in Nat \ {0}
  BY <1>1, SizeTyped DEF Inv, InPlace, Known, Progress, PortOf, Size, Origin
<1>3. /\ stage' = [stage EXCEPT ![r] = IF currentRequest[p] = None THEN "current" ELSE "queued"]
  BY <1>1 DEF Starts, Queues
<1>4. /\ stage'[r] = IF currentRequest[p] = None THEN "current" ELSE "queued"
      /\ \A o \in Packet : o # r => stage'[o] = stage[o]
  BY <1>1, <1>3 DEF TypeOK
<1>5. \A o \in Packet : o # r => Same(o)
  BY <1>1, <1>4, SameFrame
<1>6. /\ servedState[r] = "new"
      /\ servedState'[r] = IF currentRequest[p] = None THEN "served" ELSE "waiting"
      /\ servedDrive'[r] = p /\ servedStart'[r] = Origin(r) /\ servedSize'[r] = iopl[r].Length \div Size(r)
      /\ servedMoved'[r] = servedMoved[r]
  <2>1. servedState[r] = "new" /\ servedMoved[r] = Len(moved[r])
    BY <1>1, Seen
  <2>2. Placed(r)'
    BY <1>1, <1>2, <1>4, PortAssumption DEF Placed
  <2>3. servedState'[r] = IF currentRequest[p] = None THEN "served" ELSE "waiting"
    BY <1>4 DEF servedState
  <2>4. servedMoved'[r] = Len(moved'[r])
    BY DEF servedMoved
  <2>5. servedDrive'[r] = PortOf(r)' /\ servedStart'[r] = Origin(r)' /\ servedSize'[r] = (iopl[r].Length)' \div Size(r)'
    BY <2>2 DEF servedDrive, servedStart, servedSize, PortOf, Origin, Size
  <2> QED BY <1>1, <1>2, <2>1, <2>3, <2>4, <2>5
<1> HIDE DEF p
<1>7. Origin(r) \in Nat /\ iopl[r].Length \div Size(r) \in Nat \ {0}
  <2>1. iopl[r].Offset \in Nat /\ iopl[r].Context \in Nat /\ iopl[r].Length \in Nat
    BY <1>1 DEF TypeOK, Location
  <2>2. iopl[r].Context <= iopl[r].Offset /\ iopl[r].Length % Size(r) = 0 /\ iopl[r].Length > 0
    BY <1>2 DEF PacketRight, OnDrive
  <2>3. Origin(r) \in Nat
    BY <2>1, <2>2 DEF Origin
  <2>4. iopl[r].Length \div Size(r) \in Nat /\ iopl[r].Length = (iopl[r].Length \div Size(r)) * Size(r)
    BY <2>1, <2>2, <1>2, Multiples
  <2>5. iopl[r].Length \div Size(r) # 0
    <3> DEFINE k == iopl[r].Length \div Size(r)
    <3>1. k \in Nat /\ iopl[r].Length = k * Size(r)
      BY <2>4
    <3> HIDE DEF k
    <3>2. k # 0
      BY <3>1, <2>2, <1>2
    <3> QED BY <3>2 DEF k
  <2> QED BY <2>3, <2>4, <2>5
<1>8. {o \in Packet : servedState[o] = "served" /\ servedDrive[o] = p} = {} <=> currentRequest[p] = None
  <2>1. \A o \in Packet : (servedState[o] = "served" /\ servedDrive[o] = p) <=> currentRequest[p] = o
    BY <1>1, ServedIs
  <2>2. currentRequest[p] \in Packet \cup {None}
    BY <1>1 DEF TypeOK
  <2> QED BY <2>1, <2>2, PortAssumption
<1>9. /\ servedState' = [servedState EXCEPT ![r] = servedState'[r]]
      /\ servedDrive' = [servedDrive EXCEPT ![r] = servedDrive'[r]]
      /\ servedStart' = [servedStart EXCEPT ![r] = servedStart'[r]]
      /\ servedSize' = [servedSize EXCEPT ![r] = servedSize'[r]]
      /\ servedMoved' = servedMoved
  BY <1>5, <1>6, Domains, DomainsAfter DEF Same
<1>10. Elevator!Accept(r)
  <2>1. servedState'[r] = IF {o \in Packet : servedState[o] = "served" /\ servedDrive[o] = servedDrive'[r]} = {}
                          THEN "served" ELSE "waiting"
    BY <1>6, <1>8
  <2> QED BY <1>1, <1>6, <1>7, <1>9, <2>1 DEF Elevator!Accept, Elevator!InState
<1> QED BY <1>10 DEF Elevator!Next

\* The adapter moves one block of the packet that is served.
LEMMA CompleteIsElevator ==
  ASSUME Inv, Inv', NEW p \in Port, Complete(p)
  PROVE  Elevator!Next \/ UNCHANGED bars
<1>1. /\ p \in PxCI
      /\ moved' = IF command[p].packet = None THEN moved
                  ELSE [moved EXCEPT ![command[p].packet] =
                          Append(@, [lba |-> command[p].lba, at |-> command[p].at])]
      /\ UNCHANGED <<currentRequest, command, starting, stage, iopl>>
      /\ TypeOK /\ TypeOK'
  BY DEF Complete, portVars, packetVars, Inv
<1>2. ASSUME NEW o \in Packet, moved'[o] = moved[o] PROVE Same(o)
  BY <1>1, <1>2, SameFrame
<1>3. CASE currentRequest[p] = None
  <2>1. moved' = moved
    BY <1>1, <1>3 DEF Inv, Progress, CommandRight
  <2> QED BY <1>2, <2>1, AllSame
<1>4. ASSUME NEW r \in Packet, currentRequest[p] = r PROVE Elevator!Next
  <2>1. stage[r] = "current" /\ PortOf(r) = p /\ r # None /\ iopl[r].disk \in Disk /\ PacketRight(r)
    BY <1>4, PortAssumption DEF Inv, InPlace, CurrentInPlace, Known, Progress
  <2>2. command[p].packet = r
    <3>1. command[p] = BlockOf(r, iopl[r], p)
      BY <1>1, <1>4, <2>1 DEF Inv, Progress, CommandRight
    <3> QED BY <3>1 DEF BlockOf
  <2>3. /\ \A o \in Packet : o # r => moved'[o] = moved[o]
        /\ moved'[r] = Append(moved[r], [lba |-> command[p].lba, at |-> command[p].at])
    BY <1>1, <2>1, <2>2 DEF TypeOK
  <2>4. Len(moved[r]) \in Nat /\ Len(moved'[r]) = Len(moved[r]) + 1
    BY <1>1, <2>3, LenProperties DEF TypeOK, Command
  <2>5. Len(moved[r]) < iopl[r].Length \div Size(r)
    <3> DEFINE m == Len(moved[r])
               t == Size(r)
               y == iopl[r].Length
               x == iopl[r].Context
    <3>1. p \notin {q \in Port : Executed(q)}
      BY <1>1 DEF Executed
    <3>2. m * t = x /\ x < y /\ y % t = 0
      BY <2>1, <3>1 DEF PacketRight, Works, OnDrive
    <3>3. m \in Nat /\ t \in Nat \ {0} /\ y \in Nat
      BY <1>1, <2>1, <2>4, SizeTyped DEF TypeOK, Location
    <3> HIDE DEF m, t, y, x
    <3>4. y \div t \in Nat /\ y = (y \div t) * t
      BY <3>2, <3>3, Multiples
    <3>5. m < y \div t
      <4> DEFINE k == y \div t
      <4>1. k \in Nat /\ y = k * t
        BY <3>4
      <4> HIDE DEF k
      <4>2. m * t < k * t
        BY <3>2, <4>1
      <4>3. m < k
        BY <3>3, <4>1, <4>2, FewerBlocks
      <4> QED BY <4>3 DEF k
    <3> QED BY <3>5 DEF m, t, y
  <2>6. /\ servedState[r] = "served" /\ servedMoved[r] = Len(moved[r])
        /\ servedSize[r] = iopl[r].Length \div Size(r)
    BY <1>1, <2>1, Seen
  <2>7. \A o \in Packet : o # r => Same(o)
    BY <1>2, <2>3
  <2>8. /\ servedState'[r] = servedState[r] /\ servedDrive'[r] = servedDrive[r]
        /\ servedStart'[r] = servedStart[r] /\ servedSize'[r] = servedSize[r]
        /\ servedMoved'[r] = servedMoved[r] + 1
    <3>1. Placed(r)' <=> Placed(r)
      BY <1>1 DEF Placed
    <3>2. servedMoved'[r] = Len(moved'[r])
      BY DEF servedMoved
    <3>3. servedState'[r] = servedState[r]
      BY <1>1 DEF servedState
    <3>4. /\ servedDrive'[r] = servedDrive[r] /\ servedStart'[r] = servedStart[r]
          /\ servedSize'[r] = servedSize[r]
      BY <1>1, <3>1 DEF servedDrive, servedStart, servedSize
    <3> QED BY <2>4, <2>6, <3>2, <3>3, <3>4
  <2>9. /\ servedState' = servedState /\ servedDrive' = servedDrive /\ servedStart' = servedStart
        /\ servedSize' = servedSize /\ servedMoved' = [servedMoved EXCEPT ![r] = servedMoved[r] + 1]
    BY <2>7, <2>8, Domains, DomainsAfter DEF Same
  <2> QED BY <2>5, <2>6, <2>9 DEF Elevator!Next, Elevator!Move
<1> QED BY <1>1, <1>3, <1>4 DEF TypeOK

\* The DPC ends the packet its port serves and takes one that begins before
\* all the others that wait.
LEMMA DPCIsElevator ==
  ASSUME Inv, Inv', NEW p \in Port, AHCIDPCFunction(p)
  PROVE  Elevator!Next \/ UNCHANGED bars
<1> DEFINE Goes(r) == LET l == Advanced(iopl[r], p)
                          n == Head(requestList[p])
                      IN \/ Continues(p, r, l)
                         \/ Rests(p, r, l)
                         \/ GoesOn(p, r, l, n) /\ n \in Packet
<1>1. /\ UNCHANGED <<moved, StatusBlock>> /\ TypeOK /\ TypeOK'
      /\ Wakes(p) \/ (currentRequest[p] \in Packet /\ Goes(currentRequest[p]))
  BY DPCOutcome DEF Inv
<1>2. CASE Wakes(p)
  <2>1. UNCHANGED <<stage, iopl>>
    BY <1>2 DEF Wakes
  <2>2. \A o \in Packet : Same(o)
    BY <1>1, <2>1, SameFrame
  <2> QED BY <2>2, AllSame
<1>3. ASSUME NEW r \in Packet, r = currentRequest[p], Goes(r) PROVE Elevator!Next \/ UNCHANGED bars
  <2> DEFINE l == Advanced(iopl[r], p)
  <2>0. \/ Continues(p, r, l)
        \/ Rests(p, r, l)
        \/ \E n \in Packet : n = Head(requestList[p]) /\ GoesOn(p, r, l, n)
    BY <1>3
  <2> HIDE DEF Goes
  <2>1. stage[r] = "current" /\ PortOf(r) = p /\ iopl[r].disk \in Disk /\ PacketRight(r)
    BY <1>3, PortAssumption DEF Inv, InPlace, CurrentInPlace, Known, Progress
  <2>2. iopl' = [iopl EXCEPT ![r] = l]
    BY <2>0 DEF Continues, Rests, GoesOn
  <2>3. /\ Size(r) \in Nat \ {0} /\ Size(r)' = Size(r) /\ PortOf(r)' = p /\ iopl'[r].disk \in Disk
        /\ iopl'[r].Length = iopl[r].Length /\ Origin(r)' = Origin(r)
    BY <1>1, <2>1, <2>2, AdvanceRight
  <2>4. \A o \in Packet : o # r => iopl'[o] = iopl[o]
    BY <1>1, <2>2, AdvanceStays
  <2>5. /\ servedState[r] = "served" /\ servedDrive[r] = p /\ servedStart[r] = Origin(r)
        /\ servedSize[r] = iopl[r].Length \div Size(r) /\ servedMoved[r] = Len(moved[r])
    BY <1>1, <2>1, Seen
  <2>6. stage'[r] # "checked" =>
          /\ servedDrive'[r] = servedDrive[r] /\ servedStart'[r] = servedStart[r]
          /\ servedSize'[r] = servedSize[r] /\ servedMoved'[r] = servedMoved[r]
    <3>1. stage'[r] # "checked" => Placed(r)'
      BY <2>3, PortAssumption DEF Placed
    <3>2. stage'[r] # "checked" =>
            /\ servedDrive'[r] = PortOf(r)' /\ servedStart'[r] = Origin(r)'
            /\ servedSize'[r] = iopl'[r].Length \div Size(r)'
      BY <3>1 DEF servedDrive, servedStart, servedSize, PortOf, Origin, Size
    <3>3. servedMoved'[r] = Len(moved'[r])
      BY DEF servedMoved
    <3> QED BY <1>1, <2>3, <2>5, <3>2, <3>3
  <2>7. stage'[r] = "done" => servedMoved[r] = servedSize[r]
    <3> SUFFICES ASSUME stage'[r] = "done" PROVE servedMoved[r] = servedSize[r]
      OBVIOUS
    <3>1. Ended(r)'
      BY DEF Inv, Progress, PacketRight
    <3>2. Len(moved[r]) * Size(r) = iopl[r].Length
      BY <1>1, <2>3, <3>1 DEF Ended
    <3>3. Len(moved[r]) \in Nat
      BY <1>1, LenProperties DEF TypeOK
    <3>4. (Len(moved[r]) * Size(r)) \div Size(r) = Len(moved[r])
      BY <2>3, <3>3, WholeBlocks
    <3> QED BY <2>5, <3>2, <3>4
  <2> HIDE DEF l
  <2>8. CASE Continues(p, r, l)
    <3>1. UNCHANGED stage
      BY <2>8 DEF Continues
    <3>2. Same(r)
      BY <2>1, <2>6, <3>1 DEF Same, servedState
    <3>3. \A o \in Packet : o # r => Same(o)
      BY <1>1, <2>4, <3>1, SameFrame
    <3> QED BY <3>2, <3>3, AllSame
  <2>9. \A o \in Packet : (servedState[o] = "waiting" /\ servedDrive[o] = p) <=>
                            \E i \in 1..Len(requestList[p]) : requestList[p][i] = o
    BY ServedIs
  <2>10. CASE Rests(p, r, l)
    <3>1. stage' = [stage EXCEPT ![r] = "done"] /\ requestList[p] = <<>>
      BY <2>10 DEF Rests
    <3>2. stage'[r] = "done" /\ \A o \in Packet : o # r => stage'[o] = stage[o]
      BY <1>1, <3>1 DEF TypeOK
    <3>3. servedState'[r] = "ended"
      BY <3>2 DEF servedState
    <3>4. \A o \in Packet : o # r => Same(o)
      BY <1>1, <2>4, <3>2, SameFrame
    <3>5. /\ servedState' = [servedState EXCEPT ![r] = "ended"]
          /\ servedDrive' = servedDrive /\ servedStart' = servedStart
          /\ servedSize' = servedSize /\ servedMoved' = servedMoved
      BY <2>6, <3>2, <3>3, <3>4, Domains, DomainsAfter DEF Same
    <3>6. {o \in Packet : servedState[o] = "waiting" /\ servedDrive[o] = servedDrive[r]} = {}
      BY <2>5, <2>9, <3>1
    <3> QED BY <2>5, <2>7, <3>2, <3>5, <3>6 DEF Elevator!Next, Elevator!Finish, Elevator!InState
  <2>11. ASSUME NEW n \in Packet, n = Head(requestList[p]), GoesOn(p, r, l, n) PROVE Elevator!Next
    <3>1. stage' = [stage EXCEPT ![r] = "done", ![n] = "current"] /\ requestList[p] # <<>>
      BY <2>11 DEF GoesOn
    <3>2. n = requestList[p][1] /\ Len(requestList[p]) \in Nat /\ 1 \in 1..Len(requestList[p])
      <4>1. requestList[p] \in Seq(Packet)
        BY <1>1 DEF TypeOK
      <4> QED BY <2>11, <3>1, <4>1, EmptySeq, LenProperties
    <3>3. stage[n] = "queued" /\ PortOf(n) = p /\ n # r
      BY <2>1, <3>2 DEF Inv, InPlace, QueueInPlace
    <3>4. /\ stage'[r] = "done" /\ stage'[n] = "current"
          /\ \A o \in Packet : o # r /\ o # n => stage'[o] = stage[o]
      BY <1>1, <3>1, <3>3 DEF TypeOK
    <3>5. servedState'[r] = "ended" /\ servedState'[n] = "served"
      BY <3>4 DEF servedState
    <3>6. \A o \in Packet : o # r /\ o # n => Same(o)
      BY <1>1, <2>4, <3>4, SameFrame
    <3>7. /\ servedDrive'[n] = servedDrive[n] /\ servedStart'[n] = servedStart[n]
          /\ servedSize'[n] = servedSize[n] /\ servedMoved'[n] = servedMoved[n]
      <4>1. iopl'[n] = iopl[n] /\ moved'[n] = moved[n]
        BY <1>1, <2>4, <3>3
      <4>2. Placed(n) <=> Placed(n)'
        BY <3>3, <3>4, <4>1 DEF Placed
      <4> QED BY <4>1, <4>2 DEF servedDrive, servedStart, servedSize, servedMoved
    <3>8. servedState' = [servedState EXCEPT ![r] = "ended", ![n] = "served"]
      BY <3>3, <3>5, <3>6, Domains, DomainsAfter DEF Same
    <3>9. /\ servedDrive' = servedDrive /\ servedStart' = servedStart
          /\ servedSize' = servedSize /\ servedMoved' = servedMoved
      BY <2>6, <3>4, <3>6, <3>7, Domains, DomainsAfter DEF Same
    <3>10. n \in {o \in Packet : servedState[o] = "waiting" /\ servedDrive[o] = servedDrive[r]}
      BY <2>5, <2>9, <3>2
    <3>11. ASSUME NEW q \in {o \in Packet : servedState[o] = "waiting" /\ servedDrive[o] = servedDrive[r]}
           PROVE  servedStart[n] <= servedStart[q]
      <4>1. PICK i \in 1..Len(requestList[p]) : requestList[p][i] = q
        BY <2>5, <2>9
      <4>2. iopl[n].Offset <= iopl[q].Offset
        <5>1. CASE i = 1
          <6>1. iopl[n].Offset \in Nat /\ q = n
            BY <1>1, <3>2, <4>1, <5>1 DEF TypeOK, Location
          <6> QED BY <6>1
        <5>2. CASE i # 1
          <6>1. 1 < i
            BY <3>2, <5>2
          <6> QED BY <3>2, <4>1, <6>1 DEF Inv, InPlace, Sorted
        <5> QED BY <5>1, <5>2
      <4>3. stage[q] = "queued" /\ iopl[q].disk \in Disk /\ iopl[n].disk \in Disk
        BY <3>3, <4>1 DEF Inv, InPlace, QueueInPlace, Known
      <4>4. iopl[n].Context = 0 /\ iopl[q].Context = 0
        BY <3>3, <4>3 DEF Inv, Progress, PacketRight, Waits
      <4>5. servedStart[n] = Origin(n) /\ servedStart[q] = Origin(q)
        BY <1>1, <3>3, <4>3, Seen
      <4>6. iopl[n].Offset \in Nat /\ iopl[q].Offset \in Nat
        BY <1>1 DEF TypeOK, Location
      <4> QED BY <4>2, <4>4, <4>5, <4>6 DEF Origin
    <3>12. Elevator!Finish(r)
      <4>1. {o \in Packet : servedState[o] = "waiting" /\ servedDrive[o] = servedDrive[r]} # {}
        BY <3>10
      <4> QED BY <2>5, <2>7, <3>4, <3>8, <3>9, <3>10, <3>11, <4>1 DEF Elevator!Finish, Elevator!InState
    <3> QED BY <3>12 DEF Elevator!Next
  <2> QED BY <2>0, <2>8, <2>10, <2>11
<1> QED BY <1>1, <1>2, <1>3

LEMMA StepIsElevator == Inv /\ Inv' /\ [Next]_vars => Elevator!Next \/ UNCHANGED bars
<1> SUFFICES ASSUME Inv, Inv', [Next]_vars PROVE Elevator!Next \/ UNCHANGED bars
  OBVIOUS
<1>0. ASSUME UNCHANGED <<stage, iopl, moved>> PROVE UNCHANGED bars
  BY <1>0, SameFrame, AllSame DEF Inv
<1>1. ASSUME NEW r \in Packet, NEW c \in Calls[r], AHCIOperation(r, c) PROVE Elevator!Next \/ UNCHANGED bars
  BY <1>1, AcceptIsElevator
<1>2. ASSUME NEW r \in Packet, PerformTransfer(r) PROVE Elevator!Next
  BY <1>2, TransferIsElevator
<1>3. ASSUME NEW p \in Port, AHCIDPCFunction(p) PROVE Elevator!Next \/ UNCHANGED bars
  BY <1>3, DPCIsElevator
<1>4. ASSUME NEW p \in Port, Complete(p) PROVE Elevator!Next \/ UNCHANGED bars
  BY <1>4, CompleteIsElevator
<1>5. CASE IssueCommand
  BY <1>0, <1>5 DEF IssueCommand, packetVars
<1>6. ASSUME NEW p \in Port, BeginIdentify(p) \/ EndIdentify(p) PROVE UNCHANGED bars
  BY <1>0, <1>6 DEF BeginIdentify, EndIdentify, packetVars, hbaVars
<1>7. ASSUME NEW p \in Port, NEW bit \in {"DHR", "ERROR"}, Raise(p, bit) PROVE UNCHANGED bars
  BY <1>0, <1>7 DEF Raise, packetVars
<1>8. CASE Interrupt
  BY <1>0, <1>8 DEF Interrupt, EnterInterrupt, ClearIS, ScanPorts, ClearPortStatus, ReadIssued,
     packetVars, hbaVars
<1>9. CASE UNCHANGED vars
  BY <1>0, <1>9 DEF vars, packetVars, hbaVars
<1> QED BY <1>1, <1>2, <1>3, <1>4, <1>5, <1>6, <1>7, <1>8, <1>9 DEF Next, Halted

\* Every port serves its packets like an elevator: one at a time, block after
\* block, and next one that begins no later on the medium than any other.
THEOREM AHCIIsElevator == Spec => ImplementsElevator
<1>1. Init => Elevator!Init
  BY ElevatorBegins
<1>2. Inv /\ Inv' /\ [Next]_vars => [Elevator!Next]_(Elevator!vars)
  BY StepIsElevator DEF bars, Elevator!vars
<1> QED BY <1>1, <1>2, Invariance, PTL DEF Spec, Elevator!Spec, ImplementsElevator
=============================================================================
