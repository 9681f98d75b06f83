-------------------------------- MODULE AHCI --------------------------------
(***************************************************************************)
(* The AHCI driver at run time (BootDrivers/AHCI/DriverAHCI.c): packets    *)
(* arrive from threads, one command at a time is given to each port, the   *)
(* interrupt finds out which commands are complete and a DPC goes on with  *)
(* the next block or the next packet.  One processor; the host bus adapter *)
(* runs beside it.                                                         *)
(***************************************************************************)
EXTENDS Naturals, Sequences

CONSTANTS
  Port,          \* indices of the ports that have a drive
  Disk,          \* disk objects: a drive as a whole, or a partition of it
  Packet,        \* I/O packets, numbered in the order in which they are sent
  None,
  DiskPort,      \* [Disk -> Port]          struct AHCIDisk.port
  BlockOffset,   \* [Disk -> Nat]           struct AHCIDisk.blockOffset
  Blocks,        \* [Disk -> Nat]           struct AHCIDisk.blocks
  BlockSize,     \* [Port -> Nat \ {0}]     1 << port->blockLog
  Calls,         \* for every packet what may be asked for, the alignment of
                 \* the buffer and whether MmMDLPin can pin it
  Moody          \* ports whose drive may interrupt in the middle of a command
                 \* or report an error

Request == [disk : Disk, write : BOOLEAN, offset : Nat, length : Nat,
            aligned : BOOLEAN, pinned : BOOLEAN]

ASSUME PortAssumption == Port \subseteq Nat /\ Packet \subseteq Nat /\ None \notin Nat \cup Disk
ASSUME DiskAssumption ==
  /\ DiskPort \in [Disk -> Port] /\ BlockOffset \in [Disk -> Nat]
  /\ Blocks \in [Disk -> Nat] /\ BlockSize \in [Port -> Nat \ {0}]
ASSUME CallAssumption ==
  /\ Moody \subseteq Port
  /\ \A r \in Packet : Calls[r] \subseteq Request

VARIABLES
  \* struct AHCIPort, for every port
  phase,            \* "off", "identify" or "ready"
  currentRequest,   \* the packet the port works on
  requestList,      \* the packets from requestListHead on
  pendingCommands,  \* bit 0: a command was given to the port
  signaled,         \* ports whose completion event is signaled
  enqueued,         \* ports whose DPC is enqueued
  command,          \* command list and command table of the port
  \* the processor
  starting,         \* the port whose command table is written, not yet issued
  irq,              \* where AHCIInterrupt is
  \* struct IOPacketLocation, for every packet
  stage, iopl,
  StatusBlock,      \* status and number of bytes, for the sender
  \* the adapter
  PxCI,             \* ports that execute a command
  raising,          \* ports that have completed one and not said so
  PxIS,             \* interrupt status of each port
  IS,               \* interrupt status of the adapter
  moved             \* history: the blocks transferred for each packet

portVars   == <<phase, currentRequest, requestList, pendingCommands, signaled, enqueued, command>>
packetVars == <<stage, iopl, StatusBlock>>
hbaVars    == <<PxCI, raising, PxIS, IS, moved>>
vars       == <<portVars, starting, irq, packetVars, hbaVars>>

-----------------------------------------------------------------------------
(* Data.                                                                   *)

Location == [disk : Disk \cup {None}, write : BOOLEAN, Offset : Nat, Length : Nat, Context : Nat]
NoLocation == [disk |-> None, write |-> FALSE, Offset |-> 0, Length |-> 0, Context |-> 0]

\* One block of a packet, or the IDENTIFY data when there is no packet.
Command  == [packet : Packet \cup {None}, lba : Nat, at : Nat, write : BOOLEAN]
Identify == [packet |-> None, lba |-> 0, at |-> 0, write |-> FALSE]

Handler == [at : {"out", "clear", "scan", "port", "issue", "crashed"},
            ports : SUBSET Port, port : Port \cup {None}, pstatus : SUBSET {"DHR", "ERROR"}]
Away    == [at |-> "out", ports |-> {}, port |-> None, pstatus |-> {}]

Init ==
  /\ phase = [p \in Port |-> "off"]
  /\ currentRequest = [p \in Port |-> None]
  /\ requestList = [p \in Port |-> <<>>]
  /\ pendingCommands = [p \in Port |-> 0]
  /\ signaled = {} /\ enqueued = {}
  /\ command = [p \in Port |-> Identify]
  /\ starting = None
  /\ irq = Away
  /\ stage = [r \in Packet |-> "new"]
  /\ iopl = [r \in Packet |-> NoLocation]
  /\ StatusBlock = [r \in Packet |-> [Status |-> "SUCCESS", Length |-> 0]]
  /\ PxCI = {} /\ raising = {} /\ IS = {}
  /\ PxIS = [p \in Port |-> {}]
  /\ moved = [r \in Packet |-> <<>>]

\* DPCs run when no interrupt is handled and nothing else is at IPLDPC,
\* threads when no DPC is left.
AtDPC    == irq.at = "out" /\ starting = None
AtThread == AtDPC /\ enqueued = {}

-----------------------------------------------------------------------------
(* Commands.                                                               *)

BlockOf(r, l, p) ==
  [packet |-> r, lba |-> l.Offset \div BlockSize[p], at |-> l.Context, write |-> l.write]

\* StartTransfer up to the section with interrupts off.
StartTransfer(p, r, l) ==
  /\ command' = [command EXCEPT ![p] = BlockOf(r, l, p)]
  /\ starting' = p

\* ... and the section: the command is pending and the adapter has it.
IssueCommand ==
  /\ irq.at = "out" /\ starting # None
  /\ pendingCommands' = [pendingCommands EXCEPT ![starting] = 1]
  /\ PxCI' = PxCI \cup {starting}
  /\ starting' = None
  /\ UNCHANGED <<phase, currentRequest, requestList, signaled, enqueued, command, irq, packetVars,
                 raising, PxIS, IS, moved>>

\* InitializePort: IDENTIFY, then a wait for the completion event.
BeginIdentify(p) ==
  /\ AtThread /\ phase[p] = "off"
  /\ \A q \in Port : q < p => phase[q] = "ready"
  /\ phase' = [phase EXCEPT ![p] = "identify"]
  /\ command' = [command EXCEPT ![p] = Identify]
  /\ pendingCommands' = [pendingCommands EXCEPT ![p] = 1]
  /\ signaled' = signaled \ {p}
  /\ PxCI' = PxCI \cup {p}
  /\ UNCHANGED <<currentRequest, requestList, enqueued, starting, irq, packetVars,
                 raising, PxIS, IS, moved>>

EndIdentify(p) ==
  /\ AtThread /\ phase[p] = "identify" /\ p \in signaled
  /\ phase' = [phase EXCEPT ![p] = "ready"]
  /\ signaled' = signaled \ {p}
  /\ UNCHANGED <<currentRequest, requestList, pendingCommands, enqueued, command, starting, irq,
                 packetVars, hbaVars>>

-----------------------------------------------------------------------------
(* Packets from threads.                                                   *)

Bytes(d) == Blocks[d] * BlockSize[DiskPort[d]]

\* What of the packet lies on the disk object.
Available(c) == IF Bytes(c.disk) - c.offset < c.length THEN Bytes(c.disk) - c.offset ELSE c.length

Odd(c, n) == n % BlockSize[DiskPort[c.disk]] # 0
StartsPastEnd(c) == c.offset >= Bytes(c.disk)

\* The checks of AHCIOperation: "go on", or the status the packet ends with.
Verdict(c) ==
  IF StartsPastEnd(c) THEN IF c.write THEN "END_OF_DISK" ELSE "SUCCESS"
  ELSE IF Odd(c, c.offset) \/ ~c.aligned \/ Odd(c, Available(c)) THEN "UNALIGNED"
  ELSE IF Available(c) = 0 THEN "SUCCESS"
  ELSE IF c.pinned THEN "go on" ELSE "FAULT"

\* PerformTransfer's translation to an offset on the drive.
Unclipped(c) ==
  [disk |-> c.disk, write |-> c.write, Length |-> c.length, Context |-> 0,
   Offset |-> c.offset + BlockOffset[c.disk] * BlockSize[DiskPort[c.disk]]]
Untranslated(c) ==
  [disk |-> c.disk, write |-> c.write, Length |-> Available(c), Context |-> 0, Offset |-> c.offset]
Translated(c) ==
  [disk |-> c.disk, write |-> c.write, Length |-> Available(c), Context |-> 0,
   Offset |-> c.offset + BlockOffset[c.disk] * BlockSize[DiskPort[c.disk]]]

\* The thread that initializes the ports does so before it goes on to mount
\* a disk and to start others.
AHCIOperation(r, c) ==
  /\ AtThread /\ stage[r] = "new" /\ \A p \in Port : phase[p] = "ready"
  /\ \A q \in Packet : q < r => stage[q] # "new"
  /\ LET v == Verdict(c)
     IN IF v = "go on"
        THEN /\ stage' = [stage EXCEPT ![r] = "checked"]
             /\ iopl' = [iopl EXCEPT ![r] = Translated(c)]
             /\ StatusBlock' = [StatusBlock EXCEPT ![r] = [Status |-> "SUCCESS", Length |-> Available(c)]]
        ELSE /\ stage' = [stage EXCEPT ![r] = "done"]
             /\ StatusBlock' = [StatusBlock EXCEPT ![r] =
                  [Status |-> v, Length |-> IF v = "SUCCESS" THEN 0 ELSE c.length]]
             /\ UNCHANGED iopl
  /\ UNCHANGED <<portVars, starting, irq, hbaVars>>

Appended(q, r) == Append(q, r)

\* In front of the first packet that starts further on.
InsertPacket(q, r) ==
  LET after == {i \in 1..Len(q) : iopl[q[i]].Offset > iopl[r].Offset}
  IN IF after = {} THEN Append(q, r)
     ELSE LET k == CHOOSE i \in after : \A j \in after : i <= j
          IN SubSeq(q, 1, k - 1) \o <<r>> \o SubSeq(q, k, Len(q))

\* The rest of PerformTransfer, at IPLDPC.
PerformTransfer(r) ==
  LET p == DiskPort[iopl[r].disk]
  IN /\ AtThread /\ stage[r] = "checked"
     /\ IF currentRequest[p] = None
        THEN /\ currentRequest' = [currentRequest EXCEPT ![p] = r]
             /\ stage' = [stage EXCEPT ![r] = "current"]
             /\ StartTransfer(p, r, iopl[r])
             /\ UNCHANGED requestList
        ELSE /\ requestList' = [requestList EXCEPT ![p] = InsertPacket(@, r)]
             /\ stage' = [stage EXCEPT ![r] = "queued"]
             /\ UNCHANGED <<currentRequest, command, starting>>
     /\ UNCHANGED <<phase, pendingCommands, signaled, enqueued, irq, iopl, StatusBlock, hbaVars>>

-----------------------------------------------------------------------------
(* The DPC of a port.                                                      *)

InBufferOnly(l, p) == [l EXCEPT !.Context = @ + BlockSize[p]]
Advanced(l, p) == [disk |-> l.disk, write |-> l.write, Length |-> l.Length,
                   Offset |-> l.Offset + BlockSize[p], Context |-> l.Context + BlockSize[p]]

NoneLeft(q) == <<>>
Rest(q)     == Tail(q)

AHCIDPCFunction(p) ==
  LET r == currentRequest[p]
      l == Advanced(iopl[r], p)
      n == Head(requestList[p])
  IN /\ AtDPC /\ p \in enqueued
     /\ enqueued' = enqueued \ {p}
     /\ \/ /\ r = None
           /\ signaled' = signaled \cup {p}
           /\ UNCHANGED <<currentRequest, requestList, command, starting, stage, iopl>>
        \/ /\ r # None
           /\ UNCHANGED signaled
           /\ iopl' = [iopl EXCEPT ![r] = l]
           /\ \/ /\ l.Context < l.Length
                 /\ StartTransfer(p, r, l)
                 /\ UNCHANGED <<currentRequest, requestList, stage>>
              \/ /\ l.Context >= l.Length /\ requestList[p] = <<>>
                 /\ currentRequest' = [currentRequest EXCEPT ![p] = None]
                 /\ stage' = [stage EXCEPT ![r] = "done"]
                 /\ UNCHANGED <<requestList, command, starting>>
              \/ /\ l.Context >= l.Length /\ requestList[p] # <<>>
                 /\ currentRequest' = [currentRequest EXCEPT ![p] = n]
                 /\ requestList' = [requestList EXCEPT ![p] = Rest(@)]
                 /\ stage' = [stage EXCEPT ![r] = "done", ![n] = "current"]
                 /\ StartTransfer(p, n, iopl[n])
     /\ UNCHANGED <<phase, pendingCommands, irq, StatusBlock, hbaVars>>

-----------------------------------------------------------------------------
(* AHCIInterrupt, between whose register accesses the adapter moves on.    *)

\* Read IS ...
EnterInterrupt ==
  /\ irq.at = "out" /\ IS # {}
  /\ irq' = [irq EXCEPT !.at = "clear", !.ports = IS]
  /\ UNCHANGED <<portVars, starting, packetVars, hbaVars>>

EveryBit == Port
StatusWritten == irq.ports

\* ... and write it back.  The adapter may set the bit of a port whose own
\* status is not yet clear once more.
ClearIS ==
  /\ irq.at = "clear"
  /\ \E again \in {{}, {p \in irq.ports : PxIS[p] # {}}} : IS' = (IS \ StatusWritten) \cup again
  /\ irq' = [irq EXCEPT !.at = "scan"]
  /\ UNCHANGED <<portVars, starting, packetVars, PxCI, raising, PxIS, moved>>

\* The next port of the loop: read PxIS, or return after the last one.
ScanPorts ==
  /\ irq.at = "scan"
  /\ \/ /\ irq.ports = {}
        /\ irq' = Away
     \/ \E p \in irq.ports :
          /\ \A q \in irq.ports : p <= q
          /\ irq' = [at |-> "port", ports |-> irq.ports \ {p}, port |-> p, pstatus |-> PxIS[p]]
  /\ UNCHANGED <<portVars, starting, packetVars, hbaVars>>

\* Write PxIS back and look at the errors.
ClearPortStatus ==
  /\ irq.at = "port"
  /\ PxIS' = [PxIS EXCEPT ![irq.port] = @ \ irq.pstatus]
  /\ irq' = [irq EXCEPT !.at = IF "ERROR" \in irq.pstatus THEN "crashed" ELSE "issue"]
  /\ UNCHANGED <<portVars, starting, packetVars, PxCI, raising, IS, moved>>

\* What was pending and is no longer executed.
CompletedAnything(p) == p \notin PxCI
Completed(p)         == p \notin PxCI /\ pendingCommands[p] = 1

\* Read PxCI.
ReadIssued ==
  LET p == irq.port
  IN /\ irq.at = "issue"
     /\ irq' = [irq EXCEPT !.at = "scan"]
     /\ IF Completed(p)
        THEN /\ pendingCommands' = [pendingCommands EXCEPT ![p] = 0]
             /\ enqueued' = enqueued \cup {p}
        ELSE UNCHANGED <<pendingCommands, enqueued>>
     /\ UNCHANGED <<phase, currentRequest, requestList, signaled, command, starting, packetVars, hbaVars>>

-----------------------------------------------------------------------------
(* The adapter (external).  It transfers the block and clears PxCI before  *)
(* it reports the completion, and may interrupt in between commands' data. *)

Complete(p) ==
  LET c == command[p]
  IN /\ p \in PxCI
     /\ PxCI' = PxCI \ {p}
     /\ raising' = raising \cup {p}
     /\ moved' = IF c.packet = None THEN moved
                 ELSE [moved EXCEPT ![c.packet] = Append(@, [lba |-> c.lba, at |-> c.at])]
     /\ UNCHANGED <<portVars, starting, irq, packetVars, PxIS, IS>>

\* The interrupt of a completion, of a part of a command or of an error.
Raise(p, bit) ==
  /\ \/ bit = "DHR" /\ p \in raising
     \/ p \in PxCI \cap Moody
  /\ raising' = IF p \in PxCI THEN raising ELSE raising \ {p}
  /\ PxIS' = [PxIS EXCEPT ![p] = @ \cup {bit}]
  /\ IS' = IS \cup {p}
  /\ UNCHANGED <<portVars, starting, irq, packetVars, PxCI, moved>>

\* KeCrash does not return.
Halted == irq.at = "crashed" /\ UNCHANGED vars

-----------------------------------------------------------------------------
Interrupt == EnterInterrupt \/ ClearIS \/ ScanPorts \/ ClearPortStatus \/ ReadIssued

Next ==
  \/ \E r \in Packet : \E c \in Calls[r] : AHCIOperation(r, c)
  \/ \E r \in Packet : PerformTransfer(r)
  \/ \E p \in Port : BeginIdentify(p) \/ EndIdentify(p) \/ AHCIDPCFunction(p) \/ Complete(p)
  \/ \E p \in Port, bit \in {"DHR", "ERROR"} : Raise(p, bit)
  \/ IssueCommand \/ Interrupt \/ Halted

Spec == Init /\ [][Next]_vars

\* The processor runs what it can, and the adapter executes what it is given.
FairSpec ==
  /\ Spec
  /\ WF_vars(IssueCommand) /\ WF_vars(Interrupt)
  /\ \A p \in Port : /\ WF_vars(AHCIDPCFunction(p)) /\ WF_vars(Complete(p))
                     /\ WF_vars(p \in raising \ PxCI /\ Raise(p, "DHR"))
                     /\ WF_vars(EndIdentify(p))
  /\ \A r \in Packet : WF_vars(PerformTransfer(r))
-----------------------------------------------------------------------------
(* Properties.                                                             *)

TypeOK ==
  /\ phase \in [Port -> {"off", "identify", "ready"}]
  /\ currentRequest \in [Port -> Packet \cup {None}]
  /\ requestList \in [Port -> Seq(Packet)]
  /\ pendingCommands \in [Port -> 0..1]
  /\ signaled \subseteq Port /\ enqueued \subseteq Port
  /\ command \in [Port -> Command]
  /\ starting \in Port \cup {None}
  /\ irq \in Handler
  /\ stage \in [Packet -> {"new", "checked", "queued", "current", "done"}]
  /\ iopl \in [Packet -> Location]
  /\ StatusBlock \in [Packet -> [Status : {"SUCCESS", "END_OF_DISK", "UNALIGNED", "FAULT"}, Length : Nat]]
  /\ PxCI \subseteq Port /\ raising \subseteq Port /\ IS \subseteq Port
  /\ PxIS \in [Port -> SUBSET {"DHR", "ERROR"}]
  /\ moved \in [Packet -> Seq([lba : Nat, at : Nat])]

Busy(p) == currentRequest[p] # None \/ (phase[p] = "identify" /\ p \notin signaled)

\* A port with work has exactly one command: being written, given to the
\* adapter, or complete with the DPC enqueued for it.  Neither an interrupt
\* nor a DPC may take one completion for two.
OneCommandEach ==
  \A p \in Port :
    /\ Busy(p) <=> (starting = p \/ pendingCommands[p] = 1 \/ p \in enqueued)
    /\ pendingCommands[p] = 1 => starting # p /\ p \notin enqueued
    /\ starting = p => p \notin enqueued
    /\ p \in PxCI => pendingCommands[p] = 1

\* A completion the adapter has not told of is about to be, or the handler
\* still has to read PxCI for it: none is lost, in whatever order status
\* bits are read, set again and cleared.
CompletionsNoticed ==
  \A p \in Port :
    pendingCommands[p] = 1 /\ p \notin PxCI =>
      \/ p \in raising \cup IS
      \/ irq.at \in {"clear", "scan", "port", "issue"} /\ p \in irq.ports
      \/ irq.at \in {"port", "issue"} /\ irq.port = p
      \/ irq.at = "crashed"

FirstBlock(r) ==
  (iopl[r].Offset - iopl[r].Context) \div BlockSize[DiskPort[iopl[r].disk]]

\* However completions, DPCs and other packets fall in between, the blocks of
\* a packet are transferred once each, in order and to their place in the
\* buffer, and a packet that ends was refused untouched or has them all.
BlocksInOrder ==
  \A r \in Packet : iopl[r].disk # None =>
    LET size == BlockSize[DiskPort[iopl[r].disk]]
        n    == Len(moved[r])
    IN /\ \A i \in 1..n : moved[r][i] = [lba |-> FirstBlock(r) + i - 1, at |-> (i - 1) * size]
       /\ stage[r] = "done" => n * size = iopl[r].Length

\* The sender is told the number of bytes that were transferred.
ReportsWhatMoved ==
  \A r \in Packet : stage[r] = "done" =>
    IF StatusBlock[r].Status = "SUCCESS" /\ StatusBlock[r].Length # 0
    THEN StatusBlock[r].Length = Len(moved[r]) * BlockSize[DiskPort[iopl[r].disk]]
    ELSE moved[r] = <<>>

\* No packet for a partition reaches a block of another one.
StaysOnDisk ==
  \A r \in Packet : \A i \in 1..Len(moved[r]) :
    LET d == iopl[r].disk
    IN moved[r][i].lba \in BlockOffset[d]..(BlockOffset[d] + Blocks[d] - 1)

\* Every port is an elevator: a packet is new to it until PerformTransfer has
\* put it somewhere.
Placed(r) == iopl[r].disk # None /\ stage[r] # "checked"

servedState == [r \in Packet |-> CASE stage[r] \in {"new", "checked"} -> "new"
                                   [] stage[r] = "queued"  -> "waiting"
                                   [] stage[r] = "current" -> "served"
                                   [] OTHER -> "ended"]
servedDrive == [r \in Packet |-> IF Placed(r) THEN DiskPort[iopl[r].disk] ELSE None]
servedStart == [r \in Packet |-> IF Placed(r) THEN iopl[r].Offset - iopl[r].Context ELSE 0]
servedSize  == [r \in Packet |-> IF Placed(r) THEN iopl[r].Length \div BlockSize[DiskPort[iopl[r].disk]]
                                 ELSE 0]
servedMoved == [r \in Packet |-> Len(moved[r])]

Elevator == INSTANCE DiskQueue WITH
  Drive <- Port, state <- servedState, drive <- servedDrive, start <- servedStart,
  size <- servedSize, moved <- servedMoved

ImplementsElevator == Elevator!Spec

\* Without an error every accepted packet ends, and IDENTIFY's wait too.
EveryPacketEnds ==
  /\ \A r \in Packet : stage[r] \in {"checked", "queued", "current"}
                        ~> (stage[r] = "done" \/ irq.at = "crashed")
  /\ \A p \in Port : phase[p] = "identify" ~> (phase[p] = "ready" \/ irq.at = "crashed")
=============================================================================
