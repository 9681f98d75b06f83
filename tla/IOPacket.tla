------------------------------ MODULE IOPacket ------------------------------
(***************************************************************************)
(* I/O packets: how a thread sends them through the drivers, splits them,  *)
(* waits for them, cancels them and outlives them (IO/IOPacket.df,         *)
(* IOTransfer.df, IOCancel.df), with the FAT driver and a device below.    *)
(*                                                                         *)
(* Threads share nothing here but the drivers, which hold packets of any   *)
(* sender in any order: one thread is modelled, with the kernel APCs that  *)
(* run on top of it and may do I/O of their own.  Completion, at IPLDPC,   *)
(* is one step.                                                            *)
(***************************************************************************)
EXTENDS Integers, FiniteSets, Sequences, Functions, SequencesExt

CONSTANTS
  None,
  Packets,        \* bound: how many packets there is memory for
  Requests,       \* what the thread asks for
  MaxRequests,    \* bound: and how often
  MaxFragments,   \* bound: associated packets of one packet
  Undisturbed     \* no status is copied to a page that is not there while
                  \* packets are being associated

Targets == {"file", "volume", "fats", "duplex"}
Request == [how : {"sync", "async"}, target : Targets, routine : BOOLEAN]

ASSUME RequestAssumption == Requests \subseteq Request
ASSUME BoundAssumption ==
  Packets \in Nat /\ MaxRequests \in Nat /\ MaxFragments \in Nat /\ Undisturbed \in BOOLEAN

Packet == 1..Packets
\* The thread, and the kernel APC that interrupts it.
Level == {"thread", "apc"}
ASSUME NoneAssumption == None \notin Packet /\ None \notin Level

VARIABLES
  packet,     \* [Packet -> what is in it]
  queue,      \* the packets drivers hold
  deferred,   \* the thread's PsThread_IOPDeferredList
  iolist,     \* its PsThread_IOListHead, a set here
  apcs,       \* packets whose completion APC is queued
  userapcs,   \* packets whose user APC is queued
  finishing,  \* the packet whose completion APC runs, or None
  frame,      \* the call of IOPacketEnqueue at each level, and what it is for
  signaled,   \* the event of each level's synchronous I/O
  made,       \* requests so far
  told,       \* history: what the sender of each was told, and how often
  failed      \* history: the requests of which some part failed

vars == <<packet, queue, deferred, iolist, apcs, userapcs, finishing, frame, signaled, made,
          told, failed>>
listVars == <<iolist, apcs, userapcs, finishing>>

-----------------------------------------------------------------------------
(* Data.                                                                   *)

Statuses == {"ok", "error"}
Devices  == {"disk", "part", "duplex"}   \* a part of a file on the disk is one of its own
Request0 == 0..MaxRequests   \* 0: page-ins on behalf of a request

Free == [state |-> "free", type |-> "normal", parent |-> None, IOCount |-> 0, status |-> "ok",
         flags |-> {}, at |-> "part", event |-> None, routine |-> FALSE, request |-> 0]

\* IOPacketAllocate, n times: any packets that are free, all different.
FreePackets == {p \in Packet : packet[p].state = "free"}
Fresh(n) == CHOOSE s \in [1..n -> FreePackets] : IsInjective(s)
There(n) == Cardinality(FreePackets) >= n

Idle == [pc |-> "idle", how |-> "sync", own |-> None, iop |-> None, rest |-> <<>>, frags |-> <<>>,
         master |-> FALSE, ok |-> "ok", count |-> 0]

Init ==
  /\ packet = [p \in Packet |-> Free]
  /\ queue = {} /\ deferred = <<>>
  /\ iolist = {} /\ apcs = {} /\ userapcs = {} /\ finishing = None
  /\ frame = [l \in Level |-> Idle]
  /\ signaled = [l \in Level |-> FALSE]
  /\ made = 0
  /\ told = [r \in 1..MaxRequests |-> <<>>]
  /\ failed = {}

\* The thread stands still while an APC runs on it.
Runs(l) == l = "thread" => finishing = None

-----------------------------------------------------------------------------
(* Completion.                                                             *)

\* The turn of IOPacketComplete for one packet: what is left of it.
StatusTo(p, s, f) == IF s = "ok" THEN f[p].status ELSE s

Told(flags, status) == IF status = "ok" THEN flags \cup {"DOCOMPLT", "COMPLETE"}
                       ELSE flags \cup {"COMPLETE"}

One(f, p, s) ==
  LET status == StatusTo(p, s, f)
      flags  == IF f[p].IOCount > 1 THEN f[p].flags ELSE Told(f[p].flags, status)
  IN [f EXCEPT ![p].status = status, ![p].flags = flags, ![p].IOCount = @ - 1]

Ends(f, p) == f[p].IOCount <= 1

\* IOPacketComplete, of the packet and of the master it may be the last part
\* of.  A packet has one master at most: the FAT driver sends its fragments
\* to a disk.
Childless(f, p) == {}
Parents(f, p) == IF Ends(f, p) /\ f[p].parent # None THEN {f[p].parent} ELSE {}
Ended(f, p)   == {q \in {p} \cup Parents(f, p) : Ends(f, q)}

Completed(f, p, s) ==
  LET f1 == One(f, p, s)
  IN IF Parents(f, p) = {} THEN f1 ELSE One(f1, f[p].parent, f1[p].status)

\* IOPacketFinishEitherContext frees what nobody waits for.
Rundown(f, E) == [q \in Packet |-> IF q \in E /\ f[q].type = "normal" /\ "FREEIOP" \in f[q].flags
                                   THEN Free ELSE f[q]]

Complete(f, p, s) ==
  /\ packet' = Rundown(Completed(f, p, s), Ended(f, p))
  /\ signaled' = [l \in Level |-> signaled[l] \/ \E q \in Ended(f, p) : f[q].event = l]
  /\ apcs' = apcs \cup {q \in Ended(f, p) : f[q].type = "userasync"}
  /\ failed' = IF s = "ok" THEN failed ELSE failed \cup {f[p].request}

\* A driver below finishes with a packet in its DPC.
Finishes(p) ==
  /\ p \in queue
  /\ \E s \in Statuses : Complete(packet, p, s)
  /\ queue' = queue \ {p}
  /\ UNCHANGED <<deferred, iolist, userapcs, finishing, frame, made, told>>

-----------------------------------------------------------------------------
(* Dispatching a packet: one turn of the inner loop of IOPacketEnqueue.    *)

Busy(l, pc) == frame[l].pc = pc /\ Runs(l)
Goto(l, pc) == frame' = [frame EXCEPT ![l].pc = pc]
Iop(l)      == frame[l].iop
At(l)       == packet[Iop(l)].at

\* The dispatch function returned: errors of associated packets are not for
\* the caller.
OkAfter(l, e)    == IF frame[l].master THEN e ELSE frame[l].ok
Leave(l, e)      == frame' = [frame EXCEPT ![l].pc = "next", ![l].ok = OkAfter(l, e)]

\* The file ends before, or something is in the way.  FatMirrorWrite takes a
\* write in front of the first FAT for complete, but not for done: the
\* dispatch function hands it to the disk all the same.
EndEarly(l) ==
  /\ Busy(l, "dispatch") /\ At(l) \in {"file", "volume", "fats"}
  /\ \E s \in Statuses, done \in BOOLEAN :
       /\ done \/ (s = "ok" /\ At(l) = "fats")
       /\ Complete(IF done THEN packet ELSE [packet EXCEPT ![Iop(l)].at = "disk"], Iop(l), s)
       /\ IF done THEN Leave(l, s) ELSE UNCHANGED frame
  /\ UNCHANGED <<queue, deferred, iolist, userapcs, finishing, made, told>>

\* IOPacketAllocateAssocStack and what FatReadWrite and FatMirrorWrite put
\* into the fragments.
Allocated(l, frags) ==
  [p \in Packet |-> IF p \in Range(frags)
                    THEN [Free EXCEPT !.state = "live", !.IOCount = 1, !.flags = {"FREEIOP"},
                                      !.request = packet[Iop(l)].request]
                    ELSE packet[p]]

\* FatReadWrite: the first fragment is the packet itself.
Split(l) ==
  /\ Busy(l, "dispatch") /\ At(l) \in {"file", "fats"}
  /\ \E n \in 0..MaxFragments :
       /\ There(n)
       /\ packet' = Allocated(l, Fresh(n))
       /\ frame' = [frame EXCEPT ![l].pc = "associate", ![l].frags = Fresh(n)]
  /\ UNCHANGED <<queue, deferred, listVars, signaled, made, told, failed>>

\* A fragment cannot be had or a block not be found: those there are go.
Kept(f, frags) == f
Freed(f, frags) == [p \in Packet |-> IF p \in Range(frags) THEN Free ELSE f[p]]
FailToSplit(l) ==
  /\ Busy(l, "dispatch") /\ At(l) \in {"file", "fats"}
  /\ \E n \in 1..MaxFragments :
       /\ There(n)
       /\ Complete(Freed(Allocated(l, Fresh(n)), Fresh(n)), Iop(l), "error")
  /\ Leave(l, "error")
  /\ UNCHANGED <<queue, deferred, iolist, userapcs, finishing, made, told>>

\* The next driver is the disk's: at the next location, or at the same one.
PassOn(l) ==
  /\ \/ Busy(l, "dispatch") /\ At(l) = "volume"
     \/ Busy(l, "associate") /\ frame[l].frags = <<>>
  /\ packet' = [packet EXCEPT ![Iop(l)].at = IF At(l) = "volume" THEN "disk" ELSE "part"]
  /\ Goto(l, "dispatch")
  /\ UNCHANGED <<queue, deferred, listVars, signaled, made, told, failed>>

\* IOPacketAssociate: the count of the master is read ...
ReadCount(l) ==
  /\ Busy(l, "associate") /\ frame[l].frags # <<>>
  /\ frame' = [frame EXCEPT ![l].pc = "bump", ![l].count = packet[Iop(l)].IOCount]
  /\ UNCHANGED <<packet, queue, deferred, listVars, signaled, made, told, failed>>

\* ... and written, one higher, and the packet put on the deferred list.
IOPacketAssociate(l) ==
  /\ Busy(l, "bump")
  /\ packet' = [packet EXCEPT ![Iop(l)].IOCount = frame[l].count + 1,
                              ![Head(frame[l].frags)].parent = Iop(l)]
  /\ deferred' = Append(deferred, Head(frame[l].frags))
  /\ frame' = [frame EXCEPT ![l].pc = "associate", ![l].frags = Tail(@)]
  /\ UNCHANGED <<queue, listVars, signaled, made, told, failed>>

\* A device keeps the packet (IOPacketWasEnqueued) ...
Keep(l) ==
  /\ Busy(l, "dispatch") /\ At(l) \in Devices
  /\ queue' = queue \cup {Iop(l)}
  /\ packet' = [packet EXCEPT ![Iop(l)].flags = @ \cup {"DOCOMPLT"}]
  /\ Leave(l, "ok")
  /\ UNCHANGED <<deferred, listVars, signaled, made, told, failed>>

\* ... or is done with it at once.  Only a part of a file is never empty.
FinishAtOnce(l) ==
  /\ Busy(l, "dispatch") /\ At(l) \in Devices
  /\ \E s \in Statuses :
       /\ s = "ok" => At(l) # "part"
       /\ Complete(packet, Iop(l), s)
       /\ Leave(l, s)
  /\ UNCHANGED <<queue, deferred, iolist, userapcs, finishing, made, told>>

\* The next packet in the chain, or else all that have been deferred, or else
\* IOPacketEnqueue is done.
Takes     == deferred
LeftThere == deferred
LeftOver  == <<>>
NextPacket(l) ==
  /\ Busy(l, "next")
  /\ IF frame[l].rest # <<>>
     THEN /\ frame' = [frame EXCEPT ![l].pc = "dispatch", ![l].master = FALSE,
                                    ![l].iop = Head(frame[l].rest), ![l].rest = Tail(@)]
          /\ UNCHANGED deferred
     ELSE /\ frame' = IF Takes # <<>>
                      THEN [frame EXCEPT ![l].pc = "dispatch", ![l].master = FALSE,
                                         ![l].iop = Head(Takes), ![l].rest = Tail(Takes)]
                      ELSE [frame EXCEPT ![l].pc = "entered", ![l].master = FALSE, ![l].iop = None]
          /\ deferred' = LeftOver
  /\ UNCHANGED <<packet, queue, listVars, signaled, made, told, failed>>

-----------------------------------------------------------------------------
(* Requests.                                                               *)

NewPacket(r) ==
  [Free EXCEPT !.state = "live", !.IOCount = 1, !.at = r.target, !.routine = r.routine,
               !.type = IF r.how = "sync" THEN "normal" ELSE "userasync",
               !.event = IF r.how = "sync" THEN "thread" ELSE None,
               !.flags = IF r.how = "async" /\ ~r.routine THEN {"FREEIOP"} ELSE {},
               !.request = made + 1]

Enter(p, how) == [Idle EXCEPT !.pc = "dispatch", !.how = how, !.own = p, !.iop = p, !.master = TRUE]

\* IOReadWrite and IOReadWriteAsync, up to their call of IOPacketEnqueue.
Ask(r) ==
  /\ Busy("thread", "idle") /\ made < MaxRequests /\ There(1)
  /\ LET p == Fresh(1)[1]
     IN /\ packet' = [packet EXCEPT ![p] = NewPacket(r)]
        /\ frame' = [frame EXCEPT !["thread"] = Enter(p, r.how)]
        /\ iolist' = IF r.how = "async" THEN iolist \cup {p} ELSE iolist
        /\ signaled' = [signaled EXCEPT !["thread"] = @ /\ r.how = "async"]
        /\ made' = made + 1
  /\ UNCHANGED <<queue, deferred, apcs, userapcs, finishing, told, failed>>

Tell(r, status) == told' = [told EXCEPT ![r] = Append(@, status)]

\* The sender of an asynchronous request is told of an error at once.
ReturnFromAsync ==
  /\ Busy("thread", "entered") /\ frame["thread"].how = "async"
  /\ frame' = [frame EXCEPT !["thread"] = Idle]
  /\ IF frame["thread"].ok = "ok" THEN UNCHANGED told ELSE Tell(made, "error")
  /\ UNCHANGED <<packet, queue, deferred, listVars, signaled, made, failed>>

WaitForEvent(l) ==
  /\ Busy(l, "entered") /\ frame[l].how = "sync"
  /\ Goto(l, "wait")
  /\ UNCHANGED <<packet, queue, deferred, listVars, signaled, made, told, failed>>

\* A timeout or an alert ends the wait of a user's request.
Interrupt ==
  /\ Busy("thread", "wait") /\ ~signaled["thread"]
  /\ frame' = [frame EXCEPT !["thread"].pc = "cancel", !["thread"].ok = "error"]
  /\ UNCHANGED <<packet, queue, deferred, listVars, signaled, made, told, failed>>

\* CoDuplexCancel.  Other drivers have no cancel function.
Cancellable(p) == packet[p].at = "duplex" /\ "COMPLETE" \notin packet[p].flags

Cancel(p) ==
  /\ Complete(packet, p, "error")
  /\ queue' = queue \ {p}

CancelRequest ==
  /\ Busy("thread", "cancel")
  /\ Goto("thread", "drain")
  /\ IF Cancellable(frame["thread"].own)
     THEN Cancel(frame["thread"].own)
     ELSE UNCHANGED <<packet, signaled, apcs, failed, queue>>
  /\ UNCHANGED <<deferred, iolist, userapcs, finishing, made, told>>

\* The end of IOReadWrite, and of the page-in for an APC.
Finish(l) ==
  /\ Busy(l, "wait") \/ Busy(l, "drain")
  /\ signaled[l]
  /\ LET p == frame[l].own
         result == IF frame[l].ok = "ok" THEN packet[p].status ELSE frame[l].ok
     IN /\ packet' = [packet EXCEPT ![p] = Free]
        /\ IF l = "thread" THEN Tell(made, result) ELSE UNCHANGED told
  /\ frame' = [frame EXCEPT ![l] = IF l = "thread" THEN Idle ELSE [Idle EXCEPT !.pc = "routine"]]
  /\ UNCHANGED <<queue, deferred, listVars, signaled, made, failed>>

-----------------------------------------------------------------------------
(* The rest of an asynchronous request, in APCs of its thread.             *)

\* IOiUserAsyncAPCRoutine begins and copies out the status: that may need a
\* page, and so another packet.
BeginAPC(p) ==
  /\ p \in apcs /\ finishing = None /\ frame["thread"].pc # "rundown"
  /\ apcs' = apcs \ {p}
  /\ finishing' = p
  /\ \/ /\ frame' = [frame EXCEPT !["apc"].pc = "routine"]
        /\ UNCHANGED <<packet, signaled>>
     \/ /\ There(1)
        /\ Undisturbed => frame["thread"].pc \notin {"associate", "bump"}
        /\ LET q == Fresh(1)[1]
           IN /\ packet' = [packet EXCEPT ![q] = [Free EXCEPT !.state = "live", !.IOCount = 1,
                                                             !.at = "file", !.event = "apc"]]
              /\ frame' = [frame EXCEPT !["apc"] = Enter(q, "sync")]
        /\ signaled' = [signaled EXCEPT !["apc"] = FALSE]
  /\ UNCHANGED <<queue, deferred, iolist, userapcs, made, told, failed>>

\* The sender gets the message, or the APC it asked for, unless its call
\* failed.
AlwaysByMessage(p) == TRUE
ToldByMessage(p) == "DOCOMPLT" \in packet[p].flags
FinishAPC ==
  /\ Busy("apc", "routine")
  /\ LET p == finishing
     IN /\ IF ToldByMessage(p) THEN Tell(packet[p].request, packet[p].status) ELSE UNCHANGED told
        /\ iolist' = iolist \ {p}
        /\ userapcs' = IF "DOCOMPLT" \in packet[p].flags /\ packet[p].routine
                       THEN userapcs \cup {p} ELSE userapcs
        /\ packet' = IF "FREEIOP" \in packet[p].flags THEN [packet EXCEPT ![p] = Free] ELSE packet
  /\ finishing' = None
  /\ frame' = [frame EXCEPT !["apc"] = Idle]
  /\ UNCHANGED <<queue, deferred, apcs, signaled, made, failed>>

\* IOiUserAsyncUserRoutine, before the user's routine.
UserAPC(p) ==
  /\ Busy("thread", "idle") /\ p \in userapcs
  /\ userapcs' = userapcs \ {p}
  /\ packet' = [packet EXCEPT ![p] = Free]
  /\ UNCHANGED <<queue, deferred, iolist, apcs, finishing, frame, signaled, made, told, failed>>

-----------------------------------------------------------------------------
(* The end of the thread.                                                  *)

PsiThreadExit ==
  /\ Busy("thread", "idle")
  /\ Goto("thread", "rundown")
  /\ UNCHANGED <<packet, queue, deferred, listVars, signaled, made, told, failed>>

\* IOThreadRundown cancels what can be, at IPLAPC ...
RundownCancel ==
  /\ Busy("thread", "rundown")
  /\ \/ \E p \in iolist : /\ Cancellable(p)
                          /\ Cancel(p)
                          /\ UNCHANGED frame
     \/ /\ \A p \in iolist : ~Cancellable(p)
        /\ Goto("thread", "poll")
        /\ UNCHANGED <<packet, signaled, apcs, failed, queue>>
  /\ UNCHANGED <<deferred, iolist, userapcs, finishing, made, told>>

\* ... and waits for all of it; then no APC comes any more, and KeThreadRundown
\* runs the user APCs for their memory.
Impatient == TRUE
Patient == iolist = {}
GoByeBye ==
  /\ Busy("thread", "poll") /\ Patient
  /\ Goto("thread", "gone")
  /\ userapcs' = {}
  /\ packet' = [p \in Packet |-> IF p \in userapcs THEN Free ELSE packet[p]]
  /\ UNCHANGED <<queue, deferred, iolist, apcs, finishing, signaled, made, told, failed>>

-----------------------------------------------------------------------------
\* IOPacketEnqueue and what surrounds it, at one level.
GoOn(l) == \/ EndEarly(l) \/ Split(l) \/ FailToSplit(l) \/ PassOn(l)
           \/ ReadCount(l) \/ IOPacketAssociate(l) \/ Keep(l) \/ FinishAtOnce(l)
           \/ NextPacket(l) \/ WaitForEvent(l) \/ Finish(l)

ThreadStep == GoOn("thread") \/ ReturnFromAsync \/ CancelRequest \/ RundownCancel \/ GoByeBye
APCStep    == GoOn("apc") \/ FinishAPC

Next ==
  \/ \E r \in Requests : Ask(r)
  \/ ThreadStep \/ APCStep \/ Interrupt \/ PsiThreadExit
  \/ \E p \in Packet : BeginAPC(p) \/ UserAPC(p) \/ Finishes(p)

Spec == Init /\ [][Next]_vars

\* Threads run, APCs interrupt them and disks finish; the other end of a
\* duplex owes nothing.
FairSpec ==
  /\ Spec
  /\ WF_vars(ThreadStep) /\ WF_vars(APCStep)
  /\ \A p \in Packet : /\ WF_vars(BeginAPC(p))
                       /\ WF_vars(Finishes(p) /\ packet[p].at # "duplex")

-----------------------------------------------------------------------------
(* Properties.                                                             *)

\* The packets a level has in its hands.
Held(l) ==
  (IF frame[l].pc \in {"dispatch", "associate", "bump"} THEN <<frame[l].iop>> ELSE <<>>)
    \o frame[l].rest \o frame[l].frags
Hands == deferred \o Held("thread") \o Held("apc")

\* A packet on its way is in one place and not yet complete: no driver, chain
\* or list has a packet that another has, that ended, or that was freed.
HeldOnce ==
  /\ IsInjective(Hands)
  /\ Range(Hands) \cap queue = {}
  /\ \A p \in Range(Hands) \cup queue :
       packet[p].state = "live" /\ "COMPLETE" \notin packet[p].flags

\* A packet counts exactly its own part and its associated packets, as long
\* as they are on their way: it ends with the last of them.
PartsOf(p) == {q \in Packet : packet[q].parent = p /\ packet[q].IOCount > 0}
OwnPart(p) == IF p \in Range(Hands) \cup queue THEN 1 ELSE 0
CountsParts ==
  \A p \in Packet : packet[p].state = "live" =>
    packet[p].IOCount = OwnPart(p) + Cardinality(PartsOf(p))

\* A packet that ended is somebody's to free: its sender's, or an APC's.  One
\* with a completion routine whose call failed is not, and stays.
LeftBehind(p) == packet[p].routine /\ "DOCOMPLT" \notin packet[p].flags
Awaited(p) ==
  \/ \E l \in Level : packet[p].event = l /\ frame[l].own = p
  \/ p \in apcs \cup userapcs \cup {finishing}
NothingLost ==
  /\ \A p \in Packet : packet[p].state = "live" /\ packet[p].IOCount = 0 =>
                       Awaited(p) \/ LeftBehind(p)
  /\ frame["thread"].pc = "gone" =>
       \A p \in Packet : packet[p].state = "free" \/ LeftBehind(p)

\* The sender is told once how a request ended, by its call or by message,
\* and of no success when a part of it failed.
Over(r) ==
  /\ r <= made /\ (r = made => frame["thread"].pc \in {"idle", "rundown", "poll", "gone"})
  /\ \A p \in iolist : packet[p].request # r
ToldOnce ==
  \A r \in 1..MaxRequests :
    /\ Len(told[r]) <= 1
    /\ Over(r) => Len(told[r]) = 1
    /\ told[r] = <<"ok">> => r \notin failed

\* What goes to a disk ends, and a thread that exits gets through its rundown.
RequestsEnd ==
  /\ \A l \in Level :
       frame[l].pc = "wait" /\ packet[frame[l].own].at # "duplex" ~> frame[l].pc # "wait"
  /\ frame["thread"].pc = "rundown" ~> frame["thread"].pc = "gone"
=============================================================================
