# Verification of the MINTIA kernel

MINTIA is an operating system in the tradition of NT, written in Dragonfruit, a
small stack language, for the XR/17032, fox32 and 386 machines; some drivers are
in C. This directory holds TLA+ models of its kernel (`src/mintia/OS/OSKernel`)
and of the disk path below it, the TLC configurations that check them on small
instances, and TLAPS proofs of the results that matter most, for every instance.
Paths below are relative to `src/mintia/OS/OSKernel` unless they start with `src/`.

- [The system](#the-system): its parts, their state, how they interact
- [Inventory](#inventory): component by component, what makes it correct
- [The modules](#the-modules): what models what, and how
- [What is checked](#what-is-checked): the runs, their bounds, fairness
- [What is proved](#what-is-proved)
- [Disagreements found](#disagreements-found)
- [What is not modelled](#what-is-not-modelled)
- [Order of work](#order-of-work)

## The system

The machine has one processor. Concurrency comes from three sources, ordered
by interrupt priority level (IPL):

| IPL | who runs | what it excludes |
|---|---|---|
| `IPLLOW` 0, `IPLAPC` 1 | threads; kernel APCs of the current thread | nothing, a thread can be switched out anywhere |
| `IPLDPC` 2 | DPC routines, the dispatcher (all `Ki` routines) | every other thread and DPC |
| 4 to 31 | device, clock and other interrupt routines | what is at or below their level |

A thread raises to `IPLDPC` (`KeIPLRaise`) to touch dispatcher state, and no
thread switch happens until it lowers again: `KeIPLLower` then takes the
software interrupts that became pending. Only interrupt routines interleave
with code at `IPLDPC`, and the little state they share with it is protected by
disabling interrupts, or not at all. This makes the granularity of the models:
a step is what one thread, DPC or interrupt routine does at `IPLDPC` or above
without interrupts being able to interfere with the state it uses.

Calls go downwards: the executive, object, process, memory and I/O managers use
the kernel's waits, events, timers and locks; the kernel calls back upwards
through DPC routines, APC routines and a few events (`MmSwapEvent`). The shared
state that everything hangs on is the dispatcher database: the states of the
threads, the ready queues, the next thread, the wait blocks. Below, an I/O packet
travels down a stack of drivers and back up: a thread sends it, a file system
splits or redirects it, a disk driver queues it, its interrupt and its DPC move
it on, and completion runs in that DPC and then in an APC of the sender.

What is hard here: a wake-up preempting a thread that was itself chosen to
preempt; priorities that change while a thread is queued, next or running;
clock ticks between a computation and its use; timeouts racing satisfied waits
and alerts; stacks and processes swapped out under threads that are being
woken; hand-over of locks by their releaser; packets that end while their sender
gives up, exits or is still splitting them; an adapter that completes commands
between the register accesses of the interrupt handler. No test in the
repository reaches any of these.

## Inventory

**Dispatcher and scheduler** (`Kernel/KeThreadDispatcher.df`). State: per-thread
status, priority, base priority, quantum, quantum-end count, instant-decay and
preempted flags; one ready queue per priority; `KiThreadNext`,
`KeThreadCurrent`; the global list of user-mode waiters. Operations: ready,
wake with boost, block, wait, yield, quantum end, switch to next, set priority
and base priority, boost, boost starved threads. Correct if: a thread is in
exactly the place its status says; the best thread is the one selected; a
selection is followed by a switch; boosts decay to the base and never leave
time-sharing; nothing starves; the idle thread is always there.

**IPL and software interrupts** (`Kernel/KeIPL.df`). State: the current IPL, the
pending software interrupts, `KiDispatchEvents`. Operations: raise, lower,
dispatch of DPCs, quantum end and switch; the clock tick. Correct if: no event
is lost between an interrupt and the handler, and each is charged to whom it
concerns.

**DPC queue and timers** (`Kernel/KeDPC.df`, `Kernel/KeTimer.df`). State: the DPC
list with an enqueued flag per DPC; a calendar queue of timers with the earliest
expiration per bucket. Operations: enqueue, dispatch; start, cancel, expire.
Correct if: the calendar holds exactly the started timers in order; a timer
never fires early, twice or after it is cancelled, and fires when its tick has
come.

**Dispatcher objects and waits** (`Kernel/KeThreadWait.df`, `KeEvent.df`,
`KeMutex.df`, `KeSemaphore.df`, `KeDispatcher.df`). State: signal counts, owners
and recursion counts, wait lists sorted by priority, the wait blocks of each
thread. Operations: wait for one or several objects with a timeout, satisfy one
or all, signal, pulse, release, sleep. Correct if: a signal is consumed exactly
once, a wait ends for one reason, blocks are on lists exactly while their thread
waits, the best waiter goes first, mutexes have one owner.

**APCs, suspension, signals** (`Kernel/KeAPC.df`, `Kernel/KeThread.df`). State:
per-thread APC queues, APC in progress, suspend counts, pending signals.
Correct if: APCs run once, in order, in the context of their thread, and an
alertable wait cannot miss one.

**Processes** (`Kernel/KeProcess.df`). State: residence, base priority, thread
list. Operations: attach, detach, signal, set base priority.

**Swap worker** (`Memory/MmSwapWorker.df`, `MmKernelStack.df`). State: residence
of each stack and process, lists of what is owed a swap. Operations: stack scan,
swap out and in of stacks and processes, readying deferred threads. Correct if:
a runnable thread is never left swapped out, and nothing is swapped out under a
thread that runs.

**Reader-writer locks** (`Executive/ExRwLock.df`). State: exclusive owner, owner
table with recursion counts, waiter counts, a semaphore and an event.
Operations: acquire shared and exclusive, release, demote, with boosts of the
owners. Correct if: writers exclude everybody, no waiter is forgotten, the
table names exactly the holders.

**I/O packets** (`IO/IOPacket.df`, `IO/IOTransfer.df`, `IO/IOCancel.df`). State: a
count of outstanding parts, a status, flags and a location per driver in each
packet; the thread's list of deferred fragments and of its asynchronous I/O.
Operations: enqueue, associate, defer, complete, finish in an APC, cancel, run
down a thread. Correct if: a packet is in one place until it ends, ends when its
last part does, is freed by one, and its sender is told once.

**AHCI driver** (`src/mintia/OS/BootDrivers/AHCI`). State: per port the current
request, a list sorted by offset, pending commands, a DPC and an event.
Operations: check and clip a request, start a block, interrupt, go on. Correct
if: no completion is lost or counted twice, blocks move once, in order and
within their partition, the report is what was moved, and every request ends.

**Handle tables** (`Executive/ExHandleTable.df`), **object manager** (`Object/`):
reference counts, handle counts, deferred deletion by the reaper; an object goes
away exactly when nobody can reach it. **IPC** (`IPC/`): ports, connections,
message queues, quotas and completion; a message is delivered once or returned.
**Processes and threads** (`Process/`): creation, exit and reaping.
**Virtual memory** (`Memory/`): page states across faults, working sets,
eviction and page writing. **I/O caches** (`IO/`). **Console**, **Security**,
**FSRTL**, the **FAT driver**, the **HAL**, other drivers, loader, libraries,
commands and the toolchain complete the repository.

## The modules

| module | models | extends |
|---|---|---|
| `KiDispatcher` | the dispatcher database and each `Ki` routine as an operator on it | |
| `KeScheduler` | the processor: threads, DPCs and interrupts that call those routines | `KiDispatcher` |
| `KiDispatcher_proofs`, `KeScheduler_proofs`, `KeSchedulerWaits_proofs` | the proofs about both | |
| `TimerService` | what timers promise to those who start them (abstract) | |
| `KeTimer` | the calendar queue, the expiration DPC and the clock tick; implements `TimerService` | |
| `KeTimer_proofs` | the proofs about `KeTimer`, its refinement included | `KeTimer` |
| `KeWait` | events, semaphores, mutexes, waits and what ends them early | |
| `KeWait_proofs` | the proofs about it | `KeWait` |
| `ReadersWriter` | what a reader-writer lock promises to its callers (abstract) | |
| `ExRwLock` | the executive reader-writer lock; implements `ReadersWriter` | |
| `ExRwLock_proofs` | the proofs about it, its refinement included | `ExRwLock` |
| `IOPacket` | I/O packets between a thread, its APCs and the drivers | |
| `IOPacket_proofs` | the proofs about it | `IOPacket` |
| `DiskQueue` | what a disk driver promises to packets: an elevator (abstract) | |
| `AHCI` | the AHCI driver and the adapter beside it; implements `DiskQueue` | |
| `AHCI_proofs` | the proofs about it, its refinement included | `AHCI` |
| `MCKeScheduler`, `MCKeTimer`, `MCKeWait`, `MCExRwLock`, `MCIOPacket`, `MCAHCI` | the small instances TLC checks | |

### KiDispatcher

The database is one record; a routine of the source is an operator from the
record before the call to the record after it, and a routine that calls another
applies the other's operator in the same order. That keeps the whole of each
routine (nested readying, the displaced thread's return, the partial quantum
end in a wake-up) in one atomic step, which is what `IPLDPC` makes it. The
doubly linked ready queues are sequences. `Unlink` keeps what the code does to a
queue when a thread that is *not* on it is unlinked (both its links are null, so
head and tail are cleared): the models may not assume the queues are right.
Quanta are bytes; the two quotients that could wrap do (`% ByteRange`). Left
out: run times and statistics, the register switch, and the times a thread
became ready.

Two wait statuses (alertable or not) are kept apart only as a name; the event
of the swap worker is reduced to its two bits, because the dispatcher signals
it from inside `KiThreadReady`.

### KeScheduler

`region` says where the processor is. Below `IPLDPC` (`low`) the current thread
makes a call unless a software interrupt is pending, which then comes first.
A call that wakes, boosts or changes several threads stays at `IPLDPC` in a
region of its own, one iteration a step, so that ticks and DPC requests fall
between the iterations as they do in the code. `KiSoftwareInterruptDPC` takes
the events and goes through its three stages. A thread switched out at `leave`
continues there when it is switched in again, so one program counter for the
processor is enough.

The callers are constrained as in the source: only the thread itself (a worker
or an exiting thread) or the initialization of the reaper sets a real-time
priority; `ExRwLockWait` boosts threads other than itself; base priorities are
only raised here, as `KiProcessBasePrioritySet` does.

### KeTimer

The table, the list links of the timers and their flags are one record, word for
word the source's: each bucket has the head of a doubly linked list and the
earliest expiry in it, and the links are pointers, because the hazard is in the
pointers (a woken waiter cancels a timer of the very list the DPC walks). The walk
of `KeTimerEnqueue` to the place of a new timer is given by what it finds
(`PlacedAfter`), which on a sorted list is one place. The fields of a timer that
leaves the calendar keep what the code leaves in them.

`region` says where the code at `IPLDPC` is. The steps are cut where a clock
interrupt makes a difference: `KeTimerEnqueue` computes the expiry tick in one
step (`ComputeExpiry`), links the timer in a second and, when the timer became
the head, writes the bucket's earliest tick in a third (`NoteEarliest`);
`KeTimerDequeue` disables interrupts and is one step; the DPC reads the clock
once, looks at a bucket, expires a timer, and satisfies its waiters in separate
steps. While it satisfies waiters or runs the timers' own DPCs, any timer may be
cancelled, because the waiters' timeouts are. `KeDPCEnqueue` stores the contexts
before it tests the enqueued flag, as the source does. `low` stands for all code
that is in no timer operation, thread code at `IPLDPC` included.

Two history variables have no counterpart in the code: `due` is the true tick a
started timer should expire at (the code's is one word), `noticed` the tick at
which the clock interrupt queued the DPC for it. No action reads them.

`MaxTicks` bounds the clock. `Prompt` makes a run in which no tick falls into a
timer operation or its DPC: it separates what is lost by ticks at bad moments
from what holds without them.

`TimerService` knows a clock, the tick each running timer is armed for and the
signaled flags. It allows a timer to be late, which is what the code guarantees:
see the lost report and the late start under the disagreements. Punctuality is
the separate property `Punctual` of the prompt run.

### KeWait

Everything here happens at `IPLDPC` and no interrupt routine takes part, so each
operation is one step, and so is each turn of the loop of a waiting routine. The
scheduler is abstracted: a thread is asleep, exited or "running", and a running
one may go on at any time. A wait is a record of its arguments (type, objects,
timeout, mode, alertable); `call[t]` holds it from the sleep to the return, so
that a woken thread whose wait status is that of a kernel APC, which a wait for
all objects also gets when one of them is signaled, is a running thread with a
call, whose next step takes another turn of the loop. Calls that return without
sleeping are one step.

A wait list is a set of threads with the strict order they are in. Which waiters
`KiDispatchSatisfyFirst` takes off a list follows from that order: the waiters
for any object that have fewer than n of their kind in front (`AnyFirst`) get
the object; the waiters for all in front of the last of them (`Reached`) are
woken to look again. `KiThreadWakeup` takes a thread off all lists at once. Wait
blocks and their tables are abstracted to the lists; durations are too, a
timeout may expire at any time after it was started.

Besides the kill there is one signal, with its bits in the accept and the
deliver-on-wait mask, and one user APC. What threads do on the way to user mode
(`PsDispatchUsermodeInterrupts`) are actions of a running thread that is in no
wait. `KeThreadRundown` raises the IPL around its whole loop over the mutexes of
the thread: `exiting` is the thread meanwhile, one mutex is abandoned a step, and
nothing else happens. The order of the thread's mutex list is left open.

Constants choose the instance: the kinds of the objects, the waits that threads
call for, the alerts that occur and the threads they are aimed at. Waits at
`IPLAPC` and of threads that ignore kills are the instances without alerts.
`MaxCount` bounds semaphores; `LowestCount` stands for the least signed word.

### ExRwLock

The lock's fields are the source's; `Owners[0]` is `SharedOwner` and the others
are the owner table. A step is what happens at one `IPLDPC`, so a call has one
step for each turn of its loop and one wherever the IPL is lowered in between:
to allocate the event or the semaphore (`allocate`), to allocate a larger table
(`grow`, with the size remembered), to wait. `pc`, `call` and `oldsize` are the
locals of the calls.

The two dispatcher objects are modelled by what `KeWait` shows of them: a released
unit goes to a sleeper or stays, an event signaled with a waiter hands over to
that waiter. A waiter that `KeEventSignalGetWaiter` returned is already the owner in
the lock and still has to write its name down itself when nobody was asleep
(`WriteName`). `ExRwLockWait` gives up its wait periodically to boost the owners
and begins it again (`Timeout`), and a kernel APC does the same; so a waiter is
counted all the time and asleep only part of it, which is where the hazard is.
A waiter that was killed returns what it was given (`Return`). `mode` and `depth`
are what the results of the calls tell a thread, no action of the lock reads
them but to constrain callers: nobody acquires exclusively on top of a shared
hold, and nobody passes `nowait` to the exclusive acquisition.

`ReadersWriter` is the abstract lock: `mode` and `depth` alone.

### IOPacket

One thread and the kernel APC on top of it are modelled, each with a frame of
`IOPacketEnqueue` and of the request that called it, because both use the thread's
one deferred list; other threads share only the drivers, which hold packets of
any sender in any order and give them back at any time (`Finishes`). Completion
at `IPLDPC` is one step that includes the master a fragment belongs to and
everything `IOPacketFinishEitherContext` does.

A packet's locations are reduced to the driver it is at (`at`). `dispatch` is the
call of a driver's dispatch function: the FAT driver ends a request early, splits
it, fails to, or passes it on; a device keeps it or finishes it at once.
`IOPacketAssociate` is two steps, because it reads and writes the count of its
master at low IPL. `ReturnFromAsync`, `Interrupt`, `CancelRequest` and `Finish` are
the ends of `IOReadWrite` and `IOReadWriteAsync`; `BeginAPC`, `FinishAPC` and
`UserAPC` the completion of an asynchronous request in its thread, which copies
out a status and may fault, so that a page-in is sent from inside. The rundown
cancels, polls, and frees what is left with the thread.

The packets' memory is `Packets`, requests are `MaxRequests`, fragments of one packet
`MaxFragments`. `Undisturbed` excludes one interleaving that is known to go wrong
(see the disagreements).

### AHCI

The driver's struct `AHCIPort` and the packet location's fields are variables; the
host bus adapter is beside it, with its three registers `IS`, `PxIS` and `PxCI`, and
takes a step between any two accesses of the handler: it completes a command, says
so later (`raising`), says so again, interrupts for part of a command or reports an
error. `AHCIInterrupt` is therefore five steps, one per register access.
`IssueCommand` is the section with interrupts off. DPCs run when no interrupt is
being handled, threads when no DPC is left: it is one processor. `AHCIOperation`
has the checks of a request in their order, with the lengths cut at the end of the
disk object before the alignment test; `PerformTransfer` and `AHCIDPCFunction`
are the rest. `moved` is a history of the blocks transferred for each packet.

The code starts one command per block, and so does the model. Block sizes, partitions and the requests made are constants.

`DiskQueue` knows packets, their drive, start and size, and says who is served: one
packet a drive, and next one that starts no later than any other that waits.

## What is checked

| run | instance | shows |
|---|---|---|
| `scheduler` | idle + 2 threads, one of them the first of its process; priorities 0..3 (time-sharing 1..2), quantum 1, bytes of 3 values, every kind of call | all the safety properties, 1.04 M states |
| `scheduler_starvation` | idle + 2 threads under fairness | `NoStarvation` |
| `timers` | 3 symmetric timers, 1 client, 2 buckets, intervals of 1 and 5 ms (1 and 3 ticks), 2 ticks at any time | all the safety properties and the refinement, 1.8 M states |
| `timers_prompt` | 2 timers, one with a DPC; 6 ticks, only between operations | `Punctual` |
| `waits` | 3 threads of 2 priorities; a synchronization event, a semaphore released by 1 and 2, a kernel mutex; waits for any and all, with and without timeouts | lists, wake-ups, the order of satisfaction, conservation of units, 66 k states |
| `waits_alerts` | 2 threads, all alerts at one of them; a notification event, a user and a kernel mutex, recursion to depth 3; waits of all modes; priorities change | no alert is missed, ownership and APC disabling, 0.92 M states |
| `mutex_handover` | 3 threads, one mutex, fair | `MutexIsPassedOn` |
| `rwlock` | 3 threads: one demotes and holds twice, one overtakes writers and polls, one is killed; a table of 1 slot growing by 1; fair | counts, slots, the refinement, `Served`, 70 k states |
| `io_packets` | 2 requests out of six kinds, 3 packets, up to 2 fragments; fair | packets and requests, 0.30 M states |
| `ahci` | 2 drives of 3 and 1 blocks, a partition on the first, 3 packets of 1 to 3 blocks; fair | the driver, its refinement and `EveryPacketEnds`, 0.27 M states |
| `wait_all_polled` | 1 thread, 2 mutexes | a violation: see below |
| `packet_completed_twice` | 1 write to the FATs | a violation: see below |

Why the bounds are enough: priorities matter to the code only by comparison with
another thread's, with the base, with the top of time-sharing and with idle; two
time-sharing levels, one real-time level and idle give every ordering of two
threads. Two threads on top of idle make every pair of places (running, next,
queued, asleep) occur together; what more threads add, queues longer than two and
a displaced next thread among them, is in the proofs, which are for any number. A
quantum of one unit expires at every tick; a byte of three values
reaches the wrap of the quantum-end counter. For the timers, two buckets and
intervals longer than the table give timers that are in the scanned bucket but
not due in this turn; three timers give an expiring one with a neighbour on each
side. Two ticks are enough to interrupt any operation with one that makes
another timer due; the prompt run has six, more than the table has buckets. No
run reaches the end of the tick count's word.

For the lock, three threads are an owner and two rivals of the same or of different
kinds; tables of one slot that grow by one make every second reader replace a table
that others are in. What more threads and slots add is in the proof. For the
packets, three are a request split in two with both fragments on their way, or
a fragment on the deferred list while an APC sends a page-in of its own; two
requests are an asynchronous one that ends, is cancelled or is left behind while a
second runs, or while the thread exits. For the adapter, a first packet of two
blocks keeps one port busy while the others arrive behind it, in front of it or at
the other port, and the second port's status bits are set while the first's are
scanned; the proof is for any number.

Properties, with the hazard each is for:

- `ThreadsInPlace`: a thread is where its status says and nowhere else.
- `BestThreadSelected`: no queued thread beats the one that will run when the
  processor leaves `IPLDPC`. `KiThreadSelect` only looks up to the current
  thread's priority, so it silently depends on this.
- `SwitchPending`: a selected thread has its switch pending.
- `IdleAlwaysReady`: the idle thread is runnable, at the idle priority.
- `WaitListExact`: the list the stack scan walks is exact.
- `DecayStopsAtBase`, `BoostsStayTimeSharing`: boosts and decay.
- `NoStarvation`: with interrupts delivered, finite work at `IPLDPC` and a
  balance manager that keeps calling `KeBoostReadyThreads`, a ready thread runs.

- `CalendarSorted`: the links of each bucket lead to each timer started in it, in order,
  whatever was inserted, cancelled and expired, by whom ever, before.
- `EarliestExact`: the one word the interrupt reads without any exclusion is right.
- `ExpiresStartedTimers`: the assertion of the expiration DPC holds although
  waiters cancel timers under it.
- `LastReportServed`: what the latest tick noticed is expired by the DPC.
- `ImplementsTimerService`: no timer expires early, twice or after it was
  cancelled, and none is signaled otherwise.
- `Punctual`: without ticks at bad moments, timers are on time.

- `ListsMatchWaits`: a thread is on the lists of exactly what it sleeps for, in order.
- `NoLostWakeup`: nobody sleeps for what is available.
- `BestWaiterFirst`, `EachUnitOnce`: who gets a signal, and how often.
- `MutexesAccounted`, `SuccessMeansHeld`: owners, counts and results agree.
- `AlertsEndWaits`: no gap between the check for alerts and the sleep.
- `MutexIsPassedOn`: a waiter for a mutex gets it.

- `CountsAddUp`: holders, waiters, signaled units and the threads that are to take
  them always add up, although waiters are asleep only part of the time.
- `SlotsExact`: the table, replaced under its users, has each reader once.
- `ImplementsReadersWriter`: nobody has the lock together with a writer.
- `Served`: hand-over alternates, so neither readers nor writers starve.

- `HeldOnce`: no packet is in two hands, or in any after it ended or was freed.
- `CountsParts`: a packet ends with the last of its parts, in any order.
- `NothingLost`: a packet that ended has exactly one who will free it, and a thread
  that is gone leaves none behind.
- `ToldOnce`: a failed call and a completion do not both tell, nor neither.
- `RequestsEnd`: waits end, and a thread that exits gets through its rundown.

- `OneCommandEach`, `CompletionsNoticed`: the handler takes each completion once,
  in whatever order status bits are set, read and cleared.
- `BlocksInOrder`, `ReportsWhatMoved`, `StaysOnDisk`: what is moved is what was
  asked for and reported, and within the partition.
- `ImplementsElevator`, `EveryPacketEnds`: who is next, and that it comes to an end.

For the waits, three threads are a releaser and two rivals, or three waiters with
one between two others; two objects are what an ANY or ALL wait needs to be
reached from one while the other matters; `THREADWAITBLOCKS` is two as well.

Fairness of the waits: timeouts expire (see the timers), a woken thread gets to
run (`NoStarvation`) and takes the next turn of its loop, and owners release their
mutexes. In `mutex_handover` nobody acquires recursively (`LowestCount` is 0), else
an owner could for ever; all waiters have one priority, else the higher could
starve the lower, which is what priorities are for.

Fairness of the scheduler: interrupts are delivered and handlers are finite (weak fairness on the
tick, the stages of the software interrupt and the lowering of the IPL); the
balance manager is a real-time thread on a one-second timer, so its call, and
the boost in it of a thread that stays ready, get strong fairness. The property
assumes `[]<>Calling`: that interrupts leave threads any time at all.

Fairness of the lock: threads go on with their calls (`NoStarvation`), and
holders release, their last hold too: strong fairness, because other calls of the
holder come in between. `Served` also assumes that waits are interrupted only
finitely often: a waiter whose every sleep is broken off could miss every
hand-over, which the periods of the boosts make impossible in practice.

Fairness of the packets: the thread and its APCs run, and a disk finishes what it
has (see `EveryPacketEnds`); the other end of a duplex owes nothing, so
`RequestsEnd` says nothing of a wait for one, only that an exit gets past it.
Fairness of the driver: the processor runs what it can, and the adapter executes
its commands and reports them; it owes no interrupt for a part of one. The driver
itself has no timeouts: on an adapter that stops it waits for ever.

## What is proved

`KeScheduler_proofs` proves, for every finite set of threads and processes,
every range of priorities and every quantum that fits its byte:

- `TypeCorrect`: `Spec => []TypeOK`
- `ThreadsStayInPlace`: `Spec => []ThreadsInPlace`
- `IdleStaysReady`: `Spec => []IdleAlwaysReady`
- `SwitchStaysPending`: `Spec => []SwitchPending`
- `BestStaysSelected`: `Spec => []BestThreadSelected`
- `DecayAlwaysStopsAtBase`: `Spec => []DecayStopsAtBase`

None of these is inductive alone, not even the type invariant: `KiThreadSelect`
returns a thread only because some queue is not empty, which holds because the
idle thread is ready, which holds because queues agree with statuses. The
inductive invariant `Inv` is the type, `Consistent(d)` (residence, queues,
processor and idle thread together) and `SwitchPending`. `KiDispatcher_proofs`
proves, routine by routine, that `Consistent` is restored, from lemmas on
duplicate-free sequences (append, cons, tail, unlink) and from the effect of each
part of a routine (`ReadyEffect`, `PromoteEffect`, `SelectedEffect`); the steps
of the scheduler then follow one by one. The assumptions are the named ones of
the modules: the null pointer is not a thread, priorities are ordered, quanta
fit, threads are finite, callers pass priorities in range.

The last two need a second invariant, `BestInv`, on top of the first. That the
best thread is chosen (`Best`, the same as `BestThreadSelected` but said of
threads) is not preserved by `KiThreadPrioritySet` alone: it would be wrong to
lower `KiThreadNext` below the current thread, or to raise the current thread
over `KiThreadNext`, since neither is looked at again (`KeepsRank`). No caller
does either, for three reasons the invariant records: a thread below `IPLDPC` with no
software interrupt pending has no next thread (`SwitchPending`); a quantum end only
ever lowers the current thread, because a time-sharing thread is never below the
base it decays to (`AboveBase`, which is also `DecayStopsAtBase`); and
`KiProcessBasePrioritySet` may raise the current thread after it raised
others, but the next thread then has the new base priority already
(`NextReaches`).

`KeSchedulerWaits_proofs` proves two more results on top of `Inv`:

- `WaitListStaysExact`: `Spec => []WaitListExact`
- `BoostsAlwaysStayTimeSharing`: `Spec => BoostsStayTimeSharing`

For the first, every routine but the wait, the wakeup and the end of a thread
leaves sleepers, wait modes and the list alone (`SameSleep`, one lemma for each
routine), and what a wakeup does to the thread it wakes is `AwakeAfter`; `Exact`
is the invariant. That it needs `Inv` is the point: that a routine does not
write `Ready` over the status of a sleeper follows from where threads are, not
from the routine. The second goes through the places where a priority is computed
(`StaysTimeSharing`).

`KeTimer_proofs` proves, for every number of timers, clients and buckets, all
intervals and any length of the run, as long as no tick count reaches the last
value of its word (`NoWrap`, without which the results are false: see the notes
under the disagreements):

- `Refinement`: `NoWrap /\ Spec => ImplementsTimerService`
- `OnlyStartedTimersExpire`: `NoWrap /\ Spec => []ExpiresStartedTimers`
- `EarliestStaysExact`: `NoWrap /\ Spec => []EarliestExact`
- `CalendarStaysSorted`: `NoWrap /\ Spec => []CalendarSorted`
- `ReportsAreServed`: `NoWrap /\ Spec => []LastReportServed`
- `TimersArePunctual`: `NoWrap /\ Prompt /\ Spec => []Punctual`
- `TypeCorrect`: `NoWrap /\ Spec => []TypeOK`

The first inductive invariant `Inv` is local: each started timer agrees with its two
neighbours and with its bucket's head (`Chained`), earliest ticks are exact
outside the bucket being changed (`Noted`), stored ticks are the true ones
(`TrueTicks`), and the cursor of the DPC is where it should be (`CursorInv`).
It says nothing of whole lists: the links next to a timer are enough to know that
the head the DPC takes, and the next timer it takes after that, is started and due.
Four lemmas (`LinkedChained`, `UnlinkedChained` and those of the expiration) carry the
pointer reasoning; the refinement then maps each action to one of `TimerService`
(`AskStep`, `StartStep`, `CancelStep`, `ExpireStep`, `ResetStep`) or to none
(`OtherStep`).

That no timer is passed over needs more, a second invariant on top of `Inv`:
`Listed` says that each bucket has a sequence of all the timers started in it, once
each and sorted, that its links lead along from its head (or, during an expiration,
from the first timer left). Following links to their end would be an induction over
data; the sequence is a witness instead, and each operation has a lemma that gives
the next one: `ListGrows` inserts a place, `ListShrinks` takes one out, wherever in the
list it is, and `ListStays` is for the buckets the operation does not touch.
`CalendarSorted` is `Listed` with the length and the timers spelled out. From it
follows `FirstIsNext`, that the first timer of a list is the earliest, and from that
the two facts about the expiration: it does not leave a bucket, whether it skips it
(`NoneLeftAtHead`) or has taken timers from it (`NoneLeftBehind`), with a timer that is
due. `ComingStays` is the step that says so: a scan that is at the bucket of some tick, or
has yet to come to it, does not go past it as long as a timer of that tick is started. `LastReportServed` then follows from `Serving` (what was noticed last has
its DPC queued, or the scan is coming) and `Punctual` from `InTime` (a timer's tick is
ahead, or is now and was reported); `DueIsReported` is where the interrupt's one word
must be right.

`ExRwLock_proofs` proves, for every finite set of threads, all calls and any size
and growth of the table:

- `Refinement`: `Spec => ImplementsReadersWriter`
- `CountsAlwaysAddUp`: `Spec => []CountsAddUp`
- `SlotsStayExact`: `Spec => []SlotsExact`
- `TypeCorrect`: `Spec => []TypeOK`

`CountsAddUp` is not inductive: that a released unit is given to a reader that
really waits needs the places of the threads (`PlacesRight`), that the releaser is
the only writer needs `WritersRight`, and that a reader finds its slot needs
`SlotsRight`; these are `Inv`. The centre of the proof is the hand-over: a release
wakes as many sleepers as there are, and because the sleepers are among the
waiters and the units among the count, what is left over is what the waiters not
asleep will take. Steps that change no count share one lemma (`Quiet`,
`GoQuietly`), steps of one thread another (`OneMoves`). The refinement maps
`Acquired`, the release and the demotion to the abstract actions
(`AcquiredMaps`, `ReleaseMaps`, `DemoteMaps`), and the rest to nothing.

`AHCI_proofs` proves, for every number of ports, disks and packets and every layout:

- `AHCIIsElevator`: `Spec => ImplementsElevator`
- `CommandsAreSingle`: `Spec => []OneCommandEach`
- `CompletionsAreNoticed`: `Spec => []CompletionsNoticed`
- `BlocksMoveInOrder`: `Spec => []BlocksInOrder`
- `ReportsAreTrue`: `Spec => []ReportsWhatMoved`
- `PacketsStayOnDisk`: `Spec => []StaysOnDisk`
- `TypeCorrect`: `Spec => []TypeOK`

The inductive invariant adds to the first two where each packet is (`InPlace`: its
stage says it, and the lists are sorted) and how far it has come (`Progress`: offset
and context advance together, in whole blocks, and the history is one block ahead
exactly while a command is complete and its DPC has not run). The arithmetic is in
a few lemmas on multiples (`WholeBlocks`, `Multiples`, `FewerBlocks`).

`KeWait_proofs` proves, for every finite set of threads and of objects, all waits,
priorities, alerts and adjustments:

- `ListsStayMatched`: `Spec => []ListsMatchWaits`
- `NobodyIsMissed`: `Spec => []NoLostWakeup`
- `MutexesStayAccounted`: `Spec => []MutexesAccounted`
- `AlertsAlwaysEndWaits`: `Spec => []AlertsEndWaits`
- `TypeCorrect`: `Spec => []TypeOK`
- `UnitsGoOnce`: `Spec => EachUnitOnce`
- `BestWaiterAlwaysFirst`: `PrioritiesKept` implies `Spec => BestWaiterFirst`
- `SuccessAlwaysHeld`: `Spec => SuccessMeansHeld`, if no wait for all in `Waits` polls

The two hypotheses are those under which the runs check these properties, and the
disagreements below say why each is needed. The assumptions on the constants are
that the sets are finite, that the index of an object is not the code of another
wait status (`OutcomeAssumption`), and the ranges of `WaitAssumption`.

The inductive invariant `Inv` is the conjunction of the four properties (of
`MutexesAccounted` in two parts), the types, and what a status says of the wait a
thread is in (`StatusesRight`, `ExitingRight`). They hold up each other: the type of
a mutex's owner needs that the first waiter it is handed to is asleep, that this
thread is alive needs the lists, and that a release leaves no unit behind for a
sleeper needs that none was there before (`NobodyMissed`). Three ideas carry the
proof. `FirstOfCounted` counts the n first of a strictly ordered finite set, by an
injection of ranks: they are n, or all. Steps that take threads off lists, for
whatever reason, are `Thinned`, and `Spared` when nothing becomes available to who
stays; the two together keep the lists and the wakeups (`ThinnedLists`,
`SparedNotMissed`), so that each action only has to be shown to be one. And
`NextTells` says in which five ways a step can tell a waiter of success; the action
properties look at these.

`IOPacket_proofs` proves, for any memory for packets, all sets of requests, any
number of them and of fragments of one packet:

- `EachHeldOnce`: `Spec => []HeldOnce`
- `CountsAreRight`: `Spec => []CountsParts`
- `NoneIsLost`: `Spec => []NothingLost`
- `EachToldOnce`: `Spec => []ToldOnce`

each if `Undisturbed`, and if no request is a write in front of the first FAT
(`NoFATs`). Both hypotheses exclude just the two behaviours of the code that break
these properties, described below: run `packet_completed_twice` shows the second.
`MCIOPacket` satisfies both: it checks a small instance of what is proved.

None of the four is inductive. `Inv` first says where
packets are: no two hands have the same one (`Apart`, which is `HeldOnce` list by list,
so that a step that moves one packet from one list to another is two set equations);
a packet somebody sent is one of its own (`Whole`), all others are fragments, on
their way, with a count of 1 and, once they are associated, a whole master
(`PacketRight`, `PlaceRight`). Counting (`Counted`) needs this, and that a fragment
can only end once the splitting of its master is over: until then all of them are
on the deferred list, and the APC level has no call of its own (`SplitsRight`,
`LevelsRight`); that is where `Undisturbed` is used. `SyncRight` and `AsyncRight` say who frees
a packet: the level that waits for it, or the APC that is queued from its end on.
`RequestRight` ties the history to the state: what the sender of each request was
told by now depends on whether its call is over, on whether its packet is still
on the thread's list, and on the flag that says which of the two tells. That success is
never told of a request that failed in part rests on one fact about masters, that a
failed fragment leaves its error there before the master can end.

The proof follows completion as the code does: one turn for one packet (`One`), the
second turn for its master if the first was the last, then what is freed. The
lemmas about it are shared by all the actions that complete something: a device
or its DPC, an early end, a failed split, a cancellation. Actions that move no packet
share `CalmStep`.

What is only model-checked: all liveness (`RequestsEnd` and the other properties that
need fairness), which is out of the prover's reach. Every other property of
a passing run is stated by a theorem.

## Disagreements found

Two are runs:

- A poll for all of several objects succeeds without taking them
  (`Kernel/KeThreadWait.df:261`, run `wait_all_polled`): with a zero timeout no wait
  block is enqueued, and the routine that would take the objects works on wait blocks.
- A write through the volume device that ends in front of the first FAT is completed
  twice (`src/mintia/OS/BootDrivers/Fat/FatReadWrite.df:449`, run
  `packet_completed_twice`): `FatMirrorWrite` completes the packet and returns 0, so
  the dispatch function passes it on to the disk all the same.

Not runs, but met while modelling. In the scheduler and the timers:

- A quantum end charges the wrong thread (`Kernel/KeIPL.df:154` and `:251`). The tick
  raises a global `QUANTUMEND` event. If the thread blocks before the software
  interrupt is taken, the thread that runs next is charged a quantum it has not used.
- A second tick before the expiration DPC runs hides the first
  (`Kernel/KeDPC.df:32`). `KeDPCEnqueue` overwrites the context of a queued DPC, so
  the scan starts at the second tick's bucket; the timers of the first wait for
  another turn of the table.
- A timer can miss its tick while it is started (`Kernel/KeTimer.df:149`): the expiry
  is computed before the timer is in the table, and a tick in between passes its
  bucket.
- The initial boost can be permanent (`Kernel/KeThread.df:35`). It is the only boost
  without the cap at `PRIORITY_HIGHUSER`: the first thread of a process created
  at that base (SystemInit is) starts real-time, and never decays.
- The starvation test subtracts the current time from the time a thread became
  ready, unsigned (`Kernel/KeThreadDispatcher.df:107`), so it holds of every thread
  that became ready before the call.
- Tick counts are compared without regard to wrapping (`Kernel/KeTimer.df:256`):
  after 2^32 ticks a timer that wraps expires at once.
- Tick 2^32-1 is also the mark of an empty bucket (`Kernel/KeIPL.df:202`): at that
  tick the DPC expires the null timer its own assertion excludes.
- `Process/PsDelete.df:250` says it raises an exiting thread to "the highest
  non-realtime priority" and passes `PRIORITY_HIGHREALTIME 1 -`, which is real-time.

In waits and locks:

- An alertable wait for user mode is not interrupted by a kill that came just
  before it (`Kernel/KeThreadWait.df:59`), only by one that comes during it.
- Wait lists are in order of the priorities their waiters had when they were
  enqueued (`Kernel/KeThreadWait.df:706`), not of those they have: `BestWaiterFirst` is
  checked where priorities are kept (`PrioritiesKept`).
- A wait that kernel APCs interrupt begins again with its full timeout.
- `Kernel/KeAPC.df:275` counts an APC in progress before the test that none is.
- An exclusive acquisition with `nowait` waits after all when the lock has an
  exclusive owner (`Executive/ExRwLock.df:214`). No caller passes it.

In I/O:

- `IOPacketAssociate` reads and writes the count of its master at low IPL
  (`IO/IOPacket.df:529`). A kernel APC that faults between the two sends the
  fragments already on the thread's deferred list; if one ends before the write,
  its end is overwritten and the request never ends. With `Undisturbed = FALSE`,
  five packets and two fragments TLC finds `CountsParts` violated; with
  `Undisturbed = TRUE` the instance excludes just the page-in at that moment.
- An asynchronous request with a completion routine whose call fails at once is
  freed by nobody (`IO/IOTransfer.df:273` and `:367`): the APC only frees packets that
  have `FREEIOP`, and the user APC is not queued. `NothingLost` excepts it
  (`LeftBehind`).
- An associated packet whose driver has no dispatch function makes the call of the
  sender fail (`IO/IOPacket.df:607`), which a comment says that errors of associated
  packets do not (`:621`).
- `FatMirrorWrite` limits a write to the size of a FAT, wherever in the FAT it begins
  (`src/mintia/OS/BootDrivers/Fat/FatReadWrite.df:467`).

## What is not modelled

Swapping is outside `KeScheduler`: every stack and process is resident there, so
the branches of `KiThreadReady` for swapped-out threads are written but not
reached; the swap worker and `KeProcessAttach` with its deferred list are not
modelled. Of the timers, the wall clock and its time zone are left out: they only
add an offset to what the HAL returns. Of the packets: page-out packets
(`IOPTYPE_PAGING`), the cancellation of a file's I/O (`IOFileCancelIO`), the count of
asynchronous I/O of a file, and quota. Of the AHCI driver: finding and starting the
adapter, with its error paths, which is sequential and runs once. The object
manager, handle tables, IPC ports, the virtual memory system and the caches on it
are systems of their own and have no module; the reason for each other component
is given with it in `PROJECT.json`.

The kernel is written in Dragonfruit; only the AHCI driver and the headers are in C.
A count of mapped C lines therefore says little about how much of the kernel is
modelled: most definitions are mapped to `.df` files.

Liveness under fairness is checked by TLC and not proved.

## Order of work

1. `KiDispatcher`, `KeScheduler` and their proofs: everything else runs on them.
2. `KeTimer`, refining `TimerService`, and the proof of the refinement.
3. `KeWait`: dispatcher objects and waits, timeouts and alerts.
4. `ExRwLock`, refining `ReadersWriter`, and its proofs, on the promises of 3.
5. `AHCI`, refining `DiskQueue`, and its proofs; `IOPacket` on the promises of both.

What would come next: the swap worker composed with the dispatcher database, the
kernel APC dispatch loop, object references and handle tables, IPC ports.
