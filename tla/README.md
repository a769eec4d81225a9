# A TLA+ development of MMURTL

MMURTL (Message based MUltitasking Real-Time kerneL) is a 32-bit operating
system for the 386, written in assembler and C (`ossource/`). Tasks of jobs
communicate by messages through *exchanges*; services and device drivers are
built on top of that. This directory holds formal models of its kernel, its
timer, its file system, three of its drivers and its keyboard service, what TLC
checks of them, and what TLAPS proves of each.

## 1. Inventory

The table lists the parts of the system, the state each keeps, and what makes
it hard. `PROJECT.json` lists the same parts with their files, and the hazards,
each at its line.

| Part | State | Operations | What is hard | What makes it correct |
|---|---|---|---|---|
| Messaging and scheduling (`kernel.asm`) | `rgExchs` (Owner, queue, `fEMsg`), link blocks, `RdyQ`, `pRunTSS`, TSS pool | SendMsg, ISendMsg, WaitMsg, CheckMsg, AllocExch, DeAllocExch, SpawnTask, NewTask, SetPriority | one processor, but an interrupt or a time slice between any two instructions executed with interrupts enabled; halting inside WaitMsg | nothing in two queues; messages delivered once, in order, to who waited longest |
| Timer (`tmrcode.asm`) | `TimerTick`, `SwitchTick`, 32 timer blocks | IntTimer, Sleep, Alarm, KillAlarm | alarms against KillAlarm and searches; messages dropped with no link block | sleep ends on time; a killed alarm does not go off |
| Requests (`kernel.asm`, `rqbcode.asm`, `svccode.asm`) | request blocks, service registry | Request, Respond, MoveRequest, RegisterSvc, UnRegisterSvc, SendAbort | error exits after a resource was taken or given back; requests of a job that is killed | a block is with one party at a time |
| Keyboard (`keyboard.asm`) | ring buffers, owner, requests on hold | ISR, service task | the owner changes, and jobs die, while their requests wait | each key once, in order, to the owner; nothing left of the dead |
| File system (`fsys.c`) | FAT buffers in LRU order, FCBs, FUBs, stream buffers | file requests | buffers that are replaced and written late; handles that remember clusters; files shared | a FAT is one map; files do not share clusters; bytes are read as written |
| Drivers (`hardide.c`, `floppy.c`, `rs232.c`, `parallel.c`, `mouse.c`) | ring buffers, device state | device operations, ISRs | ISR against task on ring buffers; an interrupt or an alarm that comes late | blocks and bytes moved once, in order; every operation ends |
| Memory (`memcode.asm`) | page bit map, page directories, `MemExch` token | AllocPage, AllocOSPage, AllocDMAPage, AliasMem, DeAllocPage, DeAliasMem | a semaphore made of one message; AliasMem works outside it | a page has one owner |
| Device interface (`devdrvr.asm`) | device control blocks, `DevSem` exchanges | InitDevDr, DeviceOp, DeviceInit, DeviceStat | token of a driver lost on an error | one operation at a time |
| Jobs (`jobc.c`, `jobcode.asm`) | JCB pool, pages, exchanges and tasks of each job | LoadNewJob, Chain, ExitJob, KillJob | removing a job while its tasks run, wait, hold tokens | everything it had is free afterwards |
| Video, DMA, interrupt set-up, debugger, monitor, loader and boot code | - | - | hardware and user interface | - |
| CM32, DASM, samples, libraries, `dunfield/` | - | - | tools, clients, vendored code | - |

How they interact: everything below the first line is a client of it. A request
is a link block with a handle in it; an alarm and a keystroke are ISendMsg from
an interrupt; mutual exclusion in memory management and in the drivers is one
message that is sent and waited for; a job is created and removed by kernel
calls, and its end is told to every service with a request. The file system is
one task that serves requests one after the other and calls DeviceOp; the disk
driver waits at its exchange for the interrupt or an alarm, whichever is first.

## 2. Plan

Done, in this order:

1. **Kernel**: the core at the grain of its interrupt windows, the abstract
   `Mailbox` it implements; proofs of its structural invariants, of which steps break or
   cut off an exchange, and that it implements `Mailbox` as long as none is broken.
2. **Timer**: timer blocks with Sleep, Alarm and KillAlarm; liveness of Sleep
   while link blocks last, and proofs of its invariants.
3. **File system**: `FatCache` (implements `FatMap`, proved), `FileSys` (implements
   `FileStore`, proved, with its invariants), `FileStream` (implements `ByteFile`,
   proved).
4. **Drivers**: `HardDisk` (implements `BlockDevice`, proved), `Floppy` (implements
   it too, proved), `Serial` (implements `SerialLine`, proved).
5. **Requests and the keyboard service**: `Requests`, and `Keyboard` on top of
   it (implements `KeyFeed`, proved).

Left:

- `ServiceRegistry`: RegisterSvc, UnRegisterSvc and GetExchange with interrupts
  enabled.
- `DevSemaphore` and `MemMgmt`: the token as a lock, an abstract `Mutex` that it
  implements, the page bit map and page tables under it.
- `JobTermination`: NewTask, RemoveRdyJob, ExitJob and Chain, and the memory side
  of KillJob.
- The directories and the lookup of paths of `fsys.c`; both drives of a disk driver.

## 3. Modules

| Module | What it is | Implements |
|---|---|---|
| `Queues` | families of queues: put at the end, pop the head, clear | |
| `Kernel`, `KernelProofs` | the messaging and scheduling core; lemmas about queues, its inductive invariant and theorems, and the proof of the refinement | `Mailbox` |
| `Timer`, `TimerProofs` | the timer blocks: Sleep, Alarm, KillAlarm and the count-down of IntTimer; its invariant and theorems | |
| `FatCache` | the FAT buffers of the file system | `FatMap` |
| `FileSys`, `FileSysProofs` | directory, chains of clusters, open files, block mode; its inductive invariant and theorems, and the proof of the refinement | `FileStore` |
| `FileStream` | stream mode: bytes through a buffer | `ByteFile` |
| `FsysBufferProofs` | the proofs that FAT buffers are a map, and that a file in stream mode is its bytes | |
| `HardDisk`, `HardDiskProofs` | the IDE driver with its controller, interrupt and alarm; the proof that it implements `BlockDevice` | `BlockDevice` |
| `Floppy`, `FloppyProofs` | the floppy driver with its motor task, controller, interrupt and alarm; the proof that it implements `BlockDevice` | `BlockDevice` |
| `Serial`, `SerialProofs` | one channel of the RS-232 driver with its chip; the proof that it is a line | `SerialLine` |
| `Requests` | request blocks and their way through the exchanges | |
| `Keyboard`, `KeyboardProofs` | the keyboard service with its callers; the proofs that a request block is in one place, that nothing is left of a dead job, that the owner gets its keys, and that it implements `KeyFeed` | `KeyFeed` |

`MCKernel`, `MCTimer`, `MCFatCache`, `MCFileSys`, `MCFileStream`, `MCHardDisk`,
`MCFloppy`, `MCSerial` and `MCKeyboard` give the constants of the small systems that TLC
checks. Definitions called a mutant are variants of the one that follows them,
with a plausible mistake in it; no specification uses them. They document what
each property is able to notice.

### Kernel

*Processor and interrupts.* There is one processor. Code executed with
interrupts disabled is atomic; code executed with interrupts enabled can be
interrupted anywhere, and what matters is what other tasks and interrupts do to
the shared structures in between. An action is therefore a stretch between two
points at which an interrupt can be taken and which the others can tell apart.
`pc[t]` names the point task `t` is at by its label in the source: `"run"` is
the task's own code; `"Send01"`, `"Wait01"`, `"Chk02"`, `"DE000"` are reached
after the checks at the entry of a primitive, before its CLI; `"Send_STI"` is
the STI between deQueueTSS and enQueueMsg in SendMsg (`kernel.asm:938`);
`"AE001"` is after `EHead := 0` of AllocExch (line 1682: the processor takes no interrupt
between STI and the instruction after it), `"ST_AE001"` the same
place in a call from SpawnTask; `"ST_TSS"`, `"ST_Free"` and `"ST0004"` are the
steps of SpawnTask; `"Wait03"` is a task in WaitMsg that has queued itself, and
is where it goes on when it is switched to; `"Wait06"` is a task that has
dequeued a link block and copies it. Between STI at Wait05 (or Chk03) and the
CLI that frees the link block nothing shared changes, so a task stays in
`"Wait03"` or `"Wait06"` for it and may be preempted there.

*State.* `queue[e]` and `fEMsg[e]` are what EHead leads to and the flag of an
exchange; `cut[e]` is set when AllocExch made ETail NIL (`AllocReset`, line 1683) while
something was queued already. enQueueMsg then links the next element behind an address
near 0 instead of the last one: nothing leads to it from EHead, and it is lost (`Detached`, `enQueue`); `RdyQ`, `pRunTSS`, `dfHalted` are the variables of the same name;
`slice` is `TimerTick - SwitchTick`; `pFreeLB` and `pFreeTSS` are the free
lists, as sets: their order is the order of reuse of identical blocks. `lb[t]`
is the link block in the hands of task `t`: in EAX or on its stack while it
sends, in `pLBRet` when another put it there. `tss[t]` is a TSS taken off an
exchange or off the free list.

*Actions.* A program is a task's set of possible kernel calls (`Calls`) made in
any order, any number of times; tasks that compute are tasks in `"run"` that do
not move. Every primitive has an entry action (`SendMsg`, `WaitMsg`,
`CheckMsg`, `AllocExch`, `DeAllocExch`, `SpawnTask`, `SetPriority`) and one
action for every later stretch. An error return before anything changed is a
stutter and has no action. `ISendMsg` is an interrupt handler that sends;
`IntTimer` is a tick, with the check for a task that has used its slice;
`WaitUnhalt` is the code after HLT once an interrupt made a task ready.
The message itself is abstracted to its link block, link block types to the
data message (requests: module `Requests`), and the exchange that
SpawnTask allocates for the new task is not used by it.

*End of behaviours.* When an exchange comes to hold a message behind a waiting
task (`MCKernel_broken.cfg`), the kernel follows a TSS pointer as if it were a link
block and overwrites unrelated fields. That is not modelled: all actions
require `Intact`, and a behaviour that reaches such a state ends there. This is
why run `race` sets `CHECK_DEADLOCK FALSE`.

### Mailbox

Three variables: the messages pending at an exchange, the tasks waiting there,
and each task's inbox. `ImplementsMailbox` is `MB!Spec` under the mapping in
`Kernel.tla`: what is queued at an exchange is pending or waiting according to
`fEMsg`; the message SendMsg holds for a task it has dequeued is in that task's
inbox already, and one that it has not queued yet has not been sent. Nor has one that is linked
behind a detached tail, as no receiver can find it: `MB!Spec` says how messages
are delivered, and `LinkBlocksConserved` and `WholeLosesNothing` which get lost. DeAllocExch is `Close`, and so is
an AllocExch that drops what was queued at the free exchange. `MailboxTillBroken` is the same
up to the step that breaks an exchange, and is what can be said of any programs.

### Timer

*State.* `fInUse`, `TmrRespExch` and `CountDown` are the fields of the blocks
`rgTmrBlks`; `nTmrBlksUsed` is the variable of that name. An exchange is the
number of messages queued at it (`msgs`), since the timer sends only one
message, and the link blocks are their number (`nFreeLB`): how a message is
queued is the subject of Kernel. `pc[t]`, `blk[t]`, `exch[t]` and `cnt[t]` are
the label, the pointer in EAX and the arguments of a task inside Sleep, Alarm or
KillAlarm. Two history variables serve the properties: `elapsed[t]`, the ticks
since the block of a sleeping task was set up, and `doomed[t]`, the blocks that
KillAlarm found set for its exchange when it was called, less those that expired
or were freed since.

*Actions.* The three searches disable interrupts for one block at a time, so
each block is one action (`BlockBusy`, `TakeBlock`, `KillBlock`, `SkipBlock`),
and a tick or another task may come between any two. `IntTimer` is the whole
loop over the blocks, in an interrupt handler; `Sent` says which expired blocks
get a link block, in their order. `SleepEnd` and `WaitMsg` are WaitMsg when it
finds a message; a task that waits is one that does not move.

### FatCache

The file system is one task and nothing else touches its buffers, so a call of
`GetClstrValue` or `SetClstrValue` is one action; what may happen inside is that
a transfer fails, and `UpdateFAT` says what is on the disk and what the buffer is
marked with after each number of copies written. `Fat[j]` has the fields of the
record `fat_buf`; `FindFatSect` is split into the search (`Found`), the choice of
the buffer to replace, the write-back, and the read. FAT12 uses buffer 0 for the
three sectors it holds, which are one sector here (`Sects`). Whether a sector is past
the FAT is tested as the code does (`PastFAT`): for FAT12 it compares the number of the sector on
the disk with the length of the FAT (`fsys.c:1304`), which is stricter where the FAT begins late. `Flush` is UpdateFAT called
from elsewhere (end of a request, close).

*Refinement.* The abstract map is, for every cluster, the entry in the buffer
that holds its sector, or else what the first copy on the disk has. That a
replaced buffer loses nothing, that a sector read again is what was written, and
that a failed call changes nothing is `ImplementsFatMap`.

### FileSys

A request is one action: the name search, the FAT and the tables after it. `Dir`
is the directory on the disk, `FCB[i].ent` the entry as it is kept while a file is
open, `FUB[h]` a handle with the cluster it remembers (`Clstr`, `relClstr`: "the
cluster helper"). `fat` is what `FatCache` shows to be a map, `disk` what of it is
on the disk: `UpdateFAT` writes any sector back at any time, since a call on
another drive may need the buffer. Sizes count blocks. `CreateFile` searches for
a free cluster in the order of the code, from the start that the last FAT buffer
gives (`Starts`, `Tried`), `ExtendClstrChain` forward only. Both searches end where the sectors
of the FAT end (`fsys.c:1738` and `4137`), and not with the clusters of the volume, which
the code does not know: `LastClstr` is the last entry of the FAT, and `MCFileSys_behind.cfg` shows what
happens on a volume that ends before it. A freed FCB or FUB is
cleared, where the code leaves what nobody looks at.

*Environment.* Three constants say what programs do: `Renames`; `ReadsPast`, they
read further than the size of a file; `CutsBehind`, they make a file shorter than
where their handle is. No device error occurs in this module.

*Refinement.* A file is its name and its blocks, found from the entry that counts
(in the FCB while the file is open) along the chain; an open handle is the place
of its file. Every request changes the file it was made for and no other.

### FileStream

One handle on one file: stream mode to modify is exclusive. `FUB.buf`, `FUB.LFABuf`,
`FUB.fModified` and `FUB.CrntLFA` are the fields of the FUB; the loops of ReadBytes
and WriteBytes are recursive functions over turns, one buffer each. Where the
blocks are is left to FileSys; what is kept is how far the chain goes, and `FUB.end`,
whether the handle took the end mark for a cluster. `g` is what a transfer that
goes to the place the mark leads to may return. Files are not cut in this module.
The abstract file is the bytes as they are in the buffer while it waits to be
written, and on the disk otherwise.

### HardDisk

The driver is a sequence of steps (`drv.pc`) between which the controller gets
done (`DevDone`, with the interrupt sent or lost) and the alarm goes off
(`AlarmGoesOff`). `exch` is the exchange where interrupt and alarm messages of
this and of earlier operations queue up; `send_command` empties it, `hddev_op`
and `hd_reset` eat one message each. Errors that the code does not look at
(`setupseek` and `send_command` in hd_write and others) are not looked at here.
The controller is modelled from the registers the driver uses: BUSY, DRQ, ERR, a
position and a count. `AnswersLate` is a controller that answers after check_busy
gave it up after 3 seconds; `WritesAny` are writes of 0 blocks, or of more than the 256
(`MaxCount`) that a command takes, which setupseek refuses to no effect. Operations begin anywhere
up to two blocks past the end of the disk; hddev_op refuses those it should but one (`BadLBA`: `>`
for `>=`, `hardide.c:1155`), and the controller the rest.

`BlockDevice` is one operation at a time, which may end with an error at any
moment and then counts for nothing. A device may still be at an operation that
failed (`late`): it may write blocks of that operation, and no others. The hard
disk has no such operation, since it takes each block from the driver.

### Floppy

The controller (`fdc`) is a command register, a head that moves and a transfer
between the disk and `sectbuf`, the page that DMA uses; a transfer needs the
motor. `drv.pc` is the place in `RdWrtVerf` and what it calls; `drv.what` is what
`wait_int` waits for. `exch` is `fd_exch`: messages of the interrupt and of alarms,
of this try or of an earlier one, in order. `seek_status` and `LAST_TRACK` are what
the driver believes of the head, `fdc.head` is where it is; they differ after a
seek that failed, and then the controller finds no sector. A transfer ends well, with an
error that get_fdc_status sees (`tested`), or with one that it does not (`untested`).
`retrys` is the signed byte of the code, from 255 after 0. `unmoved` is history: a block
of the operation was counted and no try moved it. The motor task and the
driver meet in `dor_crnt`. A block is on track `lba \div PerTrack`; heads and
sectors are left out, and so is CmdVerify, a read that copies nothing.

### Serial

The chip has one byte in each direction and a pending TXEMPTY interrupt. `isr` is
where `handleISR` is: since `comISR` enables interrupts at once, a task may be
switched to between any two of its steps, except where it has disabled them
(`CLI`). Which steps those are is taken from the compiled driver
(`rs232.asm`), where the STI at the end of the case RVCDATA is inside the branch
that wraps `head_recv`. The calls of tasks are serialised by the driver's
semaphore; within ReadByteC the test of `recv_error` and the taking of the byte
are two steps. A byte that comes in overwrites one that is still in the chip, as in an 8250. The
abstract channel is two queues, of which the byte in the chip that goes out is part, and a place
for the byte that came in last (`door`): it is lost if the next one comes, or if the
queue is full when it would be let in, and no byte is lost otherwise.

### Requests and Keyboard

`Requests` has the request blocks (`freeRQB`, `rqb`), the messages at each
exchange, and `Request`, `Respond`, `MoveRequest`, `AllocExch`, `DeAllocExch` as
what they do to them; link blocks are counted and may run out (`lost` is the
history of that). Messages are queued and taken whole: what happens inside the
primitives is in Kernel.

`Keyboard` is KBDServiceTask with its exchanges main, wait, hold and glob, the ISR
with its buffer, the jobs that call ReadKBD, and the monitor's manager task, which
switches the keyboard and kills jobs (KillJob's part that services see: the
exchanges of the job are freed, one is allocated for SendAbort). The service has
priority 7, its callers lower ones, so others run only while it waits (`Waiting`):
for a message, or in AliasMem and DeAliasMem, which wait for the memory
semaphore. `XLateRawKBD` is one step: a byte that comes in meanwhile is as good as
one before or after. Only the manager task assigns the keyboard in the model. The
abstraction is one sequence of keys and the owner that takes from its front.
`fooled` is history: a SendAbort has returned while the service had its abort still
(`Unanswered`), as happens with two jobs beside the monitor (section 4). The properties speak of
what comes before. With one job, in run `keyboard`, no SendAbort is fooled, so that the run
checks them without the exception.

## 4. Runs

The instances of Kernel have three TSSs and two link blocks.

| Run | System | Properties | States |
|---|---|---|---|
| `race` | two programs of one priority, of different rights to each exchange, one of which spawns a third task (at a higher priority or its own); 2 exchanges, one allocated on the way; interrupts send; slice of 1 tick | `TypeOK`, `LinkBlocksDisjoint`, `TasksDisjoint`, `ReadyByPriority`, `WokenWithMessage`, `OnlySendBreaks`, `OnlyWindowsCut`, `WholeLosesNothing`, `MailboxTillBroken` | 646 k |
| `rate` | one task per priority: sender, allocator and spawner the highest, receiver below, deallocator the lowest; 3 exchanges; interrupts send to two | `ExchHoldsOneKind`, `LinkBlocksConserved`, `ImplementsMailbox` | 31 k |
| `live` | two tasks of the highest priority and one below; interrupts send to one of them; slice of 3 ticks | `ReadyRuns`, `WokenReturns` | 1.6 k |
| `alarms` | two tasks sleep, one of them sets alarms too, a third receives and kills them; 2 timer blocks, 2 link blocks | `BlocksCounted`, `AlarmsKilled`, `SleepOnTime`, `BlocksExpire`, `SleeperWoken` | 25 k |
| `fat` | a floppy and a hard disk without faults, or two hard disks whose writes fail; 3 buffers, of which one is the floppy's; 2 copies of each FAT | `OneCopy`, `OnDisk`, `ImplementsFatMap` | 82 k |
| `files` | two jobs, two names, 4 clusters of 2 blocks, 2 FCBs, 2 handles; files read-only or not; renaming | `TypeOK`, `VolumeSound`, `HelperInFile`, `UsersCounted`, `ClosedIsOnDisk` | 36 k |
| `contents` | one job, two names, 3 clusters of one block with contents | `ImplementsFileStore` | 24 k |
| `stream` | one file of up to 6 bytes, sectors of 2, a buffer and clusters of 4; up to 3 bytes a call | `ImplementsByteFile` | 16 k |
| `disk` | 2 blocks, operations of up to 3 that begin on the disk and past it, commands of up to 2; interrupts lost, late or for nothing | `FirstAlarmIsOwn`, `ImplementsBlockDevice`, `OpEnds` | 162 k |
| `floppy` | 2 blocks on 2 tracks, operations of up to 2, 2 tries, 2 messages in `fd_exch`; a DeviceInit between an error and the next read or write | `ImplementsBlockDevice`, `OpEnds` | 838 k |
| `serial` | buffers of 2 bytes, bytes 0 and 1 | `ImplementsSerialLine`, `BytesGoOut` | 465 k |
| `keyboard` | the monitor, which polls, and one job, which waits; 3 request blocks, 3 link blocks, both buffers of one key | `RqbsOnce`, `NoneOfTheDead`, `NoneWaitsForNothing`, `ImplementsKeyFeed` | 2 M |

All hold.

*What they show.* `race` says that the structures of the kernel stay sound
whatever the interleaving, until the one event that `MCKernel_broken.cfg`
isolates: no task or link block is in two places, and a task never returns from
WaitMsg without a message. The three races of the kernel (`MCKernel_broken.cfg`,
`MCKernel_stale.cfg`, `MCKernel_alloc.cfg`) are all in this run, and its action properties
say that they are the only ones: nothing but SendMsg's own message breaks an exchange
(`OnlySendBreaks`); nothing is queued out of reach but in a window of SendMsg, WaitMsg or AllocExch
(`OnlyWindowsCut`); without these nothing is lost (`WholeLosesNothing`); and until an exchange is broken each message
that can be found is delivered once, in order, to the task that waited longest, to tasks
that wait and send at the same exchange as well (`MailboxTillBroken`). `rate` shows
an arrangement of priorities in which none of the three can happen, because the tasks that
could run inside a window have a lower priority than the task in it, and that then no message is lost at all. It
is one arrangement; the semaphores of the OS itself (`MemExch`, `DevSemExch`) are not
arranged so, and what holds of them is what `race` shows.

`alarms` says the same of the timer blocks: whatever ticks and searches
interleave, and with link blocks running out, the count that lets IntTimer skip
the blocks is right, KillAlarm leaves no alarm that was set when it was called
(one that is set during the search may survive), and a task that sleeps for n
ticks is sent its message at tick n + 1. `BlocksExpire` and
`SleeperWoken` say that it is sent one, unless the link blocks run out.

`fat`, `files`, `contents` and `stream` are the file system from the bottom up:
the FAT is one map whatever is replaced and when it is written; on such a FAT no
cluster is lost or shared, handles stay inside their files, a closed file is on
the disk; so every request is one on its own file; and a stream over such blocks
returns the bytes written. Each holds for the programs that its constants
describe; the next section says what happens with others.

`disk` says that a late interrupt or alarm of one operation never makes the next
one end with blocks that were not moved, though only because each wait is
followed by a look at the status of the controller, and that no controller can
keep the driver. `floppy` says the same of a driver that tries again: the answer to
one try may be taken for that of the next, the head may be elsewhere than
`LAST_TRACK` says and the motor may stop, and still the blocks of an operation
that is reported as done were moved. `serial` says that a task and the interrupt function, which both
hand bytes to the chip and both count the buffers, agree, and that a byte is lost only in the chip or
for want of room. `keyboard` says that
switching the owner and killing jobs at any point of a request neither loses a
key nor leaves a request behind.

### What the runs exclude

Some behaviours are excluded by a constant or a bound, because the property is
violated with them: the code and its expectation part there. Each has a
configuration that shows it, kept in this directory and not among the runs, or is
shown by a constant changed in the configuration of a run.

| Shown by | Property | What happens |
|---|---|---|
| `MCKernel_broken.cfg` | `ExchHoldsOneKind` | SendMsg executes STI between deQueueTSS and enQueueMsg. The sender is sliced out there, the receiver finds no message and queues itself, and the sender queues its message behind it. |
| `MCKernel_stale.cfg` | `FreeExchEmpty` | SendMsg and WaitMsg check the owner of the exchange before CLI. An exchange deallocated in between gets a message after it was emptied. |
| `MCKernel_alloc.cfg` | `LinkBlocksConserved` | AllocExch makes the exchange valid, enables interrupts, and then clears ETail. A message queued in between is found, but the one sent after it is linked behind a tail that leads nowhere, and lost with its link block. |
| `MCTimer_lost.cfg` | `AlwaysWoken` | IntTimer ignores the error of ISendMsg and frees the timer block. If no link block is free at that tick, the task sleeps for ever. |
| `MCFileSys_harm.cfg` (`CutsBehind`) | `ImplementsFileStore` | SetFileSize makes a file shorter than where the handle is; the code that should set the handle back tests another FUB (`fsys.c:2195`). The handle keeps a cluster that is free, and that another file may get. |
| `MCFileSys_past.cfg` (`ReadsPast`) | `HelperInFile` | GetAbsoluteClstr returns the end mark of a chain as the cluster behind the last, without an error, and ReadBlock keeps it in the handle. |
| `files`, with `NamesUnique` | `NamesUnique` | RenameFile does not look whether the new name exists. |
| `MCFileSys_behind.cfg` | `OnVolume` | The search for a free cluster ends with the sectors of the FAT (`fsys.c:1738`). Where the volume has fewer clusters than its FAT has entries, a file gets one that is not there. |
| `MCFileSys_full.cfg` | `FullWhenFull` | CreateFile does not try the cluster its search starts from, and reports a full disk with one cluster free. |
| `files`, with `ModifyGranted` | `ModifyGranted` | An open to modify of a file that others read succeeds and joins their FCB, whose mode is to read. |
| `stream`, `Sizes` with 3 | `ImplementsByteFile` | The last byte of the buffer that belongs to the file is computed one too far when the buffer ends one byte behind the file: ReadBytes returns a byte too many. |
| `stream`, `ReadsDirty = TRUE` | `ImplementsByteFile` | ReadBytes fills the buffer anew and does not write first what WriteBytes left in it. |
| `stream`, `SeeksEnd = TRUE` | `ImplementsByteFile` | SetFileLFA to an end of file that is the end of a cluster takes the end mark for a cluster. |
| `disk`, `AnswersLate = TRUE` | `ImplementsBlockDevice` | hd_write goes on after send_command failed. A controller that then answers still waits for the data of the write before, and gets this block at its place. |
| `disk`, `WritesAny = TRUE` | `ImplementsBlockDevice` | hd_write does not look at the error of setupseek. A write of 0 blocks puts out one, and one of more than a command takes goes where the command before it went. |
| `MCFloppy_unmoved.cfg` | `DoneIsMoved` | `retrys` is set once in an operation (`floppy.c:942`). A block that needed the last try is followed by one for which the loop is not entered: it counts as done and was not moved. An operation without an error meets this at its sixth block. The same happens when the controller ends abnormally with none of the bits that get_fdc_status tests (924): it sets `fdstatus.erc` and returns ok. |
| `floppy`, `Inits = FALSE` | `ImplementsBlockDevice` | A write hangs when the motor stops, and the operation fails. The next operation turns the motor on, and the write goes on with the contents of `sectbuf`, by then those of the new operation. |
| `floppy`, `FreeTBs = FALSE` | deadlock | `wait_int` does not look at the error of Alarm. Without a timer block it waits for an interrupt that may be lost. |
| `floppy`, with `MotorAsSent` | `MotorAsSent` | `FDC_reset` writes the DOR and leaves `dor_crnt`, the "last value sent to DOR port", as it was. After a DeviceInit the motor is off and `fd_select` does not turn it on. |
| `serial`, `SRECVBUF = 1` | `ImplementsSerialLine` | head_recv wraps at a constant and tail_recv at the size of the buffer. |
| `serial`, `ClosesBusy = TRUE` | `BytesGoOut`, `ImplementsSerialLine` | CloseCommC leaves `fExpectInt` set. After the next open WriteByteC waits for an interrupt that does not come. |
| `MCKeyboard_fooled.cfg` | `AbortAnswered` | SendAbort compares the handle of the message with that of its request, to "see if we got got response back!" (`kernel.asm:465`). The service is about to answer the killed job when KillJob allocates the exchange for the abort. The block of that answer is freed and is the next that Request takes: SendAbort takes the old answer for its own and returns, while its abort waits until the service has aliased the memory of a second job. |

Three things that the models contain and no property denies: with no link block,
Respond has freed the request block before it finds that out, and the answer is
lost; Request then keeps the block for ever; and ReadKbd and SendAbort do not look
at the error of Request and wait for an answer that never comes. This is why
`keyboard` has no liveness property and sets `CHECK_DEADLOCK FALSE`. And one that
the model leaves out: another task of the monitor can assign the keyboard too.
If it does so during KillJob, the order of the messages at the main exchange
allows a request of the dead job to be moved behind the abort, which then misses
it (`keyboard.asm:936` and `1026`).

### Bounds

*Kernel, Timer.* Three tasks are the fewest with a sender, a receiver and a third
that disturbs them, and two waiters at one exchange. Two link blocks are the
fewest with a queue longer than one and with an empty pool while another message
is in transit. Two exchanges are needed for one that is allocated while the other
is in use; `rate` has a third on which the sender waits. `SliceTicks` is the
constant 3 of `IntTimer`; the safety runs use 1, which allows every interleaving
that 3 does, since the time between two ticks is arbitrary, with fewer states;
`live` uses 3. `slice` stops counting at `SliceTicks`: the code only asks whether
it is at least that. Exchange numbers out of range are refused at the entry and
not enumerated. Link blocks are symmetric in the safety runs without a
refinement. The runs of Timer have three tasks, so that a block is taken and freed
by others while one of them searches; two blocks make a search that passes one
that changes behind it or in front of it; two link blocks, which queued messages
use up, so that some blocks expire without one; and `MaxCount = 2`, which gives two
sleepers that wake at different ticks.

*File system.* Two FAT buffers for the hard disks and three sectors that want them,
so that buffers are replaced; two ticks, so that LRU has an order; cluster numbers
whose label would be equal but for the drive. `files` has a volume that two files
fill, with a FAT of two sectors and clusters of two blocks, so that extensions
fail in the middle, sizes end inside a cluster and a size of 5 needs three
clusters; two handles and two FCBs, so that both tables run out. `contents` gives
up the second job, the second FAT sector and the renaming for the contents.
`stream` has a buffer of two sectors and a file longer than the buffer, sizes that
end at and inside a sector, a buffer and a cluster, and calls longer than a
sector. `MaxTick`, `TickMod` and `StartMod` bound the tick and the label of a
buffer: the tick does not wrap in the run, and no label is cut (`fsys.c:1460` is
a hazard that a mutant reaches).

*Drivers, keyboard.* Two blocks allow an operation of more than one and an address
that is wrong; an operation of three is more than a command of the run takes. The number of interrupts that wait in the exchange of the driver is
bounded by the model itself: each command gives a bounded number. For the floppy
`MaxMsgs = 2` bounds it: a message of an earlier try in front of that of this one.
Two tries are one that fails and one that is the last, after which the second
block counts as done without one; the byte `retrys` then wraps to 255. Buffers of two
bytes wrap and get full. Three request blocks and three link blocks are fewer than
two jobs, the manager and the abort want together. `MaxInts` bounds the messages
of the ISR that wait at once; further bytes then come in later.

### Fairness

In Kernel `FairSpec` assumes weak fairness of `IntTimer`, because the timer
chip interrupts for ever; weak fairness of `WaitUnhalt`, because a halted
processor executes the next instruction after an interrupt; and strong fairness
of the stretches of kernel code (`Primitive`), because a task that gets the
processor again and again completes a few dozen instructions: a stretch is
disabled only while another task runs. Nothing is assumed of programs: a task
in `"run"` may compute for ever, and `ReadyRuns` holds only because IntTimer
takes the processor away. Lower priorities may starve, and do: that is the
code's strict priority scheduling, so both properties speak of priority 0.
In Timer only `IntTimer` is fair: no task need ever take a step for a block to
expire and its message to be sent.

In HardDisk and Floppy the driver is weakly fair, as the kernel runs a ready task of a driver,
and the alarm, as the timer ticks; nothing is assumed of the controller, which may
never answer, but for this: `purge_fdc` of the floppy driver reads it for as long as it offers a byte
(`floppy.c:836-852`), without a bound, so the end of that loop has a fairness condition of its
own, that a controller has no more than its seven bytes of results. A controller that always
offers one more would hold the driver there, and `OpEnds` does not hold of it. In Serial the line, the delivery of interrupts and the steps of
`handleISR` are weakly fair, and reading TXEMPTY is strongly fair: the loop of
handleISR is faster than the line, so that it does not find a received byte every
time it looks. Programs need not call.

## 5. Proofs

`KernelProofs` proves for every value of the constants, from the assumptions in
`Kernel.tla` (sizes at least 1; NIL, tasks and link blocks distinct; the boot
state has no task queued twice and the running task not queued):

- `TypeCorrect`: `Spec => []TypeOK`
- `TasksNeverShared`: `Spec => []TasksDisjoint`
- `LinkBlocksNeverShared`: `Spec => []LinkBlocksDisjoint`
- `WokenHasMessage`: `Spec => []WokenWithMessage`
- `ReadySorted`: `Spec => []ReadyByPriority`

All but the last are proved together, as one inductive invariant `IInv`, because each
needs others. SendMsg stores into the `pLBRet` of the task it dequeued: that
overwrites no link block only because a parked task holds none, which is so
because it is in Wait03 and came from Wait01 with none (`ParkedRegs`). Deliver
puts `pLBRet` on the free list: that this is not NIL is `WokenWithMessage`,
which holds because a task becomes ready out of a wait only by being given a
message, and was in one queue only (`TasksDisjoint`), so that nobody else can
make it ready. `Regs` says at which points a task holds something at all. The
queues enter through the lemmas at its head, which say what putting,
popping and clearing do to the set of what is queued.

There is one lemma per action, with one step per part of the invariant, and
`MovesNothing` for the ten actions that change only `pc` and one field. The
strengthened invariant was first checked with TLC on the instance of run `race`.
`ReadySorted` is a second induction on top of it: enQueueRdy keeps a sorted
queue sorted, and SetPriority and SpawnTask change the priority only of a task
that is not in it, which is `TasksDisjoint`.

The second part of `KernelProofs` proves what holds of the messages and tasks that are
queued, again for every value of the constants and whatever the programs call:

- `OnlySendCanBreak`: `Spec => OnlySendBreaks`
- `OnlyWindowsCanCut`: `Spec => OnlyWindowsCut`
- `NothingElseLoses`: `Spec => WholeLosesNothing`
- `MailboxesTillBroken`: `Spec => MailboxTillBroken`
- `ExchangesAreMailboxes`: `Spec /\ []ExchHoldsOneKind => ImplementsMailbox`

The kernel has three races (section 4), and no condition on its programs that the code
states would rule them out: a semaphore, for one, is an exchange at which the same tasks
both wait and send. So the theorems do not assume them away. They say which steps they are, that
no other step does harm, and what the exchanges promise as long as none of them was taken. The last
one has its condition on the behaviour; run `rate` has programs all of whose behaviours meet it.

All five follow from `IInv` and one lemma per action. `StepIntact`: each action but SendQueue
leaves at an exchange what its flag says, since a task queues itself only where no message is and a message
queued by an interrupt handler comes where no task waits, with interrupts disabled from the look to the link; what
SendQueue needs for it, that no task waits, is what it cannot know. For `OnlyWindowsCut` the
actions that queue, those that clear and those that set ETail or an owner are looked at (`NextWhole`).
`NextPlaced` and `NextTaskPlaced` say, under `Sound` (`IInv`, no exchange broken, all `Whole`), where the link block or task
that a step takes from one place is after it; `QueuedAt` of DeAllocExch is the
interesting one, as it frees all that is queued. The refinement is proved step by step
(`NextMailbox`), under `IInv` and that no exchange is broken before the step or after it: SendMsg is `Send` of the mailbox
when it takes a receiver off the exchange or queues the message, and a stutter when that is linked behind a detached tail; the wake-up is
`Read`; DeAllocExch, and AllocExch of an exchange where something was queued without an owner, are `Close`.

`TimerProofs` proves, for any number of blocks, tasks and link blocks and any
programs:

- `TypeCorrect`: `Spec => []TypeOK`
- `CountCorrect`: `Spec => []BlocksCounted`
- `KillCorrect`: `Spec => []AlarmsKilled`
- `SleepsOnTime`: `OwnExchOnly /\ Spec => []SleepOnTime`

The first three are one invariant with `Ahead`, which says that what KillAlarm
still has to kill lies at or after the block it looks at: a block that others
take during the search is not added to it, and every block it passes is taken
out of it. That IntTimer never takes more link blocks than there are (`SentFits`) needs
the last of the blocks it sends for, and all those before it. `SleepsOnTime`
has the assumption that programs leave the exchange in a TSS to Sleep, since
any alarm for it, or any KillAlarm of it, would end the sleep early or never.

`HardDiskProofs` proves, for a disk and operations of any size and any contents
of the blocks:

- `TypeCorrect`: `Spec => []TypeOK`
- `FirstAlarm`: `Spec => []FirstAlarmIsOwn`
- `Implements`: `ASSUME ~AnswersLate, ~WritesAny PROVE Spec => ImplementsBlockDevice`

`FirstAlarm` follows from `AlarmInv`: an alarm is set only while the driver waits,
so that none can come in between the emptying of the exchange in send_command and
the first wait. `Implements` is the refinement of run `disk`, proved from `DataInv`:
the first `nSoFar` blocks of the operation are moved (`Moved`), and the controller
either was given up, and then does nothing before a reset, or is at the block after
them with the rest to go (`InStep`). That is why an interrupt that is too many does no
harm: hd_status looks at BUSY before a block is moved, and a controller that is
ready for a read has the block `nSoFar`. The assumptions are needed: a controller
that answers late is ready with the data request of an earlier command, and a
write of 0 blocks, or of too many, leaves the bytes of the previous command in `hd_Cmd`. A step of
the abstract disk is `Start` for hddev_op, `Put` for a block put out, and `End` for a
return (`ReturnMaps`: with an error, or with everything moved); the others stutter.

`FloppyProofs` proves, for a drive, operations and a number of tries of any size:

- `Implements`: `ASSUME Inits PROVE Spec => ImplementsBlockDevice`

The hypothesis is that of run `floppy`, and section 4 has a counterexample without it: programs
make no read or write between an error and a DeviceInit that goes well. Nothing is assumed of the controller, of the length of an operation
or of the tries that are left. Since the driver reports blocks as done that nobody moved
(section 4), the theorem is about what it reports rightly: `drv.unmoved` and `ret.unmoved`
are history, set where a block is counted without a good try, and the refinement maps an operation
that ends so to one that failed. Everything else is promised for it too: it has changed no block
but its own, and leaves no transfer behind. Whether there are timer blocks for the alarms makes no difference to safety. The
invariant says what the blocks and the buffer are where the driver stands (`OpOK`: the first n
blocks are moved if none was counted without a good try, and the next one of a write is in `sectbuf` while it is tried); that a transfer in
the controller is either the driver's own, of block n + 1, or one of an operation that failed,
and then only operations run that move no blocks, up to the DeviceInit that resets the controller (`FdcOK`); and that results that wait
for the driver are those of its last command (`ResultOK`). So neither the alarm of an earlier wait nor
an interrupt that was left over does harm: a command is not taken while a transfer goes on,
and the one that is taken forgets the results of those before it. The refinement maps a
transfer that goes on after the operation failed to `late`; its end is `Put` for a write, a command or
a reset that the controller takes is `Forget`. `IInv` was first checked with TLC on the instance of
run `floppy`.

`FsysBufferProofs` proves of `FatCache`, for any drives, sizes of FATs, numbers of buffers and
contents of the disks:

- `NeverTwoCopies`: `ASSUME LabelsFit, TicksFit PROVE Spec => []OneCopy`
- `CleanBuffersOnDisk`: `ASSUME LabelsFit, TicksFit, ReadsWork PROVE Spec => []OnDisk`
- `FatBuffersAreAMap`: `ASSUME LabelsFit, TicksFit, ReadsWork PROVE Spec => ImplementsFatMap`

The first two hypotheses are the widths of two fields: the first cluster of a FAT
sector fits in the 16 bits of `iClstrStart`, and the count of ticks does not wrap while the
system runs. The third says that reading a FAT sector does not fail: find_fat_sect
sets the label of a buffer before the read, and a buffer whose read failed keeps the
label with the contents of another sector. Writes may fail. In a buffer that
was used, the sector and the first cluster belong together (`Labelled`), so that the
comparison of drive and first cluster by which FindFatSect searches decides whether the
sector is there; `OneCopy` follows, since a buffer is labelled anew only after the
search failed. The map of the abstract specification is what the buffer of a sector
says, or else the disk (`Shows`). To replace the least recently used buffer changes
nothing of it (`Keeps`): a modified one was written first, and if that failed it is kept.

It proves of `FileStream`, for a stream buffer, sectors, clusters and files of any sizes:

- `StreamImplements`: `ASSUME ~ReadsDirty, ~SeeksEnd, EndsFit PROVE StreamSpec => ImplementsByteFile`
- `StreamTyped`: the same for `StreamTypeOK`

The hypotheses are those of run `stream`, and section 4 has a counterexample for each:
a program does not read behind what it wrote without SetFileLFA; it does not
set the address to an end of file that no cluster holds, unless it is in the
buffer; and no file ends one byte before a place where the buffer may end (`EndsFit`), which
is where ReadBytes counts one byte too many. Then the invariant (`Sound`) is that
the buffer starts at a sector of the file for which there is a cluster (`Placed`), and has what is on the disk
as far as the file goes when it is not modified (`Coherent`). `FlushIs` and `FillIs` say
that neither a flush nor a fill of an unmodified buffer changes a byte of the file (`ByteAt`); the
blocks that a flush writes have every byte of the buffer that belongs to the file
(`BlocksCover`), and where they have more, it is behind its end. ReadBytes and WriteBytes
are loops of up to `MaxBytes` turns: `ReadSoFar` and `WriteSoFar` are their loop
invariants, with the progress that a turn makes, so that the bound on the turns
is no restriction. A write that makes the file longer starts with a buffer that is right only
up to the old size (`m` in these lemmas); what is behind is written before it can be seen.
The invariant was first checked with TLC on the instance of the run.

`SerialProofs` proves, for buffers of any sizes and any bytes:

- `ChannelIsALine`: `ASSUME AsDriven PROVE Spec => ImplementsSerialLine`

`AsDriven` has the two conditions of run `serial`: the receive buffer has the size
that is compiled into head_recv, as the driver allocates it, and a program closes a
channel only when nothing is left to be sent. The invariant says of each circular
buffer that its head is `c` bytes after its tail, modulo the size (`BufOK`); the lemmas
about PutIn and TakeOut then say what they do to the sequence of bytes that it holds. The rest
says what the interrupt function finds where it stands: the byte that it was called for, with room
for it if it looked for room; an empty holding register when it is about to send; and
`fExpectInt` set whenever an interrupt for sending is still to come, which is why
WriteByteC may put a byte into the chip itself only when it is not set.

`FileSysProofs` proves, for a volume, a directory and tables of any size, any files,
jobs and sizes:

- `TypeCorrect`: `AsAddressed /\ Spec => []TypeOK`
- `VolumesSound`, `HelpersInFiles`, `UsersAreCounted`, `ClosedFilesOnDisk`: the same for
  `VolumeSound`, `HelperInFile`, `UsersCounted` and `ClosedIsOnDisk`
- `ImplementsStore`: `AsAddressed /\ Spec => ImplementsFileStore`

`AsAddressed` is what run `files` has: calls do not read past the size of a file
(`ReadsPast`), and SetFileSize does not cut a file before the block a handle is at
(`CutsBehind`). It is needed: `MCFileSys_past.cfg` violates `HelperInFile` and `MCFileSys_harm.cfg`
`ImplementsFileStore` without it. Programs may rename, which run `contents` leaves out. The module also assumes that sizes are dwords, so
that there is a greatest one, and that there is an FCB and a directory entry.

What has to be invariant is about chains. `IInv` says that there is a sequence of
clusters for every directory entry such that (`Sound`) the sequence of each file follows the FAT
from its start cluster to its end mark, no two share a cluster, and what is on none is free (`Chains`);
each is long enough for the size in the directory, and for the one in the FCB while it is open
(`Long`); a handle has the cluster at its place in it (`Helpers`); and the chain of
a file that nobody may change is on the disk (`Saved`). With it go `Tables`, the types; `Opened`,
which ties an FCB to its entry; and `Counted`, the users. Sequences make
it inductive: ExtendClstrChain puts a cluster at the end of one, TruncClstrChain
cuts one, DeleteFile removes one, and CreateFile makes one of length 1. What SetFileSize, WriteBlock
and DeleteFile do to the FAT is described once, by what it does to the chain of the file (`Reshaped`: a
prefix stays, and what is added was free); `ChainsReshaped` says that
the other chains are then what they were. `Follow` and `ExtendBy` are
recursive functions: that the code's walk along a chain finds `q[k + 1]` after k steps, and
that extending m times makes the chain m longer or stops at a full disk with a
sound chain, is proved by induction as a statement about a set of numbers
(`SetInduction`). GetAbsoluteClstr starts at the cluster kept in the handle if it can,
and at the start of the file if not: `AbsoluteIs` says that both find the same cluster, which is
`Helpers`. IInv was first checked with TLC on the instance of run `files`.

The refinement rests on the same chains. The blocks of a file are those that its chain `q`
leads to: block b is in cluster `q[(b \div SecPerClstr) + 1]` at `b % SecPerClstr` (`StoredIs`), which
the entry, the FAT and the contents of the clusters on the chain decide
(`StoredSame`). So a request that leaves the chain of a file and its entry alone leaves the file
as it was, and since no two chains share a cluster, only the file it is made for remains to be
looked at. SetFileSize keeps a prefix of the chain, and so the blocks that stay
(`ResizedFiles`). CloseFile and JobAbort move the entry from the FCB to the directory, which
changes nothing that a program sees (`ClosingStep`). ReadBlock and WriteBlock start at the cluster in the
handle and go k blocks: the i-th is block b + i of the file wherever they start
(`TransferAt`), and two blocks of a file are never in one place (`PlacesDiffer`), so that WriteBlock
writes those k and no other (`WritingIs`, `WritingOther`). That a handle to modify is
the only one (`Alone`) is `UsersCounted`.

`KeyboardProofs` proves `BlocksOnce`: `Spec => []RqbsOnce`, for any jobs, request blocks and link
blocks. `RqbsOnce` counts the places of a block in one list of all handles; the
invariant says the same by who has it (`Holds`): the free list, one of the four exchanges of
the service, either of its two message buffers, or a job between NewRQB and the send
(`Makes`). At most one of them has it (`OneHolder`) and none of the lists has it twice
(`ListedOnce`). What makes it inductive is `SvcHolds`, which says at which places of its
code the service has something in which buffer. A step then takes a block from one holder to
another (`OneMoves`) or lets none get one (`NoneMoves`). What is queued at the exchanges of
jobs are answers, whose block is free or used again; they are not holders, and
no step of the service believes one. The invariant was first checked with TLC on the
instance of run `keyboard`.

`DeadAreForgotten`, `OwnerIsServed` and `KeyboardFeeds` hold for any jobs, blocks, link blocks,
keys and buffers, up to a step in which a SendAbort takes another answer for its own (`fooled`, see
section 4): the properties say so, and nothing else is assumed. The code has no more to
offer, since what SendAbort then leaves behind is a request of a job that is gone.

`DeadAreForgotten` proves `NoneOfTheDead`. Its invariant `KInv` says whose requests the service has. A
block that it has is of one of three kinds (`Kinds`): a read of a job, to be answered there; a request of the
manager task; or the abort, and then `mgr.pc` is `"aborting"`. An abort is never put away (`Parked`), and at
each place of its code the service works on the kind it should (`Serves`). Each who asks has at most
one request with the service (`Single`) and gets one answer to it (`Answered`); so one who asks
nothing has no answer waiting either. The monitor kills one job at a time (`Killed`). When
the abort is to be answered, or something waits at the exchange where SendAbort waits, the requests
of the job are gone (`Removed`). The heart is `Ahead`, the invariant beside it: in the main queue no
request of the dying job is behind its abort, and none is there once the service has the abort in its
hands, so that what the abort sifts out of the other three queues is all there is. For that
SendAbort sends last, nobody serves an assignment, which moves requests to the main queue, while
the manager task waits for an abort (`NoAssign`), and what an abort moves there is of others
(`SiftMoveAhead`). At the step in which SendAbort returns, `~fooled'` says that the service has the abort no
more (`HeldUnanswered`).

`OwnerIsServed` proves `NoneWaitsForNothing`. Two more invariants are needed.
`QInv` says how the service keeps the requests that wait: the owner's at wait and the others' on hold,
but while an assignment goes through them (`Sorted`); only those that asked for the global key at
glob (`Globals`); and that KbdOwner is a job. `LInv` says, while no message was lost, that a job that
waits has a request with the service or an answer on the way (`Pending`); that the
ISR sent a message for each byte that is left in its buffer (`IntsEnough`); and, the heart, that when
there is a key and the owner has a request at wait, the service is about to look there (CheckWait)
or more messages of the ISR are on the way than there are bytes (`WillLook`). That strict inequality
is needed since XLateRawKBD runs at two places: at the top of the loop it takes bytes whose messages
are still to come, so that each of these is one too many, and only the one after WaitMsg looks.
Whatever leaves the service with a key and with nothing to look at it thus has a
message in the queue. The lemma under it is `XLateDoes`: XLateRawKBD takes a byte if
there is one, and two if it finds both the first key and the global key. All of it was checked
with TLC first, on small instances, that of run `keyboard` among them.

`KeyboardFeeds` proves `ImplementsKeyFeed`. The keys that KeyFeed has are those
in both buffers, in their order (`Keys`), a job that calls ReadKBD has asked or polled there, and the rest is
read off. The invariant that is added, `FInv`, says at each job where its key is (`JobFed`): while the
service has its request and does not answer it yet, the job has no key; when the service is about to
answer (`Answering`), or the answer is queued, a job that does not poll has one; and a job that asks nothing, or is
gone, has none. So ReadKBFinal gives a key only to a job that waits and has none (`KeyGiven`), and
ReadKBD returns with it. With `QInv` and `XLateDoes` the steps follow: a byte of the ISR is typed or
nothing, XLateRawKBD moves keys or loses the one behind sKB keys, AssignKBD changes the owner, and ReadKBD, KillJob,
SendAbort and LoadNewJob are the steps of one job (`OneBecomes`); all others stutter.

Only model-checked: liveness (runs `live`, and `SleeperWoken`, `BlocksExpire`, `OpEnds`,
`BytesGoOut`), which is out of the prover's reach with `ENABLED`. Every invariant, every
action property and every refinement that a run checks is stated by a theorem too.

## 6. What is not modelled

- *Kernel*: NewTask and RemoveRdyJob (see the plan); registers, stacks and
  segments, and so the two error exits that remove the wrong number of argument
  bytes (`kernel.asm:921` and `1579`); faults and the debugger, which stop the
  scheduler; what happens after an exchange is mixed. The clock, the beeper and
  MicroDelay of `tmrcode.asm` change no shared state.
- *Requests*: the service registry, and the aliases of the caller's memory, whose
  making may fail in the code (`kernel.asm:1222`: WaitMsg then keeps the link
  block). A response exchange that was freed is in the model.
- *File system*: directories other than a root of one sector, paths, the
  initialisation of drives from their boot sectors, dates and attributes other than
  read-only; device errors above the FAT; a crash inside a request (`ClosedIsOnDisk`
  is about a crash between two); CreateFile's space for long searches; several
  handles in stream mode, and files cut in stream mode.
- *Drivers*: `hardide.c` has one controller with one drive here; the overrun of the
  message buffer in hd_wait, the clearing of the interrupt by reading the status,
  and the tables of geometry are left out. `rs232.c` has one channel with an 8250;
  code notes of what is outside: after an overflow ReadByteC fails until a byte is
  stored again (469); the bits that a 16550 sets in the IIR match no case (376); a
  time of 0 passed to the wait for the send buffer wraps (533); CmdSetDTR writes the
  wrong register and CmdReSetDTR falls through (841-850). `floppy.c` has one
  drive, and no statistics or change of media. Not in the model: the test of dLBA
  uses the maximum of the operation before, perhaps of the other drive, and `>`
  where `>=` is meant (1083); `fd_nr_sectors` is a byte, so that 256 blocks are
  none (241). `parallel.c` and `mouse.c` are not modelled.
- *Keyboard*: raw mode, the lock keys, the translation tables, CancelGlobal, null
  pointers, and the debugger's own reading. `dJunk` keeps the handle of an earlier
  abort when Request fails; it counts as none here.
- *Memory, devices, jobs*: see the plan.
- *Video, DMA, interrupt and exception set-up, boot code*: hardware with no state
  that several steps could get wrong. *Debugger, monitor*: user interfaces that run
  alone. *CM32, DASM, samples, libraries, `dunfield/`*: sequential tools, clients
  of the calls that the models let any program make, and vendored code.
