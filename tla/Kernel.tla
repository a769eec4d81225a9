------------------------------- MODULE Kernel -------------------------------
(***************************************************************************)
(* The messaging and scheduling core of the MMURTL kernel, ossource/       *)
(* kernel.asm, with the scheduling half of the timer interrupt (tmrcode).  *)
(*                                                                         *)
(* There is one processor.  A kernel primitive runs in the context of the  *)
(* task that called it, and it is interrupted between any two instructions *)
(* executed with interrupts enabled.  Every action below is a stretch of   *)
(* code between two points at which an interrupt can be taken: pc[t] says  *)
(* at which of these points task t is, under the name of the label in the  *)
(* source, and "run" is the task's own code, outside the kernel.           *)
(*                                                                         *)
(* The type of a message and its two data words are abstracted away: the   *)
(* link block (LB) that carries a message stands for it.                   *)
(***************************************************************************)
EXTENDS Naturals, Queues

CONSTANTS
    Task,        \* the task state segments (TSSs) of the system
    LB,          \* the link blocks (nLB of them)
    Job,         \* the job control blocks
    MonJob,      \* the monitor's, MonJCB
    NIL,         \* the null pointer
    nExch,       \* number of exchanges
    nPRI,        \* number of priorities; 0 is the highest
    SliceTicks,  \* timer ticks after which a task can be sliced out
    Calls,       \* Calls[t]: the kernel calls that the program of t makes
    ISends,      \* the exchanges to which interrupt handlers send
    First,       \* the task that runs when the model starts, and for every
    Job0,        \*   task its job (NIL when its TSS is free),
    Priority0,   \*   its priority,
    Ready0,      \*   the ready queue,
    Owner0       \*   and the owner of every exchange at that time

Exch == 0 .. nExch - 1
Pri  == 0 .. nPRI - 1

Call == ({"SendMsg", "WaitMsg", "CheckMsg", "DeAllocExch"} \X Exch)
        \cup ({"SpawnTask", "SetPriority"} \X Pri)
        \cup {<<"AllocExch", 0>>}

ASSUME SizesAssumption ==
    /\ nExch \in Nat \ {0}
    /\ nPRI \in Nat \ {0}
    /\ SliceTicks \in Nat \ {0}

ASSUME NamesAssumption ==
    /\ MonJob \in Job
    /\ NIL \notin Task \cup LB \cup Job
    /\ Task \cap LB = {}

ASSUME ProgramAssumption ==
    /\ Calls \in [Task -> SUBSET Call]
    /\ ISends \subseteq Exch

ASSUME BootAssumption ==
    /\ First \in Task
    /\ Job0 \in [Task -> Job \cup {NIL}]
    /\ Priority0 \in [Task -> Pri]
    /\ Ready0 \in [Pri -> Seq(Task)]
    /\ Owner0 \in [Exch -> Job \cup {NIL}]
    /\ Job0[First] # NIL
    /\ EachOnce(Ready0)
    /\ \A t \in Task : Queued(Ready0, t) => t # First /\ Job0[t] # NIL
    /\ \A t \in Task : Job0[t] # NIL => t = First \/ Queued(Ready0, t)
    /\ \A p \in Pri : \A t \in ToSet(Ready0[p]) : Priority0[t] = p

VARIABLES
    Owner,       \* the job that owns each exchange, NIL when it is free
    queue,       \* EHead .. ETail: the link blocks or the TSSs queued there
    fEMsg,       \* whether what is queued are messages
    cut,         \* whether ETail was set to NIL while something was queued
    RdyQ,        \* one FIFO of TSSs for every priority
    pRunTSS,     \* the running task
    dfHalted,    \* whether the processor is halted in WaitMsg
    slice,       \* TimerTick - SwitchTick, up to SliceTicks
    pFreeLB,     \* the free link blocks
    pFreeTSS,    \* the free TSSs
    TSS_pJCB,    \* the job of each task
    Priority,    \* the priority of each task
    pc,          \* where each task is in the code
    ex,          \* the exchange its kernel call works on (ESI)
    lb,          \* the link block it holds, in pLBRet or in a register
    tss          \* the TSS it holds in a register

exchVars == <<Owner, queue, fEMsg, cut>>
runVars  == <<RdyQ, pRunTSS, dfHalted, slice>>
poolVars == <<pFreeLB, pFreeTSS>>
tssVars  == <<TSS_pJCB, Priority>>
regVars  == <<ex, lb, tss>>
vars     == <<exchVars, runVars, poolVars, tssVars, pc, regVars>>

Label == {"run", "Send01", "Send_STI", "Wait01", "Wait03", "Wait06", "Chk02",
          "AE001", "DE000", "ST_AE001", "ST_TSS", "ST_Free", "ST0004"}

Init ==
    /\ Owner = Owner0
    /\ queue = [e \in Exch |-> << >>]
    /\ fEMsg = [e \in Exch |-> FALSE]
    /\ cut = [e \in Exch |-> FALSE]
    /\ RdyQ = Ready0
    /\ pRunTSS = First
    /\ dfHalted = FALSE
    /\ slice = 0
    /\ pFreeLB = LB
    /\ pFreeTSS = {t \in Task : Job0[t] = NIL}
    /\ TSS_pJCB = Job0
    /\ Priority = Priority0
    /\ pc = [t \in Task |-> "run"]
    /\ ex = [t \in Task |-> 0]
    /\ lb = [t \in Task |-> NIL]
    /\ tss = [t \in Task |-> NIL]

-----------------------------------------------------------------------------
(* Queues. *)

\* deQueueMsg finds a message, deQueueTSS finds a task, at exchange e.
HasMsg(e) == fEMsg[e] /\ queue[e] # << >>
HasTSS(e) == ~fEMsg[e] /\ queue[e] # << >>

enQueueRdy(rdyQ, t) == Put(rdyQ, Priority[t], t)

\* p is the highest priority at which a task is queued.
HighestReady(rdyQ, p) ==
    /\ rdyQ[p] # << >>
    /\ \A r \in Pri : rdyQ[r] # << >> => p <= r

NoneReady(rdyQ) == \A p \in Pri : rdyQ[p] = << >>

\* deQueueRdy and the task switch: the first task of the highest priority
\* runs.  The time slice starts again unless that task was running already.
RunNext(rdyQ) ==
    \E p \in Pri :
        /\ HighestReady(rdyQ, p)
        /\ pRunTSS' = Head(rdyQ[p])
        /\ RdyQ' = Pop(rdyQ, p)
        /\ slice' = IF Head(rdyQ[p]) = pRunTSS THEN slice ELSE 0

\* ETail is not the last element that EHead leads to.
Detached(e) == cut[e] /\ queue[e] # << >>

\* enQueueMsg, and its twin in WaitMsg: x is linked behind ETail.  If that is
\* detached nothing leads to x from EHead: x is lost.
enQueue(e, x) == IF Detached(e) THEN queue ELSE Put(queue, e, x)
Retailed(e)   == [cut EXCEPT ![e] = Detached(e)]

\* What is queued at e is what its flag says.
OneKind(e) == queue[e] \in Seq(IF fEMsg[e] THEN LB ELSE Task)

\* When a link block is linked behind a waiting TSS the kernel goes on to
\* take one for the other.  What it does then is not modelled: every action
\* requires Intact, and the behaviours of the model end in such a state.
Intact == \A e \in Exch : OneKind(e)

\* Task t executes at label l.
At(t, l) == Intact /\ pRunTSS = t /\ ~dfHalted /\ pc[t] = l

\* The program of t calls the primitive fn with argument a.
Calling(t, fn, a) == At(t, "run") /\ <<fn, a>> \in Calls[t]

Goto(t, l) == pc' = [pc EXCEPT ![t] = l]

-----------------------------------------------------------------------------
(* SendMsg.  The exchange is checked with interrupts enabled.              *)

SendMsg(t, e) ==
    /\ Calling(t, "SendMsg", e)
    /\ Owner[e] # NIL
    /\ Goto(t, "Send01")
    /\ ex' = [ex EXCEPT ![t] = e]
    /\ UNCHANGED <<exchVars, runVars, poolVars, tssVars, lb, tss>>

\* CLI; take a link block, take a waiting task if there is one; STI.
SendTake(t) ==
    /\ At(t, "Send01")
    /\ LET e == ex[t] IN
       /\ \E b \in pFreeLB :
            /\ pFreeLB' = pFreeLB \ {b}
            /\ lb' = [lb EXCEPT ![t] = b]
       /\ IF HasTSS(e)
          THEN /\ tss' = [tss EXCEPT ![t] = Head(queue[e])]
               /\ queue' = Pop(queue, e)
          ELSE UNCHANGED <<tss, queue>>
    /\ Goto(t, "Send_STI")
    /\ UNCHANGED <<Owner, fEMsg, cut, runVars, pFreeTSS, tssVars, ex>>

\* ercNoMoreLBs
SendNoLB(t) ==
    /\ At(t, "Send01")
    /\ pFreeLB = {}
    /\ Goto(t, "run")
    /\ UNCHANGED <<exchVars, runVars, poolVars, tssVars, regVars>>

\* Mutant of SendQueue: enQueueMsg without the flag.
SendQueueNoFlag(t) ==
    /\ At(t, "Send_STI")
    /\ tss[t] = NIL
    /\ queue' = enQueue(ex[t], lb[t])
    /\ cut' = Retailed(ex[t])
    /\ lb' = [lb EXCEPT ![t] = NIL]
    /\ Goto(t, "run")
    /\ UNCHANGED <<Owner, fEMsg, runVars, poolVars, tssVars, ex, tss>>

\* Mutant of SendQueue: the message goes to the head of the queue.
SendQueueFront(t) ==
    /\ At(t, "Send_STI")
    /\ tss[t] = NIL
    /\ queue' = [queue EXCEPT ![ex[t]] = <<lb[t]>> \o @]
    /\ fEMsg' = [fEMsg EXCEPT ![ex[t]] = TRUE]
    /\ cut' = Retailed(ex[t])
    /\ lb' = [lb EXCEPT ![t] = NIL]
    /\ Goto(t, "run")
    /\ UNCHANGED <<Owner, runVars, poolVars, tssVars, ex, tss>>

\* No task was waiting when SendMsg looked: CLI; enQueueMsg.
SendQueue(t) ==
    /\ At(t, "Send_STI")
    /\ tss[t] = NIL
    /\ queue' = enQueue(ex[t], lb[t])
    /\ fEMsg' = [fEMsg EXCEPT ![ex[t]] = TRUE]
    /\ cut' = Retailed(ex[t])
    /\ lb' = [lb EXCEPT ![t] = NIL]
    /\ Goto(t, "run")
    /\ UNCHANGED <<Owner, runVars, poolVars, tssVars, ex, tss>>

\* Send25: the task that was waiting gets the message; it and the sender go
\* on the ready queue, and the highest priority task runs.
SendHandOver(t) ==
    /\ At(t, "Send_STI")
    /\ tss[t] # NIL
    /\ lb' = [lb EXCEPT ![tss[t]] = lb[t], ![t] = NIL]
    /\ tss' = [tss EXCEPT ![t] = NIL]
    /\ RunNext(enQueueRdy(enQueueRdy(RdyQ, tss[t]), t))
    /\ Goto(t, "run")
    /\ UNCHANGED <<exchVars, dfHalted, poolVars, tssVars, ex>>

-----------------------------------------------------------------------------
(* WaitMsg and CheckMsg. *)

WaitMsg(t, e) ==
    /\ Calling(t, "WaitMsg", e)
    /\ Owner[e] # NIL
    /\ Goto(t, "Wait01")
    /\ ex' = [ex EXCEPT ![t] = e]
    /\ UNCHANGED <<exchVars, runVars, poolVars, tssVars, lb, tss>>

CheckMsg(t, e) ==
    /\ Calling(t, "CheckMsg", e)
    /\ Owner[e] # NIL
    /\ Goto(t, "Chk02")
    /\ ex' = [ex EXCEPT ![t] = e]
    /\ UNCHANGED <<exchVars, runVars, poolVars, tssVars, lb, tss>>

\* Mutant of TakeMsg: the link block stays at the head of the queue.
TakeMsgPeek(t) ==
    /\ At(t, "Wait01") \/ At(t, "Chk02")
    /\ HasMsg(ex[t])
    /\ lb' = [lb EXCEPT ![t] = Head(queue[ex[t]])]
    /\ Goto(t, "Wait06")
    /\ UNCHANGED <<exchVars, runVars, poolVars, tssVars, ex, tss>>

\* deQueueMsg found a link block, which is now the caller's.
TakeMsg(t) ==
    /\ At(t, "Wait01") \/ At(t, "Chk02")
    /\ LET e == ex[t] IN
       /\ HasMsg(e)
       /\ lb' = [lb EXCEPT ![t] = Head(queue[e])]
       /\ queue' = Pop(queue, e)
    /\ Goto(t, "Wait06")
    /\ UNCHANGED <<Owner, fEMsg, cut, runVars, poolVars, tssVars, ex, tss>>

\* ercNoMsg
CheckNone(t) ==
    /\ At(t, "Chk02")
    /\ ~HasMsg(ex[t])
    /\ Goto(t, "run")
    /\ UNCHANGED <<exchVars, runVars, poolVars, tssVars, regVars>>

\* Wait02: the task waits on the exchange and another one runs; with none
\* ready the processor halts in the context of the waiting task.
WaitBlock(t) ==
    /\ At(t, "Wait01")
    /\ LET e == ex[t] IN
       /\ ~HasMsg(e)
       /\ queue' = enQueue(e, t)
       /\ fEMsg' = [fEMsg EXCEPT ![e] = FALSE]
       /\ cut' = Retailed(e)
    /\ IF NoneReady(RdyQ)
       THEN dfHalted' = TRUE /\ UNCHANGED <<RdyQ, pRunTSS, slice>>
       ELSE RunNext(RdyQ) /\ UNCHANGED dfHalted
    /\ Goto(t, "Wait03")
    /\ UNCHANGED <<Owner, poolVars, tssVars, regVars>>

\* Mutant of WaitUnhalt: the task that halted takes the interrupt for its
\* message and goes on, without a look at the ready queue.
WaitUnhaltBlindly ==
    /\ Intact
    /\ dfHalted
    /\ dfHalted' = FALSE
    /\ UNCHANGED <<exchVars, RdyQ, pRunTSS, slice, poolVars, tssVars, pc, regVars>>

\* The instructions after HLT: an interrupt made a task ready.
WaitUnhalt ==
    /\ Intact
    /\ dfHalted
    /\ dfHalted' = FALSE
    /\ RunNext(RdyQ)
    /\ UNCHANGED <<exchVars, poolVars, tssVars, pc, regVars>>

\* Wait04 .. Wait06, Chk04: copy the message to the caller, free its LB.
Deliver(t) ==
    /\ At(t, "Wait03") \/ At(t, "Wait06")
    /\ pFreeLB' = pFreeLB \cup {lb[t]}
    /\ lb' = [lb EXCEPT ![t] = NIL]
    /\ Goto(t, "run")
    /\ UNCHANGED <<exchVars, runVars, pFreeTSS, tssVars, ex, tss>>

-----------------------------------------------------------------------------
(* AllocExch and DeAllocExch. *)

\* AE001: the first free exchange gets an owner, with interrupts disabled;
\* they stay so for the instruction after STI, EHead := NIL.
AllocOwner(t, l) ==
    /\ \E e \in Exch :
        /\ Owner[e] = NIL
        /\ \A f \in Exch : f < e => Owner[f] # NIL
        /\ Owner' = [Owner EXCEPT ![e] = TSS_pJCB[t]]
        /\ queue' = Clear(queue, e)
        /\ ex' = [ex EXCEPT ![t] = e]
    /\ Goto(t, l)
    /\ UNCHANGED <<fEMsg, cut, runVars, poolVars, tssVars, lb, tss>>

AllocExch(t) == Calling(t, "AllocExch", 0) /\ AllocOwner(t, "AE001")

\* ETail := NIL, when interrupts may have queued something already.
AllocReset(t) ==
    /\ \/ At(t, "AE001") /\ Goto(t, "run")
       \/ At(t, "ST_AE001") /\ Goto(t, "ST_TSS")
    /\ cut' = [cut EXCEPT ![ex[t]] = queue[ex[t]] # << >>]
    /\ UNCHANGED <<Owner, queue, fEMsg, runVars, poolVars, tssVars, regVars>>

\* The owner may deallocate an exchange, and so may the monitor's job.
MayDeAlloc(t, e) == Owner[e] = TSS_pJCB[t] \/ TSS_pJCB[t] = MonJob

DeAllocExch(t, e) ==
    /\ \/ Calling(t, "DeAllocExch", e) /\ MayDeAlloc(t, e)
       \/ At(t, "ST_Free") /\ e = ex[t]
    /\ Goto(t, IF MayDeAlloc(t, e) THEN "DE000" ELSE "run")
    /\ ex' = [ex EXCEPT ![t] = e]
    /\ UNCHANGED <<exchVars, runVars, poolVars, tssVars, lb, tss>>

\* Mutant of QueuedAt: the loop ends after its first turn.
FirstQueuedAt(e) == IF queue[e] = << >> THEN {} ELSE {Head(queue[e])}

\* The elements that the loops at DE000 and DE001 dequeue one by one.
QueuedAt(e) == ToSet(queue[e])

\* Mutant of DeAllocFree: what is freed is not unlinked.
DeAllocFreeKeep(t) ==
    /\ At(t, "DE000")
    /\ LET e == ex[t] IN
       /\ IF fEMsg[e]
          THEN pFreeLB' = pFreeLB \cup QueuedAt(e) /\ UNCHANGED pFreeTSS
          ELSE pFreeTSS' = pFreeTSS \cup QueuedAt(e) /\ UNCHANGED pFreeLB
       /\ Owner' = [Owner EXCEPT ![e] = NIL]
    /\ Goto(t, "run")
    /\ UNCHANGED <<queue, fEMsg, cut, runVars, tssVars, regVars>>

\* DE000: what is queued there, link blocks or TSSs, goes back to its pool.
DeAllocFree(t) ==
    /\ At(t, "DE000")
    /\ LET e == ex[t]
           queued == QueuedAt(e)
       IN  /\ IF fEMsg[e]
              THEN /\ pFreeLB' = pFreeLB \cup queued
                   /\ UNCHANGED <<pFreeTSS, TSS_pJCB>>
              ELSE /\ pFreeTSS' = pFreeTSS \cup queued
                   /\ TSS_pJCB' = [u \in Task |->
                                     IF u \in queued THEN NIL ELSE TSS_pJCB[u]]
                   /\ UNCHANGED pFreeLB
           /\ queue' = Clear(queue, e)
           /\ Owner' = [Owner EXCEPT ![e] = NIL]
           /\ fEMsg' = [fEMsg EXCEPT ![e] = FALSE]
    /\ Goto(t, "run")
    /\ UNCHANGED <<cut, runVars, Priority, regVars>>

-----------------------------------------------------------------------------
(* SpawnTask and SetPriority. *)

SpawnTask(t, p) == Calling(t, "SpawnTask", p) /\ AllocOwner(t, "ST_AE001")

\* A free TSS is taken with interrupts disabled.  Without one the exchange
\* just allocated is given back.
SpawnTSS(t) ==
    /\ At(t, "ST_TSS")
    /\ \/ \E n \in pFreeTSS :
            /\ pFreeTSS' = pFreeTSS \ {n}
            /\ tss' = [tss EXCEPT ![t] = n]
            /\ Goto(t, "ST0004")
       \/ /\ pFreeTSS = {}
          /\ Goto(t, "ST_Free")
          /\ UNCHANGED <<pFreeTSS, tss>>
    /\ UNCHANGED <<exchVars, runVars, pFreeLB, tssVars, ex, lb>>

\* Mutant of SpawnPlace: the new task is queued before it has its priority.
SpawnPlaceEarly(t, p) ==
    /\ At(t, "ST0004")
    /\ <<"SpawnTask", p>> \in Calls[t]
    /\ LET n == tss[t] IN
       /\ TSS_pJCB' = [TSS_pJCB EXCEPT ![n] = TSS_pJCB[t]]
       /\ Priority' = [Priority EXCEPT ![n] = p]
       /\ IF p < Priority[t]
          THEN /\ RdyQ' = enQueueRdy(RdyQ, t)
               /\ pRunTSS' = n
               /\ slice' = 0
          ELSE /\ RdyQ' = enQueueRdy(RdyQ, n)
               /\ UNCHANGED <<pRunTSS, slice>>
       /\ pc' = [pc EXCEPT ![t] = "run", ![n] = "run"]
    /\ tss' = [tss EXCEPT ![t] = NIL]
    /\ UNCHANGED <<exchVars, dfHalted, poolVars, ex, lb>>

\* ST0004: the new task runs at once if its priority is higher than the
\* caller's, and goes on the ready queue otherwise.
SpawnPlace(t, p) ==
    /\ At(t, "ST0004")
    /\ <<"SpawnTask", p>> \in Calls[t]
    /\ LET n == tss[t] IN
       /\ TSS_pJCB' = [TSS_pJCB EXCEPT ![n] = TSS_pJCB[t]]
       /\ Priority' = [Priority EXCEPT ![n] = p]
       /\ IF p < Priority[t]
          THEN /\ RdyQ' = enQueueRdy(RdyQ, t)
               /\ pRunTSS' = n
               /\ slice' = 0
          ELSE /\ RdyQ' = Put(RdyQ, p, n)
               /\ UNCHANGED <<pRunTSS, slice>>
       /\ pc' = [pc EXCEPT ![t] = "run", ![n] = "run"]
    /\ tss' = [tss EXCEPT ![t] = NIL]
    /\ UNCHANGED <<exchVars, dfHalted, poolVars, ex, lb>>

SetPriority(t, p) ==
    /\ Calling(t, "SetPriority", p)
    /\ Priority' = [Priority EXCEPT ![t] = p]
    /\ UNCHANGED <<exchVars, runVars, poolVars, TSS_pJCB, pc, regVars>>

-----------------------------------------------------------------------------
(* Interrupts. *)

\* A device's interrupt handler sends a message.  With no free link block
\* the message is dropped.
ISendMsg(e) ==
    /\ Intact
    /\ Owner[e] # NIL
    /\ \E b \in pFreeLB :
        /\ pFreeLB' = pFreeLB \ {b}
        /\ IF HasTSS(e)
           THEN LET w == Head(queue[e]) IN
                /\ queue' = Pop(queue, e)
                /\ lb' = [lb EXCEPT ![w] = b]
                /\ RdyQ' = enQueueRdy(RdyQ, w)
                /\ UNCHANGED <<fEMsg, cut>>
           ELSE /\ queue' = enQueue(e, b)
                /\ fEMsg' = [fEMsg EXCEPT ![e] = TRUE]
                /\ cut' = Retailed(e)
                /\ UNCHANGED <<lb, RdyQ>>
    /\ UNCHANGED <<Owner, pRunTSS, dfHalted, slice, pFreeTSS, tssVars, pc, ex, tss>>

\* Mutants of TaskCheck: dfHalted is not looked at; nor are the priorities;
\* a task of an equal priority does not get its turn.
TaskCheckHalted(ticks, p) ==
    /\ ticks = SliceTicks
    /\ HighestReady(RdyQ, p)
    /\ p <= Priority[pRunTSS]

TaskCheckAnyone(ticks, p) ==
    /\ ~dfHalted
    /\ ticks = SliceTicks
    /\ HighestReady(RdyQ, p)

TaskCheckHigher(ticks, p) ==
    /\ ~dfHalted
    /\ ticks = SliceTicks
    /\ HighestReady(RdyQ, p)
    /\ p < Priority[pRunTSS]

\* A task that has run for its slice gives way to the first ready task, of
\* priority p, if that is equal to or higher than its own.
TaskCheck(ticks, p) ==
    /\ ~dfHalted
    /\ ticks = SliceTicks
    /\ HighestReady(RdyQ, p)
    /\ p <= Priority[pRunTSS]

\* The timer tick.
IntTimer ==
    LET ticks == IF slice < SliceTicks THEN slice + 1 ELSE slice IN
    /\ Intact
    /\ \/ \E p \in Pri :
            /\ TaskCheck(ticks, p)
            /\ pRunTSS' = Head(RdyQ[p])
            /\ RdyQ' = enQueueRdy(Pop(RdyQ, p), pRunTSS)
            /\ slice' = 0
       \/ /\ \A p \in Pri : ~TaskCheck(ticks, p)
          /\ slice' = ticks
          /\ UNCHANGED <<pRunTSS, RdyQ>>
    /\ UNCHANGED <<exchVars, dfHalted, poolVars, tssVars, pc, regVars>>

-----------------------------------------------------------------------------
(* The specification. *)

Primitive(t) ==
    \/ SendTake(t) \/ SendNoLB(t) \/ SendQueue(t) \/ SendHandOver(t)
    \/ TakeMsg(t) \/ CheckNone(t) \/ WaitBlock(t) \/ Deliver(t)
    \/ AllocReset(t) \/ DeAllocFree(t) \/ SpawnTSS(t)
    \/ \E p \in Pri : SpawnPlace(t, p)

Program(t) ==
    \/ AllocExch(t)
    \/ \E e \in Exch :
         SendMsg(t, e) \/ WaitMsg(t, e) \/ CheckMsg(t, e) \/ DeAllocExch(t, e)
    \/ \E p \in Pri : SpawnTask(t, p) \/ SetPriority(t, p)

Interrupt == IntTimer \/ \E e \in ISends : ISendMsg(e)

Next ==
    \/ \E t \in Task : Primitive(t) \/ Program(t)
    \/ WaitUnhalt
    \/ Interrupt

Spec == Init /\ [][Next]_vars

\* The timer interrupts for ever, a halted processor takes the instruction
\* after HLT when an interrupt returns, and a task that gets the processor
\* again and again completes the stretch of kernel code it is in: a stretch
\* is a few dozen instructions, a tick 10 ms.
Fairness ==
    /\ WF_vars(IntTimer)
    /\ WF_vars(WaitUnhalt)
    /\ \A t \in Task : SF_vars(Primitive(t))

FairSpec == Spec /\ Fairness

-----------------------------------------------------------------------------
(* Properties. *)

\* Every variable has the values its field in the source can have.
TypeOK ==
    /\ Owner \in [Exch -> Job \cup {NIL}]
    /\ queue \in [Exch -> Seq(Task \cup LB)]
    /\ fEMsg \in [Exch -> BOOLEAN]
    /\ cut \in [Exch -> BOOLEAN]
    /\ RdyQ \in [Pri -> Seq(Task)]
    /\ pRunTSS \in Task
    /\ dfHalted \in BOOLEAN
    /\ slice \in 0 .. SliceTicks
    /\ pFreeLB \in SUBSET LB
    /\ pFreeTSS \in SUBSET Task
    /\ TSS_pJCB \in [Task -> Job \cup {NIL}]
    /\ Priority \in [Task -> Pri]
    /\ pc \in [Task -> Label]
    /\ ex \in [Task -> Exch]
    /\ lb \in [Task -> LB \cup {NIL}]
    /\ tss \in [Task -> Task \cup {NIL}]

\* The comment at the head of kernel.asm: "There can never be tasks AND
\* messages at an exchange at the same time (unless the kernel is BROKEN!)".
ExchHoldsOneKind == Intact

\* There is one way to break it: SendMsg found no task waiting, executed STI,
\* and queues its message behind a task that has come to wait since.
OnlySendBreaks ==
    [][Intact' \/ \E t \in Task : SendQueue(t) /\ HasTSS(ex[t])]_vars

\* No link block is in use twice: the free list, the queues of the exchanges
\* and the tasks that hold one (pLBRet, or EAX in a primitive) are disjoint.
LinkBlocksDisjoint ==
    /\ EachOnce(queue)
    /\ \A b \in pFreeLB : ~Queued(queue, b)
    /\ \A t \in Task : lb[t] # NIL =>
         /\ lb[t] \notin pFreeLB
         /\ ~Queued(queue, lb[t])
         /\ \A u \in Task \ {t} : lb[u] # lb[t]

\* No link block is lost: each is free, queued at an exchange, or held.
LinkBlocksConserved ==
    LB = pFreeLB
         \cup {b \in LB : Queued(queue, b)}
         \cup {b \in LB : \E t \in Task : lb[t] = b}

\* The places a task can be in.
Running(t) == pRunTSS = t /\ ~dfHalted
Ready(t)   == Queued(RdyQ, t)
Waiting(t) == Queued(queue, t)
Transit(t) == \E u \in Task : tss[u] = t

\* No task is in two places at once, and none is queued twice: a task that
\* was queued twice would run while another processor state of it is saved.
TasksDisjoint ==
    /\ EachOnce(RdyQ)
    /\ \A t \in Task :
        /\ t \in pFreeTSS => ~Running(t) /\ ~Ready(t) /\ ~Waiting(t) /\ ~Transit(t)
        /\ Running(t) => ~Ready(t) /\ ~Waiting(t) /\ ~Transit(t)
        /\ Ready(t) => ~Waiting(t) /\ ~Transit(t)
        /\ Waiting(t) => ~Transit(t)
        /\ \A u, v \in Task : tss[u] = t /\ tss[v] = t => u = v

\* A task that is ready is in the queue of its priority, although it may
\* have changed that since it was there last: IntTimer compares the priority
\* in a TSS, and deQueueRdy the queues.
ReadyByPriority == \A p \in Pri : \A t \in ToSet(RdyQ[p]) : Priority[t] = p

\* No task is lost: one that is not free is running, ready, waiting at an
\* exchange or on its way between two of these.
TasksConserved ==
    \A t \in Task :
        t \in pFreeTSS \/ Running(t) \/ Ready(t) \/ Waiting(t) \/ Transit(t)

\* A task leaves WaitMsg with a message: when Wait04 reads pLBRet of the
\* running task, its sender has put a link block there, and a task still
\* waiting has none.
WokenWithMessage ==
    \A t \in Task : pc[t] = "Wait03" =>
        /\ Running(t) \/ Ready(t) => lb[t] # NIL
        /\ Waiting(t) => lb[t] = NIL

\* An exchange that has no owner has nothing queued: DeAllocExch "deQueues
\* any messages, and frees up any Link Blocks, TSSs, and RQBs, attached to
\* the exchange", and no primitive queues anything at it afterwards.
FreeExchEmpty == \A e \in Exch : Owner[e] = NIL => queue[e] = << >>

\* Everything that is queued can be found: its exchange has an owner, and
\* what is queued there next will be linked behind it.
Whole == FreeExchEmpty /\ \A e \in Exch : ~Detached(e)

\* Two windows end that.  SendMsg and WaitMsg check the owner of an exchange
\* before CLI, and it may have none when they queue there; AllocExch and
\* SpawnTask set ETail after STI, when something may be queued already.
QueuesUnowned(t) == (SendQueue(t) \/ WaitBlock(t)) /\ Owner[ex[t]] = NIL
CutsOff(t)       == AllocReset(t) /\ queue[ex[t]] # << >>

OnlyWindowsCut ==
    [][Whole => Whole' \/ \E t \in Task : QueuesUnowned(t) \/ CutsOff(t)]_vars

\* Nothing else loses a link block or a task: while the exchanges are whole
\* each step puts what it takes from one place into another.
WholeLosesNothing ==
    [][Whole => /\ LinkBlocksConserved => LinkBlocksConserved'
                /\ TasksConserved => TasksConserved']_vars

\* A task of the highest priority that is ready to run gets the processor,
\* whatever the tasks of its own priority do with it (tmrcode.asm: the timer
\* "keeps tabs on CPU hogs").
ReadyRuns == \A t \in Task : (Ready(t) /\ Priority[t] = 0) ~> Running(t)

\* A task of the highest priority that was given a message while it waited
\* returns from WaitMsg.
WokenReturns ==
    \A t \in Task :
        (pc[t] = "Wait03" /\ lb[t] # NIL /\ Priority[t] = 0) ~> pc[t] = "run"

\* The abstract mailbox that the exchanges implement.  The message that
\* SendMsg has in its hands for a task it has taken off the exchange has
\* reached that task's inbox already.
Handing(s, t) == pc[s] = "Send_STI" /\ tss[s] = t

Inbox(t) ==
    IF \E s \in Task : Handing(s, t)
    THEN lb[CHOOSE s \in Task : Handing(s, t)]
    ELSE IF pc[t] \in {"Wait03", "Wait06"} THEN lb[t] ELSE NIL

MB == INSTANCE Mailbox WITH
        Msg     <- LB,
        pending <- [e \in Exch |-> IF fEMsg[e] THEN queue[e] ELSE << >>],
        waiting <- [e \in Exch |-> IF fEMsg[e] THEN << >> ELSE queue[e]],
        inbox   <- [t \in Task |-> Inbox(t)]

\* Every message sent to an exchange is delivered once, to one task, in the
\* order of the sends, and the tasks waiting there are served in turn.
ImplementsMailbox == MB!Spec

\* The same of any programs, until a message is queued behind a task.
MailboxTillBroken == MB!Init /\ [][Intact' => MB!Next]_(MB!vars)

=============================================================================
