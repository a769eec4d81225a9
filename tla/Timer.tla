-------------------------------- MODULE Timer --------------------------------
(***************************************************************************)
(* The timer blocks of MMURTL, ossource/tmrcode.asm: Sleep, Alarm and      *)
(* KillAlarm search the blocks with interrupts enabled between one block   *)
(* and the next, while IntTimer counts down all blocks in use at every     *)
(* tick.                                                                   *)
(*                                                                         *)
(* An exchange is the number of messages queued there: the timer sends     *)
(* only one message, two DWords of -1.  Kernel says how they are queued.   *)
(* Which task runs is left open: the timer interrupt itself may switch to  *)
(* another task wherever interrupts are enabled.                           *)
(***************************************************************************)
EXTENDS Naturals, FiniteSets

CONSTANTS
    Task,        \* the tasks
    Exch,        \* the exchanges, all of them allocated
    TSS_Exch,    \* TSS_Exch[t]: the exchange in the TSS of t, for Sleep
    nTmrBlks,    \* the number of timer blocks
    nLB,         \* the number of link blocks
    MaxCount,    \* bound on the ticks a program asks for
    Calls        \* Calls[t]: the calls <<fn, exchange, ticks>> of program t

Blk   == 1 .. nTmrBlks
Count == 1 .. MaxCount

ASSUME TimerAssumption ==
    /\ Exch # {}
    /\ TSS_Exch \in [Task -> Exch]
    /\ nTmrBlks \in Nat \ {0}
    /\ nLB \in Nat
    /\ MaxCount \in Nat

VARIABLES
    fInUse,        \* the fields of the timer blocks rgTmrBlks
    TmrRespExch,
    CountDown,
    nTmrBlksUsed,
    msgs,          \* the number of messages at each exchange
    nFreeLB,       \* the number of free link blocks
    pc,            \* where each task is: the label at which it searches
    blk,           \* the block it looks at (EAX)
    exch,          \* the arguments of its call: the exchange
    cnt,           \*   and the number of ticks
    elapsed,       \* history: ticks since the block of a sleeping task was
                   \*   set up, up to one more than it asked for
    doomed         \* history: the blocks that were to send to the exchange
                   \*   when t called KillAlarm, and that still are

blkVars == <<fInUse, TmrRespExch, CountDown, nTmrBlksUsed>>
msgVars == <<msgs, nFreeLB>>
argVars == <<exch, cnt>>
vars    == <<blkVars, msgVars, pc, blk, argVars, elapsed, doomed>>

Label == {"run", "Delay01", "DelayWait", "Alarm01", "KAlarm01"}

Init ==
    /\ fInUse = [b \in Blk |-> FALSE]
    /\ TmrRespExch = [b \in Blk |-> CHOOSE e \in Exch : TRUE]
    /\ CountDown = [b \in Blk |-> 0]
    /\ nTmrBlksUsed = 0
    /\ msgs = [e \in Exch |-> 0]
    /\ nFreeLB = nLB
    /\ pc = [t \in Task |-> "run"]
    /\ blk = [t \in Task |-> 1]
    /\ exch = TSS_Exch
    /\ cnt = [t \in Task |-> 0]
    /\ elapsed = [t \in Task |-> 0]
    /\ doomed = [t \in Task |-> {}]

InUse == {b \in Blk : fInUse[b]}

\* The blocks that will send a message to e.
Aimed(e) == {b \in InUse : TmrRespExch[b] = e}

Goto(t, l) == pc' = [pc EXCEPT ![t] = l]

Calling(t, fn, e, n) == pc[t] = "run" /\ <<fn, e, n>> \in Calls[t]

\* LOOP: the next block, or, after the last one, the return from the call.
NextBlock(t) ==
    \/ /\ blk[t] < nTmrBlks
       /\ blk' = [blk EXCEPT ![t] = @ + 1]
       /\ UNCHANGED pc
    \/ /\ blk[t] = nTmrBlks
       /\ Goto(t, "run")
       /\ UNCHANGED blk

-----------------------------------------------------------------------------
(* Sleep and Alarm.  A call for 0 ticks returns at once and does nothing.  *)

Enter(t, l, e, n) ==
    /\ Goto(t, l)
    /\ blk' = [blk EXCEPT ![t] = 1]
    /\ exch' = [exch EXCEPT ![t] = e]
    /\ cnt' = [cnt EXCEPT ![t] = n]

Sleep(t, n) ==
    /\ Calling(t, "Sleep", TSS_Exch[t], n)
    /\ Enter(t, "Delay01", TSS_Exch[t], n)
    /\ UNCHANGED <<blkVars, msgVars, elapsed, doomed>>

Alarm(t, e, n) ==
    /\ Calling(t, "Alarm", e, n)
    /\ Enter(t, "Alarm01", e, n)
    /\ UNCHANGED <<blkVars, msgVars, elapsed, doomed>>

\* Delay02, Alarm02: the block is in use.  After the last: ErcNoMoreTBs.
BlockBusy(t) ==
    /\ pc[t] \in {"Delay01", "Alarm01"}
    /\ fInUse[blk[t]]
    /\ NextBlock(t)
    /\ UNCHANGED <<blkVars, msgVars, argVars, elapsed, doomed>>

\* Mutant of TakeBlock: the count of blocks in use is not raised.
TakeBlockUncounted(t) ==
    /\ pc[t] \in {"Delay01", "Alarm01"}
    /\ ~fInUse[blk[t]]
    /\ CountDown' = [CountDown EXCEPT ![blk[t]] = cnt[t]]
    /\ fInUse' = [fInUse EXCEPT ![blk[t]] = TRUE]
    /\ TmrRespExch' = [TmrRespExch EXCEPT ![blk[t]] = exch[t]]
    /\ elapsed' = [elapsed EXCEPT ![t] = 0]
    /\ Goto(t, IF pc[t] = "Delay01" THEN "DelayWait" ELSE "run")
    /\ UNCHANGED <<nTmrBlksUsed, msgVars, blk, argVars, doomed>>

\* Delay01, Alarm01: with interrupts disabled, the block is set up.  Sleep
\* goes on to wait for the message at its own exchange.
TakeBlock(t) ==
    /\ pc[t] \in {"Delay01", "Alarm01"}
    /\ ~fInUse[blk[t]]
    /\ CountDown' = [CountDown EXCEPT ![blk[t]] = cnt[t]]
    /\ fInUse' = [fInUse EXCEPT ![blk[t]] = TRUE]
    /\ nTmrBlksUsed' = nTmrBlksUsed + 1
    /\ TmrRespExch' = [TmrRespExch EXCEPT ![blk[t]] = exch[t]]
    /\ elapsed' = [elapsed EXCEPT ![t] = 0]
    /\ Goto(t, IF pc[t] = "Delay01" THEN "DelayWait" ELSE "run")
    /\ UNCHANGED <<msgVars, blk, argVars, doomed>>

\* WaitMsg of t at e finds a message: its link block is free again.
Receive(t, e) ==
    /\ msgs[e] > 0
    /\ msgs' = [msgs EXCEPT ![e] = @ - 1]
    /\ nFreeLB' = nFreeLB + 1
    /\ elapsed' = [elapsed EXCEPT ![t] = 0]
    /\ UNCHANGED <<blkVars, blk, argVars, doomed>>

SleepEnd(t) ==
    /\ pc[t] = "DelayWait"
    /\ Receive(t, TSS_Exch[t])
    /\ Goto(t, "run")

WaitMsg(t, e) ==
    /\ Calling(t, "WaitMsg", e, 0)
    /\ Receive(t, e)
    /\ UNCHANGED pc

-----------------------------------------------------------------------------
(* KillAlarm. *)

KillAlarm(t, e) ==
    /\ Calling(t, "KillAlarm", e, 0)
    /\ doomed' = [doomed EXCEPT ![t] = Aimed(e)]
    /\ \/ nTmrBlksUsed = 0 /\ UNCHANGED <<pc, blk, argVars>>
       \/ nTmrBlksUsed # 0 /\ Enter(t, "KAlarm01", e, 0)
    /\ UNCHANGED <<blkVars, msgVars, elapsed>>

\* Mutant of Match: the exchange of the block is not looked at.
MatchAny(t) == fInUse[blk[t]]

Match(t) == fInUse[blk[t]] /\ TmrRespExch[blk[t]] = exch[t]

\* Mutant of KillBlock: the search ends at the first block that matches.
KillBlockOnce(t) ==
    /\ pc[t] = "KAlarm01"
    /\ Match(t)
    /\ fInUse' = [fInUse EXCEPT ![blk[t]] = FALSE]
    /\ nTmrBlksUsed' = nTmrBlksUsed - 1
    /\ doomed' = [u \in Task |-> doomed[u] \ {blk[t]}]
    /\ Goto(t, "run")
    /\ UNCHANGED <<TmrRespExch, CountDown, msgVars, argVars, blk, elapsed>>

\* KAlarm01: one block that matches is made empty.
KillBlock(t) ==
    /\ pc[t] = "KAlarm01"
    /\ Match(t)
    /\ fInUse' = [fInUse EXCEPT ![blk[t]] = FALSE]
    /\ nTmrBlksUsed' = nTmrBlksUsed - 1
    /\ doomed' = [u \in Task |-> doomed[u] \ {blk[t]}]
    /\ NextBlock(t)
    /\ UNCHANGED <<TmrRespExch, CountDown, msgVars, argVars, elapsed>>

\* KAlarm02
SkipBlock(t) ==
    /\ pc[t] = "KAlarm01"
    /\ ~Match(t)
    /\ NextBlock(t)
    /\ UNCHANGED <<blkVars, msgVars, argVars, elapsed, doomed>>

-----------------------------------------------------------------------------
(* The timer interrupt. *)

\* Mutant of Due: a block is counted down before it is looked at.
DueEarly == {b \in InUse : CountDown[b] <= 1}

\* The blocks whose count is at zero when the tick comes.
Due == {b \in InUse : CountDown[b] = 0}

\* Those that get a link block; for the others ISendMsg fails, and IntTimer
\* does not look at its error.
Sent == {b \in Due : Cardinality({a \in Due : a < b}) < nFreeLB}

\* IntTmr00 .. IntTmr03.  Without a block in use nothing is looked at.
IntTimer ==
    /\ elapsed' = [t \in Task |-> IF pc[t] = "DelayWait" /\ elapsed[t] <= cnt[t]
                                  THEN elapsed[t] + 1 ELSE elapsed[t]]
    /\ \/ /\ nTmrBlksUsed = 0
          /\ UNCHANGED <<blkVars, msgVars, doomed>>
       \/ /\ nTmrBlksUsed # 0
          /\ fInUse' = [b \in Blk |-> b \in InUse \ Due]
          /\ CountDown' = [b \in Blk |-> IF b \in InUse \ Due
                                         THEN CountDown[b] - 1 ELSE CountDown[b]]
          /\ nTmrBlksUsed' = nTmrBlksUsed - Cardinality(Due)
          /\ msgs' = [e \in Exch |-> msgs[e] + Cardinality(Sent \cap Aimed(e))]
          /\ nFreeLB' = nFreeLB - Cardinality(Sent)
          /\ doomed' = [t \in Task |-> doomed[t] \ Due]
          /\ UNCHANGED TmrRespExch
    /\ UNCHANGED <<pc, blk, argVars>>

-----------------------------------------------------------------------------
(* The specification. *)

Search(t) == BlockBusy(t) \/ TakeBlock(t) \/ KillBlock(t) \/ SkipBlock(t)

Program(t) ==
    \/ \E n \in Count : Sleep(t, n)
    \/ \E e \in Exch : WaitMsg(t, e) \/ KillAlarm(t, e)
    \/ \E e \in Exch, n \in Count : Alarm(t, e, n)

Next ==
    \/ IntTimer
    \/ \E t \in Task : Search(t) \/ SleepEnd(t) \/ Program(t)

Spec == Init /\ [][Next]_vars

\* The timer chip interrupts for ever.  Nothing is assumed of the tasks.
FairSpec == Spec /\ WF_vars(IntTimer)

-----------------------------------------------------------------------------
(* Properties. *)

\* Every field has the values that it can have in the source.
TypeOK ==
    /\ fInUse \in [Blk -> BOOLEAN]
    /\ TmrRespExch \in [Blk -> Exch]
    /\ CountDown \in [Blk -> 0 .. MaxCount]
    /\ nTmrBlksUsed \in 0 .. nTmrBlks
    /\ msgs \in [Exch -> Nat]
    /\ nFreeLB \in Nat
    /\ pc \in [Task -> Label]
    /\ blk \in [Task -> Blk]
    /\ exch \in [Task -> Exch]
    /\ cnt \in [Task -> 0 .. MaxCount]
    /\ elapsed \in [Task -> 0 .. MaxCount + 1]
    /\ doomed \in [Task -> SUBSET Blk]

\* The count that lets IntTimer and KillAlarm skip the blocks altogether is
\* right, whatever searches and ticks interleave: with a count too low a
\* sleeping task would never wake.
BlocksCounted == nTmrBlksUsed = Cardinality(InUse)

\* "ALL alarms set to fire off to that exchange are killed": when KillAlarm
\* has returned, no block that was to send to the exchange when it was called
\* still is, although others set up and free blocks during the search.
AlarmsKilled == \A t \in Task : pc[t] # "KAlarm01" => doomed[t] = {}

\* The exchange in the TSS of a task is its own, and programs use it for
\* nothing but Sleep.
OwnExchOnly ==
    /\ \A t, u \in Task : t # u => TSS_Exch[t] # TSS_Exch[u]
    /\ \A t, u \in Task : \A fn \in {"Alarm", "KillAlarm", "WaitMsg"} :
        \A n \in 0 .. MaxCount : <<fn, TSS_Exch[u], n>> \notin Calls[t]

\* A task that sleeps for n ticks has one block, of its own, which sends its
\* message at the tick n + 1 after it was set up and not earlier, so that n
\* whole ticks pass: under OwnExchOnly.
SleepOnTime ==
    \A t \in Task : pc[t] = "DelayWait" =>
        IF elapsed[t] <= cnt[t]
        THEN /\ msgs[TSS_Exch[t]] = 0
             /\ \E b \in Blk : /\ Aimed(TSS_Exch[t]) = {b}
                               /\ CountDown[b] + elapsed[t] = cnt[t]
        ELSE Aimed(TSS_Exch[t]) = {}

\* A block that is in use becomes free: no alarm is forgotten.
BlocksExpire == \A b \in Blk : fInUse[b] ~> ~fInUse[b]

\* Task t sleeps and a block will send its message.
Sleeping(t) == pc[t] = "DelayWait" /\ Aimed(TSS_Exch[t]) # {}

Woken(t) == pc[t] = "run" \/ msgs[TSS_Exch[t]] > 0

\* "The timer interrupt sends the message and clears the block when it
\* reaches zero": a sleeping task gets its message.
AlwaysWoken == \A t \in Task : Sleeping(t) ~> Woken(t)

\* It does, unless the link blocks run out, whatever searches and kills
\* interleave with the ticks (IntTimer).
SleeperWoken == \A t \in Task : Sleeping(t) ~> (Woken(t) \/ nFreeLB = 0)
=============================================================================
