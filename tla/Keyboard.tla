------------------------------- MODULE Keyboard -------------------------------
(***************************************************************************)
(* The keyboard service, ossource/keyboard.asm: its ISR, the two buffers,  *)
(* and the task that serves the requests of the jobs; with the callers:    *)
(* ReadKBD, the manager task of the monitor, which switches the keyboard   *)
(* and kills jobs, and KillJob with SendAbort.                             *)
(*                                                                         *)
(* A job has one task that reads, at the exchange that has its name.  A    *)
(* byte of the keyboard is a key that goes to a job, the global key, or    *)
(* another: a prefix, a shift or a key that goes up.  Left out: null       *)
(* pointers, CancelGlobal, which nobody calls, the debugger's own reading, *)
(* and raw mode, "for testing ONLY".                                       *)
(***************************************************************************)
EXTENDS Requests

CONSTANTS
    Job, Key,
    Pollers,        \* the jobs that call ReadKBD with fWait = 0
    Monitor,        \* job 1: the monitor, and the tasks of the operating system
    sKbdBuf, sKB,   \* the sizes of rgbKbdBuf (32) and rgdKBBuf (64)
    MaxInts         \* bound: the messages of the ISR that wait at KbdMainExch

ASSUME KeyboardAssumption ==
    /\ Monitor \in Job /\ Pollers \subseteq Job
    /\ Exch = Job \cup {"main", "wait", "hold", "glob", "mgr"}
    /\ Job \cap {"main", "wait", "hold", "glob", "mgr"} = {}
    /\ None \notin RQB \cup Exch \cup Key /\ 0 \notin RQB
    /\ Key \cap {"other", "global"} = {}
    /\ sKbdBuf \in Nat \ {0} /\ sKB \in Nat \ {0} /\ MaxInts \in Nat

VARIABLES
    rgbKbdBuf,  \* the bytes of the ISR
    rgdKBBuf,   \* the keys that are translated
    dGlobalKey, \* a global key came in
    KbdOwner,
    svc,        \* KBDServiceTask: pc; rq, in KbdMsgBuf1L; rq2, in KbdMsgBuf2L;
                \* the request and the status of Respond, and where it returns to
    job,        \* of each job: pc, the handle of its request, and the key it got
    mgr,        \* MngrTask: pc, the handle of the abort, the job that it kills
    fooled      \* history: SendAbort has returned and the service still had the abort

vars == <<rqVars, rgbKbdBuf, rgdKBBuf, dGlobalKey, KbdOwner, svc, job, mgr, fooled>>
kbd  == <<rgbKbdBuf, rgdKBBuf, dGlobalKey, KbdOwner>>

Other == "other"
Global == "global"
ISR == 0    \* what the ISR sends

IdleJob == [pc |-> "idle", h |-> None, key |-> None]
IdleTask(pc) == [pc |-> pc, h |-> None, on |-> None]
Service(pc) == [pc |-> pc, rq |-> None, rq2 |-> None, erc |-> "ok", then |-> "top"]

Init ==
    /\ RequestsInit
    /\ rgbKbdBuf = <<>> /\ rgdKBBuf = <<>> /\ dGlobalKey = FALSE
    /\ KbdOwner \in Job
    /\ svc = Service("top")
    /\ job = [j \in Job |-> IdleJob]
    /\ mgr = IdleTask("idle")
    /\ fooled = FALSE

-----------------------------------------------------------------------------
(* The ISR. *)

IntKeyBrd(b) ==
    /\ Cardinality({i \in DOMAIN queue["main"] : queue["main"][i].h = ISR}) < MaxInts
    /\ rgbKbdBuf' = IF Len(rgbKbdBuf) = sKbdBuf THEN rgbKbdBuf ELSE Append(rgbKbdBuf, b)
    /\ Send("main", ISR, "int")
    /\ UNCHANGED <<freeRQB, rqb, rgdKBBuf, dGlobalKey, KbdOwner, svc, job, mgr>>

-----------------------------------------------------------------------------
(* KBDServiceTask. *)

\* XLateRawKBD translates up to a byte that is no key, or for which there is no
\* room; a byte that comes in while it runs is as good as one before or after.
Taken ==
    LET room == sKB - Len(rgdKBBuf)
        stops == {i \in DOMAIN rgbKbdBuf :
                    \/ rgbKbdBuf[i] = Other
                    \/ Cardinality({k \in 1 .. i : rgbKbdBuf[k] \in Key}) > room}
    IN  Cardinality({i \in DOMAIN rgbKbdBuf : \A k \in stops : i <= k})

\* The keys of bytes, in their order.
KeysIn(bytes) ==
    LET at == {i \in DOMAIN bytes : bytes[i] \in Key}
    IN  [k \in 1 .. Cardinality(at) |->
            bytes[CHOOSE i \in at : Cardinality({m \in at : m <= i}) = k]]

XLateRawKBD ==
    LET bytes == SubSeq(rgbKbdBuf, 1, Taken)
        keys  == rgdKBBuf \o KeysIn(bytes)
    IN  /\ rgbKbdBuf' = SubSeq(rgbKbdBuf, Taken + 1, Len(rgbKbdBuf))
        /\ rgdKBBuf' = SubSeq(keys, 1, IF Len(keys) < sKB THEN Len(keys) ELSE sKB)
        /\ dGlobalKey' = (dGlobalKey \/ \E i \in DOMAIN bytes : bytes[i] = Global)

Goto(pc) == svc' = Service(pc)
\* Respond is called, which looks at the response exchange first.
Answer(h, erc, then) == svc' = [Service("resp") EXCEPT !.rq2 = h, !.erc = erc, !.then = then]

\* The top of the loop.
Top ==
    /\ svc.pc = "top"
    /\ XLateRawKBD
    /\ Goto(IF dGlobalKey' THEN "glob" ELSE "main")
    /\ UNCHANGED <<rqVars, KbdOwner, job, mgr>>

\* KBDGlobal1: everybody who waits gets the global key.
Global1 ==
    /\ svc.pc = "glob"
    /\ \/ /\ Take("glob")
          /\ Answer(Head(queue["glob"]).h, "ok", "glob")
          /\ UNCHANGED dGlobalKey
       \/ /\ queue["glob"] = <<>>
          /\ dGlobalKey' = FALSE /\ Goto("top")
          /\ UNCHANGED rqVars
    /\ UNCHANGED <<rgbKbdBuf, rgdKBBuf, KbdOwner, job, mgr>>

\* The memory of another job is aliased, when the request is received, and the
\* alias is undone by Respond.
Aliased(h) == rqb[h].ServiceCode \in {"read", "poll"} /\ rqb[h].RqOwnerJob # Monitor

First == Head(queue["main"])

\* KST01ND: a request, or a message of the ISR.
WaitMain ==
    /\ svc.pc = "main"
    /\ Take("main")
    /\ IF First.h = ISR
       THEN XLateRawKBD /\ Goto(IF dGlobalKey' THEN "glob" ELSE "wait")
       ELSE /\ svc' = [Service(IF First.erc = "request" /\ Aliased(First.h) THEN "alias" ELSE "rq")
                          EXCEPT !.rq = First.h]
            /\ UNCHANGED <<rgbKbdBuf, rgdKBBuf, dGlobalKey>>
    /\ UNCHANGED <<KbdOwner, job, mgr>>

AliasMem ==
    /\ svc.pc = "alias"
    /\ svc' = [svc EXCEPT !.pc = "rq"]
    /\ UNCHANGED <<rqVars, kbd, job, mgr>>

\* "See if owner is waiting for a key"
CheckWait ==
    /\ svc.pc = "wait"
    /\ \/ Take("wait") /\ svc' = [Service("rq") EXCEPT !.rq = Head(queue["wait"]).h]
       \/ queue["wait"] = <<>> /\ Goto("top") /\ UNCHANGED rqVars
    /\ UNCHANGED <<kbd, job, mgr>>

Serving(codes) == svc.pc = "rq" /\ rqb[svc.rq].ServiceCode \in codes

\* Mutant of ReadKBFinal: it does not count the key out.
ReadKBPeek ==
    /\ rgdKBBuf # <<>>
    /\ job' = [job EXCEPT ![rqb[svc.rq].RqOwnerJob].key = Head(rgdKBBuf)]
    /\ UNCHANGED rgdKBBuf

\* The key goes to the memory of the caller.
ReadKBFinal ==
    /\ rgdKBBuf # <<>>
    /\ job' = [job EXCEPT ![rqb[svc.rq].RqOwnerJob].key = Head(rgdKBBuf)]
    /\ rgdKBBuf' = Tail(rgdKBBuf)

\* KSTRead
ReadKey ==
    /\ Serving({"read", "poll"})
    /\ rqb[svc.rq].RqOwnerJob = KbdOwner
    /\ ReadKBFinal
    /\ Answer(svc.rq, "ok", "top")
    /\ UNCHANGED <<rqVars, rgbKbdBuf, dGlobalKey, KbdOwner, mgr>>

ReadNone ==
    /\ Serving({"poll"})
    /\ rqb[svc.rq].RqOwnerJob = KbdOwner /\ rgdKBBuf = <<>>
    /\ Answer(svc.rq, "ErcNoKeyAvail", "top")
    /\ UNCHANGED <<rqVars, kbd, job, mgr>>

\* "Not the owner, so send to Hold Exch", "They opted to wait for a key",
\* "They want a global key"
Park ==
    /\ Serving({"read", "poll", "global"})
    /\ \/ /\ Serving({"read", "poll"}) /\ rqb[svc.rq].RqOwnerJob # KbdOwner
          /\ MoveRequest(svc.rq, "hold")
       \/ /\ Serving({"read"}) /\ rqb[svc.rq].RqOwnerJob = KbdOwner /\ rgdKBBuf = <<>>
          /\ MoveRequest(svc.rq, "wait")
       \/ Serving({"global"}) /\ MoveRequest(svc.rq, "glob")
    /\ Goto("top")
    /\ UNCHANGED <<kbd, job, mgr>>

\* KSTAssignKBD
AssignKBD ==
    /\ Serving({"assign"})
    /\ KbdOwner' = rqb[svc.rq].dData0
    /\ IF KbdOwner = rqb[svc.rq].dData0 THEN Answer(svc.rq, "ok", "top")
       ELSE svc' = [svc EXCEPT !.pc = "assign"]
    /\ UNCHANGED <<rqVars, rgbKbdBuf, rgdKBBuf, dGlobalKey, job, mgr>>

\* KSTAbort
AbortJob ==
    /\ Serving({"abort"})
    /\ svc' = [svc EXCEPT !.pc = "abort"]
    /\ UNCHANGED <<rqVars, kbd, job, mgr>>

\* Mutant of Sifted: what is on hold stays there.
SiftedWait == [assign |-> <<"wait">>, abort |-> <<"wait", "glob">>]

\* Where an assignment and an abort look for requests.
Sifted == [assign |-> <<"wait", "hold">>, abort |-> <<"wait", "hold", "glob">>]

\* CheckMsg of each in turn, and when all are empty the answer.  What it looked
\* at first stays empty: nobody else sends there.
Sift ==
    /\ svc.pc \in {"assign", "abort"}
    /\ LET at == Sifted[svc.pc]
       IN  \/ /\ \A i \in DOMAIN at : queue[at[i]] = <<>>
              /\ Answer(svc.rq, "ok", "top") /\ UNCHANGED rqVars
           \/ \E i \in DOMAIN at :
                /\ \A k \in 1 .. i - 1 : queue[at[k]] = <<>>
                /\ Take(at[i])
                /\ svc' = [svc EXCEPT !.then = svc.pc, !.pc = "sifted",
                                      !.rq2 = Head(queue[at[i]]).h]
    /\ UNCHANGED <<kbd, job, mgr>>

\* Mutant of SiftMove: every request is reevaluated.
SiftMoveAll ==
    /\ svc.pc = "sifted"
    /\ MoveRequest(svc.rq2, "main")
    /\ svc' = [Service(svc.then) EXCEPT !.rq = svc.rq]
    /\ UNCHANGED <<kbd, job, mgr>>

\* "to be reevaluated", or "cause he's dead"
SiftMove ==
    /\ svc.pc = "sifted"
    /\ IF svc.then = "abort" /\ rqb[svc.rq2].RqOwnerJob = rqb[svc.rq].dData0
       THEN RespondAbort(svc.rq2) ELSE MoveRequest(svc.rq2, "main")
    /\ svc' = [Service(svc.then) EXCEPT !.rq = svc.rq]
    /\ UNCHANGED <<kbd, job, mgr>>

\* The exchange of a job that is being killed is free for a while, and so is that
\* of a job that is gone.
IsOwned(e) ==
    /\ e \in Job => job[e].pc # "gone"
    /\ ~(mgr.pc = "freed" /\ mgr.on = e)

\* Respond looks at the response exchange: when that is not allocated it returns
\* ercNotAlloc, and the block is not freed.  Then it undoes the alias.
CheckResp ==
    /\ svc.pc = "resp"
    /\ IF ~IsOwned(rqb[svc.rq2].RespExch) THEN Goto(svc.then)
       ELSE svc' = [svc EXCEPT !.pc = IF Aliased(svc.rq2) THEN "dealias" ELSE "send"]
    /\ UNCHANGED <<rqVars, kbd, job, mgr>>

SendResp ==
    /\ svc.pc \in {"dealias", "send"}
    /\ Respond(svc.rq2, svc.erc)
    /\ Goto(svc.then)
    /\ UNCHANGED <<kbd, job, mgr>>

KBDServiceTask ==
    \/ Top \/ Global1 \/ WaitMain \/ AliasMem \/ CheckWait \/ ReadKey \/ ReadNone \/ Park
    \/ AssignKBD \/ AbortJob \/ Sift \/ SiftMove \/ CheckResp \/ SendResp

-----------------------------------------------------------------------------
(* The jobs. *)

\* ReadKBD waits, even when Request found no block.
ReadKBD(j) ==
    /\ job[j].pc = "idle"
    /\ \/ /\ NewRQB(IF j \in Pollers THEN "poll" ELSE "read", j, j, None)
          /\ job' = [job EXCEPT ![j] = [pc |-> "send", h |-> Head(freeRQB), key |-> None]]
       \/ /\ freeRQB = <<>>
          /\ job' = [job EXCEPT ![j] = [pc |-> "asked", h |-> None, key |-> None]]
          /\ UNCHANGED rqVars
    /\ UNCHANGED <<kbd, svc, mgr>>

ReadKBDSend(j) ==
    /\ job[j].pc = "send"
    /\ Request("main", job[j].h)
    /\ job' = [job EXCEPT ![j].pc = "asked"]
    /\ UNCHANGED <<kbd, svc, mgr>>

ReadKBDEnd(j) ==
    /\ job[j].pc = "asked"
    /\ Take(j)
    /\ job' = [job EXCEPT ![j] = IdleJob]
    /\ UNCHANGED <<kbd, svc, mgr>>

LoadJob(j) ==
    /\ job[j].pc = "gone"
    /\ AllocExch(j)
    /\ job' = [job EXCEPT ![j] = IdleJob]
    /\ UNCHANGED <<kbd, svc, mgr>>

Jobs == \E j \in Job : ReadKBD(j) \/ ReadKBDSend(j) \/ ReadKBDEnd(j) \/ LoadJob(j)

-----------------------------------------------------------------------------
(* MngrTask, which alone assigns the keyboard here. *)

Present(j) == job[j].pc \notin {"gone", "dying", "asker"}

\* A whole Request, by a task that nobody kills.  It waits for the answer, even
\* when there was no block.
RequestFor(code, resp, data) ==
    \/ TakeRQB(code, resp, None, data) /\ Send("main", Head(freeRQB), "request")
    \/ freeRQB = <<>> /\ UNCHANGED rqVars

\* A request for the global key is left with the service.
AskGlobal ==
    /\ mgr.pc \in {"idle", "awake"}
    /\ RequestFor("global", "mgr", None)
    /\ mgr' = IdleTask("global")
    /\ UNCHANGED <<kbd, svc, job>>

MngrAssign(j) ==
    /\ mgr.pc = "awake" /\ Present(j)
    /\ RequestFor("assign", "mgr", j)
    /\ mgr' = IdleTask("assigning")
    /\ UNCHANGED <<kbd, svc, job>>

MngrWoken ==
    /\ mgr.pc \in {"global", "assigning"}
    /\ Take("mgr")
    /\ mgr' = IdleTask(IF mgr.pc = "global" THEN "awake" ELSE "idle")
    /\ UNCHANGED <<kbd, svc, job>>

\* KillJob: the job runs no more, and its exchanges are freed.
KillJob(j) ==
    /\ mgr.pc = "awake" /\ j # Monitor /\ Present(j)
    /\ DeAllocExch(j)
    /\ job' = [job EXCEPT ![j].pc = IF @ = "idle" THEN "dying" ELSE "asker"]
    /\ mgr' = [IdleTask("freed") EXCEPT !.on = j]
    /\ UNCHANGED <<kbd, svc>>

\* One exchange is allocated for it.
KillExch ==
    /\ mgr.pc = "freed"
    /\ AllocExch(mgr.on)
    /\ mgr' = [mgr EXCEPT !.pc = "killing"]
    /\ UNCHANGED <<kbd, svc, job>>

\* dJunk, which keeps the handle of an earlier abort when there is no block, is
\* nothing then: SendAbort waits for ever.
SendAbort ==
    /\ mgr.pc = "killing"
    /\ RequestFor("abort", mgr.on, mgr.on)
    /\ mgr' = [mgr EXCEPT !.pc = "aborting", !.h = IF freeRQB = <<>> THEN None ELSE Head(freeRQB)]
    /\ UNCHANGED <<kbd, svc, job>>

\* SAB02: it waits for its own handle.  _KillTask and the monitor clean up.
SendAbortEnd ==
    /\ mgr.pc = "aborting" /\ queue[mgr.on] # <<>>
    /\ IF Head(queue[mgr.on]).h = mgr.h
       THEN /\ DeAllocExch(mgr.on)
            /\ job' = [job EXCEPT ![mgr.on] = [IdleJob EXCEPT !.pc = "gone"]]
            /\ mgr' = IdleTask("idle")
       ELSE Take(mgr.on) /\ UNCHANGED <<job, mgr>>
    /\ UNCHANGED <<kbd, svc>>

Tasks ==
    \/ AskGlobal \/ MngrWoken \/ KillExch \/ SendAbort \/ SendAbortEnd
    \/ \E j \in Job : MngrAssign(j) \/ KillJob(j)

\* The priority of the service is 7 and those of the others are lower: they run
\* while it waits, for a message or in AliasMem and DeAliasMem for the memory
\* management (MemExch).
Waiting == svc.pc \in {"alias", "dealias"} \/ (svc.pc = "main" /\ queue["main"] = <<>>)

\* The blocks that wait to be served.
Queued == queue["main"] \o queue["wait"] \o queue["hold"] \o queue["glob"]

\* The service has an abort that it has not answered.
Unanswered ==
    \E h \in RQB :
        /\ rqb[h].ServiceCode = "abort"
        /\ h \in {svc.rq, svc.rq2} \/ \E i \in DOMAIN Queued : Queued[i].h = h

Next ==
    /\ \/ \E b \in Key \cup {Other, Global} : IntKeyBrd(b)
       \/ KBDServiceTask
       \/ Waiting /\ (Jobs \/ Tasks)
    /\ fooled' = (fooled \/ (mgr.pc = "aborting" /\ mgr'.pc = "idle" /\ Unanswered))

Spec == Init /\ [][Next]_vars

-----------------------------------------------------------------------------
(* Properties. *)

\* The blocks that are free, queued, or in the hands of the service.
Handles == freeRQB \o [i \in DOMAIN Queued |-> Queued[i].h] \o <<svc.rq, svc.rq2>>

\* A request block is in one place at a time: with its maker, in the queue of one
\* exchange, with the service, or free, and it is never freed twice, however the
\* service moves it and jobs die (Request, MoveRequest, Respond).
RqbsOnce ==
    \A h \in RQB :
        Cardinality({i \in DOMAIN Handles : Handles[i] = h})
            + Cardinality({j \in Job : job[j].pc = "send" /\ job[j].h = h}) <= 1

\* The keys that were typed and that no job has.
Keys == rgdKBBuf \o KeysIn(rgbKbdBuf)

JobState(j) ==
    IF job[j].pc \in {"send", "asked"} THEN IF j \in Pollers THEN "polled" ELSE "asked" ELSE job[j].pc

\* The abstract keyboard.
KF == INSTANCE KeyFeed WITH
        keys <- Keys, st <- [j \in Job |-> JobState(j)], key <- [j \in Job |-> job[j].key]

\* Each key goes to the job that owns the keyboard when it is given, in the order
\* of typing, once; no key goes to a job that did not ask or is gone (KSTRead,
\* KSTAssignKBD, KSTAbort).  A SendAbort that was fooled ends that.
ImplementsKeyFeed == KF!Init /\ [][~fooled' => KF!Next]_(KF!vars)

\* SendAbort returns when its own abort was answered: it compares the handles, to
\* "see if we got got response back!" (SAB02).
AbortAnswered == ~fooled

\* When the aborts were answered, the service has no request of a job that died:
\* none can get a key that is meant for a job with the same number (KSTAbort).
NoneOfTheDead ==
    ~fooled => \A j \in Job : job[j].pc = "gone" =>
        \A i \in DOMAIN Queued : Queued[i].h # ISR => rqb[Queued[i].h].RqOwnerJob # j

\* When the service waits for a message, no job that owns the keyboard waits for a
\* key that was typed, unless a message was lost or SendAbort was fooled
\* (XLateRawKBD, KSTAssignKBD).
NoneWaitsForNothing ==
    svc.pc = "main" /\ queue["main"] = <<>> /\ ~lost /\ ~fooled =>
        ~(job[KbdOwner].pc = "asked" /\ job[KbdOwner].h # None /\ queue[KbdOwner] = <<>> /\ Keys # <<>>)
=============================================================================
