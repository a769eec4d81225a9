------------------------------- MODULE Requests -------------------------------
(***************************************************************************)
(* Requests to a service: kernel.asm (Request, Respond, MoveRequest) and   *)
(* rqbcode.asm.  A request block is taken and filled in, with interrupts   *)
(* enabled, and then its handle is sent to the exchange of the service.    *)
(* Respond frees it and sends its handle back.                             *)
(*                                                                         *)
(* Messages are queued and taken whole: module Kernel has what happens     *)
(* inside WaitMsg and the sends.  The aliases of the caller's memory that  *)
(* WaitMsg makes for the service are left out; making them does not fail.  *)
(***************************************************************************)
EXTENDS Integers, Sequences, FiniteSets

CONSTANTS
    RQB,        \* the request blocks
    nLB,        \* the number of link blocks
    Exch,       \* the exchanges
    None        \* nothing

ASSUME RequestsAssumption == IsFiniteSet(RQB) /\ nLB \in Nat

VARIABLES
    queue,      \* the messages at each exchange: a handle, with the status of a
                \* response, or the message of an ISR
    freeRQB,    \* the list pFreeRQB
    rqb,        \* ServiceCode, RespExch, RqOwnerJob and dData0 of each block
    nFreeLB,    \* the free link blocks
    lost        \* history: a message has found no link block

rqVars == <<queue, freeRQB, rqb, nFreeLB, lost>>

NoRq == [ServiceCode |-> "none", RespExch |-> None, RqOwnerJob |-> None, dData0 |-> None]

RequestsInit ==
    /\ queue = [e \in Exch |-> <<>>]
    /\ freeRQB \in {s \in [1 .. Cardinality(RQB) -> RQB] : {s[i] : i \in DOMAIN s} = RQB}
    /\ rqb = [h \in RQB |-> NoRq]
    /\ nFreeLB = nLB /\ lost = FALSE

\* A message is queued if there is a link block for it, and lost if there is none.
Send(e, h, erc) ==
    /\ lost' = (lost \/ nFreeLB = 0)
    /\ IF nFreeLB = 0 THEN UNCHANGED <<queue, nFreeLB>>
       ELSE queue' = [queue EXCEPT ![e] = Append(@, [h |-> h, erc |-> erc])] /\ nFreeLB' = nFreeLB - 1

\* WaitMsg or CheckMsg takes the first message at e.
Take(e) ==
    /\ queue[e] # <<>>
    /\ queue' = [queue EXCEPT ![e] = Tail(@)]
    /\ nFreeLB' = nFreeLB + 1
    /\ UNCHANGED <<freeRQB, rqb, lost>>

\* NewRQB, and what Request writes into the block.
TakeRQB(code, resp, owner, data) ==
    /\ freeRQB # <<>>
    /\ freeRQB' = Tail(freeRQB)
    /\ rqb' = [rqb EXCEPT ![Head(freeRQB)] = [ServiceCode |-> code, RespExch |-> resp,
                                              RqOwnerJob |-> owner, dData0 |-> data]]

\* The first half of Request.
NewRQB(code, resp, owner, data) == TakeRQB(code, resp, owner, data) /\ UNCHANGED <<queue, nFreeLB, lost>>

\* The second half.  With no link block, DisposeRQB is called with the NIL that
\* was found in pFreeLB: the block is not freed.
Request(svc, h) == Send(svc, h, "request") /\ UNCHANGED <<freeRQB, rqb>>

MoveRequest(h, e) == Send(e, h, "moved") /\ UNCHANGED <<freeRQB, rqb>>

\* Mutant of DisposeRQB: the block goes into the list twice.
DisposeRQBTwice(h) == freeRQB' = <<h, h>> \o freeRQB /\ rqb' = [rqb EXCEPT ![h] = NoRq]

\* What is in a free block is not looked at.
DisposeRQB(h) == freeRQB' = <<h>> \o freeRQB /\ rqb' = [rqb EXCEPT ![h] = NoRq]

\* The end of Respond: the block is free before it is known whether there is a
\* link block.
Respond(h, erc) == DisposeRQB(h) /\ Send(rqb[h].RespExch, h, erc)

\* Respond with ErcOwnerAbort: there is nobody to answer.
RespondAbort(h) == DisposeRQB(h) /\ UNCHANGED <<queue, nFreeLB, lost>>

\* The link blocks of the messages are freed, and nothing else.
DeAllocExch(e) ==
    /\ queue' = [queue EXCEPT ![e] = <<>>]
    /\ nFreeLB' = nFreeLB + Len(queue[e])
    /\ UNCHANGED <<freeRQB, rqb, lost>>

\* Whatever was sent to the exchange while it was free is dropped.
AllocExch(e) == queue' = [queue EXCEPT ![e] = <<>>] /\ UNCHANGED <<freeRQB, rqb, nFreeLB, lost>>
=============================================================================
