------------------------------ MODULE Mailbox -------------------------------
(***************************************************************************)
(* What the exchanges of MMURTL promise the tasks that use them, with no   *)
(* link blocks, no ready queue and no processor.  An exchange is a place   *)
(* where messages queue for tasks, or tasks for messages, never both.      *)
(* Messages are delivered in the order they were sent, each to one task,   *)
(* and the tasks that wait are served in the order they came.              *)
(***************************************************************************)
EXTENDS Naturals, Sequences

CONSTANTS Task, Msg, Exch, NIL

VARIABLES
    pending,    \* the messages queued at each exchange
    waiting,    \* the tasks queued at each exchange
    inbox       \* the message each task has got and has not read yet

vars == <<pending, waiting, inbox>>

Init ==
    /\ pending = [e \in Exch |-> << >>]
    /\ waiting = [e \in Exch |-> << >>]
    /\ inbox = [t \in Task |-> NIL]

\* A message that is queued, or delivered and not read.
InUse(m) ==
    \/ \E e \in Exch : \E i \in 1 .. Len(pending[e]) : pending[e][i] = m
    \/ \E t \in Task : inbox[t] = m

IsWaiting(t) ==
    \E e \in Exch : \E i \in 1 .. Len(waiting[e]) : waiting[e][i] = t

\* A message for an exchange where tasks wait goes to the first of them.
Send(e, m) ==
    /\ ~InUse(m)
    /\ IF waiting[e] = << >>
       THEN /\ pending' = [pending EXCEPT ![e] = Append(@, m)]
            /\ UNCHANGED <<waiting, inbox>>
       ELSE /\ inbox' = [inbox EXCEPT ![Head(waiting[e])] = m]
            /\ waiting' = [waiting EXCEPT ![e] = Tail(@)]
            /\ UNCHANGED pending

\* A task takes the oldest message.
Receive(t, e) ==
    /\ pending[e] # << >>
    /\ inbox[t] = NIL /\ ~IsWaiting(t)
    /\ inbox' = [inbox EXCEPT ![t] = Head(pending[e])]
    /\ pending' = [pending EXCEPT ![e] = Tail(@)]
    /\ UNCHANGED waiting

\* With no message it waits, behind those that wait already.
Wait(t, e) ==
    /\ pending[e] = << >>
    /\ inbox[t] = NIL /\ ~IsWaiting(t)
    /\ waiting' = [waiting EXCEPT ![e] = Append(@, t)]
    /\ UNCHANGED <<pending, inbox>>

\* The task reads its message.
Read(t) ==
    /\ inbox[t] # NIL
    /\ inbox' = [inbox EXCEPT ![t] = NIL]
    /\ UNCHANGED <<pending, waiting>>

\* The exchange is deallocated, with all that is queued there.
Close(e) ==
    /\ pending' = [pending EXCEPT ![e] = << >>]
    /\ waiting' = [waiting EXCEPT ![e] = << >>]
    /\ UNCHANGED inbox

Next ==
    \/ \E e \in Exch : Close(e) \/ \E m \in Msg : Send(e, m)
    \/ \E t \in Task : Read(t) \/ \E e \in Exch : Receive(t, e) \/ Wait(t, e)

Spec == Init /\ [][Next]_vars
=============================================================================
