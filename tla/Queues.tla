------------------------------- MODULE Queues -------------------------------
(***************************************************************************)
(* Families of queues: the queues of the exchanges, the ready queues.  An  *)
(* element, a TSS or a link block, is linked into them by its one Next     *)
(* field, so it may be in one place of one queue only.                     *)
(***************************************************************************)
EXTENDS SequencesExt

\* x is in one of the queues q[d].
Queued(q, x) == \E d \in DOMAIN q : x \in ToSet(q[d])

\* Nothing is in the queues twice.
EachOnce(q) ==
    /\ \A d \in DOMAIN q : IsInjective(q[d])
    /\ \A d, e \in DOMAIN q : d # e => ToSet(q[d]) \cap ToSet(q[e]) = {}

\* x is linked in at the end of queue d, its head is unlinked, it is emptied.
Put(q, d, x) == [q EXCEPT ![d] = Append(@, x)]
Pop(q, d)    == [q EXCEPT ![d] = Tail(@)]
Clear(q, d)  == [q EXCEPT ![d] = << >>]
=============================================================================
