-------------------------------- MODULE KeyFeed --------------------------------
(***************************************************************************)
(* What the jobs expect of the keyboard: the keys go, in order and each    *)
(* once, to the job that the keyboard is assigned to, when it asks; none   *)
(* of the first sKB that wait is lost, and none goes to a job of the past. *)
(***************************************************************************)
EXTENDS Naturals, Sequences

CONSTANTS Job, Key, sKB, None

VARIABLES
    keys,       \* typed, and not given to a job yet
    KbdOwner,   \* the job that the keyboard is assigned to
    st,         \* a job is "idle", has "asked" for a key or "polled" for one, is
                \* being killed ("asker" if it had asked, or "dying") or is "gone"
    key         \* the key that was given to it

vars == <<keys, KbdOwner, st, key>>

Init ==
    /\ keys = <<>> /\ KbdOwner \in Job
    /\ st = [j \in Job |-> "idle"]
    /\ key = [j \in Job |-> None]

Typed(k) == keys' = Append(keys, k) /\ UNCHANGED <<KbdOwner, st, key>>

Lost(i) ==
    /\ i > sKB
    /\ keys' = SubSeq(keys, 1, i - 1) \o SubSeq(keys, i + 1, Len(keys))
    /\ UNCHANGED <<KbdOwner, st, key>>

Assign(j) == KbdOwner' = j /\ UNCHANGED <<keys, st, key>>

Becomes(j, to, k) ==
    st' = [st EXCEPT ![j] = to] /\ key' = [key EXCEPT ![j] = k] /\ UNCHANGED <<keys, KbdOwner>>

Ask(j) == st[j] = "idle" /\ (Becomes(j, "asked", None) \/ Becomes(j, "polled", None))

\* A job that does not own the keyboard waits.
Give(j) ==
    /\ st[j] \in {"asked", "polled", "asker"} /\ key[j] = None
    /\ KbdOwner = j /\ keys # <<>>
    /\ keys' = Tail(keys)
    /\ key' = [key EXCEPT ![j] = Head(keys)]
    /\ UNCHANGED <<KbdOwner, st>>

\* Only a job that polled returns without a key.
Return(j) ==
    /\ st[j] = "polled" \/ (st[j] = "asked" /\ key[j] # None)
    /\ Becomes(j, "idle", None)

Kill(j) ==
    \/ st[j] = "idle" /\ Becomes(j, "dying", None)
    \/ st[j] \in {"asked", "polled"} /\ Becomes(j, "asker", key[j])

Killed(j) == st[j] \in {"dying", "asker"} /\ Becomes(j, "gone", None)

Load(j) == st[j] = "gone" /\ Becomes(j, "idle", None)

Next ==
    \/ \E k \in Key : Typed(k)
    \/ \E i \in DOMAIN keys : Lost(i)
    \/ \E j \in Job : \/ Assign(j) \/ Ask(j) \/ Give(j) \/ Return(j)
                      \/ Kill(j) \/ Killed(j) \/ Load(j)

Spec == Init /\ [][Next]_vars
=============================================================================
