------------------------------- MODULE MCTimer -------------------------------
(***************************************************************************)
(* Instances of Timer for TLC.                                             *)
(***************************************************************************)
EXTENDS Timer, TLC

CONSTANTS t1, t2, t3, e1, e2, e3, eA

OwnExch == (t1 :> e1) @@ (t2 :> e2) @@ (t3 :> e3)

Sleeps(t, counts)  == {<<"Sleep", OwnExch[t], n>> : n \in counts}
Alarms(e, counts)  == {<<"Alarm", e, n>> : n \in counts}
Waits(e)           == {<<"WaitMsg", e, 0>>}
Kills(e)           == {<<"KillAlarm", e, 0>>}

\* Two tasks sleep, one of them sets alarms too, and a third waits for these
\* alarms and kills them.
CallsAlarms == (t1 :> Sleeps(t1, {2}))
            @@ (t2 :> Sleeps(t2, {1}) \cup Alarms(eA, {1}))
            @@ (t3 :> Waits(eA) \cup Kills(eA))

\* One task sleeps, the other sets alarms and leaves their messages queued.
CallsLost == (t1 :> Sleeps(t1, {1})) @@ (t2 :> Alarms(eA, {1})) @@ (t3 :> {})
=============================================================================
