----------------------------- MODULE TimerProofs -----------------------------
(***************************************************************************)
(* Proofs about Timer, for any number of blocks, tasks and link blocks and *)
(* any programs: the count of the blocks in use is right, KillAlarm kills  *)
(* every alarm that was set when it was called, and, when no program uses  *)
(* the exchange of a TSS for anything else, Sleep ends on time.            *)
(***************************************************************************)
EXTENDS Timer, FiniteSetTheorems, WellFoundedInduction, TLAPS

\* The blocks that a search for an exchange to kill has yet to find lie
\* before it.
Ahead ==
    \A t \in Task :
        /\ doomed[t] \subseteq Aimed(exch[t])
        /\ doomed[t] # {} => pc[t] = "KAlarm01"
        /\ \A b \in doomed[t] : b >= blk[t]

\* The inductive invariant.
IInv == TypeOK /\ BlocksCounted /\ Ahead

\* Sets of blocks are finite.
LEMMA BlocksFinite ==
    ASSUME NEW S \in SUBSET Blk
    PROVE  IsFiniteSet(S) /\ Cardinality(S) \in 0 .. nTmrBlks
<1>1. IsFiniteSet(Blk) /\ Cardinality(Blk) = nTmrBlks
  BY FS_Interval, TimerAssumption DEF Blk
<1>2. IsFiniteSet(S) /\ Cardinality(S) <= nTmrBlks
  BY <1>1, FS_Subset
<1> QED
  BY <1>2, FS_CardinalityType, TimerAssumption

\* A set of blocks that is not empty has a last one.
LEMMA LastBlock ==
    ASSUME NEW S \in SUBSET Blk, S # {}
    PROVE  \E m \in S : \A b \in S : b <= m
<1> DEFINE T == {n \in Nat : \E b \in S : n = nTmrBlks - b}
<1>1. \A b \in S : b \in Nat /\ nTmrBlks - b \in T
  BY TimerAssumption DEF Blk
<1>2. T \subseteq Nat /\ T # {}
  BY <1>1
<1>3. IsWellFoundedOn(OpToRel(<, Nat), Nat)
  BY NatLessThanWellFounded
<1>4. \E x \in T : \A y \in T : ~ (<<y, x>> \in OpToRel(<, Nat))
  BY <1>2, <1>3, WFMin
<1>5. PICK x \in T : \A y \in T : ~ (y < x)
  BY <1>2, <1>4 DEF OpToRel
<1>6. PICK m \in S : x = nTmrBlks - m
  BY <1>5
<1>7. \A b \in S : ~ (nTmrBlks - b < nTmrBlks - m)
  BY <1>1, <1>5, <1>6
<1> QED
  BY <1>1, <1>6, <1>7, TimerAssumption

\* IntTimer sends no more messages than there are link blocks.
LEMMA SentFits ==
    ASSUME TypeOK
    PROVE  Cardinality(Sent) \in Nat /\ Cardinality(Sent) <= nFreeLB
<1>1. Due \in SUBSET Blk /\ Sent \in SUBSET Blk /\ Sent \subseteq Due
  BY DEF Due, Sent, InUse
<1>2. Cardinality(Sent) \in Nat
  BY <1>1, BlocksFinite, TimerAssumption
<1>3. CASE Sent = {}
  BY <1>2, <1>3, FS_EmptySet DEF TypeOK
<1>4. CASE Sent # {}
  <2>1. PICK m \in Sent : \A b \in Sent : b <= m
    BY <1>1, <1>4, LastBlock
  <2> DEFINE B == {a \in Due : a < m}
  <2>2. Cardinality(B) < nFreeLB
    BY <2>1 DEF Sent
  <2>3. B \in SUBSET Blk
    BY <1>1
  <2>4. Sent \subseteq B \cup {m}
    BY <1>1, <2>1 DEF Blk
  <2>5. IsFiniteSet(B) /\ Cardinality(B) \in Nat
    BY <2>3, BlocksFinite, TimerAssumption
  <2>6. /\ IsFiniteSet(B \cup {m})
        /\ Cardinality(B \cup {m}) <= Cardinality(B) + 1
    BY <2>5, FS_AddElement
  <2>7. Cardinality(Sent) <= Cardinality(B \cup {m})
    BY <2>4, <2>6, FS_Subset
  <2>8. Cardinality(B \cup {m}) \in Nat
    BY <2>6, FS_CardinalityType
  <2> QED
    BY <1>2, <2>2, <2>5, <2>6, <2>7, <2>8 DEF TypeOK
<1> QED
  BY <1>2, <1>3, <1>4

-----------------------------------------------------------------------------
(* The initial state, and the steps that do not touch the blocks. *)

LEMMA InitIInv == Init => IInv
<1> SUFFICES ASSUME Init PROVE IInv
  OBVIOUS
<1>1. \A S : S = {} => Cardinality(S) = 0
  BY FS_EmptySet
<1>2. InUse = {}
  BY DEF Init, InUse
<1>3. BlocksCounted
  BY <1>1, <1>2 DEF Init, BlocksCounted
<1>4. 1 \in Blk /\ (CHOOSE e \in Exch : TRUE) \in Exch
  BY TimerAssumption DEF Blk
<1>5. TypeOK
  BY <1>4, TimerAssumption DEF Init, TypeOK, Label
<1>6. Ahead
  BY DEF Init, Ahead
<1> QED
  BY <1>3, <1>5, <1>6 DEF IInv

\* What NextBlock does to the place of a search.
LEMMA NextBlockMoves ==
    ASSUME TypeOK, NEW t \in Task, NextBlock(t)
    PROVE  /\ pc' \in [Task -> Label] /\ blk' \in [Task -> Blk]
           /\ \A u \in Task : u # t => pc'[u] = pc[u] /\ blk'[u] = blk[u]
           /\ \/ pc'[t] = pc[t] /\ blk'[t] = blk[t] + 1
              \/ pc'[t] = "run" /\ blk'[t] = blk[t] /\ blk[t] = nTmrBlks
<1>1. CASE /\ blk[t] < nTmrBlks
           /\ blk' = [blk EXCEPT ![t] = @ + 1]
           /\ UNCHANGED pc
  <2>1. blk[t] + 1 \in Blk
    <3>1. \A k \in Blk : k < nTmrBlks => k + 1 \in Blk
      BY TimerAssumption DEF Blk
    <3>2. blk[t] \in Blk
      BY DEF TypeOK
    <3> QED
      BY <1>1, <3>1, <3>2
  <2>2. PICK k \in Blk : k = blk[t] + 1
    BY <2>1
  <2>3. blk' = [blk EXCEPT ![t] = k] /\ blk \in [Task -> Blk] /\ pc \in [Task -> Label]
    BY <1>1, <2>2 DEF TypeOK
  <2>4. blk' \in [Task -> Blk] /\ blk'[t] = k
    BY <2>3
  <2>5. \A u \in Task : u # t => blk'[u] = blk[u]
    BY <2>3
  <2> QED
    BY <1>1, <2>2, <2>3, <2>4, <2>5
<1>2. CASE blk[t] = nTmrBlks /\ Goto(t, "run") /\ UNCHANGED blk
  BY <1>2 DEF Goto, TypeOK, Label
<1> QED
  BY <1>1, <1>2 DEF NextBlock

\* What a call does to it.
LEMMA EnterMoves ==
    ASSUME TypeOK, NEW t \in Task, NEW l \in Label, NEW e \in Exch,
           NEW n \in 0 .. MaxCount, Enter(t, l, e, n)
    PROVE  /\ pc' \in [Task -> Label] /\ blk' \in [Task -> Blk]
           /\ exch' \in [Task -> Exch] /\ cnt' \in [Task -> 0 .. MaxCount]
           /\ \A u \in Task : u # t => /\ pc'[u] = pc[u] /\ blk'[u] = blk[u]
                                       /\ exch'[u] = exch[u] /\ cnt'[u] = cnt[u]
           /\ pc'[t] = l /\ blk'[t] = 1 /\ exch'[t] = e /\ cnt'[t] = n
BY TimerAssumption DEF Enter, Goto, TypeOK, Blk

\* A call of Sleep or Alarm.
LEMMA CallIInv ==
    ASSUME IInv, NEW t \in Task, NEW e \in Exch, NEW n \in Count,
           NEW l \in {"Delay01", "Alarm01"}, pc[t] = "run", Enter(t, l, e, n),
           UNCHANGED <<blkVars, msgVars, elapsed, doomed>>
    PROVE  IInv'
<1> USE DEF IInv
<1>1. n \in 0 .. MaxCount /\ l \in Label
  BY DEF Count, Label
<1>2. /\ pc' \in [Task -> Label] /\ blk' \in [Task -> Blk]
      /\ exch' \in [Task -> Exch] /\ cnt' \in [Task -> 0 .. MaxCount]
      /\ \A u \in Task : u # t => /\ pc'[u] = pc[u] /\ blk'[u] = blk[u]
                                  /\ exch'[u] = exch[u]
  BY <1>1, EnterMoves
<1>3. TypeOK'
  BY <1>2 DEF TypeOK, blkVars, msgVars
<1>4. BlocksCounted'
  BY DEF BlocksCounted, InUse, blkVars
<1>5. doomed[t] = {} /\ doomed' = doomed
  BY DEF Ahead
<1>6. Ahead'
  BY <1>2, <1>5 DEF Ahead, Aimed, InUse, blkVars
<1> QED
  BY <1>3, <1>4, <1>6

\* Looking at a block that is of no interest.
LEMMA PassIInv ==
    ASSUME IInv, NEW t \in Task, BlockBusy(t) \/ SkipBlock(t)
    PROVE  IInv'
<1> USE DEF IInv
<1>1. /\ NextBlock(t)
      /\ UNCHANGED <<blkVars, msgVars, argVars, elapsed, doomed>>
      /\ pc[t] = "KAlarm01" => ~Match(t)
  BY DEF BlockBusy, SkipBlock
<1>2. /\ pc' \in [Task -> Label] /\ blk' \in [Task -> Blk]
      /\ \A u \in Task : u # t => pc'[u] = pc[u] /\ blk'[u] = blk[u]
      /\ \/ pc'[t] = pc[t] /\ blk'[t] = blk[t] + 1
         \/ pc'[t] = "run" /\ blk[t] = nTmrBlks
  BY <1>1, NextBlockMoves
<1>3. TypeOK'
  BY <1>1, <1>2 DEF TypeOK, blkVars, msgVars, argVars
<1>4. BlocksCounted'
  BY <1>1 DEF BlocksCounted, InUse, blkVars
<1>5. blk[t] \notin doomed[t]
  BY <1>1 DEF Ahead, Match, Aimed, InUse
<1>6. \A b \in doomed[t] : b \in Nat /\ b <= nTmrBlks /\ b > blk[t]
  BY <1>5, TimerAssumption DEF Ahead, TypeOK, Blk
<1>7. \A u \in Task : Aimed(exch[u])' = Aimed(exch[u])
  BY <1>1 DEF Aimed, InUse, blkVars, argVars
<1>8. ASSUME NEW u \in Task
      PROVE  /\ doomed'[u] \subseteq Aimed(exch[u])'
             /\ doomed'[u] # {} => pc'[u] = "KAlarm01"
             /\ \A b \in doomed'[u] : b >= blk'[u]
  <2>1. CASE u # t
    BY <1>1, <1>2, <1>7, <2>1 DEF Ahead
  <2>2. CASE u = t
    <3>1. CASE pc'[t] = pc[t] /\ blk'[t] = blk[t] + 1
      BY <1>1, <1>6, <1>7, <2>2, <3>1 DEF Ahead, TypeOK, Blk
    <3>2. CASE pc'[t] = "run" /\ blk[t] = nTmrBlks
      <4>1. \A b \in doomed[t] : FALSE
        BY <1>6, <3>2, TimerAssumption
      <4> QED
        BY <1>1, <2>2, <4>1
    <3> QED
      BY <1>2, <3>1, <3>2
  <2> QED
    BY <2>1, <2>2
<1>9. Ahead'
  BY <1>8 DEF Ahead
<1> QED
  BY <1>3, <1>4, <1>9

\* A block is taken into use: nobody counts on killing it.
LEMMA TakeBlockIInv ==
    ASSUME IInv, NEW t \in Task, TakeBlock(t)
    PROVE  IInv'
<1> USE DEF IInv
<1> DEFINE k == blk[t]
<1>1. /\ k \in Blk /\ ~fInUse[k] /\ k \notin InUse
      /\ pc[t] \in {"Delay01", "Alarm01"}
      /\ CountDown' = [CountDown EXCEPT ![k] = cnt[t]]
      /\ fInUse' = [fInUse EXCEPT ![k] = TRUE]
      /\ nTmrBlksUsed' = nTmrBlksUsed + 1
      /\ TmrRespExch' = [TmrRespExch EXCEPT ![k] = exch[t]]
      /\ elapsed' = [elapsed EXCEPT ![t] = 0]
      /\ pc' = [pc EXCEPT ![t] = IF pc[t] = "Delay01" THEN "DelayWait" ELSE "run"]
      /\ UNCHANGED <<msgs, nFreeLB, blk, exch, cnt, doomed>>
  BY DEF TakeBlock, Goto, msgVars, argVars, TypeOK, InUse
<1>2. InUse' = InUse \cup {k}
  BY <1>1 DEF InUse, TypeOK
<1>3. nTmrBlksUsed' = Cardinality(InUse') /\ nTmrBlksUsed' \in 0 .. nTmrBlks
  <2>1. InUse \in SUBSET Blk /\ InUse' \in SUBSET Blk
    BY <1>1, <1>2 DEF InUse
  <2>2. IsFiniteSet(InUse) /\ Cardinality(InUse') \in 0 .. nTmrBlks
    BY <2>1, BlocksFinite
  <2>3. Cardinality(InUse') = Cardinality(InUse) + 1
    BY <1>1, <1>2, <2>2, FS_AddElement
  <2> QED
    BY <1>1, <2>2, <2>3 DEF BlocksCounted
<1>4. TypeOK'
  BY <1>1, <1>3, TimerAssumption DEF TypeOK, Label
<1>5. BlocksCounted'
  BY <1>3 DEF BlocksCounted
<1>6. \A u \in Task : doomed[u] \subseteq InUse
  BY DEF Ahead, Aimed
<1>7. \A u \in Task : \A b \in doomed[u] : b \in Aimed(exch[u])'
  BY <1>1, <1>2, <1>6 DEF Ahead, Aimed, InUse, TypeOK
<1>8. doomed[t] = {}
  BY <1>1 DEF Ahead
<1>9. Ahead'
  BY <1>1, <1>7, <1>8 DEF Ahead, TypeOK
<1> QED
  BY <1>4, <1>5, <1>9

\* KillAlarm is called.  If it looks at no block there is none to kill.
LEMMA KillAlarmIInv ==
    ASSUME IInv, NEW t \in Task, NEW e \in Exch, KillAlarm(t, e)
    PROVE  IInv'
<1> USE DEF IInv
<1>1. /\ pc[t] = "run"
      /\ doomed' = [doomed EXCEPT ![t] = Aimed(e)]
      /\ UNCHANGED <<fInUse, TmrRespExch, CountDown, nTmrBlksUsed, msgs, nFreeLB, elapsed>>
  BY DEF KillAlarm, Calling, blkVars, msgVars
<1>2. Aimed(e) \subseteq InUse /\ InUse \in SUBSET Blk
  BY DEF Aimed, InUse
<1>3. doomed' \in [Task -> SUBSET Blk]
  BY <1>1, <1>2 DEF TypeOK
<1>4. BlocksCounted' /\ InUse' = InUse /\ \A x : Aimed(x)' = Aimed(x)
  BY <1>1 DEF BlocksCounted, InUse, Aimed
<1>5. CASE nTmrBlksUsed = 0 /\ UNCHANGED <<pc, blk, argVars>>
  <2>1. IsFiniteSet(InUse) /\ Cardinality(InUse) = 0
    BY <1>2, <1>5, BlocksFinite DEF BlocksCounted
  <2>2. Aimed(e) = {}
    BY <1>2, <2>1, FS_EmptySet
  <2>3. TypeOK'
    BY <1>1, <1>3, <1>5 DEF TypeOK, argVars
  <2>4. Ahead'
    BY <1>1, <1>4, <1>5, <2>2 DEF Ahead, argVars, TypeOK
  <2> QED
    BY <1>4, <2>3, <2>4
<1>6. CASE Enter(t, "KAlarm01", e, 0)
  <2>1. 0 \in 0 .. MaxCount /\ "KAlarm01" \in Label
    BY TimerAssumption DEF Label
  <2>2. /\ pc' \in [Task -> Label] /\ blk' \in [Task -> Blk]
        /\ exch' \in [Task -> Exch] /\ cnt' \in [Task -> 0 .. MaxCount]
        /\ \A u \in Task : u # t => /\ pc'[u] = pc[u] /\ blk'[u] = blk[u]
                                    /\ exch'[u] = exch[u]
        /\ pc'[t] = "KAlarm01" /\ blk'[t] = 1 /\ exch'[t] = e
    BY <1>6, <2>1, EnterMoves
  <2>3. TypeOK'
    BY <1>1, <1>3, <2>2 DEF TypeOK
  <2>4. \A b \in Aimed(e) : b >= 1
    <3>1. \A b \in Blk : b >= 1
      BY TimerAssumption DEF Blk
    <3> QED
      BY <1>2, <3>1
  <2>5. Ahead'
    BY <1>1, <1>4, <2>2, <2>4 DEF Ahead, TypeOK
  <2> QED
    BY <1>4, <2>3, <2>5
<1> QED
  BY <1>5, <1>6 DEF KillAlarm

\* Blocks that leave the set of those in use, by KillBlock and IntTimer.
LEMMA BlocksFreed ==
    ASSUME TypeOK, BlocksCounted, NEW F \in SUBSET InUse, InUse' = InUse \ F,
           nTmrBlksUsed' = nTmrBlksUsed - Cardinality(F)
    PROVE  BlocksCounted' /\ nTmrBlksUsed' \in 0 .. nTmrBlks
<1>1. InUse \in SUBSET Blk /\ InUse \ F \in SUBSET Blk
  BY DEF InUse
<1>2. IsFiniteSet(InUse) /\ Cardinality(InUse \ F) \in 0 .. nTmrBlks
  BY <1>1, BlocksFinite
<1>3. InUse \cap F = F
  OBVIOUS
<1>4. Cardinality(InUse \ F) = Cardinality(InUse) - Cardinality(F)
  BY <1>2, <1>3, FS_Difference
<1> QED
  BY <1>2, <1>4 DEF BlocksCounted

LEMMA KillBlockIInv ==
    ASSUME IInv, NEW t \in Task, KillBlock(t)
    PROVE  IInv'
<1> USE DEF IInv
<1> DEFINE k == blk[t]
<1>1. /\ k \in Blk /\ k \in InUse /\ NextBlock(t)
      /\ fInUse' = [fInUse EXCEPT ![k] = FALSE]
      /\ nTmrBlksUsed' = nTmrBlksUsed - 1
      /\ doomed' = [u \in Task |-> doomed[u] \ {k}]
      /\ UNCHANGED <<TmrRespExch, CountDown, msgs, nFreeLB, exch, cnt, elapsed>>
  BY DEF KillBlock, Match, InUse, TypeOK, msgVars, argVars
<1>2. /\ pc' \in [Task -> Label] /\ blk' \in [Task -> Blk]
      /\ \A u \in Task : u # t => pc'[u] = pc[u] /\ blk'[u] = blk[u]
      /\ \/ pc'[t] = pc[t] /\ blk'[t] = blk[t] + 1
         \/ pc'[t] = "run" /\ blk[t] = nTmrBlks
  BY <1>1, NextBlockMoves
<1>3. InUse' = InUse \ {k}
  BY <1>1 DEF InUse, TypeOK
<1>4. BlocksCounted' /\ nTmrBlksUsed' \in 0 .. nTmrBlks
  <2>1. Cardinality({k}) = 1 /\ {k} \in SUBSET InUse
    BY <1>1, FS_Singleton
  <2> QED
    BY <1>1, <1>3, <2>1, BlocksFreed
<1>5. TypeOK'
  BY <1>1, <1>2, <1>4 DEF TypeOK
<1>6. \A b \in doomed[t] \ {k} : b \in Nat /\ b <= nTmrBlks /\ b > k
  BY <1>1, TimerAssumption DEF Ahead, TypeOK, Blk
<1>7. \A u \in Task : Aimed(exch[u])' = Aimed(exch[u]) \ {k}
  BY <1>1, <1>3 DEF Aimed
<1>8. ASSUME NEW u \in Task
      PROVE  /\ doomed'[u] \subseteq Aimed(exch[u])'
             /\ doomed'[u] # {} => pc'[u] = "KAlarm01"
             /\ \A b \in doomed'[u] : b >= blk'[u]
  <2>1. CASE u # t
    BY <1>1, <1>2, <1>7, <2>1 DEF Ahead
  <2>2. CASE u = t
    <3>1. CASE pc'[t] = pc[t] /\ blk'[t] = blk[t] + 1
      BY <1>1, <1>6, <1>7, <2>2, <3>1 DEF Ahead, TypeOK, Blk
    <3>2. CASE pc'[t] = "run" /\ blk[t] = nTmrBlks
      <4>1. \A b \in doomed[t] \ {k} : FALSE
        BY <1>6, <3>2, TimerAssumption
      <4> QED
        BY <1>1, <2>2, <4>1
    <3> QED
      BY <1>2, <3>1, <3>2
  <2> QED
    BY <2>1, <2>2
<1>9. Ahead'
  BY <1>8 DEF Ahead
<1> QED
  BY <1>4, <1>5, <1>9

\* A message is taken off an exchange.
LEMMA ReceiveIInv ==
    ASSUME IInv, NEW t \in Task, NEW e \in Exch, Receive(t, e),
           \/ pc' = pc
           \/ pc[t] = "DelayWait" /\ pc' = [pc EXCEPT ![t] = "run"]
    PROVE  IInv'
<1> USE DEF IInv
<1>1. /\ msgs' \in [Exch -> Nat] /\ nFreeLB' \in Nat
      /\ UNCHANGED <<fInUse, TmrRespExch, CountDown, nTmrBlksUsed, blk, exch, cnt, doomed>>
      /\ elapsed' \in [Task -> 0 .. MaxCount + 1]
  BY TimerAssumption DEF Receive, TypeOK, blkVars, argVars
<1>2. TypeOK'
  BY <1>1 DEF TypeOK, Label
<1>3. BlocksCounted'
  BY <1>1 DEF BlocksCounted, InUse
<1>4. Ahead'
  BY <1>1 DEF Ahead, Aimed, InUse, TypeOK
<1> QED
  BY <1>2, <1>3, <1>4

LEMMA IntTimerIInv ==
    ASSUME IInv, IntTimer
    PROVE  IInv'
<1> USE DEF IInv
<1>1. /\ elapsed' \in [Task -> 0 .. MaxCount + 1]
      /\ UNCHANGED <<pc, blk, exch, cnt>>
  BY TimerAssumption DEF IntTimer, argVars, TypeOK
<1>2. CASE UNCHANGED <<blkVars, msgVars, doomed>>
  BY <1>1, <1>2 DEF TypeOK, BlocksCounted, Ahead, Aimed, InUse, blkVars, msgVars
<1>3. CASE /\ fInUse' = [b \in Blk |-> b \in InUse \ Due]
           /\ CountDown' = [b \in Blk |-> IF b \in InUse \ Due
                                          THEN CountDown[b] - 1 ELSE CountDown[b]]
           /\ nTmrBlksUsed' = nTmrBlksUsed - Cardinality(Due)
           /\ msgs' = [e \in Exch |-> msgs[e] + Cardinality(Sent \cap Aimed(e))]
           /\ nFreeLB' = nFreeLB - Cardinality(Sent)
           /\ doomed' = [t \in Task |-> doomed[t] \ Due]
           /\ UNCHANGED TmrRespExch
  <2>1. /\ InUse \in SUBSET Blk /\ Due \in SUBSET InUse
        /\ InUse' = InUse \ Due
    BY <1>3 DEF InUse, Due
  <2>2. BlocksCounted' /\ nTmrBlksUsed' \in 0 .. nTmrBlks
    BY <1>3, <2>1, BlocksFreed
  <2>3. CountDown' \in [Blk -> 0 .. MaxCount]
    <3>1. \A b \in InUse \ Due : CountDown[b] # 0
      BY DEF Due
    <3>2. \A b \in InUse \ Due : CountDown[b] - 1 \in 0 .. MaxCount
      BY <2>1, <3>1, TimerAssumption DEF TypeOK
    <3> QED
      BY <1>3, <3>2 DEF TypeOK
  <2>4. nFreeLB' \in Nat
    BY <1>3, SentFits DEF TypeOK
  <2>5. msgs' \in [Exch -> Nat]
    <3>1. ASSUME NEW e \in Exch
          PROVE  Cardinality(Sent \cap Aimed(e)) \in Nat
      <4>1. Sent \cap Aimed(e) \in SUBSET Blk
        BY <2>1 DEF Aimed
      <4> QED
        BY <4>1, BlocksFinite, TimerAssumption
    <3> QED
      BY <1>3, <3>1 DEF TypeOK
  <2>6. TypeOK'
    BY <1>1, <1>3, <2>2, <2>3, <2>4, <2>5 DEF TypeOK
  <2>7. \A t \in Task : Aimed(exch[t])' = Aimed(exch[t]) \ Due
    BY <1>1, <1>3, <2>1 DEF Aimed
  <2>8. Ahead'
    BY <1>1, <1>3, <2>7 DEF Ahead
  <2> QED
    BY <2>2, <2>6, <2>8
<1> QED
  BY <1>2, <1>3 DEF IntTimer

\* IInv is inductive.
LEMMA NextIInv == IInv /\ [Next]_vars => IInv'
<1> SUFFICES ASSUME IInv, [Next]_vars PROVE IInv'
  OBVIOUS
<1>1. CASE IntTimer
  BY <1>1, IntTimerIInv
<1>2. ASSUME NEW t \in Task, Search(t)
      PROVE  IInv'
  BY <1>2, PassIInv, TakeBlockIInv, KillBlockIInv DEF Search
<1>3. ASSUME NEW t \in Task, SleepEnd(t)
      PROVE  IInv'
  <2>1. TSS_Exch[t] \in Exch
    BY TimerAssumption
  <2> QED
    BY <1>3, <2>1, ReceiveIInv DEF SleepEnd, Goto
<1>4. ASSUME NEW t \in Task, Program(t)
      PROVE  IInv'
  <2>1. ASSUME NEW n \in Count, Sleep(t, n)
        PROVE  IInv'
    <3>1. TSS_Exch[t] \in Exch
      BY TimerAssumption
    <3> QED
      BY <2>1, <3>1, CallIInv DEF Sleep, Calling
  <2>2. ASSUME NEW e \in Exch, NEW n \in Count, Alarm(t, e, n)
        PROVE  IInv'
    BY <2>2, CallIInv DEF Alarm, Calling
  <2>3. ASSUME NEW e \in Exch, WaitMsg(t, e)
        PROVE  IInv'
    <3>1. Receive(t, e) /\ pc' = pc
      BY <2>3 DEF WaitMsg
    <3> QED
      BY <3>1, ReceiveIInv
  <2>4. ASSUME NEW e \in Exch, KillAlarm(t, e)
        PROVE  IInv'
    BY <2>4, KillAlarmIInv
  <2> QED
    BY <1>4, <2>1, <2>2, <2>3, <2>4 DEF Program
<1>5. CASE UNCHANGED vars
  BY <1>5 DEF IInv, TypeOK, BlocksCounted, Ahead, Aimed, InUse, vars, blkVars,
     msgVars, argVars
<1> QED
  BY <1>1, <1>2, <1>3, <1>4, <1>5 DEF Next

\* Every field has a value of its type: in particular the count of the link
\* blocks does not fall below zero when many blocks are due at one tick.
THEOREM TypeCorrect == Spec => []TypeOK
<1>1. IInv => TypeOK
  BY DEF IInv
<1> QED
  BY <1>1, InitIInv, NextIInv, PTL DEF Spec

\* nTmrBlksUsed, which lets IntTimer skip the blocks, counts those in use.
THEOREM CountCorrect == Spec => []BlocksCounted
<1>1. IInv => BlocksCounted
  BY DEF IInv
<1> QED
  BY <1>1, InitIInv, NextIInv, PTL DEF Spec

\* KillAlarm kills every alarm that was set when it was called.
THEOREM KillCorrect == Spec => []AlarmsKilled
<1>1. IInv => AlarmsKilled
  BY DEF IInv, Ahead, AlarmsKilled
<1> QED
  BY <1>1, InitIInv, NextIInv, PTL DEF Spec

-----------------------------------------------------------------------------
(* Sleep.  SleepOnTime speaks of tasks in DelayWait; that it begins to     *)
(* hold there needs an exchange nobody else sends to, empty at the call.   *)

\* What task t and the timer have to do with the exchange in its TSS.
OwnExch(t) ==
    /\ pc[t] \in {"Delay01", "DelayWait"} => exch[t] = TSS_Exch[t]
    /\ pc[t] \in {"Alarm01", "KAlarm01"} => \A u \in Task : exch[t] # TSS_Exch[u]
    /\ pc[t] # "DelayWait" => Aimed(TSS_Exch[t]) = {} /\ msgs[TSS_Exch[t]] = 0
    /\ msgs[TSS_Exch[t]] <= 1

OnTime(t) ==
    IF elapsed[t] <= cnt[t]
    THEN /\ msgs[TSS_Exch[t]] = 0
         /\ \E b \in Blk : /\ Aimed(TSS_Exch[t]) = {b}
                           /\ CountDown[b] + elapsed[t] = cnt[t]
    ELSE Aimed(TSS_Exch[t]) = {}

SInv == \A t \in Task : OwnExch(t) /\ (pc[t] = "DelayWait" => OnTime(t))

\* The steps that leave the timer blocks, the messages and the sleep of task
\* u alone.
LEMMA SleepUndisturbed ==
    ASSUME SInv, NEW u \in Task,
           pc'[u] = pc[u], exch'[u] = exch[u], cnt'[u] = cnt[u],
           elapsed'[u] = elapsed[u],
           msgs'[TSS_Exch[u]] = msgs[TSS_Exch[u]],
           Aimed(TSS_Exch[u])' = Aimed(TSS_Exch[u]),
           \A b \in Aimed(TSS_Exch[u]) : CountDown'[b] = CountDown[b]
    PROVE  OwnExch(u)' /\ (pc'[u] = "DelayWait" => OnTime(u)')
<1>1. OwnExch(u)'
  BY DEF SInv, OwnExch
<1>2. ASSUME pc'[u] = "DelayWait"
      PROVE  OnTime(u)'
  BY <1>2 DEF SInv, OnTime
<1> QED
  BY <1>1, <1>2

LEMMA InitSInv == Init => SInv
<1> SUFFICES ASSUME Init PROVE SInv
  OBVIOUS
<1>1. \A e : Aimed(e) = {}
  BY DEF Init, Aimed, InUse
<1> QED
  BY <1>1, TimerAssumption DEF Init, SInv, OwnExch

\* Calls, and the return from a search that found nothing.
LEMMA MoveSInv ==
    ASSUME IInv, SInv, NEW t \in Task, pc[t] # "DelayWait", pc'[t] # "DelayWait",
           \A u \in Task : u # t => /\ pc'[u] = pc[u] /\ exch'[u] = exch[u]
                                    /\ cnt'[u] = cnt[u],
           pc'[t] = "Delay01" => exch'[t] = TSS_Exch[t],
           pc'[t] \in {"Alarm01", "KAlarm01"} => \A u \in Task : exch'[t] # TSS_Exch[u],
           UNCHANGED <<fInUse, TmrRespExch, CountDown, msgs, elapsed>>
    PROVE  SInv'
<1>1. \A e : Aimed(e)' = Aimed(e)
  BY DEF Aimed, InUse
<1>2. \A u \in Task : u # t => OwnExch(u)' /\ (pc'[u] = "DelayWait" => OnTime(u)')
  BY <1>1, SleepUndisturbed
<1>3. OwnExch(t)'
  BY <1>1 DEF SInv, OwnExch
<1> QED
  BY <1>2, <1>3 DEF SInv

LEMMA ProgramSInv ==
    ASSUME OwnExchOnly, IInv, SInv, NEW t \in Task, Program(t)
    PROVE  SInv'
<1>1. /\ TSS_Exch[t] \in Exch /\ 0 \in 0 .. MaxCount
      /\ \A n \in Count : n \in 0 .. MaxCount
  BY TimerAssumption DEF Count
<1>2. /\ \A l, e, n : Enter(t, l, e, n) =>
           /\ pc' = [pc EXCEPT ![t] = l]
           /\ exch' = [exch EXCEPT ![t] = e]
           /\ cnt' = [cnt EXCEPT ![t] = n]
      /\ pc \in [Task -> Label] /\ exch \in [Task -> Exch]
      /\ cnt \in [Task -> 0 .. MaxCount]
  BY DEF Enter, Goto, IInv, TypeOK
<1>3. ASSUME NEW n \in Count, Sleep(t, n)
      PROVE  SInv'
  <2>1. /\ pc[t] = "run" /\ Enter(t, "Delay01", TSS_Exch[t], n)
        /\ UNCHANGED <<fInUse, TmrRespExch, CountDown, msgs, elapsed>>
    BY <1>3 DEF Sleep, Calling, blkVars, msgVars
  <2>2. /\ pc'[t] = "Delay01" /\ exch'[t] = TSS_Exch[t]
        /\ \A u \in Task : u # t => /\ pc'[u] = pc[u] /\ exch'[u] = exch[u]
                                    /\ cnt'[u] = cnt[u]
    BY <1>1, <1>2, <2>1
  <2> QED
    BY <2>1, <2>2, MoveSInv
<1>4. ASSUME NEW e \in Exch, NEW n \in Count, Alarm(t, e, n)
      PROVE  SInv'
  <2>1. /\ pc[t] = "run" /\ Enter(t, "Alarm01", e, n)
        /\ <<"Alarm", e, n>> \in Calls[t]
        /\ UNCHANGED <<fInUse, TmrRespExch, CountDown, msgs, elapsed>>
    BY <1>4 DEF Alarm, Calling, blkVars, msgVars
  <2>2. \A u \in Task : e # TSS_Exch[u]
    BY <1>1, <2>1 DEF OwnExchOnly
  <2>3. /\ pc'[t] = "Alarm01" /\ exch'[t] = e
        /\ \A u \in Task : u # t => /\ pc'[u] = pc[u] /\ exch'[u] = exch[u]
                                    /\ cnt'[u] = cnt[u]
    BY <1>2, <2>1
  <2> QED
    BY <2>1, <2>2, <2>3, MoveSInv
<1>5. ASSUME NEW e \in Exch, KillAlarm(t, e)
      PROVE  SInv'
  <2>1. /\ pc[t] = "run"
        /\ <<"KillAlarm", e, 0>> \in Calls[t]
        /\ UNCHANGED <<fInUse, TmrRespExch, CountDown, msgs, elapsed>>
    BY <1>5 DEF KillAlarm, Calling, blkVars, msgVars
  <2>2. \A u \in Task : e # TSS_Exch[u]
    BY <1>1, <2>1 DEF OwnExchOnly
  <2>3. CASE UNCHANGED <<pc, blk, argVars>>
    BY <2>1, <2>3, MoveSInv DEF argVars
  <2>4. CASE Enter(t, "KAlarm01", e, 0)
    <3>1. /\ pc'[t] = "KAlarm01" /\ exch'[t] = e
          /\ \A u \in Task : u # t => /\ pc'[u] = pc[u] /\ exch'[u] = exch[u]
                                      /\ cnt'[u] = cnt[u]
      BY <1>2, <2>4
    <3> QED
      BY <2>1, <2>2, <3>1, MoveSInv
  <2> QED
    BY <1>5, <2>3, <2>4 DEF KillAlarm
<1>6. ASSUME NEW e \in Exch, WaitMsg(t, e)
      PROVE  SInv'
  <2>1. /\ pc[t] = "run" /\ <<"WaitMsg", e, 0>> \in Calls[t]
        /\ msgs' = [msgs EXCEPT ![e] = msgs[e] - 1]
        /\ elapsed' = [elapsed EXCEPT ![t] = 0]
        /\ UNCHANGED <<fInUse, TmrRespExch, CountDown, pc, exch, cnt>>
    BY <1>6 DEF WaitMsg, Receive, Calling, blkVars, argVars
  <2>2. \A u \in Task : e # TSS_Exch[u]
    BY <1>1, <2>1 DEF OwnExchOnly
  <2>3. \A u \in Task : msgs'[TSS_Exch[u]] = msgs[TSS_Exch[u]]
    BY <2>1, <2>2, TimerAssumption DEF IInv, TypeOK
  <2>4. \A x : Aimed(x)' = Aimed(x)
    BY <2>1 DEF Aimed, InUse
  <2>5. ASSUME NEW u \in Task, u # t
        PROVE  OwnExch(u)' /\ (pc'[u] = "DelayWait" => OnTime(u)')
    <3>1. elapsed'[u] = elapsed[u]
      BY <2>1, <2>5 DEF IInv, TypeOK
    <3> QED
      BY <2>1, <2>3, <2>4, <3>1, SleepUndisturbed
  <2>6. OwnExch(t)' /\ pc'[t] # "DelayWait"
    BY <2>1, <2>3, <2>4 DEF SInv, OwnExch
  <2> QED
    BY <2>5, <2>6 DEF SInv
<1> QED
  BY <1>3, <1>4, <1>5, <1>6 DEF Program

\* Steps of a search.  Only a task that sleeps takes a block for its own
\* exchange, and no block for such an exchange is killed.
LEMMA SearchSInv ==
    ASSUME OwnExchOnly, IInv, SInv, NEW t \in Task, Search(t)
    PROVE  SInv'
<1> DEFINE k == blk[t]
<1>1. TypeOK /\ k \in Blk
  BY DEF IInv, TypeOK
<1>2. ASSUME BlockBusy(t) \/ SkipBlock(t)
      PROVE  SInv'
  <2>1. /\ NextBlock(t) /\ pc[t] # "DelayWait"
        /\ UNCHANGED <<fInUse, TmrRespExch, CountDown, msgs, elapsed, exch, cnt>>
    BY <1>2 DEF BlockBusy, SkipBlock, blkVars, msgVars, argVars
  <2>2. /\ pc'[t] \in {pc[t], "run"}
        /\ \A u \in Task : u # t => pc'[u] = pc[u]
    BY <1>1, <2>1, NextBlockMoves
  <2> QED
    BY <2>1, <2>2, MoveSInv DEF SInv, OwnExch
<1>3. ASSUME KillBlock(t)
      PROVE  SInv'
  <2>1. /\ NextBlock(t) /\ pc[t] = "KAlarm01" /\ TmrRespExch[k] = exch[t]
        /\ fInUse' = [fInUse EXCEPT ![k] = FALSE]
        /\ UNCHANGED <<TmrRespExch, CountDown, msgs, elapsed, exch, cnt>>
    BY <1>3 DEF KillBlock, Match, msgVars, argVars
  <2>2. /\ pc'[t] \in {"KAlarm01", "run"}
        /\ \A u \in Task : u # t => pc'[u] = pc[u]
    BY <1>1, <2>1, NextBlockMoves
  <2>3. \A u \in Task : k \notin Aimed(TSS_Exch[u])
    BY <2>1 DEF SInv, OwnExch, Aimed
  <2>4. \A u \in Task : Aimed(TSS_Exch[u])' = Aimed(TSS_Exch[u])
    BY <1>1, <2>1, <2>3 DEF Aimed, InUse, TypeOK
  <2>5. \A u \in Task : u # t => OwnExch(u)' /\ (pc'[u] = "DelayWait" => OnTime(u)')
    BY <2>1, <2>2, <2>4, SleepUndisturbed
  <2>6. OwnExch(t)' /\ pc'[t] # "DelayWait"
    BY <2>1, <2>2, <2>4 DEF SInv, OwnExch
  <2> QED
    BY <2>5, <2>6 DEF SInv
<1>4. ASSUME TakeBlock(t)
      PROVE  SInv'
  <2>1. /\ k \notin InUse /\ pc[t] \in {"Delay01", "Alarm01"}
        /\ CountDown' = [CountDown EXCEPT ![k] = cnt[t]]
        /\ fInUse' = [fInUse EXCEPT ![k] = TRUE]
        /\ TmrRespExch' = [TmrRespExch EXCEPT ![k] = exch[t]]
        /\ elapsed' = [elapsed EXCEPT ![t] = 0]
        /\ pc' = [pc EXCEPT ![t] = IF pc[t] = "Delay01" THEN "DelayWait" ELSE "run"]
        /\ UNCHANGED <<msgs, exch, cnt>>
    BY <1>4 DEF TakeBlock, Goto, msgVars, argVars, InUse
  <2>2. /\ \A e : e # exch[t] => Aimed(e)' = Aimed(e)
        /\ Aimed(exch[t])' = Aimed(exch[t]) \cup {k}
    <3>1. InUse' = InUse \cup {k}
      BY <1>1, <2>1 DEF InUse, TypeOK
    <3>2. TmrRespExch'[k] = exch[t] /\ \A b \in Blk : b # k => TmrRespExch'[b] = TmrRespExch[b]
      BY <1>1, <2>1 DEF TypeOK
    <3>3. InUse \subseteq Blk
      BY DEF InUse
    <3> QED
      BY <2>1, <3>1, <3>2, <3>3 DEF Aimed
  <2>3. ASSUME NEW u \in Task, u # t
        PROVE  OwnExch(u)' /\ (pc'[u] = "DelayWait" => OnTime(u)')
    <3>1. exch[t] # TSS_Exch[u]
      BY <2>1, <2>3 DEF SInv, OwnExch, OwnExchOnly
    <3>2. \A b \in Aimed(TSS_Exch[u]) : b \in Blk /\ b # k
      BY <2>1 DEF Aimed, InUse
    <3>3. \A b \in Aimed(TSS_Exch[u]) : CountDown'[b] = CountDown[b]
      BY <1>1, <2>1, <3>2 DEF TypeOK
    <3>4. pc'[u] = pc[u] /\ elapsed'[u] = elapsed[u]
      BY <1>1, <2>1, <2>3 DEF TypeOK
    <3> QED
      BY <2>1, <2>2, <3>1, <3>3, <3>4, SleepUndisturbed
  <2>4. CASE pc[t] = "Alarm01"
    <3>1. pc'[t] = "run" /\ exch[t] # TSS_Exch[t]
      BY <1>1, <2>1, <2>4 DEF SInv, OwnExch, TypeOK
    <3>2. OwnExch(t)'
      BY <2>1, <2>2, <2>4, <3>1 DEF SInv, OwnExch
    <3> QED
      BY <2>3, <3>1, <3>2 DEF SInv
  <2>5. CASE pc[t] = "Delay01"
    <3>1. /\ pc'[t] = "DelayWait" /\ exch[t] = TSS_Exch[t]
          /\ Aimed(TSS_Exch[t]) = {} /\ msgs[TSS_Exch[t]] = 0
      BY <1>1, <2>1, <2>5 DEF SInv, OwnExch, TypeOK
    <3>2. Aimed(TSS_Exch[t])' = {k}
      <4>1. Aimed(exch[t])' = Aimed(TSS_Exch[t])' /\ Aimed(exch[t]) = {}
        BY <2>1, <3>1 DEF Aimed
      <4> QED
        BY <2>2, <4>1
    <3>3. elapsed'[t] = 0 /\ CountDown'[k] = cnt[t] /\ cnt[t] \in Nat
      BY <1>1, <2>1, TimerAssumption DEF TypeOK
    <3>4. OwnExch(t)'
      BY <2>1, <3>1 DEF OwnExch
    <3>5. OnTime(t)'
      BY <1>1, <2>1, <3>1, <3>2, <3>3 DEF OnTime
    <3> QED
      BY <2>3, <3>4, <3>5 DEF SInv
  <2> QED
    BY <2>1, <2>4, <2>5
<1> QED
  BY <1>2, <1>3, <1>4 DEF Search

\* The message of Sleep arrived: the block that sent it is free.
LEMMA SleepEndSInv ==
    ASSUME OwnExchOnly, IInv, SInv, NEW t \in Task, SleepEnd(t)
    PROVE  SInv'
<1>1. /\ pc[t] = "DelayWait" /\ TSS_Exch[t] \in Exch
      /\ msgs[TSS_Exch[t]] > 0
      /\ msgs' = [msgs EXCEPT ![TSS_Exch[t]] = msgs[TSS_Exch[t]] - 1]
      /\ elapsed' = [elapsed EXCEPT ![t] = 0]
      /\ pc' = [pc EXCEPT ![t] = "run"]
      /\ UNCHANGED <<fInUse, TmrRespExch, CountDown, exch, cnt>>
  BY TimerAssumption DEF SleepEnd, Receive, Goto, blkVars, argVars
<1>2. TypeOK /\ msgs[TSS_Exch[t]] \in Nat
  BY <1>1 DEF IInv, TypeOK
<1>3. \A x : Aimed(x)' = Aimed(x)
  BY <1>1 DEF Aimed, InUse
<1>4. ASSUME NEW u \in Task, u # t
      PROVE  OwnExch(u)' /\ (pc'[u] = "DelayWait" => OnTime(u)')
  <2>1. TSS_Exch[u] # TSS_Exch[t] /\ TSS_Exch[u] \in Exch
    BY <1>4, TimerAssumption DEF OwnExchOnly
  <2>2. pc'[u] = pc[u] /\ elapsed'[u] = elapsed[u] /\ msgs'[TSS_Exch[u]] = msgs[TSS_Exch[u]]
    BY <1>1, <1>2, <1>4, <2>1 DEF TypeOK
  <2> QED
    BY <1>1, <1>3, <2>2, SleepUndisturbed
<1>5. pc'[t] = "run" /\ OwnExch(t)'
  <2>1. Aimed(TSS_Exch[t]) = {} /\ msgs[TSS_Exch[t]] <= 1
    BY <1>1 DEF SInv, OwnExch, OnTime
  <2>2. msgs'[TSS_Exch[t]] = 0
    BY <1>1, <1>2, <2>1 DEF TypeOK
  <2>3. pc'[t] = "run"
    BY <1>1, <1>2 DEF TypeOK
  <2> QED
    BY <1>3, <2>1, <2>2, <2>3 DEF OwnExch
<1> QED
  BY <1>4, <1>5 DEF SInv

\* A tick.  The block of a task that sleeps is counted down, or sends.
LEMMA IntTimerSInv ==
    ASSUME IInv, SInv, IntTimer
    PROVE  SInv'
<1>1. /\ TypeOK /\ UNCHANGED <<pc, exch, cnt, TmrRespExch>>
      /\ elapsed' = [t \in Task |-> IF pc[t] = "DelayWait" /\ elapsed[t] <= cnt[t]
                                    THEN elapsed[t] + 1 ELSE elapsed[t]]
  BY DEF IInv, IntTimer, blkVars, argVars
<1>2. CASE nTmrBlksUsed = 0 /\ UNCHANGED <<blkVars, msgVars, doomed>>
  <2>1. InUse = {}
    <3>1. InUse \in SUBSET Blk
      BY DEF InUse
    <3> QED
      BY <1>2, <3>1, BlocksFinite, FS_EmptySet DEF IInv, BlocksCounted
  <2>2. /\ \A e : Aimed(e) = {} /\ Aimed(e)' = {}
        /\ msgs' = msgs
    BY <1>2, <2>1 DEF Aimed, InUse, blkVars, msgVars
  <2>3. ASSUME NEW t \in Task
        PROVE  OwnExch(t)' /\ (pc'[t] = "DelayWait" => OnTime(t)')
    <3>1. pc[t] = "DelayWait" => elapsed'[t] = elapsed[t] /\ ~(elapsed[t] <= cnt[t])
      BY <1>1, <2>2 DEF SInv, OnTime
    <3>2. OwnExch(t)'
      BY <1>1, <2>2 DEF SInv, OwnExch
    <3>3. pc'[t] = "DelayWait" => OnTime(t)'
      BY <1>1, <2>2, <3>1 DEF OnTime
    <3> QED
      BY <3>2, <3>3
  <2> QED
    BY <2>3 DEF SInv
<1>3. CASE /\ fInUse' = [b \in Blk |-> b \in InUse \ Due]
           /\ CountDown' = [b \in Blk |-> IF b \in InUse \ Due
                                          THEN CountDown[b] - 1 ELSE CountDown[b]]
           /\ msgs' = [e \in Exch |-> msgs[e] + Cardinality(Sent \cap Aimed(e))]
  <2>1. InUse' = InUse \ Due /\ InUse \subseteq Blk /\ Sent \subseteq Due
    BY <1>3 DEF InUse, Due, Sent
  <2>2. \A e : Aimed(e)' = Aimed(e) \ Due
    BY <1>1, <2>1 DEF Aimed
  <2>3. \A t \in Task : TSS_Exch[t] \in Exch /\ msgs[TSS_Exch[t]] \in Nat
    BY <1>1, TimerAssumption DEF TypeOK
  <2>4. ASSUME NEW t \in Task, Aimed(TSS_Exch[t]) = {}
        PROVE  Aimed(TSS_Exch[t])' = {} /\ msgs'[TSS_Exch[t]] = msgs[TSS_Exch[t]]
    <3>1. Cardinality(Sent \cap Aimed(TSS_Exch[t])) = 0
      BY <2>4, FS_EmptySet
    <3> QED
      BY <1>3, <2>2, <2>3, <2>4, <3>1
  <2>5. ASSUME NEW t \in Task
        PROVE  OwnExch(t)' /\ (pc'[t] = "DelayWait" => OnTime(t)')
    <3>1. CASE pc[t] # "DelayWait"
      BY <1>1, <2>4, <3>1 DEF SInv, OwnExch
    <3>2. CASE pc[t] = "DelayWait" /\ ~(elapsed[t] <= cnt[t])
      <4>1. Aimed(TSS_Exch[t]) = {} /\ elapsed'[t] = elapsed[t]
        BY <1>1, <3>2 DEF SInv, OnTime
      <4>2. OwnExch(t)'
        BY <1>1, <2>4, <3>2, <4>1 DEF SInv, OwnExch
      <4>3. OnTime(t)'
        BY <1>1, <2>4, <3>2, <4>1 DEF OnTime
      <4> QED
        BY <4>2, <4>3
    <3>3. CASE pc[t] = "DelayWait" /\ elapsed[t] <= cnt[t]
      <4>1. PICK b \in Blk : /\ Aimed(TSS_Exch[t]) = {b}
                             /\ CountDown[b] + elapsed[t] = cnt[t]
        BY <3>3 DEF SInv, OnTime
      <4>2. /\ msgs[TSS_Exch[t]] = 0
            /\ elapsed'[t] = elapsed[t] + 1
            /\ elapsed[t] \in Nat /\ cnt[t] \in Nat /\ CountDown[b] \in Nat
            /\ b \in InUse
            /\ exch[t] = TSS_Exch[t]
        BY <1>1, <3>3, <4>1, TimerAssumption DEF SInv, OnTime, OwnExch, TypeOK, Aimed
      <4>3. msgs'[TSS_Exch[t]] = Cardinality(Sent \cap {b})
        <5>1. Sent \cap {b} \in SUBSET Blk
          BY <4>1
        <5>2. Cardinality(Sent \cap {b}) \in Nat
          BY <5>1, BlocksFinite, TimerAssumption
        <5> QED
          BY <1>3, <2>3, <4>1, <4>2, <5>2
      <4>4. CASE b \in Due
        <5>1. Aimed(TSS_Exch[t])' = {} /\ CountDown[b] = 0
          BY <2>2, <4>1, <4>4 DEF Due
        <5>2. msgs'[TSS_Exch[t]] <= 1
          <6>1. IsFiniteSet({b}) /\ Cardinality({b}) = 1
            BY FS_Singleton
          <6>2. Cardinality(Sent \cap {b}) <= 1
            BY <6>1, FS_Intersection
          <6> QED
            BY <4>3, <6>2
        <5>3. ~(elapsed'[t] <= cnt'[t])
          BY <1>1, <4>1, <4>2, <5>1
        <5>4. OwnExch(t)'
          BY <1>1, <3>3, <4>2, <5>2 DEF OwnExch
        <5>5. OnTime(t)'
          BY <5>1, <5>3 DEF OnTime
        <5> QED
          BY <5>4, <5>5
      <4>5. CASE b \notin Due
        <5>1. Aimed(TSS_Exch[t])' = {b} /\ CountDown[b] # 0
          BY <2>2, <4>1, <4>2, <4>5 DEF Due
        <5>2. CountDown'[b] = CountDown[b] - 1
          BY <1>3, <4>2, <4>5
        <5>3. Sent \cap {b} = {}
          BY <2>1, <4>5
        <5>4. msgs'[TSS_Exch[t]] = 0
          BY <4>3, <5>3, FS_EmptySet
        <5>5. CountDown'[b] + elapsed'[t] = cnt'[t] /\ elapsed'[t] <= cnt'[t]
          BY <1>1, <4>1, <4>2, <5>1, <5>2
        <5>6. OwnExch(t)'
          BY <1>1, <3>3, <4>2, <5>4 DEF OwnExch
        <5>7. OnTime(t)'
          BY <4>1, <5>1, <5>4, <5>5 DEF OnTime
        <5> QED
          BY <5>6, <5>7
      <4> QED
        BY <4>4, <4>5
    <3> QED
      BY <3>1, <3>2, <3>3
  <2> QED
    BY <2>5 DEF SInv
<1> QED
  BY <1>2, <1>3 DEF IntTimer

LEMMA NextSInv ==
    ASSUME OwnExchOnly
    PROVE  IInv /\ SInv /\ [Next]_vars => SInv'
<1>1. CASE UNCHANGED vars
  BY <1>1 DEF SInv, OwnExch, OnTime, Aimed, InUse, vars, blkVars, msgVars, argVars
<1> QED
  BY <1>1, ProgramSInv, SearchSInv, SleepEndSInv, IntTimerSInv DEF Next

\* When programs leave the exchange of a TSS to Sleep, no task wakes before
\* the ticks it asked for have passed, and the block it waits for sends at
\* the tick after these, with any number of tasks, blocks and link blocks.
THEOREM SleepsOnTime == OwnExchOnly /\ Spec => []SleepOnTime
<1>1. OwnExchOnly => (IInv /\ SInv /\ [Next]_vars => SInv')
  BY NextSInv
<1>2. SInv => SleepOnTime
  BY DEF SInv, OnTime, SleepOnTime
<1>3. OwnExchOnly => []OwnExchOnly
  BY DEF OwnExchOnly
<1> QED
  BY <1>1, <1>2, <1>3, InitIInv, NextIInv, InitSInv, PTL DEF Spec
=============================================================================
