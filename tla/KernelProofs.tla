---------------------------- MODULE KernelProofs ----------------------------
(***************************************************************************)
(* Proofs about Kernel, for any number of tasks, link blocks, exchanges    *)
(* and priorities and any programs: no task and no link block is in two    *)
(* places at once, and a task that wakes up in WaitMsg has a message;      *)
(* which steps can break an exchange or leave something where nothing      *)
(* finds it, that no other loses anything, and that until an exchange is   *)
(* broken they all are the mailboxes of Mailbox.                           *)
(*                                                                         *)
(* None of the invariants is inductive alone.  A task is handed a message  *)
(* by another task or by an interrupt, which overwrite its pLBRet; that    *)
(* this loses no link block, and that the task is in Wait03 then, depends  *)
(* on where each task is in the code when its registers hold something     *)
(* (Regs) and on what a task that is parked looks like (ParkedRegs).       *)
(***************************************************************************)
EXTENDS Kernel, SequenceTheorems, TLAPS

-----------------------------------------------------------------------------
(* What appending to, removing from and emptying one queue of a family does *)
(* to what is queued in the family.                                         *)

\* The elements of a queue after an element was appended (enQueueMsg,
\* enQueueRdy).
LEMMA ToSetAppend ==
    ASSUME NEW S, NEW s \in Seq(S), NEW x \in S
    PROVE  ToSet(Append(s, x)) = ToSet(s) \cup {x}
<1>1. DOMAIN s = 1 .. Len(s) /\ Len(s) \in Nat
  BY LenProperties
<1>2. DOMAIN Append(s, x) = 1 .. (Len(s) + 1)
  BY AppendProperties, LenProperties
<1>3. /\ \A i \in 1 .. Len(s) : Append(s, x)[i] = s[i]
      /\ Append(s, x)[Len(s) + 1] = x
  BY AppendProperties
<1>4. \A i \in 1 .. (Len(s) + 1) : i \in 1 .. Len(s) \/ i = Len(s) + 1
  BY <1>1
<1> QED
  BY <1>1, <1>2, <1>3, <1>4 DEF ToSet

\* Appending what is not in the queue does not put anything there twice.
LEMMA InjectiveAppend ==
    ASSUME NEW S, NEW s \in Seq(S), NEW x \in S,
           IsInjective(s), x \notin ToSet(s)
    PROVE  IsInjective(Append(s, x))
<1>1. DOMAIN s = 1 .. Len(s) /\ Len(s) \in Nat
  BY LenProperties
<1>2. DOMAIN Append(s, x) = 1 .. (Len(s) + 1)
  BY AppendProperties, LenProperties
<1>3. /\ \A i \in 1 .. Len(s) : Append(s, x)[i] = s[i]
      /\ Append(s, x)[Len(s) + 1] = x
  BY AppendProperties
<1>4. \A i \in 1 .. (Len(s) + 1) : i \in 1 .. Len(s) \/ i = Len(s) + 1
  BY <1>1
<1>5. \A i \in 1 .. Len(s) : s[i] # x
  BY <1>1 DEF ToSet
<1>6. \A i, j \in 1 .. Len(s) : s[i] = s[j] => i = j
  BY <1>1 DEF IsInjective
<1>7. ASSUME NEW i \in 1 .. (Len(s) + 1), NEW j \in 1 .. (Len(s) + 1),
             Append(s, x)[i] = Append(s, x)[j]
      PROVE  i = j
  BY <1>3, <1>4, <1>5, <1>6, <1>7
<1> QED
  BY <1>2, <1>7 DEF IsInjective

\* What is left of a queue whose head was removed (deQueueMsg, deQueueTSS,
\* deQueueRdy).
LEMMA ToSetTail ==
    ASSUME NEW S, NEW s \in Seq(S), s # << >>
    PROVE  /\ Head(s) \in S /\ Head(s) \in ToSet(s)
           /\ Tail(s) \in Seq(S)
           /\ ToSet(Tail(s)) \subseteq ToSet(s)
           /\ IsInjective(s) => /\ IsInjective(Tail(s))
                                /\ ToSet(Tail(s)) = ToSet(s) \ {Head(s)}
<1>1. /\ DOMAIN s = 1 .. Len(s) /\ Len(s) \in Nat
      /\ Len(s) > 0
  BY LenProperties, EmptySeq
<1>2. /\ Head(s) \in S /\ Head(s) = s[1]
      /\ Tail(s) \in Seq(S)
      /\ Len(Tail(s)) = Len(s) - 1
      /\ \A i \in 1 .. Len(Tail(s)) : Tail(s)[i] = s[i + 1]
  BY HeadTailProperties
<1>3. DOMAIN Tail(s) = 1 .. (Len(s) - 1)
  BY <1>2, LenProperties
<1>4. \A i \in 1 .. (Len(s) - 1) : i + 1 \in 1 .. Len(s) /\ i + 1 # 1
  BY <1>1
<1>5. \A i \in 1 .. Len(s) : i # 1 => i - 1 \in 1 .. (Len(s) - 1) /\ (i - 1) + 1 = i
  BY <1>1
<1>6. \A i \in 1 .. (Len(s) - 1) : Tail(s)[i] = s[i + 1]
  BY <1>2
<1>7. 1 \in DOMAIN s
  BY <1>1
<1>8. Head(s) \in ToSet(s)
  BY <1>2, <1>7 DEF ToSet
<1>9. ToSet(Tail(s)) \subseteq ToSet(s)
  BY <1>1, <1>3, <1>4, <1>6 DEF ToSet
<1>10. ASSUME IsInjective(s)
       PROVE  /\ IsInjective(Tail(s))
              /\ ToSet(Tail(s)) = ToSet(s) \ {Head(s)}
  <2>1. \A i, j \in 1 .. Len(s) : s[i] = s[j] => i = j
    BY <1>1, <1>10 DEF IsInjective
  <2>2. ASSUME NEW i \in 1 .. (Len(s) - 1), NEW j \in 1 .. (Len(s) - 1),
               Tail(s)[i] = Tail(s)[j]
        PROVE  i = j
    <3>1. i + 1 = j + 1
      BY <2>1, <2>2, <1>4, <1>6
    <3> QED
      BY <3>1, <1>1
  <2>3. \A i \in 1 .. (Len(s) - 1) : Tail(s)[i] # Head(s)
    BY <2>1, <1>2, <1>4, <1>6, <1>7, <1>1
  <2>4. \A i \in 1 .. Len(s) :
          i = 1 \/ \E j \in 1 .. (Len(s) - 1) : Tail(s)[j] = s[i]
    BY <1>5, <1>6
  <2>5. ToSet(Tail(s)) \subseteq ToSet(s) \ {Head(s)}
    BY <1>9, <2>3, <1>3 DEF ToSet
  <2>6. ASSUME NEW y \in ToSet(s), y # Head(s)
        PROVE  y \in ToSet(Tail(s))
    <3>1. PICK i \in 1 .. Len(s) : y = s[i]
      BY <1>1 DEF ToSet
    <3>2. PICK j \in 1 .. (Len(s) - 1) : Tail(s)[j] = y
      BY <1>2, <2>4, <2>6, <3>1
    <3> QED
      BY <1>3, <3>2 DEF ToSet
  <2> QED
    BY <2>2, <2>5, <2>6, <1>3 DEF IsInjective
<1> QED
  BY <1>2, <1>8, <1>9, <1>10

\* An empty queue.
LEMMA ToSetEmpty == ToSet(<< >>) = {} /\ IsInjective(<< >>)
BY DEF ToSet, IsInjective

-----------------------------------------------------------------------------
\* Linking an element that is in no queue.
LEMMA PutQueued ==
    ASSUME NEW D, NEW S, NEW q \in [D -> Seq(S)], NEW d \in D, NEW x \in S
    PROVE  /\ Put(q, d, x) \in [D -> Seq(S)]
           /\ \A y : Queued(Put(q, d, x), y) <=> Queued(q, y) \/ y = x
           /\ EachOnce(q) /\ ~Queued(q, x) => EachOnce(Put(q, d, x))
<1> DEFINE r == Put(q, d, x)
<1>1. /\ DOMAIN r = D /\ DOMAIN q = D
      /\ r[d] = Append(q[d], x)
      /\ \A e \in D : e # d => r[e] = q[e]
  BY DEF Put
<1>2. r \in [D -> Seq(S)]
  BY DEF Put
<1>3. /\ ToSet(r[d]) = ToSet(q[d]) \cup {x}
      /\ \A e \in D : e # d => ToSet(r[e]) = ToSet(q[e])
  BY <1>1, ToSetAppend
<1>4. \A y : Queued(r, y) <=> Queued(q, y) \/ y = x
  BY <1>1, <1>3 DEF Queued
<1>5. ASSUME EachOnce(q), ~Queued(q, x)
      PROVE  EachOnce(r)
  <2>1. \A e \in D : x \notin ToSet(q[e])
    BY <1>1, <1>5 DEF Queued
  <2>2. IsInjective(r[d])
    BY <1>1, <1>5, <2>1, InjectiveAppend DEF EachOnce
  <2>3. \A e \in D : IsInjective(r[e])
    BY <1>1, <1>5, <2>2 DEF EachOnce
  <2>4. \A e, f \in D : e # f => ToSet(q[e]) \cap ToSet(q[f]) = {}
    BY <1>1, <1>5 DEF EachOnce
  <2>5. \A e, f \in D : e # f => ToSet(r[e]) \cap ToSet(r[f]) = {}
    BY <1>3, <2>1, <2>4
  <2> QED
    BY <1>1, <2>3, <2>5 DEF EachOnce
<1> QED
  BY <1>2, <1>4, <1>5

\* Unlinking the head of a queue.
LEMMA PopQueued ==
    ASSUME NEW D, NEW S, NEW q \in [D -> Seq(S)], NEW d \in D,
           q[d] # << >>, EachOnce(q)
    PROVE  /\ Pop(q, d) \in [D -> Seq(S)]
           /\ Head(q[d]) \in S /\ Queued(q, Head(q[d]))
           /\ \A y : Queued(Pop(q, d), y) <=> Queued(q, y) /\ y # Head(q[d])
           /\ EachOnce(Pop(q, d))
<1> DEFINE r == Pop(q, d)
           h == Head(q[d])
<1>1. q[d] \in Seq(S) /\ IsInjective(q[d])
  BY DEF EachOnce
<1>2. /\ h \in S /\ h \in ToSet(q[d])
      /\ Tail(q[d]) \in Seq(S) /\ IsInjective(Tail(q[d]))
      /\ ToSet(Tail(q[d])) = ToSet(q[d]) \ {h}
  BY <1>1, ToSetTail
<1>3. /\ DOMAIN r = D /\ DOMAIN q = D
      /\ r[d] = Tail(q[d])
      /\ \A e \in D : e # d => r[e] = q[e]
  BY DEF Pop
<1>4. r \in [D -> Seq(S)]
  BY <1>2 DEF Pop
<1>5. \A e, f \in D : e # f => ToSet(q[e]) \cap ToSet(q[f]) = {}
  BY <1>3 DEF EachOnce
<1>6. \A e \in D : ToSet(r[e]) = ToSet(q[e]) \ {h}
  BY <1>2, <1>3, <1>5
<1>7. Queued(q, h) /\ \A y : Queued(r, y) <=> Queued(q, y) /\ y # h
  BY <1>2, <1>3, <1>6 DEF Queued
<1>8. \A e \in D : IsInjective(r[e])
  BY <1>2, <1>3 DEF EachOnce
<1>9. EachOnce(r)
  BY <1>3, <1>5, <1>6, <1>8 DEF EachOnce
<1> QED
  BY <1>2, <1>4, <1>7, <1>9

\* Emptying a queue.
LEMMA ClearQueued ==
    ASSUME NEW D, NEW S, NEW q \in [D -> Seq(S)], NEW d \in D, EachOnce(q)
    PROVE  /\ Clear(q, d) \in [D -> Seq(S)]
           /\ \A y : Queued(Clear(q, d), y) <=> Queued(q, y) /\ y \notin ToSet(q[d])
           /\ EachOnce(Clear(q, d))
<1> DEFINE r == Clear(q, d)
<1>1. /\ DOMAIN r = D /\ DOMAIN q = D
      /\ r[d] = << >>
      /\ \A e \in D : e # d => r[e] = q[e]
  BY DEF Clear
<1>2. r \in [D -> Seq(S)]
  BY EmptySeq DEF Clear
<1>3. \A e, f \in D : e # f => ToSet(q[e]) \cap ToSet(q[f]) = {}
  BY <1>1 DEF EachOnce
<1>4. \A e \in D : ToSet(r[e]) = ToSet(q[e]) \ ToSet(q[d])
  BY <1>1, <1>3, ToSetEmpty
<1>5. \A y : Queued(r, y) <=> Queued(q, y) /\ y \notin ToSet(q[d])
  BY <1>1, <1>4 DEF Queued
<1>6. \A e \in D : IsInjective(r[e])
  BY <1>1, ToSetEmpty DEF EachOnce
<1> QED
  BY <1>1, <1>2, <1>3, <1>4, <1>5, <1>6 DEF EachOnce

\* Unlinking the head of a queue brings nothing into any of them.
LEMMA PopElements ==
    ASSUME NEW D, NEW S, NEW q \in [D -> Seq(S)], NEW d \in D, q[d] # << >>
    PROVE  \A e \in D : ToSet(Pop(q, d)[e]) \subseteq ToSet(q[e])
<1>1. /\ Pop(q, d)[d] = Tail(q[d])
      /\ \A e \in D : e # d => Pop(q, d)[e] = q[e]
  BY DEF Pop
<1> QED
  BY <1>1, ToSetTail

-----------------------------------------------------------------------------
(* The invariant. *)

\* A task holds a link block or a TSS in the stretches of code that have
\* taken one and have not put it anywhere yet.
Regs ==
    \A t \in Task :
        /\ lb[t] # NIL => pc[t] \in {"Send_STI", "Wait03", "Wait06"}
        /\ pc[t] \in {"Send_STI", "Wait06"} => lb[t] # NIL
        /\ tss[t] # NIL => pc[t] \in {"Send_STI", "ST0004"}
        /\ pc[t] = "ST0004" => tss[t] # NIL

\* A task that others have in their hands executes nothing.
Parked(t) == t \in pFreeTSS \/ Waiting(t) \/ Transit(t)

ParkedRegs ==
    \A t \in Task :
        /\ Parked(t) => pc[t] \in {"run", "Wait03"} /\ lb[t] = NIL
        /\ Waiting(t) => pc[t] = "Wait03"
        /\ \A s \in Task : tss[s] = t /\ pc[s] = "Send_STI" => pc[t] = "Wait03"
        /\ (Running(t) \/ Ready(t)) /\ pc[t] = "Wait03" => lb[t] # NIL

\* The inductive invariant.
IInv ==
    /\ TypeOK
    /\ TasksDisjoint
    /\ LinkBlocksDisjoint
    /\ Regs
    /\ ParkedRegs

-----------------------------------------------------------------------------
(* Queues of one kind. *)

\* What the elements of a queue of one kind are.
LEMMA ToSetKind ==
    ASSUME NEW S, NEW s \in Seq(S)
    PROVE  ToSet(s) \subseteq S
BY LenProperties, ElementOfSeq DEF ToSet

\* What is queued at an exchange that holds one kind.
LEMMA Kinds ==
    ASSUME TypeOK, Intact, NEW e \in Exch
    PROVE  /\ queue[e] \in Seq(LB) \cup Seq(Task)
           /\ queue[e] \in Seq(Task \cup LB)
           /\ fEMsg[e] => queue[e] \in Seq(LB) /\ ToSet(queue[e]) \subseteq LB
           /\ ~fEMsg[e] => queue[e] \in Seq(Task) /\ ToSet(queue[e]) \subseteq Task
           /\ HasMsg(e) => Head(queue[e]) \in LB
           /\ HasTSS(e) => Head(queue[e]) \in Task
<1>1. queue[e] \in Seq(Task \cup LB)
  BY DEF TypeOK
<1>2. /\ fEMsg[e] => queue[e] \in Seq(LB)
      /\ ~fEMsg[e] => queue[e] \in Seq(Task)
      /\ queue[e] \in Seq(LB) \cup Seq(Task)
  BY DEF Intact, OneKind
<1>3. /\ queue[e] \in Seq(LB) => ToSet(queue[e]) \subseteq LB
      /\ queue[e] \in Seq(Task) => ToSet(queue[e]) \subseteq Task
  BY ToSetKind
<1>4. /\ queue[e] \in Seq(LB) /\ queue[e] # << >> => Head(queue[e]) \in LB
      /\ queue[e] \in Seq(Task) /\ queue[e] # << >> => Head(queue[e]) \in Task
  BY HeadTailProperties
<1> QED
  BY <1>1, <1>2, <1>3, <1>4 DEF HasMsg, HasTSS

\* enQueueMsg, and its twin for the TSS of a task that waits.
LEMMA PutAtExch ==
    ASSUME TypeOK, EachOnce(queue), NEW e \in Exch, NEW x,
           x \in Task \/ x \in LB, ~Queued(queue, x)
    PROVE  /\ Put(queue, e, x) \in [Exch -> Seq(Task \cup LB)]
           /\ \A y : Queued(Put(queue, e, x), y) <=> Queued(queue, y) \/ y = x
           /\ EachOnce(Put(queue, e, x))
<1>1. PICK U : U = Task \cup LB
  OBVIOUS
<1>2. queue \in [Exch -> Seq(U)] /\ x \in U
  BY <1>1 DEF TypeOK
<1> QED
  BY <1>1, <1>2, PutQueued

\* ETail is a pointer or NIL after each step that links something.
LEMMA RetailedType ==
    ASSUME TypeOK, NEW e \in Exch
    PROVE  Retailed(e) \in [Exch -> BOOLEAN]
BY DEF Retailed, Detached, TypeOK

\* The same when nothing may lead to what is linked: it is in no queue then.
LEMMA EnQueueAtExch ==
    ASSUME TypeOK, EachOnce(queue), NEW e \in Exch, NEW x,
           x \in Task \/ x \in LB, ~Queued(queue, x)
    PROVE  /\ enQueue(e, x) \in [Exch -> Seq(Task \cup LB)]
           /\ \A y : Queued(queue, y) => Queued(enQueue(e, x), y)
           /\ \A y : Queued(enQueue(e, x), y) => Queued(queue, y) \/ y = x
           /\ EachOnce(enQueue(e, x))
<1>1. CASE Detached(e)
  BY <1>1 DEF enQueue, TypeOK
<1>2. CASE ~Detached(e)
  BY <1>2, PutAtExch DEF enQueue
<1> QED
  BY <1>1, <1>2

\* deQueueMsg and deQueueTSS.
LEMMA PopAtExch ==
    ASSUME TypeOK, EachOnce(queue), NEW e \in Exch, queue[e] # << >>
    PROVE  /\ Pop(queue, e) \in [Exch -> Seq(Task \cup LB)]
           /\ Queued(queue, Head(queue[e]))
           /\ \A y : Queued(Pop(queue, e), y) <=> Queued(queue, y) /\ y # Head(queue[e])
           /\ EachOnce(Pop(queue, e))
<1>1. PICK U : U = Task \cup LB
  OBVIOUS
<1>2. queue \in [Exch -> Seq(U)]
  BY <1>1 DEF TypeOK
<1> QED
  BY <1>1, <1>2, PopQueued

\* Emptying the queue of an exchange.
LEMMA ClearAtExch ==
    ASSUME TypeOK, EachOnce(queue), NEW e \in Exch
    PROVE  /\ Clear(queue, e) \in [Exch -> Seq(Task \cup LB)]
           /\ \A y : Queued(Clear(queue, e), y) <=> Queued(queue, y) /\ y \notin ToSet(queue[e])
           /\ EachOnce(Clear(queue, e))
<1>1. PICK U : U = Task \cup LB
  OBVIOUS
<1>2. queue \in [Exch -> Seq(U)]
  BY <1>1 DEF TypeOK
<1> QED
  BY <1>1, <1>2, ClearQueued

-----------------------------------------------------------------------------
(* The ready queue. *)

\* deQueueRdy and the switch to what it returns.
LEMMA RunNextMoves ==
    ASSUME NEW r \in [Pri -> Seq(Task)], EachOnce(r), RunNext(r)
    PROVE  /\ RdyQ' \in [Pri -> Seq(Task)]
           /\ EachOnce(RdyQ')
           /\ pRunTSS' \in Task
           /\ Queued(r, pRunTSS')
           /\ \A y : Queued(RdyQ', y) <=> Queued(r, y) /\ y # pRunTSS'
           /\ slice' \in {slice, 0}
<1>1. PICK p \in Pri : /\ r[p] # << >>
                       /\ pRunTSS' = Head(r[p])
                       /\ RdyQ' = Pop(r, p)
                       /\ slice' = IF Head(r[p]) = pRunTSS THEN slice ELSE 0
  BY DEF RunNext, HighestReady
<1> QED
  BY <1>1, PopQueued

\* One ready queue.
LEMMA PutReady ==
    ASSUME NEW r \in [Pri -> Seq(Task)], NEW p \in Pri, NEW t \in Task
    PROVE  /\ Put(r, p, t) \in [Pri -> Seq(Task)]
           /\ \A y : Queued(Put(r, p, t), y) <=> Queued(r, y) \/ y = t
           /\ EachOnce(r) /\ ~Queued(r, t) => EachOnce(Put(r, p, t))
BY PutQueued

LEMMA PopReady ==
    ASSUME NEW r \in [Pri -> Seq(Task)], NEW p \in Pri, r[p] # << >>, EachOnce(r)
    PROVE  /\ Pop(r, p) \in [Pri -> Seq(Task)] /\ EachOnce(Pop(r, p))
           /\ Head(r[p]) \in Task /\ Queued(r, Head(r[p]))
           /\ \A y : Queued(Pop(r, p), y) <=> Queued(r, y) /\ y # Head(r[p])
BY PopQueued

\* enQueueRdy.
LEMMA EnQueueRdyAdds ==
    ASSUME NEW r \in [Pri -> Seq(Task)], NEW t \in Task,
           Priority \in [Task -> Pri]
    PROVE  /\ enQueueRdy(r, t) \in [Pri -> Seq(Task)]
           /\ \A y : Queued(enQueueRdy(r, t), y) <=> Queued(r, y) \/ y = t
           /\ EachOnce(r) /\ ~Queued(r, t) => EachOnce(enQueueRdy(r, t))
BY PutReady DEF enQueueRdy

-----------------------------------------------------------------------------
(* The initial state. *)

LEMMA InitIInv == Init => IInv
<1> SUFFICES ASSUME Init PROVE IInv
  OBVIOUS
<1>1. /\ \A x : ~Queued(queue, x)
      /\ EachOnce(queue)
  BY ToSetEmpty DEF Init, Queued, EachOnce
<1>2. TypeOK
  <2>1. queue \in [Exch -> Seq(Task \cup LB)]
    BY DEF Init
  <2>2. 0 \in Exch /\ 0 \in 0 .. SliceTicks
    BY SizesAssumption DEF Exch
  <2>3. /\ Owner0 \in [Exch -> Job \cup {NIL}]
        /\ Ready0 \in [Pri -> Seq(Task)]
        /\ First \in Task
        /\ Job0 \in [Task -> Job \cup {NIL}]
        /\ Priority0 \in [Task -> Pri]
    BY BootAssumption
  <2> QED
    BY <2>1, <2>2, <2>3 DEF Init, TypeOK, Label
<1>4. TasksDisjoint
  BY <1>1, BootAssumption, NamesAssumption DEF Init, TasksDisjoint, Running, Ready, Waiting, Transit
<1>5. LinkBlocksDisjoint
  BY <1>1 DEF Init, LinkBlocksDisjoint
<1>6. Regs
  BY DEF Init, Regs
<1>7. ParkedRegs
  BY <1>1 DEF Init, ParkedRegs, Parked, Waiting, Transit, Running, Ready
<1> QED
  BY <1>2, <1>4, <1>5, <1>6, <1>7 DEF IInv

-----------------------------------------------------------------------------
(* Steps of the running task that move nothing, or empty a queue. *)

\* The stretches of code in which a task has nothing in its registers.
Bare == Label \ {"Send_STI", "Wait03", "Wait06", "ST0004"}

LEMMA MovesNothing ==
    ASSUME IInv, NEW t \in Task, Running(t), pc[t] \in Bare,
           NEW l \in Bare, Goto(t, l),
           Owner' \in [Exch -> Job \cup {NIL}],
           TSS_pJCB' \in [Task -> Job \cup {NIL}],
           Priority' \in [Task -> Pri],
           ex' \in [Task -> Exch],
           queue' \in [Exch -> Seq(Task \cup LB)],
           EachOnce(queue'), \A y : Queued(queue', y) => Queued(queue, y),
           cut' \in [Exch -> BOOLEAN],
           UNCHANGED <<fEMsg, runVars, poolVars, lb, tss>>
    PROVE  IInv'
<1> USE DEF IInv, runVars, poolVars, Goto, Bare
<1>1. TypeOK'
  BY DEF TypeOK
<1>3. TasksDisjoint'
  BY DEF TasksDisjoint, Running, Ready, Waiting, Transit
<1>4. LinkBlocksDisjoint'
  BY DEF LinkBlocksDisjoint
<1>5. \A u \in Task : u # t => pc'[u] = pc[u]
  BY DEF TypeOK
<1>6. pc'[t] = l
  BY DEF TypeOK
<1>7. lb[t] = NIL /\ tss[t] = NIL
  BY DEF Regs
<1>8. Regs'
  BY <1>5, <1>6, <1>7 DEF Regs
<1>9. ~Parked(t)
  BY DEF TasksDisjoint, Parked
<1>10. ParkedRegs'
  BY <1>5, <1>6, <1>7, <1>9 DEF ParkedRegs, Parked, Running, Ready, Waiting, Transit
<1> QED
  BY <1>1, <1>3, <1>4, <1>8, <1>10

\* The checks at the entry of the primitives, their error returns, the
\* allocation of an exchange, and SetPriority.
LEMMA EntriesIInv ==
    ASSUME IInv, NEW t \in Task,
           \/ SendNoLB(t) \/ CheckNone(t) \/ AllocExch(t) \/ AllocReset(t)
           \/ \E e \in Exch : SendMsg(t, e) \/ WaitMsg(t, e)
                              \/ CheckMsg(t, e) \/ DeAllocExch(t, e)
           \/ \E p \in Pri : SpawnTask(t, p) \/ SetPriority(t, p)
    PROVE  IInv'
<1> USE DEF IInv, Calling, At, Running, tssVars, regVars, poolVars, runVars,
            Bare, Label
<1>0. /\ queue \in [Exch -> Seq(Task \cup LB)] /\ cut \in [Exch -> BOOLEAN]
      /\ Owner \in [Exch -> Job \cup {NIL}] /\ ex \in [Task -> Exch]
      /\ TSS_pJCB \in [Task -> Job \cup {NIL}] /\ Priority \in [Task -> Pri]
      /\ EachOnce(queue)
  BY DEF TypeOK, LinkBlocksDisjoint
<1>1. CASE SendNoLB(t) \/ CheckNone(t)
  BY <1>0, <1>1, MovesNothing DEF SendNoLB, CheckNone, exchVars
<1>2. ASSUME NEW l \in {"AE001", "ST_AE001"}, At(t, "run"), AllocOwner(t, l)
      PROVE  IInv'
  <2>1. PICK e \in Exch : /\ Owner' = [Owner EXCEPT ![e] = TSS_pJCB[t]]
                          /\ queue' = Clear(queue, e)
                          /\ ex' = [ex EXCEPT ![t] = e]
    BY <1>2 DEF AllocOwner
  <2>2. Owner' \in [Exch -> Job \cup {NIL}] /\ ex' \in [Task -> Exch]
    BY <1>0, <2>1
  <2>3. /\ Goto(t, l)
        /\ UNCHANGED <<fEMsg, cut, RdyQ, pRunTSS, dfHalted, slice, pFreeLB,
                       pFreeTSS, TSS_pJCB, Priority, lb, tss>>
    BY <1>2 DEF AllocOwner
  <2>4. /\ TSS_pJCB' \in [Task -> Job \cup {NIL}] /\ Priority' \in [Task -> Pri]
        /\ cut' \in [Exch -> BOOLEAN]
    BY <1>0, <2>3
  <2>5. /\ queue' \in [Exch -> Seq(Task \cup LB)]
        /\ EachOnce(queue') /\ \A y : Queued(queue', y) => Queued(queue, y)
    BY <1>0, <2>1, ClearAtExch
  <2> QED
    BY <1>2, <2>2, <2>3, <2>4, <2>5, MovesNothing
<1>3. ASSUME NEW e \in Exch,
             SendMsg(t, e) \/ WaitMsg(t, e) \/ CheckMsg(t, e)
      PROVE  IInv'
  BY <1>0, <1>3, MovesNothing DEF SendMsg, WaitMsg, CheckMsg, exchVars
<1>4. ASSUME NEW e \in Exch, DeAllocExch(t, e)
      PROVE  IInv'
  <2>1. PICK l \in {"DE000", "run"} : Goto(t, l)
    BY <1>4 DEF DeAllocExch
  <2> QED
    BY <1>0, <1>4, <2>1, MovesNothing DEF DeAllocExch, exchVars
<1>5. ASSUME NEW p \in Pri, SetPriority(t, p)
      PROVE  IInv'
  <2>1. Goto(t, "run")
    BY <1>5 DEF SetPriority, Goto, TypeOK
  <2> QED
    BY <1>0, <1>5, <2>1, MovesNothing DEF SetPriority, exchVars
<1>6. CASE AllocExch(t) \/ \E p \in Pri : SpawnTask(t, p)
  BY <1>2, <1>6 DEF AllocExch, SpawnTask
<1>7. CASE AllocReset(t)
  <2>1. PICK l \in {"run", "ST_TSS"} : Goto(t, l)
    BY <1>7 DEF AllocReset
  <2>2. /\ pc[t] \in {"AE001", "ST_AE001"} /\ pRunTSS = t /\ ~dfHalted
        /\ UNCHANGED <<Owner, queue, fEMsg, RdyQ, pRunTSS, dfHalted, slice, pFreeLB,
                       pFreeTSS, TSS_pJCB, Priority, ex, lb, tss>>
        /\ cut' = [cut EXCEPT ![ex[t]] = queue[ex[t]] # << >>]
    BY <1>7 DEF AllocReset
  <2>3. cut' \in [Exch -> BOOLEAN]
    BY <1>0, <2>2
  <2> QED
    BY <1>0, <2>1, <2>2, <2>3, MovesNothing
<1> QED
  BY <1>1, <1>3, <1>4, <1>5, <1>6, <1>7

-----------------------------------------------------------------------------
(* SendMsg. *)

LEMMA SendTakeIInv ==
    ASSUME IInv, NEW t \in Task, SendTake(t)
    PROVE  IInv'
<1> DEFINE e == ex[t]
           h == Head(queue[e])
<1> USE DEF IInv, runVars, tssVars, Goto
<1>1. /\ Intact /\ pRunTSS = t /\ ~dfHalted /\ pc[t] = "Send01"
      /\ e \in Exch
      /\ UNCHANGED <<Owner, fEMsg, cut, runVars, pFreeTSS, tssVars, ex>>
      /\ pc' = [pc EXCEPT ![t] = "Send_STI"]
  BY DEF SendTake, At, TypeOK
<1>2. PICK b \in pFreeLB : pFreeLB' = pFreeLB \ {b} /\ lb' = [lb EXCEPT ![t] = b]
  BY DEF SendTake
<1>3. \/ ~HasTSS(e) /\ UNCHANGED <<tss, queue>>
      \/ HasTSS(e) /\ tss' = [tss EXCEPT ![t] = h] /\ queue' = Pop(queue, e)
  BY DEF SendTake
<1>4. b \in LB /\ b # NIL /\ b \notin Task /\ NIL \notin Task
  BY <1>2, NamesAssumption DEF TypeOK
<1>5. ASSUME HasTSS(e)
      PROVE  /\ h \in Task /\ Waiting(h)
             /\ Pop(queue, e) \in [Exch -> Seq(Task \cup LB)]
             /\ EachOnce(Pop(queue, e))
             /\ \A y : Queued(Pop(queue, e), y) <=> Queued(queue, y) /\ y # h
  <2>1. queue[e] # << >> /\ h \in Task
    BY <1>1, <1>5, Kinds DEF HasTSS
  <2> QED
    BY <1>1, <2>1, PopAtExch DEF Waiting, LinkBlocksDisjoint
<1>6. lb[t] = NIL /\ tss[t] = NIL /\ ~Parked(t)
  BY <1>1 DEF Regs, TasksDisjoint, Parked, Running
<1>7. TypeOK'
  <2>1. queue' \in [Exch -> Seq(Task \cup LB)] /\ tss' \in [Task -> Task \cup {NIL}]
    BY <1>1, <1>3, <1>5 DEF TypeOK
  <2>2. /\ pFreeLB' \in SUBSET LB /\ lb' \in [Task -> LB \cup {NIL}]
        /\ pc' \in [Task -> Label]
    BY <1>1, <1>2, <1>4 DEF TypeOK, Label
  <2> QED
    BY <1>1, <2>1, <2>2 DEF TypeOK
<1>9. /\ \A u \in Task : u # t => pc'[u] = pc[u] /\ lb'[u] = lb[u] /\ tss'[u] = tss[u]
      /\ pc'[t] = "Send_STI" /\ lb'[t] = b
      /\ tss'[t] \in {NIL, h} /\ (tss'[t] = h /\ h \in Task => HasTSS(e))
  BY <1>1, <1>2, <1>3, <1>4, <1>6 DEF TypeOK
<1>10. /\ EachOnce(queue')
       /\ \A y : Queued(queue', y) => Queued(queue, y)
       /\ HasTSS(e) => ~Queued(queue', h)
  BY <1>3, <1>5 DEF LinkBlocksDisjoint
<1>11. TasksDisjoint'
  BY <1>1, <1>5, <1>6, <1>9, <1>10 DEF TasksDisjoint, Running, Ready, Waiting, Transit
<1>12. LinkBlocksDisjoint'
  BY <1>2, <1>4, <1>9, <1>10 DEF LinkBlocksDisjoint
<1>13. Regs'
  BY <1>1, <1>4, <1>6, <1>9 DEF Regs
<1>14. ParkedRegs'
  BY <1>1, <1>4, <1>5, <1>6, <1>9, <1>10
     DEF ParkedRegs, Parked, Running, Ready, Waiting, Transit
<1> QED
  BY <1>7, <1>11, <1>12, <1>13, <1>14

LEMMA SendQueueIInv ==
    ASSUME IInv, NEW t \in Task, SendQueue(t)
    PROVE  IInv'
<1> DEFINE e == ex[t]
           b == lb[t]
<1> USE DEF IInv, runVars, tssVars, poolVars, Goto
<1>1. /\ Intact /\ pRunTSS = t /\ ~dfHalted /\ pc[t] = "Send_STI"
      /\ e \in Exch /\ tss[t] = NIL
      /\ queue' = enQueue(e, b)
      /\ fEMsg' = [fEMsg EXCEPT ![e] = TRUE]
      /\ cut' = Retailed(e)
      /\ lb' = [lb EXCEPT ![t] = NIL]
      /\ pc' = [pc EXCEPT ![t] = "run"]
      /\ UNCHANGED <<Owner, RdyQ, pRunTSS, dfHalted, slice, pFreeLB, pFreeTSS,
                     TSS_pJCB, Priority, ex, tss>>
  BY DEF SendQueue, At, TypeOK
<1>2. b \in LB \ Task /\ b # NIL /\ NIL \notin Task
  BY <1>1, NamesAssumption DEF TypeOK, Regs
<1>3. ~Queued(queue, b) /\ b \notin pFreeLB /\ EachOnce(queue)
  BY <1>2 DEF LinkBlocksDisjoint
<1>4. /\ queue' \in [Exch -> Seq(Task \cup LB)]
      /\ \A y : Queued(queue, y) => Queued(queue', y)
      /\ \A y : Queued(queue', y) => Queued(queue, y) \/ y = b
      /\ EachOnce(queue')
  BY <1>1, <1>2, <1>3, EnQueueAtExch
<1>5. TypeOK'
  <2>0. cut' \in [Exch -> BOOLEAN]
    BY <1>1, RetailedType
  <2>1. /\ fEMsg' \in [Exch -> BOOLEAN]
        /\ lb' \in [Task -> LB \cup {NIL}]
        /\ pc' \in [Task -> Label]
    BY <1>1 DEF TypeOK, Label
  <2> QED
    BY <1>1, <1>4, <2>0, <2>1 DEF TypeOK
<1>7. /\ \A u \in Task : u # t => pc'[u] = pc[u] /\ lb'[u] = lb[u]
      /\ pc'[t] = "run" /\ lb'[t] = NIL
  BY <1>1 DEF TypeOK
<1>8. TasksDisjoint'
  BY <1>1, <1>2, <1>4 DEF TasksDisjoint, Running, Ready, Waiting, Transit
<1>9. LinkBlocksDisjoint'
  BY <1>1, <1>2, <1>3, <1>4, <1>7 DEF LinkBlocksDisjoint
<1>10. Regs'
  BY <1>1, <1>7 DEF Regs
<1>11. ~Parked(t)
  BY <1>1 DEF TasksDisjoint, Parked, Running
<1>12. ParkedRegs'
  BY <1>1, <1>2, <1>4, <1>7, <1>11
     DEF ParkedRegs, Parked, Running, Ready, Waiting, Transit
<1> QED
  BY <1>5, <1>8, <1>9, <1>10, <1>12

LEMMA SendHandOverIInv ==
    ASSUME IInv, NEW t \in Task, SendHandOver(t)
    PROVE  IInv'
<1> DEFINE w == tss[t]
           r == enQueueRdy(enQueueRdy(RdyQ, w), t)
<1> USE DEF IInv, exchVars, tssVars, poolVars, Goto
<1>1. /\ pRunTSS = t /\ ~dfHalted /\ pc[t] = "Send_STI"
      /\ w # NIL
      /\ lb' = [lb EXCEPT ![w] = lb[t], ![t] = NIL]
      /\ tss' = [tss EXCEPT ![t] = NIL]
      /\ RunNext(r)
      /\ pc' = [pc EXCEPT ![t] = "run"]
      /\ UNCHANGED <<Owner, queue, fEMsg, cut, dfHalted, pFreeLB, pFreeTSS,
                     TSS_pJCB, Priority, ex>>
  BY DEF SendHandOver, At
<1>2. /\ w \in Task /\ Transit(w)
      /\ Running(t)
      /\ lb[t] # NIL
      /\ NIL \notin Task
  BY <1>1, NamesAssumption DEF TypeOK, Transit, Running, Regs
<1>3. /\ w # t
      /\ pc[w] = "Wait03" /\ lb[w] = NIL
      /\ w \notin pFreeTSS /\ ~Ready(w) /\ ~Waiting(w)
      /\ ~Ready(t) /\ ~Parked(t)
  BY <1>1, <1>2 DEF TasksDisjoint, ParkedRegs, Parked
<1>4. /\ r \in [Pri -> Seq(Task)]
      /\ EachOnce(r)
      /\ \A y : Queued(r, y) <=> Queued(RdyQ, y) \/ y = w \/ y = t
  <2>1. RdyQ \in [Pri -> Seq(Task)] /\ EachOnce(RdyQ) /\ Priority \in [Task -> Pri]
    BY DEF TypeOK, TasksDisjoint
  <2>2. /\ enQueueRdy(RdyQ, w) \in [Pri -> Seq(Task)]
        /\ EachOnce(enQueueRdy(RdyQ, w))
        /\ \A y : Queued(enQueueRdy(RdyQ, w), y) <=> Queued(RdyQ, y) \/ y = w
    BY <1>2, <1>3, <2>1, EnQueueRdyAdds DEF Ready
  <2> QED
    BY <1>3, <2>1, <2>2, EnQueueRdyAdds DEF Ready
<1>5. /\ RdyQ' \in [Pri -> Seq(Task)]
      /\ EachOnce(RdyQ')
      /\ pRunTSS' \in Task
      /\ Queued(RdyQ, pRunTSS') \/ pRunTSS' = w \/ pRunTSS' = t
      /\ \A y : Queued(RdyQ', y) <=>
                  (Queued(RdyQ, y) \/ y = w \/ y = t) /\ y # pRunTSS'
      /\ slice' \in {slice, 0}
  BY <1>1, <1>4, RunNextMoves
<1>6. /\ \A u \in Task : u # t => pc'[u] = pc[u] /\ tss'[u] = tss[u]
      /\ \A u \in Task : u # t /\ u # w => lb'[u] = lb[u]
      /\ pc'[t] = "run" /\ tss'[t] = NIL /\ lb'[t] = NIL /\ lb'[w] = lb[t]
  BY <1>1, <1>2, <1>3 DEF TypeOK
<1>7. TypeOK'
  <2>1. slice' \in 0 .. SliceTicks
    BY <1>5, SizesAssumption DEF TypeOK
  <2>2. lb' \in [Task -> LB \cup {NIL}]
    BY <1>1, <1>2 DEF TypeOK
  <2> QED
    BY <1>1, <1>5, <2>1, <2>2 DEF TypeOK, Label
<1>13. \A u \in Task :
        /\ Running(u)' <=> u = pRunTSS'
        /\ Ready(u)' <=> (Ready(u) \/ u = w \/ u = t) /\ u # pRunTSS'
        /\ Waiting(u)' <=> Waiting(u)
        /\ Transit(u)' => Transit(u) /\ u # w
  <2>1. \A u \in Task : (\E s \in Task : tss'[s] = u) =>
                            u # w /\ \E s \in Task : tss[s] = u
    BY <1>2, <1>3, <1>6 DEF TasksDisjoint
  <2> QED
    BY <1>1, <1>5, <2>1 DEF Running, Ready, Waiting, Transit
<1>9. TasksDisjoint'
  <2>1. \A u, s, v \in Task : tss'[s] = u /\ tss'[v] = u => s = v
    BY <1>2, <1>6 DEF TasksDisjoint
  <2>2. \A u \in Task : Running(u) => u = t
    BY <1>1 DEF Running
  <2>3. \A u \in Task : u = pRunTSS' => Ready(u) \/ u = w \/ u = t
    BY <1>5 DEF Ready
  <2>4. UNCHANGED pFreeTSS /\ EachOnce(RdyQ)'
    BY <1>1, <1>5
  <2> QED
    BY <1>2, <1>3, <1>13, <2>1, <2>2, <2>3, <2>4 DEF TasksDisjoint, Parked
<1>10. LinkBlocksDisjoint'
  <2>1. /\ UNCHANGED <<queue, pFreeLB>>
        /\ EachOnce(queue) /\ \A b \in pFreeLB : ~Queued(queue, b)
    BY <1>1 DEF LinkBlocksDisjoint
  <2>2. \A u \in Task : lb[u] # NIL =>
          /\ lb[u] \notin pFreeLB /\ ~Queued(queue, lb[u])
          /\ \A v \in Task : lb[v] = lb[u] => v = u
    BY DEF LinkBlocksDisjoint
  <2>3. \A u \in Task : lb'[u] # NIL =>
          \/ lb'[u] = lb[u] /\ u # t /\ u # w
          \/ lb'[u] = lb[t] /\ u = w
    BY <1>2, <1>6
  <2>4. \A u \in Task : lb'[u] # NIL =>
          /\ lb'[u] \notin pFreeLB /\ ~Queued(queue, lb'[u])
          /\ \A v \in Task \ {u} : lb'[v] # lb'[u]
    BY <1>2, <2>2, <2>3
  <2> QED
    BY <2>1, <2>4 DEF LinkBlocksDisjoint
<1>11. Regs'
  <2>1. \A u \in Task : u # t /\ u # w =>
          pc'[u] = pc[u] /\ lb'[u] = lb[u] /\ tss'[u] = tss[u]
    BY <1>6
  <2>2. pc'[w] = "Wait03" /\ lb'[w] # NIL /\ tss'[w] = tss[w] /\ tss[w] = NIL
    BY <1>2, <1>3, <1>6 DEF Regs
  <2> QED
    BY <1>6, <2>1, <2>2 DEF Regs
<1>12. ParkedRegs'
  <2>1. \A u \in Task : Parked(u)' => Parked(u) /\ u # w /\ u # t
    BY <1>1, <1>2, <1>3, <1>13 DEF Parked
  <2>2. \A u \in Task : (Running(u) \/ Ready(u))' => Running(u) \/ Ready(u) \/ u = w
    BY <1>2, <1>5, <1>13 DEF Ready
  <2>3. \A u \in Task : Parked(u)' => pc'[u] \in {"run", "Wait03"} /\ lb'[u] = NIL
    BY <1>6, <2>1 DEF ParkedRegs
  <2>4. \A u \in Task : Waiting(u)' => pc'[u] = "Wait03"
    BY <1>3, <1>6, <1>13, <2>1 DEF ParkedRegs, Parked
  <2>5. \A u, s \in Task : tss'[s] = u /\ pc'[s] = "Send_STI" => pc'[u] = "Wait03"
    <3> SUFFICES ASSUME NEW u \in Task, NEW s \in Task,
                        tss'[s] = u, pc'[s] = "Send_STI"
                 PROVE  pc'[u] = "Wait03"
      OBVIOUS
    <3>1. s # t /\ tss[s] = u /\ pc[s] = "Send_STI"
      BY <1>6
    <3>2. Transit(u) /\ u # t
      BY <1>3, <3>1 DEF Transit, Parked
    <3> QED
      BY <1>6, <3>1, <3>2 DEF ParkedRegs
  <2>6. \A u \in Task : (Running(u) \/ Ready(u))' /\ pc'[u] = "Wait03" => lb'[u] # NIL
    BY <1>2, <1>6, <2>2 DEF ParkedRegs
  <2> QED
    BY <2>3, <2>4, <2>5, <2>6 DEF ParkedRegs
<1> QED
  BY <1>7, <1>9, <1>10, <1>11, <1>12

-----------------------------------------------------------------------------
(* WaitMsg and CheckMsg. *)

LEMMA TakeMsgIInv ==
    ASSUME IInv, NEW t \in Task, TakeMsg(t)
    PROVE  IInv'
<1> DEFINE e == ex[t]
           b == Head(queue[e])
<1> USE DEF IInv
<1>1. /\ Intact /\ pRunTSS = t /\ ~dfHalted /\ pc[t] \in {"Wait01", "Chk02"}
      /\ e \in Exch /\ HasMsg(e)
      /\ queue' = Pop(queue, e)
      /\ lb' = [lb EXCEPT ![t] = b]
      /\ pc' = [pc EXCEPT ![t] = "Wait06"]
      /\ UNCHANGED <<Owner, fEMsg, cut, RdyQ, pRunTSS, dfHalted, slice, pFreeLB,
                     pFreeTSS, TSS_pJCB, Priority, ex, tss>>
  BY DEF TakeMsg, At, Goto, TypeOK, runVars, poolVars, tssVars
<1>2. b \in LB /\ b # NIL /\ b \notin Task /\ queue[e] # << >>
  BY <1>1, NamesAssumption, Kinds DEF HasMsg
<1>3. /\ queue' \in [Exch -> Seq(Task \cup LB)]
      /\ Queued(queue, b)
      /\ \A y : Queued(queue', y) <=> Queued(queue, y) /\ y # b
      /\ EachOnce(queue')
  BY <1>1, <1>2, PopAtExch DEF LinkBlocksDisjoint
<1>4. Running(t) /\ ~Parked(t) /\ lb[t] = NIL /\ tss[t] = NIL
  BY <1>1 DEF TasksDisjoint, Parked, Running, Regs
<1>5. /\ \A u \in Task : u # t => pc'[u] = pc[u] /\ lb'[u] = lb[u]
      /\ pc'[t] = "Wait06" /\ lb'[t] = b
  BY <1>1 DEF TypeOK
<1>6. TypeOK'
  <2>1. lb' \in [Task -> LB \cup {NIL}] /\ pc' \in [Task -> Label]
    BY <1>1, <1>2 DEF TypeOK, Label
  <2> QED
    BY <1>1, <1>3, <2>1 DEF TypeOK
<1>7. \A u \in Task :
        /\ Running(u)' <=> Running(u)
        /\ Ready(u)' <=> Ready(u)
        /\ Waiting(u)' <=> Waiting(u)
        /\ Transit(u)' <=> Transit(u)
  BY <1>1, <1>2, <1>3 DEF Running, Ready, Waiting, Transit
<1>8. TasksDisjoint'
  BY <1>1, <1>7 DEF TasksDisjoint
<1>9. LinkBlocksDisjoint'
  BY <1>1, <1>2, <1>3, <1>5 DEF LinkBlocksDisjoint
<1>10. Regs'
  BY <1>1, <1>2, <1>4, <1>5 DEF Regs
<1>11. ParkedRegs'
  BY <1>1, <1>4, <1>5, <1>7 DEF ParkedRegs, Parked, Transit
<1> QED
  BY <1>3, <1>6, <1>8, <1>9, <1>10, <1>11

LEMMA DeliverIInv ==
    ASSUME IInv, NEW t \in Task, Deliver(t)
    PROVE  IInv'
<1> USE DEF IInv
<1>1. /\ pRunTSS = t /\ ~dfHalted /\ pc[t] \in {"Wait03", "Wait06"}
      /\ pFreeLB' = pFreeLB \cup {lb[t]}
      /\ lb' = [lb EXCEPT ![t] = NIL]
      /\ pc' = [pc EXCEPT ![t] = "run"]
      /\ UNCHANGED <<Owner, queue, fEMsg, cut, RdyQ, pRunTSS, dfHalted, slice,
                     pFreeTSS, TSS_pJCB, Priority, ex, tss>>
  BY DEF Deliver, At, Goto, runVars, exchVars, tssVars
<1>2. Running(t) /\ ~Parked(t) /\ lb[t] # NIL /\ tss[t] = NIL /\ lb[t] \in LB
  BY <1>1 DEF TasksDisjoint, Parked, Running, Regs, ParkedRegs, TypeOK
<1>3. /\ \A u \in Task : u # t => pc'[u] = pc[u] /\ lb'[u] = lb[u]
      /\ pc'[t] = "run" /\ lb'[t] = NIL
  BY <1>1 DEF TypeOK
<1>4. TypeOK'
  BY <1>1, <1>2 DEF TypeOK, Label
<1>6. \A u \in Task :
        /\ Running(u)' <=> Running(u)
        /\ Ready(u)' <=> Ready(u)
        /\ Waiting(u)' <=> Waiting(u)
        /\ Transit(u)' <=> Transit(u)
  BY <1>1 DEF Running, Ready, Waiting, Transit
<1>7. TasksDisjoint'
  BY <1>1, <1>6 DEF TasksDisjoint
<1>8. LinkBlocksDisjoint'
  BY <1>1, <1>2, <1>3 DEF LinkBlocksDisjoint
<1>9. Regs'
  BY <1>1, <1>2, <1>3 DEF Regs
<1>10. ParkedRegs'
  BY <1>1, <1>2, <1>3, <1>6 DEF ParkedRegs, Parked, Transit
<1> QED
  BY <1>4, <1>7, <1>8, <1>9, <1>10

LEMMA WaitBlockIInv ==
    ASSUME IInv, NEW t \in Task, WaitBlock(t)
    PROVE  IInv'
<1> DEFINE e == ex[t]
<1> USE DEF IInv
<1>1. /\ Intact /\ pRunTSS = t /\ ~dfHalted /\ pc[t] = "Wait01"
      /\ e \in Exch
      /\ queue' = enQueue(e, t)
      /\ fEMsg' = [fEMsg EXCEPT ![e] = FALSE]
      /\ cut' = Retailed(e)
      /\ pc' = [pc EXCEPT ![t] = "Wait03"]
      /\ UNCHANGED <<Owner, pFreeLB, pFreeTSS, TSS_pJCB, Priority, ex, lb, tss>>
  BY DEF WaitBlock, At, Goto, TypeOK, regVars, poolVars, tssVars
<1>2. \/ dfHalted' = TRUE /\ UNCHANGED <<RdyQ, pRunTSS, slice>>
      \/ RunNext(RdyQ) /\ dfHalted' = dfHalted
  BY DEF WaitBlock
<1>3. Running(t) /\ ~Ready(t) /\ ~Parked(t) /\ lb[t] = NIL /\ tss[t] = NIL /\ t \notin LB
  BY <1>1, NamesAssumption DEF TasksDisjoint, Parked, Running, Regs
<1>4. /\ queue' \in [Exch -> Seq(Task \cup LB)]
      /\ \A y : Queued(queue, y) => Queued(queue', y)
      /\ \A y : Queued(queue', y) => Queued(queue, y) \/ y = t
      /\ EachOnce(queue')
  BY <1>1, <1>3, EnQueueAtExch DEF LinkBlocksDisjoint, Parked, Waiting
<1>6. /\ RdyQ' \in [Pri -> Seq(Task)] /\ EachOnce(RdyQ')
      /\ pRunTSS' \in Task /\ dfHalted' \in BOOLEAN /\ slice' \in {slice, 0}
      /\ \/ /\ dfHalted' = TRUE /\ RdyQ' = RdyQ
         \/ /\ dfHalted' = FALSE /\ Queued(RdyQ, pRunTSS')
            /\ \A y : Queued(RdyQ', y) <=> Queued(RdyQ, y) /\ y # pRunTSS'
  <2>1. /\ RdyQ \in [Pri -> Seq(Task)] /\ EachOnce(RdyQ)
        /\ pRunTSS \in Task
    BY DEF TypeOK, TasksDisjoint
  <2>2. CASE dfHalted' = TRUE /\ UNCHANGED <<RdyQ, pRunTSS, slice>>
    BY <2>1, <2>2
  <2>3. CASE RunNext(RdyQ) /\ dfHalted' = dfHalted
    <3>1. /\ RdyQ' \in [Pri -> Seq(Task)] /\ EachOnce(RdyQ')
          /\ pRunTSS' \in Task /\ slice' \in {slice, 0}
          /\ Queued(RdyQ, pRunTSS')
          /\ \A y : Queued(RdyQ', y) <=> Queued(RdyQ, y) /\ y # pRunTSS'
      BY <2>1, <2>3, RunNextMoves
    <3>2. dfHalted' = FALSE
      BY <1>1, <2>3 DEF TypeOK
    <3> QED
      BY <3>1, <3>2
  <2> QED
    BY <1>2, <2>2, <2>3
<1>7. \A u \in Task : /\ u # t => pc'[u] = pc[u]
                      /\ pc'[t] = "Wait03"
  BY <1>1 DEF TypeOK
<1>8. TypeOK'
  <2>1. slice' \in 0 .. SliceTicks
    BY <1>6, SizesAssumption DEF TypeOK
  <2>2. /\ fEMsg' \in [Exch -> BOOLEAN] /\ pc' \in [Task -> Label]
        /\ cut' \in [Exch -> BOOLEAN]
    BY <1>1, RetailedType DEF TypeOK, Label
  <2> QED
    BY <1>1, <1>4, <1>6, <2>1, <2>2 DEF TypeOK
<1>9. \A u \in Task :
        /\ Running(u)' => Ready(u) /\ ~Ready(u)'
        /\ Ready(u)' => Ready(u)
        /\ Waiting(u)' => Waiting(u) \/ u = t
        /\ Transit(u)' <=> Transit(u)
  BY <1>1, <1>4, <1>6 DEF Running, Ready, Waiting, Transit
<1>10. TasksDisjoint'
  <2>1. \A u \in Task : Running(u) => u = t
    BY <1>1 DEF Running
  <2> QED
    BY <1>1, <1>3, <1>6, <1>9, <2>1 DEF TasksDisjoint, Parked
<1>11. LinkBlocksDisjoint'
  <2>1. \A u \in Task : lb[u] # t
    BY <1>3, NamesAssumption DEF TypeOK
  <2>2. \A b \in pFreeLB : b # t
    BY <1>3 DEF TypeOK
  <2> QED
    BY <1>1, <1>4, <2>1, <2>2 DEF LinkBlocksDisjoint
<1>12. Regs'
  BY <1>1, <1>3, <1>7 DEF Regs
<1>13. ParkedRegs'
  BY <1>1, <1>3, <1>7, <1>9 DEF ParkedRegs, Parked, Transit
<1> QED
  BY <1>8, <1>10, <1>11, <1>12, <1>13

LEMMA WaitUnhaltIInv ==
    ASSUME IInv, WaitUnhalt
    PROVE  IInv'
<1> USE DEF IInv
<1>1. /\ dfHalted /\ dfHalted' = FALSE /\ RunNext(RdyQ)
      /\ UNCHANGED <<Owner, queue, fEMsg, cut, pFreeLB, pFreeTSS, TSS_pJCB, Priority,
                     pc, ex, lb, tss>>
  BY DEF WaitUnhalt, exchVars, poolVars, tssVars, regVars
<1>2. /\ RdyQ' \in [Pri -> Seq(Task)] /\ EachOnce(RdyQ')
      /\ pRunTSS' \in Task /\ slice' \in {slice, 0}
      /\ Queued(RdyQ, pRunTSS')
      /\ \A y : Queued(RdyQ', y) <=> Queued(RdyQ, y) /\ y # pRunTSS'
  BY <1>1, RunNextMoves DEF TypeOK, TasksDisjoint
<1>3. TypeOK'
  <2>1. slice' \in 0 .. SliceTicks
    BY <1>2, SizesAssumption DEF TypeOK
  <2> QED
    BY <1>1, <1>2, <2>1 DEF TypeOK
<1>5. \A u \in Task :
        /\ Running(u)' => Ready(u) /\ ~Ready(u)'
        /\ Ready(u)' => Ready(u)
        /\ Waiting(u)' <=> Waiting(u)
        /\ Transit(u)' <=> Transit(u)
  BY <1>1, <1>2 DEF Running, Ready, Waiting, Transit
<1>6. TasksDisjoint'
  BY <1>1, <1>2, <1>5 DEF TasksDisjoint
<1>7. LinkBlocksDisjoint'
  BY <1>1 DEF LinkBlocksDisjoint
<1>8. Regs'
  BY <1>1 DEF Regs
<1>9. ParkedRegs'
  BY <1>1, <1>5 DEF ParkedRegs, Parked
<1> QED
  BY <1>3, <1>6, <1>7, <1>8, <1>9

-----------------------------------------------------------------------------
(* DeAllocExch and SpawnTask. *)

LEMMA DeAllocFreeIInv ==
    ASSUME IInv, NEW t \in Task, DeAllocFree(t)
    PROVE  IInv'
<1> DEFINE e == ex[t]
           queued == ToSet(queue[e])
<1> USE DEF IInv
<1>1. /\ Intact /\ pRunTSS = t /\ ~dfHalted /\ pc[t] = "DE000"
      /\ e \in Exch
      /\ queue' = Clear(queue, e)
      /\ Owner' = [Owner EXCEPT ![e] = NIL]
      /\ fEMsg' = [fEMsg EXCEPT ![e] = FALSE]
      /\ pc' = [pc EXCEPT ![t] = "run"]
      /\ UNCHANGED <<cut, RdyQ, pRunTSS, dfHalted, slice, Priority, ex, lb, tss>>
  BY DEF DeAllocFree, At, Goto, TypeOK, runVars, regVars
<1>2. \/ /\ fEMsg[e] /\ pFreeLB' = pFreeLB \cup queued
         /\ UNCHANGED <<pFreeTSS, TSS_pJCB>>
      \/ /\ ~fEMsg[e] /\ pFreeTSS' = pFreeTSS \cup queued
         /\ TSS_pJCB' = [u \in Task |-> IF u \in queued THEN NIL ELSE TSS_pJCB[u]]
         /\ UNCHANGED pFreeLB
  BY DEF DeAllocFree, QueuedAt
<1>3. /\ fEMsg[e] => queued \subseteq LB
      /\ ~fEMsg[e] => queued \subseteq Task
      /\ Task \cap LB = {}
  BY <1>1, NamesAssumption, Kinds
<1>4. /\ queue' \in [Exch -> Seq(Task \cup LB)]
      /\ \A y : Queued(queue', y) <=> Queued(queue, y) /\ y \notin queued
      /\ EachOnce(queue')
  BY <1>1, ClearAtExch DEF LinkBlocksDisjoint
<1>5. \A y \in queued : Queued(queue, y)
  BY <1>1 DEF Queued, TypeOK
<1>6. Running(t) /\ ~Parked(t) /\ lb[t] = NIL /\ tss[t] = NIL
  BY <1>1 DEF TasksDisjoint, Parked, Running, Regs
<1>7. /\ \A u \in Task : u # t => pc'[u] = pc[u]
      /\ pc'[t] = "run"
  BY <1>1 DEF TypeOK
<1>8. /\ pFreeTSS' \in SUBSET Task /\ pFreeLB' \in SUBSET LB
      /\ \A u \in Task : u \in pFreeTSS' => u \in pFreeTSS \/ (Waiting(u) /\ ~Waiting(u)')
      /\ \A b \in LB : b \in pFreeLB' => b \in pFreeLB \/ (Queued(queue, b) /\ ~Queued(queue', b))
  BY <1>2, <1>3, <1>4, <1>5 DEF Waiting, TypeOK
<1>9. TypeOK'
  <2>1. TSS_pJCB' \in [Task -> Job \cup {NIL}]
    BY <1>2 DEF TypeOK
  <2>2. /\ Owner' \in [Exch -> Job \cup {NIL}] /\ fEMsg' \in [Exch -> BOOLEAN]
        /\ pc' \in [Task -> Label]
    BY <1>1 DEF TypeOK, Label
  <2> QED
    BY <1>1, <1>4, <1>8, <2>1, <2>2 DEF TypeOK
<1>10. \A u \in Task :
        /\ Running(u)' <=> Running(u)
        /\ Ready(u)' <=> Ready(u)
        /\ Waiting(u)' => Waiting(u)
        /\ Transit(u)' <=> Transit(u)
  BY <1>1, <1>4 DEF Running, Ready, Waiting, Transit
<1>11. TasksDisjoint'
  BY <1>1, <1>8, <1>10 DEF TasksDisjoint
<1>12. LinkBlocksDisjoint'
  <2>1. \A u \in Task : lb[u] # NIL => lb[u] \in LB
    BY DEF TypeOK
  <2> QED
    BY <1>1, <1>4, <1>8, <2>1 DEF LinkBlocksDisjoint
<1>13. Regs'
  BY <1>1, <1>6, <1>7 DEF Regs
<1>14. ParkedRegs'
  BY <1>1, <1>6, <1>7, <1>8, <1>10 DEF ParkedRegs, Parked, Transit
<1> QED
  BY <1>4, <1>9, <1>11, <1>12, <1>13, <1>14

LEMMA SpawnTSSIInv ==
    ASSUME IInv, NEW t \in Task, SpawnTSS(t)
    PROVE  IInv'
<1> USE DEF IInv
<1>1. /\ pRunTSS = t /\ ~dfHalted /\ pc[t] = "ST_TSS"
      /\ UNCHANGED <<Owner, queue, fEMsg, cut, RdyQ, pRunTSS, dfHalted, slice,
                     pFreeLB, TSS_pJCB, Priority, ex, lb>>
  BY DEF SpawnTSS, At, exchVars, runVars, tssVars
<1>2. Running(t) /\ ~Parked(t) /\ lb[t] = NIL /\ tss[t] = NIL
  BY <1>1 DEF TasksDisjoint, Parked, Running, Regs
<1>3. CASE pFreeTSS = {}
  <2>1. Goto(t, "ST_Free") /\ UNCHANGED <<pFreeTSS, tss>>
    BY <1>3 DEF SpawnTSS
  <2>2. /\ Owner' \in [Exch -> Job \cup {NIL}]
        /\ TSS_pJCB' \in [Task -> Job \cup {NIL}]
        /\ Priority' \in [Task -> Pri]
        /\ ex' \in [Task -> Exch]
        /\ queue' \in [Exch -> Seq(Task \cup LB)] /\ cut' \in [Exch -> BOOLEAN]
        /\ EachOnce(queue')
    BY <1>1 DEF TypeOK, LinkBlocksDisjoint
  <2> QED
    BY <1>1, <1>2, <2>1, <2>2, MovesNothing DEF Bare, Label, runVars, poolVars
<1>4. ASSUME NEW n \in pFreeTSS,
             pFreeTSS' = pFreeTSS \ {n},
             tss' = [tss EXCEPT ![t] = n],
             pc' = [pc EXCEPT ![t] = "ST0004"]
      PROVE  IInv'
  <2>1. /\ n \in Task /\ n # NIL /\ n # t
        /\ ~Running(n) /\ ~Ready(n) /\ ~Waiting(n) /\ ~Transit(n)
    BY <1>2, <1>4, NamesAssumption DEF TypeOK, TasksDisjoint, Parked
  <2>2. /\ \A u \in Task : u # t => pc'[u] = pc[u] /\ tss'[u] = tss[u]
        /\ pc'[t] = "ST0004" /\ tss'[t] = n
    BY <1>4 DEF TypeOK
  <2>3. TypeOK'
    BY <1>1, <1>4, <2>1 DEF TypeOK, Label
  <2>5. \A u \in Task :
          /\ Running(u)' <=> Running(u)
          /\ Ready(u)' <=> Ready(u)
          /\ Waiting(u)' <=> Waiting(u)
          /\ Transit(u)' <=> Transit(u) \/ u = n
    BY <1>1, <1>2, <2>1, <2>2, NamesAssumption DEF Running, Ready, Waiting, Transit
  <2>6. \A u, s, v \in Task : tss'[s] = u /\ tss'[v] = u => s = v
    BY <2>1, <2>2 DEF TasksDisjoint, Transit
  <2>7. TasksDisjoint'
    BY <1>1, <1>4, <2>1, <2>5, <2>6 DEF TasksDisjoint
  <2>8. LinkBlocksDisjoint'
    BY <1>1 DEF LinkBlocksDisjoint
  <2>9. Regs'
    BY <1>1, <1>2, <2>1, <2>2 DEF Regs
  <2>10. ParkedRegs'
    <3>1. \A u \in Task : Parked(u)' <=> Parked(u)
      BY <1>4, <2>1, <2>5 DEF Parked
    <3>2. \A u, s \in Task : tss'[s] = u /\ pc'[s] = "Send_STI" =>
            tss[s] = u /\ pc[s] = "Send_STI" /\ u # t
      BY <1>2, <2>2 DEF Parked, Transit
    <3> QED
      BY <1>1, <1>2, <2>2, <2>5, <3>1, <3>2 DEF ParkedRegs, Waiting
  <2> QED
    BY <2>3, <2>7, <2>8, <2>9, <2>10
<1> QED
  BY <1>3, <1>4 DEF SpawnTSS, Goto

LEMMA SpawnPlaceIInv ==
    ASSUME IInv, NEW t \in Task, NEW p \in Pri, SpawnPlace(t, p)
    PROVE  IInv'
<1> DEFINE n == tss[t]
<1> USE DEF IInv
<1>1. /\ pRunTSS = t /\ ~dfHalted /\ pc[t] = "ST0004"
      /\ TSS_pJCB' = [TSS_pJCB EXCEPT ![n] = TSS_pJCB[t]]
      /\ Priority' = [Priority EXCEPT ![n] = p]
      /\ pc' = [pc EXCEPT ![t] = "run", ![n] = "run"]
      /\ tss' = [tss EXCEPT ![t] = NIL]
      /\ UNCHANGED <<Owner, queue, fEMsg, cut, dfHalted, pFreeLB, pFreeTSS, ex, lb>>
  BY DEF SpawnPlace, At, exchVars, poolVars
<1>2. \/ RdyQ' = enQueueRdy(RdyQ, t) /\ pRunTSS' = n /\ slice' = 0
      \/ RdyQ' = Put(RdyQ, p, n) /\ UNCHANGED <<pRunTSS, slice>>
  BY DEF SpawnPlace
<1>3. /\ n \in Task /\ Transit(n) /\ Running(t) /\ lb[t] = NIL /\ NIL \notin Task
  BY <1>1, NamesAssumption DEF TypeOK, Transit, Running, Regs
<1>4. /\ n # t
      /\ n \notin pFreeTSS /\ ~Ready(n) /\ ~Waiting(n) /\ ~Running(n)
      /\ ~Ready(t) /\ ~Parked(t)
      /\ lb[n] = NIL /\ tss[n] = NIL
  BY <1>3 DEF TasksDisjoint, ParkedRegs, Parked, Regs
<1>5. /\ RdyQ' \in [Pri -> Seq(Task)] /\ EachOnce(RdyQ')
      /\ \/ pRunTSS' = n /\ \A y : Queued(RdyQ', y) <=> Queued(RdyQ, y) \/ y = t
         \/ pRunTSS' = t /\ \A y : Queued(RdyQ', y) <=> Queued(RdyQ, y) \/ y = n
      /\ slice' \in {slice, 0}
  <2>1. RdyQ \in [Pri -> Seq(Task)] /\ EachOnce(RdyQ) /\ Priority \in [Task -> Pri]
    BY DEF TypeOK, TasksDisjoint
  <2>2. CASE RdyQ' = enQueueRdy(RdyQ, t) /\ pRunTSS' = n /\ slice' = 0
    <3>1. /\ RdyQ' \in [Pri -> Seq(Task)] /\ EachOnce(RdyQ')
          /\ \A y : Queued(RdyQ', y) <=> Queued(RdyQ, y) \/ y = t
      BY <1>4, <2>1, <2>2, EnQueueRdyAdds DEF Ready
    <3> QED
      BY <2>2, <3>1
  <2>3. CASE RdyQ' = Put(RdyQ, p, n) /\ UNCHANGED <<pRunTSS, slice>>
    <3>1. /\ RdyQ' \in [Pri -> Seq(Task)] /\ EachOnce(RdyQ')
          /\ \A y : Queued(RdyQ', y) <=> Queued(RdyQ, y) \/ y = n
      BY <1>3, <1>4, <2>1, <2>3, PutReady DEF Ready
    <3> QED
      BY <1>1, <2>3, <3>1
  <2> QED
    BY <1>2, <2>2, <2>3
<1>6. /\ \A u \in Task : u # t /\ u # n => pc'[u] = pc[u]
      /\ \A u \in Task : u # t => tss'[u] = tss[u]
      /\ pc'[t] = "run" /\ pc'[n] = "run" /\ tss'[t] = NIL
  BY <1>1, <1>3 DEF TypeOK
<1>7. TypeOK'
  <2>1. slice' \in 0 .. SliceTicks
    BY <1>5, SizesAssumption DEF TypeOK
  <2>2. /\ TSS_pJCB' \in [Task -> Job \cup {NIL}] /\ Priority' \in [Task -> Pri]
        /\ pc' \in [Task -> Label] /\ tss' \in [Task -> Task \cup {NIL}]
    BY <1>1, <1>3 DEF TypeOK, Label
  <2> QED
    BY <1>1, <1>3, <1>5, <2>1, <2>2 DEF TypeOK
<1>9. \A u \in Task : (\E s \in Task : tss'[s] = u) =>
                          u # n /\ \E s \in Task : tss[s] = u
  BY <1>3, <1>6 DEF TasksDisjoint
<1>10. \A u \in Task :
         /\ Running(u)' <=> u = pRunTSS'
         /\ Ready(u)' <=> (Ready(u) \/ u = n \/ u = t) /\ u # pRunTSS'
         /\ Waiting(u)' <=> Waiting(u)
         /\ Transit(u)' => Transit(u) /\ u # n
  BY <1>1, <1>4, <1>5, <1>9 DEF Running, Ready, Waiting, Transit
<1>11. TasksDisjoint'
  <2>1. \A u, s, v \in Task : tss'[s] = u /\ tss'[v] = u => s = v
    BY <1>3, <1>6 DEF TasksDisjoint
  <2>2. UNCHANGED pFreeTSS /\ EachOnce(RdyQ)' /\ pRunTSS' \in {n, t}
    BY <1>1, <1>5
  <2> QED
    BY <1>4, <1>10, <2>1, <2>2 DEF TasksDisjoint, Parked
<1>12. LinkBlocksDisjoint'
  BY <1>1 DEF LinkBlocksDisjoint
<1>13. Regs'
  <2>1. \A u \in Task : u = t \/ u = n => lb[u] = NIL /\ tss'[u] = NIL /\ pc'[u] = "run"
    BY <1>3, <1>4, <1>6
  <2> QED
    BY <1>1, <1>6, <2>1 DEF Regs
<1>14. ParkedRegs'
  <2>1. \A u \in Task : Parked(u)' => Parked(u) /\ u # n /\ u # t
    BY <1>1, <1>4, <1>10 DEF Parked
  <2>2. \A u \in Task : (Running(u) \/ Ready(u))' => Ready(u) \/ u = n \/ u = t
    BY <1>5, <1>10 DEF Ready
  <2>3. \A u \in Task : Parked(u)' => pc'[u] \in {"run", "Wait03"} /\ lb'[u] = NIL
    BY <1>1, <1>6, <2>1 DEF ParkedRegs
  <2>4. \A u \in Task : Waiting(u)' => pc'[u] = "Wait03"
    BY <1>6, <1>10, <2>1 DEF ParkedRegs, Parked
  <2>5. \A u, s \in Task : tss'[s] = u /\ pc'[s] = "Send_STI" => pc'[u] = "Wait03"
    <3> SUFFICES ASSUME NEW u \in Task, NEW s \in Task,
                        tss'[s] = u, pc'[s] = "Send_STI"
                 PROVE  pc'[u] = "Wait03"
      OBVIOUS
    <3>1. s # t /\ tss[s] = u /\ pc[s] = "Send_STI"
      BY <1>3, <1>6
    <3>2. Transit(u) /\ u # t /\ u # n
      BY <1>4, <1>9, <3>1 DEF Transit, Parked
    <3> QED
      BY <1>6, <3>1, <3>2 DEF ParkedRegs
  <2>6. \A u \in Task : (Running(u) \/ Ready(u))' /\ pc'[u] = "Wait03" => lb'[u] # NIL
    BY <1>1, <1>6, <2>2 DEF ParkedRegs
  <2> QED
    BY <2>3, <2>4, <2>5, <2>6 DEF ParkedRegs
<1> QED
  BY <1>7, <1>11, <1>12, <1>13, <1>14

-----------------------------------------------------------------------------
(* Interrupts. *)

LEMMA ISendMsgIInv ==
    ASSUME IInv, NEW e \in Exch, ISendMsg(e)
    PROVE  IInv'
<1> DEFINE w == Head(queue[e])
<1> USE DEF IInv
<1>1. /\ Intact
      /\ UNCHANGED <<Owner, pRunTSS, dfHalted, slice, pFreeTSS, TSS_pJCB,
                     Priority, pc, ex, tss>>
  BY DEF ISendMsg, tssVars
<1>2. PICK b \in pFreeLB :
        /\ pFreeLB' = pFreeLB \ {b}
        /\ \/ /\ HasTSS(e)
              /\ queue' = Pop(queue, e)
              /\ lb' = [lb EXCEPT ![w] = b]
              /\ RdyQ' = enQueueRdy(RdyQ, w)
              /\ UNCHANGED <<fEMsg, cut>>
           \/ /\ queue' = enQueue(e, b)
              /\ fEMsg' = [fEMsg EXCEPT ![e] = TRUE]
              /\ cut' = Retailed(e)
              /\ UNCHANGED <<lb, RdyQ>>
  BY DEF ISendMsg
<1>3. b \in LB /\ b # NIL /\ b \notin Task /\ ~Queued(queue, b)
  BY NamesAssumption DEF TypeOK, LinkBlocksDisjoint
<1>4. \A u \in Task : lb[u] # b
  BY <1>3 DEF LinkBlocksDisjoint
<1>5. CASE /\ queue' = enQueue(e, b)
           /\ fEMsg' = [fEMsg EXCEPT ![e] = TRUE]
           /\ cut' = Retailed(e)
           /\ UNCHANGED <<lb, RdyQ>>
  <2>1. /\ queue' \in [Exch -> Seq(Task \cup LB)]
        /\ \A y : Queued(queue, y) => Queued(queue', y)
        /\ \A y : Queued(queue', y) => Queued(queue, y) \/ y = b
        /\ EachOnce(queue')
    BY <1>3, <1>5, EnQueueAtExch DEF LinkBlocksDisjoint
  <2>2. TypeOK'
    BY <1>1, <1>2, <1>5, <2>1, RetailedType DEF TypeOK
  <2>4. \A u \in Task :
          /\ Running(u)' <=> Running(u)
          /\ Ready(u)' <=> Ready(u)
          /\ Waiting(u)' <=> Waiting(u)
          /\ Transit(u)' <=> Transit(u)
    BY <1>1, <1>3, <1>5, <2>1 DEF Running, Ready, Waiting, Transit
  <2>5. TasksDisjoint'
    BY <1>1, <1>5, <2>4 DEF TasksDisjoint
  <2>6. LinkBlocksDisjoint'
    BY <1>2, <1>4, <1>5, <2>1 DEF LinkBlocksDisjoint
  <2>7. Regs'
    BY <1>1, <1>5 DEF Regs
  <2>8. ParkedRegs'
    BY <1>1, <1>5, <2>4 DEF ParkedRegs, Parked
  <2> QED
    BY <2>2, <2>5, <2>6, <2>7, <2>8
<1>6. CASE /\ HasTSS(e)
           /\ queue' = Pop(queue, e)
           /\ lb' = [lb EXCEPT ![w] = b]
           /\ RdyQ' = enQueueRdy(RdyQ, w)
           /\ UNCHANGED <<fEMsg, cut>>
  <2>1. queue[e] # << >> /\ w \in Task
    BY <1>1, <1>6, Kinds DEF HasTSS
  <2>2. /\ queue' \in [Exch -> Seq(Task \cup LB)]
        /\ Waiting(w)
        /\ \A y : Queued(queue', y) <=> Queued(queue, y) /\ y # w
        /\ EachOnce(queue')
    BY <1>1, <1>6, <2>1, PopAtExch DEF Waiting, LinkBlocksDisjoint
  <2>3. /\ ~Running(w) /\ ~Ready(w) /\ ~Transit(w) /\ w \notin pFreeTSS
        /\ pc[w] = "Wait03" /\ lb[w] = NIL
    BY <2>1, <2>2 DEF TasksDisjoint, ParkedRegs, Parked
  <2>4. /\ RdyQ' \in [Pri -> Seq(Task)] /\ EachOnce(RdyQ')
        /\ \A y : Queued(RdyQ', y) <=> Queued(RdyQ, y) \/ y = w
    <3>1. RdyQ \in [Pri -> Seq(Task)] /\ EachOnce(RdyQ) /\ Priority \in [Task -> Pri]
      BY DEF TypeOK, TasksDisjoint
    <3> QED
      BY <1>6, <2>1, <2>3, <3>1, EnQueueRdyAdds DEF Ready
  <2>5. /\ \A u \in Task : u # w => lb'[u] = lb[u]
        /\ lb'[w] = b
    BY <1>6, <2>1 DEF TypeOK
  <2>6. TypeOK'
    <3>1. lb' \in [Task -> LB \cup {NIL}] /\ pFreeLB' \in SUBSET LB
      BY <1>2, <1>3, <1>6 DEF TypeOK
    <3> QED
      BY <1>1, <1>6, <2>2, <2>4, <3>1 DEF TypeOK
  <2>7. \A u \in Task :
          /\ Running(u)' <=> Running(u)
          /\ Ready(u)' <=> Ready(u) \/ u = w
          /\ Waiting(u)' <=> Waiting(u) /\ u # w
          /\ Transit(u)' <=> Transit(u)
    BY <1>1, <2>2, <2>4 DEF Running, Ready, Waiting, Transit
  <2>8. TasksDisjoint'
    BY <1>1, <2>3, <2>4, <2>7 DEF TasksDisjoint
  <2>9. LinkBlocksDisjoint'
    BY <1>2, <1>3, <1>4, <2>2, <2>5 DEF LinkBlocksDisjoint
  <2>10. Regs'
    BY <1>1, <1>3, <2>3, <2>5 DEF Regs
  <2>11. ParkedRegs'
    BY <1>1, <1>3, <2>3, <2>5, <2>7 DEF ParkedRegs, Parked
  <2> QED
    BY <2>2, <2>6, <2>8, <2>9, <2>10, <2>11
<1> QED
  BY <1>2, <1>5, <1>6

LEMMA IntTimerIInv ==
    ASSUME IInv, IntTimer
    PROVE  IInv'
<1> DEFINE ticks == IF slice < SliceTicks THEN slice + 1 ELSE slice
<1> USE DEF IInv
<1>1. UNCHANGED <<Owner, queue, fEMsg, cut, dfHalted, pFreeLB, pFreeTSS, TSS_pJCB,
                  Priority, pc, ex, lb, tss>>
  BY DEF IntTimer, exchVars, poolVars, tssVars, regVars
<1>2. RdyQ \in [Pri -> Seq(Task)] /\ EachOnce(RdyQ) /\ Priority \in [Task -> Pri]
  BY DEF TypeOK, TasksDisjoint
<1>3. ticks \in 0 .. SliceTicks /\ 0 \in 0 .. SliceTicks
  BY SizesAssumption DEF TypeOK
<1>4. LinkBlocksDisjoint' /\ Regs'
  BY <1>1 DEF LinkBlocksDisjoint, Regs
<1>5. CASE slice' = ticks /\ UNCHANGED <<pRunTSS, RdyQ>>
  <2>1. TypeOK'
    BY <1>1, <1>3, <1>5 DEF TypeOK
  <2>2. TasksDisjoint'
    BY <1>1, <1>5 DEF TasksDisjoint, Running, Ready, Waiting, Transit
  <2>3. ParkedRegs'
    BY <1>1, <1>5 DEF ParkedRegs, Parked, Running, Ready, Waiting, Transit
  <2> QED
    BY <1>4, <2>1, <2>2, <2>3
<1>6. ASSUME NEW p \in Pri, TaskCheck(ticks, p),
             pRunTSS' = Head(RdyQ[p]),
             RdyQ' = enQueueRdy(Pop(RdyQ, p), pRunTSS),
             slice' = 0
      PROVE  IInv'
  <2>1. pRunTSS \in Task /\ ~dfHalted /\ RdyQ[p] # << >>
    BY <1>6 DEF TaskCheck, HighestReady, TypeOK
  <2>2. Running(pRunTSS) /\ ~Ready(pRunTSS)
    BY <2>1 DEF Running, TasksDisjoint
  <2>3. /\ Pop(RdyQ, p) \in [Pri -> Seq(Task)] /\ EachOnce(Pop(RdyQ, p))
        /\ pRunTSS' \in Task /\ Queued(RdyQ, pRunTSS')
        /\ \A y : Queued(Pop(RdyQ, p), y) <=> Queued(RdyQ, y) /\ y # pRunTSS'
    <3>1. /\ Pop(RdyQ, p) \in [Pri -> Seq(Task)] /\ EachOnce(Pop(RdyQ, p))
          /\ Head(RdyQ[p]) \in Task /\ Queued(RdyQ, Head(RdyQ[p]))
          /\ \A y : Queued(Pop(RdyQ, p), y) <=> Queued(RdyQ, y) /\ y # Head(RdyQ[p])
      BY <1>2, <2>1, PopReady
    <3> QED
      BY <1>6, <3>1
  <2>4. /\ RdyQ' \in [Pri -> Seq(Task)] /\ EachOnce(RdyQ')
        /\ \A y : Queued(RdyQ', y) <=>
                    (Queued(RdyQ, y) /\ y # pRunTSS') \/ y = pRunTSS
    BY <1>2, <1>6, <2>1, <2>2, <2>3, EnQueueRdyAdds DEF Ready
  <2>5. TypeOK'
    BY <1>1, <1>3, <1>6, <2>3, <2>4 DEF TypeOK
  <2>6. pRunTSS' # pRunTSS
    BY <2>2, <2>3 DEF Ready
  <2>7. \A u \in Task :
          /\ Running(u)' <=> u = pRunTSS'
          /\ Ready(u)' <=> (Ready(u) /\ u # pRunTSS') \/ u = pRunTSS
          /\ Waiting(u)' <=> Waiting(u)
          /\ Transit(u)' <=> Transit(u)
    BY <1>1, <2>1, <2>4 DEF Running, Ready, Waiting, Transit
  <2>8. \A u \in Task : u = pRunTSS' => Ready(u)
    BY <2>3 DEF Ready
  <2>9. TasksDisjoint'
    BY <1>1, <2>1, <2>2, <2>4, <2>6, <2>7, <2>8 DEF TasksDisjoint
  <2>10. ParkedRegs'
    BY <1>1, <2>1, <2>2, <2>7, <2>8 DEF ParkedRegs, Parked
  <2> QED
    BY <1>4, <2>5, <2>9, <2>10
<1> QED
  BY <1>5, <1>6 DEF IntTimer

-----------------------------------------------------------------------------
(* The theorems. *)

\* IInv is inductive: every action of Kernel preserves it.
LEMMA NextIInv == IInv /\ [Next]_vars => IInv'
<1> SUFFICES ASSUME IInv, [Next]_vars PROVE IInv'
  OBVIOUS
<1>1. ASSUME NEW t \in Task, Primitive(t)
      PROVE  IInv'
  BY <1>1, EntriesIInv, SendTakeIInv, SendQueueIInv, SendHandOverIInv,
     TakeMsgIInv, WaitBlockIInv, DeliverIInv,
     DeAllocFreeIInv, SpawnTSSIInv, SpawnPlaceIInv DEF Primitive
<1>2. ASSUME NEW t \in Task, Program(t)
      PROVE  IInv'
  BY <1>2, EntriesIInv DEF Program
<1>3. CASE Interrupt
  BY <1>3, IntTimerIInv, ISendMsgIInv, ProgramAssumption DEF Interrupt
<1>4. CASE UNCHANGED vars
  BY <1>4 DEF IInv, TypeOK, TasksDisjoint,
     LinkBlocksDisjoint, Regs, ParkedRegs, Parked, Running, Ready, Waiting, Transit,
     vars, exchVars, runVars, poolVars, tssVars, regVars
<1> QED
  BY <1>1, <1>2, <1>3, <1>4, WaitUnhaltIInv DEF Next

\* Every reachable state satisfies the inductive invariant.
THEOREM Invariance == Spec => []IInv
BY InitIInv, NextIInv, PTL DEF Spec

\* The fields of the kernel's structures have the values their types allow.
THEOREM TypeCorrect == Spec => []TypeOK
<1>1. IInv => TypeOK
  BY DEF IInv
<1> QED
  BY <1>1, Invariance, PTL

\* No task is in two places, or in two queues, at once.
THEOREM TasksNeverShared == Spec => []TasksDisjoint
<1>1. IInv => TasksDisjoint
  BY DEF IInv
<1> QED
  BY <1>1, Invariance, PTL

\* No link block is in use twice.
THEOREM LinkBlocksNeverShared == Spec => []LinkBlocksDisjoint
<1>1. IInv => LinkBlocksDisjoint
  BY DEF IInv
<1> QED
  BY <1>1, Invariance, PTL

\* A task that leaves its wait in WaitMsg has been given a message.
THEOREM WokenHasMessage == Spec => []WokenWithMessage
<1>1. IInv => WokenWithMessage
  BY DEF IInv, ParkedRegs, Parked, WokenWithMessage
<1> QED
  BY <1>1, Invariance, PTL

-----------------------------------------------------------------------------
(* The ready queues hold every task under its own priority.  A step only   *)
(* changes the priority of the running task (SetPriority) or of a task     *)
(* that is not scheduled yet (SpawnPlace): by TasksDisjoint neither is in  *)
(* a ready queue.                                                          *)

\* The queues r are sorted by the priorities P.
Sorted(r, P) == \A p \in Pri : \A t \in ToSet(r[p]) : P[t] = p

\* Linking a task under its priority.
LEMMA PutSorted ==
    ASSUME NEW r \in [Pri -> Seq(Task)], NEW P, Sorted(r, P),
           NEW t \in Task, NEW p \in Pri, P[t] = p
    PROVE  Put(r, p, t) \in [Pri -> Seq(Task)] /\ Sorted(Put(r, p, t), P)
<1>1. Put(r, p, t) \in [Pri -> Seq(Task)]
  BY PutQueued
<1>2. /\ Put(r, p, t)[p] = Append(r[p], t)
      /\ \A q \in Pri : q # p => Put(r, p, t)[q] = r[q]
  BY DEF Put
<1>3. ToSet(Append(r[p], t)) = ToSet(r[p]) \cup {t}
  BY ToSetAppend
<1> QED
  BY <1>1, <1>2, <1>3 DEF Sorted

\* enQueueRdy.
LEMMA EnQueueRdySorted ==
    ASSUME TypeOK, NEW r \in [Pri -> Seq(Task)], Sorted(r, Priority), NEW t \in Task
    PROVE  /\ enQueueRdy(r, t) \in [Pri -> Seq(Task)]
           /\ Sorted(enQueueRdy(r, t), Priority)
<1>1. Priority[t] \in Pri
  BY DEF TypeOK
<1> QED
  BY <1>1, PutSorted DEF enQueueRdy

\* deQueueRdy.
LEMMA PopSorted ==
    ASSUME NEW r \in [Pri -> Seq(Task)], NEW P, Sorted(r, P),
           NEW p \in Pri, r[p] # << >>
    PROVE  /\ Pop(r, p) \in [Pri -> Seq(Task)]
           /\ Sorted(Pop(r, p), P)
<1>1. Pop(r, p) \in [Pri -> Seq(Task)]
  <2>1. Tail(r[p]) \in Seq(Task)
    BY HeadTailProperties
  <2> QED
    BY <2>1 DEF Pop
<1> QED
  BY <1>1, PopElements DEF Sorted

LEMMA RunNextSorted ==
    ASSUME NEW r \in [Pri -> Seq(Task)], Sorted(r, Priority), RunNext(r)
    PROVE  Sorted(RdyQ', Priority)
BY PopSorted DEF RunNext, HighestReady

\* A step of the priorities outside the ready queues.
LEMMA RepriorSorted ==
    ASSUME TypeOK, ReadyByPriority, NEW n \in Task, ~Ready(n), NEW p \in Pri
    PROVE  Sorted(RdyQ, [Priority EXCEPT ![n] = p])
<1>1. \A q \in Pri : n \notin ToSet(RdyQ[q])
  BY DEF Ready, Queued, TypeOK
<1>2. \A q \in Pri : ToSet(RdyQ[q]) \subseteq Task
  BY ToSetKind DEF TypeOK
<1> QED
  BY <1>1, <1>2 DEF Sorted, ReadyByPriority, TypeOK

LEMMA InitReadyByPriority == Init => ReadyByPriority
BY BootAssumption DEF Init, ReadyByPriority

LEMMA SpawnPlaceSorted ==
    ASSUME IInv, ReadyByPriority, NEW t \in Task, NEW p \in Pri, SpawnPlace(t, p)
    PROVE  ReadyByPriority'
<1> DEFINE n == tss[t]
           P == [Priority EXCEPT ![n] = p]
<1>1. /\ At(t, "ST0004")
      /\ Priority' = P
      /\ \/ RdyQ' = enQueueRdy(RdyQ, t)
         \/ RdyQ' = Put(RdyQ, p, n)
  BY DEF SpawnPlace
<1>2. n \in Task /\ Transit(n) /\ ~Ready(n) /\ ~Running(n)
  BY <1>1 DEF IInv, TypeOK, Regs, At, TasksDisjoint, Transit
<1>3. n # t
  BY <1>1, <1>2 DEF At, Running
<1>4. /\ Sorted(RdyQ, P) /\ RdyQ \in [Pri -> Seq(Task)]
      /\ P[n] = p /\ P[t] = Priority[t] /\ Priority[t] \in Pri
  BY <1>2, <1>3, RepriorSorted DEF IInv, TypeOK
<1>5. Sorted(RdyQ', P)
  <2>1. Sorted(Put(RdyQ, P[n], n), P) /\ Sorted(Put(RdyQ, P[t], t), P)
    BY <1>2, <1>4, PutSorted
  <2> QED
    BY <1>1, <1>4, <2>1 DEF enQueueRdy
<1> QED
  BY <1>1, <1>5 DEF Sorted, ReadyByPriority

\* Every action keeps the ready queues sorted.
LEMMA NextReadyByPriority ==
    IInv /\ ReadyByPriority /\ [Next]_vars => ReadyByPriority'
<1> SUFFICES ASSUME IInv, ReadyByPriority, [Next]_vars PROVE ReadyByPriority'
  OBVIOUS
<1>1. /\ TypeOK /\ RdyQ \in [Pri -> Seq(Task)]
      /\ Sorted(RdyQ, Priority)
  BY DEF IInv, TypeOK, Sorted, ReadyByPriority
<1>2. ASSUME UNCHANGED Priority, Sorted(RdyQ', Priority)
      PROVE  ReadyByPriority'
  BY <1>2 DEF Sorted, ReadyByPriority
<1>3. ASSUME UNCHANGED <<RdyQ, Priority>>
      PROVE  ReadyByPriority'
  BY <1>3 DEF ReadyByPriority
<1>4. ASSUME NEW t \in Task, Primitive(t)
      PROVE  ReadyByPriority'
  <2>1. CASE SendHandOver(t)
    <3>1. tss[t] \in Task /\ UNCHANGED Priority
      BY <2>1 DEF SendHandOver, TypeOK, IInv, tssVars
    <3>2. /\ enQueueRdy(enQueueRdy(RdyQ, tss[t]), t) \in [Pri -> Seq(Task)]
          /\ Sorted(enQueueRdy(enQueueRdy(RdyQ, tss[t]), t), Priority)
      BY <1>1, <3>1, EnQueueRdySorted
    <3>3. RunNext(enQueueRdy(enQueueRdy(RdyQ, tss[t]), t))
      BY <2>1 DEF SendHandOver
    <3> QED
      BY <1>2, <3>1, <3>2, <3>3, RunNextSorted
  <2>2. CASE WaitBlock(t)
    <3>1. UNCHANGED Priority /\ (UNCHANGED RdyQ \/ RunNext(RdyQ))
      BY <2>2 DEF WaitBlock, tssVars
    <3> QED
      BY <1>1, <1>2, <1>3, <3>1, RunNextSorted
  <2>3. CASE \E p \in Pri : SpawnPlace(t, p)
    BY <2>3, SpawnPlaceSorted
  <2>4. CASE \/ SendTake(t) \/ SendNoLB(t) \/ SendQueue(t) \/ TakeMsg(t)
             \/ CheckNone(t) \/ Deliver(t) \/ AllocReset(t) \/ DeAllocFree(t)
             \/ SpawnTSS(t)
    BY <1>3, <2>4 DEF SendTake, SendNoLB, SendQueue, TakeMsg, CheckNone,
       Deliver, AllocReset, DeAllocFree, SpawnTSS, runVars, tssVars
  <2> QED
    BY <1>4, <2>1, <2>2, <2>3, <2>4 DEF Primitive
<1>5. ASSUME NEW t \in Task, Program(t)
      PROVE  ReadyByPriority'
  <2>1. ASSUME NEW p \in Pri, SetPriority(t, p)
        PROVE  ReadyByPriority'
    <3>1. Running(t) /\ ~Ready(t)
      BY <2>1 DEF SetPriority, Calling, At, Running, IInv, TasksDisjoint
    <3>2. Sorted(RdyQ, [Priority EXCEPT ![t] = p])
      BY <1>1, <2>1, <3>1, RepriorSorted
    <3> QED
      BY <2>1, <3>2 DEF SetPriority, runVars, Sorted, ReadyByPriority
  <2>2. ASSUME ~ \E p \in Pri : SetPriority(t, p)
        PROVE  UNCHANGED <<RdyQ, Priority>>
    BY <1>5, <2>2 DEF Program, AllocExch, SendMsg, WaitMsg, CheckMsg,
       DeAllocExch, SpawnTask, AllocOwner, runVars, tssVars
  <2> QED
    BY <1>3, <2>1, <2>2
<1>6. CASE WaitUnhalt
  <2>1. RunNext(RdyQ) /\ UNCHANGED Priority
    BY <1>6 DEF WaitUnhalt, tssVars
  <2> QED
    BY <1>1, <1>2, <2>1, RunNextSorted
<1>7. ASSUME NEW e \in ISends, ISendMsg(e)
      PROVE  ReadyByPriority'
  <2>1. /\ Intact /\ e \in Exch /\ UNCHANGED Priority
        /\ UNCHANGED RdyQ \/ (HasTSS(e) /\ RdyQ' = enQueueRdy(RdyQ, Head(queue[e])))
    BY <1>7, ProgramAssumption DEF ISendMsg, tssVars
  <2>2. HasTSS(e) => Head(queue[e]) \in Task
    BY <1>1, <2>1, Kinds DEF IInv
  <2> QED
    BY <1>1, <1>2, <1>3, <2>1, <2>2, EnQueueRdySorted
<1>8. CASE IntTimer
  <2>1. UNCHANGED Priority
    BY <1>8 DEF IntTimer, tssVars
  <2>2. \/ UNCHANGED RdyQ
        \/ \E p \in Pri : RdyQ[p] # << >> /\ RdyQ' = enQueueRdy(Pop(RdyQ, p), pRunTSS)
    BY <1>8 DEF IntTimer, TaskCheck, HighestReady
  <2>3. ASSUME NEW p \in Pri, RdyQ[p] # << >>
        PROVE  Sorted(enQueueRdy(Pop(RdyQ, p), pRunTSS), Priority)
    <3>1. Pop(RdyQ, p) \in [Pri -> Seq(Task)] /\ Sorted(Pop(RdyQ, p), Priority)
      BY <1>1, <2>3, PopSorted
    <3>2. pRunTSS \in Task
      BY <1>1 DEF TypeOK
    <3> QED
      BY <1>1, <3>1, <3>2, EnQueueRdySorted
  <2> QED
    BY <1>2, <1>3, <2>1, <2>2, <2>3
<1>9. CASE UNCHANGED vars
  BY <1>3, <1>9 DEF vars, runVars, tssVars
<1> QED
  BY <1>4, <1>5, <1>6, <1>7, <1>8, <1>9 DEF Next, Interrupt

\* Every ready task is in the queue of the priority that its TSS says, however
\* programs change their priorities and spawn.
THEOREM ReadySorted == Spec => []ReadyByPriority
BY Invariance, InitReadyByPriority, NextReadyByPriority, PTL DEF Spec

-----------------------------------------------------------------------------
(***************************************************************************)
(* What the windows do.                                                    *)
(*                                                                         *)
(* SendMsg, WaitMsg and AllocExch check an exchange, execute STI, and go   *)
(* on, and another task or an interrupt may change the exchange in         *)
(* between.  Which step then breaks an exchange or loses something is      *)
(* proved from IInv alone, of any programs.                                *)
(***************************************************************************)

\* No step is modelled from a broken exchange.
LEMMA StepIntact == Next => Intact
<1> SUFFICES ASSUME Next PROVE Intact
  OBVIOUS
<1>1. ASSUME NEW t \in Task, Primitive(t) PROVE Intact
  BY <1>1 DEF Primitive, SendTake, SendNoLB, SendQueue, SendHandOver, TakeMsg, CheckNone,
     WaitBlock, Deliver, AllocReset, DeAllocFree, SpawnTSS, SpawnPlace, At
<1>2. ASSUME NEW t \in Task, Program(t) PROVE Intact
  <2>1. ASSUME NEW e \in Exch, DeAllocExch(t, e) PROVE Intact
    BY <2>1 DEF DeAllocExch, Calling, At
  <2> QED
    BY <1>2, <2>1 DEF Program, AllocExch, SendMsg, WaitMsg, CheckMsg, SpawnTask, SetPriority,
       Calling, At
<1>3. CASE WaitUnhalt \/ Interrupt
  BY <1>3 DEF WaitUnhalt, Interrupt, IntTimer, ISendMsg
<1> QED
  BY <1>1, <1>2, <1>3 DEF Next

-----------------------------------------------------------------------------
(* What is queued stays of one kind. *)

\* A step that leaves each queue and its flag alone, or changes one so.
LEMMA OneKindStep ==
    ASSUME Intact, NEW e \in Exch, OneKind(e)',
           \A f \in Exch : f # e => queue'[f] = queue[f] /\ fEMsg'[f] = fEMsg[f]
    PROVE  Intact'
BY DEF Intact, OneKind

\* What is linked in behind something of its kind, or alone.
LEMMA EnQueueKind ==
    ASSUME TypeOK, Intact, NEW e \in Exch, NEW isMsg \in BOOLEAN,
           NEW x, x \in IF isMsg THEN LB ELSE Task,
           queue[e] # << >> => fEMsg[e] = isMsg,
           queue' = enQueue(e, x), fEMsg' = [fEMsg EXCEPT ![e] = isMsg]
    PROVE  Intact'
<1> DEFINE K == IF isMsg THEN LB ELSE Task
<1>1. /\ \A f \in Exch : f # e => queue'[f] = queue[f] /\ fEMsg'[f] = fEMsg[f]
      /\ fEMsg'[e] = isMsg
      /\ (queue'[e] = queue[e] /\ queue[e] # << >>) \/ queue'[e] = Append(queue[e], x)
  BY DEF TypeOK, enQueue, Detached, Put
<1>2. queue[e] \in Seq(K)
  <2>1. queue[e] = << >> => queue[e] \in Seq(K)
    BY EmptySeq
  <2> QED
    BY <2>1 DEF Intact, OneKind
<1>3. Append(queue[e], x) \in Seq(K)
  BY <1>2, AppendProperties
<1>4. OneKind(e)'
  BY <1>1, <1>2, <1>3 DEF OneKind
<1> QED
  BY <1>1, <1>4, OneKindStep

\* Taking the first element away.
LEMMA PopKind ==
    ASSUME TypeOK, Intact, NEW e \in Exch, queue[e] # << >>,
           queue' = Pop(queue, e), fEMsg' = fEMsg
    PROVE  Intact'
<1>1. /\ queue'[e] = Tail(queue[e])
      /\ \A f \in Exch : f # e => queue'[f] = queue[f]
  BY DEF Pop, TypeOK
<1>2. OneKind(e)'
  BY <1>1, Kinds, HeadTailProperties DEF OneKind
<1> QED
  BY <1>1, <1>2, OneKindStep

\* Taking all of them away.
LEMMA ClearKind ==
    ASSUME TypeOK, Intact, NEW e \in Exch, queue' = Clear(queue, e),
           \A f \in Exch : f # e => fEMsg'[f] = fEMsg[f]
    PROVE  Intact'
<1>1. /\ queue'[e] = << >>
      /\ \A f \in Exch : f # e => queue'[f] = queue[f]
  BY DEF Clear, TypeOK
<1>2. OneKind(e)'
  BY <1>1, EmptySeq DEF OneKind
<1> QED
  BY <1>1, <1>2, OneKindStep

\* Every step but one of SendQueue keeps each exchange to one kind.
LEMMA NextIntact ==
    ASSUME IInv, Intact, Next
    PROVE  Intact' \/ \E t \in Task : SendQueue(t) /\ HasTSS(ex[t])
<1>1. TypeOK /\ ex \in [Task -> Exch]
  BY DEF IInv, TypeOK
<1>2. ASSUME UNCHANGED <<queue, fEMsg>> PROVE Intact'
  BY <1>2 DEF Intact, OneKind
<1>3. ASSUME NEW t \in Task, SendTake(t) PROVE Intact'
  <2>1. /\ ex[t] \in Exch /\ fEMsg' = fEMsg
        /\ queue' = queue \/ (queue[ex[t]] # << >> /\ queue' = Pop(queue, ex[t]))
    BY <1>1, <1>3 DEF SendTake, HasTSS
  <2> QED
    BY <1>1, <1>2, <2>1, PopKind
<1>4. ASSUME NEW t \in Task, SendQueue(t), ~HasTSS(ex[t]) PROVE Intact'
  <2>1. /\ ex[t] \in Exch /\ pc[t] = "Send_STI"
        /\ queue' = enQueue(ex[t], lb[t]) /\ fEMsg' = [fEMsg EXCEPT ![ex[t]] = TRUE]
    BY <1>1, <1>4 DEF SendQueue, At
  <2>2. lb[t] \in LB /\ fEMsg[ex[t]] \in BOOLEAN
    BY <2>1 DEF IInv, Regs, TypeOK
  <2>3. queue[ex[t]] # << >> => fEMsg[ex[t]] = TRUE
    BY <1>4, <2>2 DEF HasTSS
  <2> QED
    BY <1>1, <2>1, <2>2, <2>3, EnQueueKind
<1>5. ASSUME NEW t \in Task, TakeMsg(t) PROVE Intact'
  BY <1>1, <1>5, PopKind DEF TakeMsg, HasMsg
<1>6. ASSUME NEW t \in Task, WaitBlock(t) PROVE Intact'
  <2>1. /\ ex[t] \in Exch /\ ~HasMsg(ex[t])
        /\ queue' = enQueue(ex[t], t) /\ fEMsg' = [fEMsg EXCEPT ![ex[t]] = FALSE]
    BY <1>1, <1>6 DEF WaitBlock
  <2>2. queue[ex[t]] # << >> => fEMsg[ex[t]] = FALSE
    BY <1>1, <2>1 DEF HasMsg, TypeOK
  <2> QED
    BY <1>1, <2>1, <2>2, EnQueueKind
<1>7. ASSUME NEW t \in Task, DeAllocFree(t) PROVE Intact'
  <2>1. /\ ex[t] \in Exch /\ queue' = Clear(queue, ex[t])
        /\ fEMsg' = [fEMsg EXCEPT ![ex[t]] = FALSE]
    BY <1>1, <1>7 DEF DeAllocFree
  <2>2. \A f \in Exch : f # ex[t] => fEMsg'[f] = fEMsg[f]
    BY <1>1, <2>1 DEF TypeOK
  <2> QED
    BY <1>1, <2>1, <2>2, ClearKind
<1>8. ASSUME NEW t \in Task, AllocExch(t) \/ \E p \in Pri : SpawnTask(t, p) PROVE Intact'
  <2>1. PICK e \in Exch : queue' = Clear(queue, e) /\ fEMsg' = fEMsg
    BY <1>8 DEF AllocExch, SpawnTask, AllocOwner
  <2> QED
    BY <1>1, <2>1, ClearKind
<1>9. ASSUME NEW t \in Task,
             \/ SendNoLB(t) \/ SendHandOver(t) \/ CheckNone(t) \/ Deliver(t)
             \/ AllocReset(t) \/ SpawnTSS(t) \/ \E p \in Pri : SpawnPlace(t, p)
      PROVE  Intact'
  BY <1>2, <1>9 DEF SendNoLB, SendHandOver, CheckNone, Deliver, AllocReset, SpawnTSS,
     SpawnPlace, exchVars
<1>10. ASSUME NEW t \in Task,
              \/ \E e \in Exch : SendMsg(t, e) \/ WaitMsg(t, e) \/ CheckMsg(t, e)
                                 \/ DeAllocExch(t, e)
              \/ \E p \in Pri : SetPriority(t, p)
       PROVE  Intact'
  BY <1>2, <1>10 DEF SendMsg, WaitMsg, CheckMsg, DeAllocExch, SetPriority, exchVars
<1>11. CASE WaitUnhalt \/ IntTimer
  BY <1>2, <1>11 DEF WaitUnhalt, IntTimer, exchVars
<1>12. ASSUME NEW e \in ISends, ISendMsg(e) PROVE Intact'
  <2>1. e \in Exch
    BY ProgramAssumption
  <2>2. PICK b \in pFreeLB :
          \/ HasTSS(e) /\ queue' = Pop(queue, e) /\ fEMsg' = fEMsg
          \/ /\ ~HasTSS(e) /\ queue' = enQueue(e, b)
             /\ fEMsg' = [fEMsg EXCEPT ![e] = TRUE]
    BY <1>12 DEF ISendMsg
  <2>3. b \in LB /\ (~HasTSS(e) => queue[e] = << >> \/ fEMsg[e] = TRUE)
    BY <1>1, <2>1 DEF TypeOK, HasTSS
  <2> QED
    BY <1>1, <2>1, <2>2, <2>3, PopKind, EnQueueKind DEF HasTSS
<1> QED
  BY <1>3, <1>4, <1>5, <1>6, <1>7, <1>8, <1>9, <1>10, <1>11, <1>12
     DEF Next, Primitive, Program, Interrupt

\* "There can never be tasks AND messages at an exchange at the same time":
\* the one step that can end that is of a SendMsg whose receiver came in
\* while interrupts were enabled.
THEOREM OnlySendCanBreak == Spec => OnlySendBreaks
<1>1. IInv /\ [Next]_vars =>
        [Intact' \/ \E t \in Task : SendQueue(t) /\ HasTSS(ex[t])]_vars
  BY StepIntact, NextIntact
<1> QED
  BY <1>1, Invariance, PTL DEF Spec, OnlySendBreaks

-----------------------------------------------------------------------------
(* Everything queued stays in reach. *)

\* A step that changes the queue of one exchange only.
LEMMA WholeStep ==
    ASSUME Whole, NEW e \in Exch,
           Owner'[e] = NIL => queue'[e] = << >>, ~Detached(e)',
           \A f \in Exch : f # e =>
             /\ queue'[f] = queue[f] /\ cut'[f] = cut[f]
             /\ Owner'[f] = Owner[f]
    PROVE  Whole'
BY DEF Whole, FreeExchEmpty, Detached

\* An exchange that has an owner and in which ETail is right stays so when
\* something is linked in.
LEMMA EnQueueWhole ==
    ASSUME TypeOK, Whole, NEW e \in Exch, Owner[e] # NIL, NEW x,
           queue' = enQueue(e, x), cut' = Retailed(e), Owner' = Owner
    PROVE  Whole'
<1>1. /\ ~Detached(e) /\ cut'[e] = FALSE
      /\ \A f \in Exch : f # e => queue'[f] = queue[f] /\ cut'[f] = cut[f]
  BY DEF Whole, enQueue, Retailed, Put, TypeOK, Detached
<1> QED
  BY <1>1, WholeStep DEF Detached

LEMMA PopWhole ==
    ASSUME TypeOK, Whole, NEW e \in Exch, queue[e] # << >>,
           queue' = Pop(queue, e), cut' = cut, Owner' = Owner
    PROVE  Whole'
<1>1. /\ \A f \in Exch : f # e => queue'[f] = queue[f]
      /\ ~cut[e] /\ Owner[e] # NIL
  BY DEF Pop, TypeOK, Whole, FreeExchEmpty, Detached
<1> QED
  BY <1>1, WholeStep DEF Detached

LEMMA ClearWhole ==
    ASSUME TypeOK, Whole, NEW e \in Exch, queue' = Clear(queue, e), cut' = cut,
           \A f \in Exch : f # e => Owner'[f] = Owner[f]
    PROVE  Whole'
<1>1. /\ queue'[e] = << >>
      /\ \A f \in Exch : f # e => queue'[f] = queue[f]
  BY DEF Clear, TypeOK
<1> QED
  BY <1>1, WholeStep DEF Detached

\* Every step outside the two windows keeps the exchanges whole.
LEMMA NextWhole ==
    ASSUME IInv, Whole, Next
    PROVE  Whole' \/ \E t \in Task : QueuesUnowned(t) \/ CutsOff(t)
<1>1. TypeOK /\ ex \in [Task -> Exch]
  BY DEF IInv, TypeOK
<1>2. ASSUME UNCHANGED <<queue, cut, Owner>> PROVE Whole'
  BY <1>2 DEF Whole, FreeExchEmpty, Detached
<1>3. ASSUME NEW t \in Task, SendTake(t) PROVE Whole'
  <2>1. /\ ex[t] \in Exch /\ cut' = cut /\ Owner' = Owner
        /\ queue' = queue \/ (queue[ex[t]] # << >> /\ queue' = Pop(queue, ex[t]))
    BY <1>1, <1>3 DEF SendTake, HasTSS
  <2> QED
    BY <1>1, <1>2, <2>1, PopWhole
<1>4. ASSUME NEW t \in Task, SendQueue(t) \/ WaitBlock(t), ~QueuesUnowned(t) PROVE Whole'
  <2>1. PICK x : /\ queue' = enQueue(ex[t], x) /\ cut' = Retailed(ex[t])
                 /\ Owner' = Owner /\ Owner[ex[t]] # NIL
    BY <1>4 DEF SendQueue, WaitBlock, QueuesUnowned
  <2> QED
    BY <1>1, <2>1, EnQueueWhole
<1>5. ASSUME NEW t \in Task, TakeMsg(t) PROVE Whole'
  BY <1>1, <1>5, PopWhole DEF TakeMsg, HasMsg
<1>6. ASSUME NEW t \in Task, DeAllocFree(t) PROVE Whole'
  <2>1. /\ ex[t] \in Exch /\ queue' = Clear(queue, ex[t]) /\ cut' = cut
        /\ Owner' = [Owner EXCEPT ![ex[t]] = NIL]
    BY <1>1, <1>6 DEF DeAllocFree
  <2>2. \A f \in Exch : f # ex[t] => Owner'[f] = Owner[f]
    BY <1>1, <2>1 DEF TypeOK
  <2> QED
    BY <1>1, <2>1, <2>2, ClearWhole
<1>7. ASSUME NEW t \in Task, AllocExch(t) \/ \E p \in Pri : SpawnTask(t, p) PROVE Whole'
  <2>1. PICK e \in Exch : /\ queue' = Clear(queue, e) /\ cut' = cut
                          /\ Owner' = [Owner EXCEPT ![e] = TSS_pJCB[t]]
    BY <1>7 DEF AllocExch, SpawnTask, AllocOwner
  <2>2. \A f \in Exch : f # e => Owner'[f] = Owner[f]
    BY <1>1, <2>1 DEF TypeOK
  <2> QED
    BY <1>1, <2>1, <2>2, ClearWhole
<1>8. ASSUME NEW t \in Task, AllocReset(t), ~CutsOff(t) PROVE Whole'
  <2>1. /\ ex[t] \in Exch /\ queue[ex[t]] = << >> /\ queue' = queue /\ Owner' = Owner
        /\ cut' = [cut EXCEPT ![ex[t]] = queue[ex[t]] # << >>]
    BY <1>1, <1>8 DEF AllocReset, CutsOff
  <2>2. \A f \in Exch : f # ex[t] => cut'[f] = cut[f]
    BY <1>1, <2>1 DEF TypeOK
  <2> QED
    BY <2>1, <2>2, WholeStep DEF Detached
<1>9. ASSUME NEW t \in Task,
             \/ SendNoLB(t) \/ SendHandOver(t) \/ CheckNone(t) \/ Deliver(t)
             \/ SpawnTSS(t) \/ \E p \in Pri : SpawnPlace(t, p)
      PROVE  Whole'
  BY <1>2, <1>9 DEF SendNoLB, SendHandOver, CheckNone, Deliver, SpawnTSS, SpawnPlace, exchVars
<1>10. ASSUME NEW t \in Task,
              \/ \E e \in Exch : SendMsg(t, e) \/ WaitMsg(t, e) \/ CheckMsg(t, e)
                                 \/ DeAllocExch(t, e)
              \/ \E p \in Pri : SetPriority(t, p)
       PROVE  Whole'
  BY <1>2, <1>10 DEF SendMsg, WaitMsg, CheckMsg, DeAllocExch, SetPriority, exchVars
<1>11. CASE WaitUnhalt \/ IntTimer
  BY <1>2, <1>11 DEF WaitUnhalt, IntTimer, exchVars
<1>12. ASSUME NEW e \in ISends, ISendMsg(e) PROVE Whole'
  <2>1. PICK b : /\ Owner[e] # NIL /\ Owner' = Owner
                 /\ \/ HasTSS(e) /\ queue' = Pop(queue, e) /\ cut' = cut
                    \/ queue' = enQueue(e, b) /\ cut' = Retailed(e)
    BY <1>12 DEF ISendMsg
  <2> QED
    BY <1>1, <2>1, ProgramAssumption, PopWhole, EnQueueWhole DEF HasTSS
<1> QED
  BY <1>3, <1>4, <1>5, <1>6, <1>7, <1>8, <1>9, <1>10, <1>11, <1>12
     DEF Next, Primitive, Program, Interrupt

\* Something is queued at an exchange without an owner, or where the next
\* element will hide it, only in one of the windows: an owner that was gone
\* when SendMsg or WaitMsg had checked it, and ETail set after STI.
THEOREM OnlyWindowsCanCut == Spec => OnlyWindowsCut
<1>1. IInv /\ [Next]_vars =>
        [Whole => Whole' \/ \E t \in Task : QueuesUnowned(t) \/ CutsOff(t)]_vars
  BY NextWhole
<1> QED
  BY <1>1, Invariance, PTL DEF Spec, OnlyWindowsCut

-----------------------------------------------------------------------------
\* A state from which no step loses anything.
Sound == IInv /\ Intact /\ Whole

-----------------------------------------------------------------------------
(* While the exchanges are whole no link block is lost. *)

\* Where a link block can be.
Placed(b) == b \in pFreeLB \/ Queued(queue, b) \/ \E t \in Task : lb[t] = b

\* What is linked in can be reached.
LEMMA PutPlaced ==
    ASSUME Sound, NEW e \in Exch, NEW x, x \in LB \/ x \in Task, ~Queued(queue, x),
           queue' = enQueue(e, x)
    PROVE  \A y : Queued(queue', y) <=> Queued(queue, y) \/ y = x
<1>1. queue' = Put(queue, e, x)
  BY DEF enQueue, Sound, Whole
<1> QED
  BY <1>1, PutAtExch DEF Sound, IInv, LinkBlocksDisjoint

\* An exchange that is allocated was empty.
LEMMA AllocPlaced ==
    ASSUME Sound, NEW t \in Task, AllocExch(t) \/ \E p \in Pri : SpawnTask(t, p)
    PROVE  queue' = queue
<1>1. PICK e \in Exch : Owner[e] = NIL /\ queue' = Clear(queue, e)
  BY DEF AllocExch, SpawnTask, AllocOwner
<1>2. queue[e] = << >> /\ queue \in [Exch -> Seq(Task \cup LB)]
  BY <1>1 DEF Sound, Whole, FreeExchEmpty, IInv, TypeOK
<1> QED
  BY <1>1, <1>2 DEF Clear

\* The first element of a queue, and no other, leaves it.
LEMMA PopPlaced ==
    ASSUME Sound, NEW e \in Exch, HasTSS(e) \/ HasMsg(e), queue' = Pop(queue, e)
    PROVE  /\ \A y : Queued(queue', y) <=> Queued(queue, y) /\ y # Head(queue[e])
           /\ HasTSS(e) => Head(queue[e]) \in Task /\ Head(queue[e]) \notin LB
           /\ HasMsg(e) => Head(queue[e]) \in LB /\ Head(queue[e]) \notin Task
<1>1. Intact /\ queue[e] # << >>
  BY DEF Sound, HasTSS, HasMsg
<1>2. \A y : Queued(queue', y) <=> Queued(queue, y) /\ y # Head(queue[e])
  BY <1>1, PopAtExch DEF Sound, IInv, LinkBlocksDisjoint
<1>3. /\ HasTSS(e) => Head(queue[e]) \in Task
      /\ HasMsg(e) => Head(queue[e]) \in LB
  BY <1>1, Kinds DEF Sound, IInv
<1> QED
  BY <1>2, <1>3, NamesAssumption

\* Every step puts a link block it takes somewhere else.
LEMMA NextPlaced ==
    ASSUME Sound, Next, NEW b \in LB, Placed(b)
    PROVE  Placed(b)'
<1>1. Placed(b) /\ b # NIL /\ b \notin Task /\ Intact
  BY NamesAssumption DEF Sound
<1>2. ASSUME pFreeLB' = pFreeLB, queue' = queue, lb' = lb PROVE Placed(b)'
  BY <1>1, <1>2 DEF Placed
<1>3. /\ lb \in [Task -> LB \cup {NIL}] /\ ex \in [Task -> Exch] /\ tss \in [Task -> Task \cup {NIL}]
      /\ queue \in [Exch -> Seq(Task \cup LB)] /\ pFreeLB \subseteq LB
  BY DEF Sound, IInv, TypeOK
<1>4. ASSUME NEW t \in Task, SendTake(t) PROVE Placed(b)'
  <2>1. /\ pc[t] = "Send01" /\ ex[t] \in Exch
        /\ \/ ~HasTSS(ex[t]) /\ queue' = queue
           \/ HasTSS(ex[t]) /\ queue' = Pop(queue, ex[t])
    BY <1>3, <1>4 DEF SendTake, At
  <2>2. lb[t] = NIL
    BY <2>1 DEF Sound, IInv, Regs
  <2>3. PICK c \in pFreeLB : pFreeLB' = pFreeLB \ {c} /\ lb' = [lb EXCEPT ![t] = c]
    BY <1>4 DEF SendTake
  <2>4. Queued(queue, b) => Queued(queue', b)
    BY <2>1, PopPlaced
  <2>5. lb'[t] = c /\ \A u \in Task : u # t => lb'[u] = lb[u]
    BY <1>3, <2>3
  <2> QED
    BY <1>1, <2>2, <2>3, <2>4, <2>5 DEF Placed
<1>5. ASSUME NEW t \in Task, SendQueue(t) PROVE Placed(b)'
  <2>1. /\ pc[t] = "Send_STI" /\ ex[t] \in Exch /\ lb[t] # NIL
        /\ queue' = enQueue(ex[t], lb[t]) /\ pFreeLB' = pFreeLB
        /\ lb' = [lb EXCEPT ![t] = NIL]
    BY <1>3, <1>5 DEF SendQueue, At, Sound, IInv, Regs, poolVars
  <2>2. lb[t] \in LB /\ ~Queued(queue, lb[t])
    BY <1>3, <2>1 DEF Sound, IInv, LinkBlocksDisjoint
  <2>3. \A y : Queued(queue', y) <=> Queued(queue, y) \/ y = lb[t]
    BY <2>1, <2>2, PutPlaced
  <2>4. \A u \in Task : u # t => lb'[u] = lb[u]
    BY <1>3, <2>1
  <2> QED
    BY <1>1, <2>1, <2>3, <2>4 DEF Placed
<1>6. ASSUME NEW t \in Task, SendHandOver(t) PROVE Placed(b)'
  <2>1. /\ pc[t] = "Send_STI" /\ tss[t] # NIL /\ queue' = queue /\ pFreeLB' = pFreeLB
        /\ lb' = [lb EXCEPT ![tss[t]] = lb[t], ![t] = NIL] /\ Running(t)
    BY <1>6 DEF SendHandOver, At, exchVars, poolVars, Running
  <2>2. PICK w \in Task : w = tss[t]
    BY <1>3, <2>1
  <2>3. Transit(w) /\ w # t /\ lb[w] = NIL
    BY <2>1, <2>2 DEF Transit, Sound, IInv, TasksDisjoint, ParkedRegs, Parked
  <2>4. lb'[w] = lb[t] /\ \A u \in Task : u # t /\ u # w => lb'[u] = lb[u]
    BY <1>3, <2>1, <2>2, <2>3
  <2> QED
    BY <1>1, <2>1, <2>3, <2>4 DEF Placed
<1>7. ASSUME NEW t \in Task, TakeMsg(t) PROVE Placed(b)'
  <2>1. /\ pc[t] \in {"Wait01", "Chk02"} /\ ex[t] \in Exch /\ HasMsg(ex[t])
        /\ queue' = Pop(queue, ex[t]) /\ pFreeLB' = pFreeLB
        /\ lb' = [lb EXCEPT ![t] = Head(queue[ex[t]])]
    BY <1>3, <1>7 DEF TakeMsg, At, poolVars
  <2>2. lb[t] = NIL
    BY <2>1 DEF Sound, IInv, Regs
  <2>3. \A y : Queued(queue', y) <=> Queued(queue, y) /\ y # Head(queue[ex[t]])
    BY <2>1, PopPlaced
  <2>4. lb'[t] = Head(queue[ex[t]]) /\ \A u \in Task : u # t => lb'[u] = lb[u]
    BY <1>3, <2>1
  <2> QED
    BY <1>1, <2>1, <2>2, <2>3, <2>4 DEF Placed
<1>8. ASSUME NEW t \in Task, WaitBlock(t) PROVE Placed(b)'
  <2>1. /\ ex[t] \in Exch /\ Running(t)
        /\ queue' = enQueue(ex[t], t) /\ pFreeLB' = pFreeLB /\ lb' = lb
    BY <1>3, <1>8 DEF WaitBlock, At, poolVars, regVars, Running
  <2>2. ~Queued(queue, t)
    BY <2>1 DEF Sound, IInv, TasksDisjoint, Waiting
  <2>3. Queued(queue, b) => Queued(queue', b)
    BY <2>1, <2>2, PutPlaced
  <2> QED
    BY <1>1, <2>1, <2>3 DEF Placed
<1>9. ASSUME NEW t \in Task, Deliver(t) PROVE Placed(b)'
  <2>1. /\ pFreeLB' = pFreeLB \cup {lb[t]} /\ lb' = [lb EXCEPT ![t] = NIL] /\ queue' = queue
    BY <1>9 DEF Deliver, exchVars
  <2>2. \A u \in Task : u # t => lb'[u] = lb[u]
    BY <1>3, <2>1
  <2> QED
    BY <1>1, <2>1, <2>2 DEF Placed
<1>10. ASSUME NEW t \in Task, DeAllocFree(t) PROVE Placed(b)'
  <2>1. /\ ex[t] \in Exch /\ queue' = Clear(queue, ex[t]) /\ lb' = lb
        /\ \/ fEMsg[ex[t]] /\ pFreeLB' = pFreeLB \cup ToSet(queue[ex[t]])
           \/ ~fEMsg[ex[t]] /\ pFreeLB' = pFreeLB
    BY <1>3, <1>10 DEF DeAllocFree, QueuedAt, regVars
  <2>2. ~fEMsg[ex[t]] => b \notin ToSet(queue[ex[t]])
    BY <1>1, <2>1, Kinds DEF Sound, IInv
  <2>3. \A y : Queued(queue', y) <=> Queued(queue, y) /\ y \notin ToSet(queue[ex[t]])
    <3>1. PICK U : U = Task \cup LB
      OBVIOUS
    <3>2. queue \in [Exch -> Seq(U)] /\ EachOnce(queue)
      BY <1>3, <3>1 DEF Sound, IInv, LinkBlocksDisjoint
    <3> QED
      BY <2>1, <3>2, ClearQueued
  <2> QED
    BY <1>1, <2>1, <2>2, <2>3 DEF Placed
<1>11. ASSUME NEW e \in ISends, ISendMsg(e) PROVE Placed(b)'
  <2>1. e \in Exch
    BY ProgramAssumption
  <2>2. PICK c \in pFreeLB :
          /\ pFreeLB' = pFreeLB \ {c}
          /\ \/ /\ HasTSS(e) /\ queue' = Pop(queue, e)
                /\ lb' = [lb EXCEPT ![Head(queue[e])] = c]
             \/ queue' = enQueue(e, c) /\ lb' = lb
    BY <1>11 DEF ISendMsg
  <2>3. CASE queue' = enQueue(e, c) /\ lb' = lb
    <3>1. c \in LB /\ ~Queued(queue, c)
      BY <1>3 DEF Sound, IInv, LinkBlocksDisjoint
    <3>2. \A y : Queued(queue', y) <=> Queued(queue, y) \/ y = c
      BY <2>1, <2>3, <3>1, PutPlaced
    <3> QED
      BY <1>1, <2>2, <2>3, <3>2 DEF Placed
  <2>4. CASE /\ HasTSS(e) /\ queue' = Pop(queue, e)
             /\ lb' = [lb EXCEPT ![Head(queue[e])] = c]
    <3>1. /\ \A y : Queued(queue', y) <=> Queued(queue, y) /\ y # Head(queue[e])
          /\ Head(queue[e]) \in Task
      BY <2>1, <2>4, PopPlaced
    <3>2. PICK w \in Task : w = Head(queue[e])
      BY <3>1
    <3>3. Waiting(w)
      BY <1>1, <2>1, <2>4, <3>2, PopAtExch DEF Waiting, Sound, IInv, LinkBlocksDisjoint, HasTSS
    <3>4. lb[w] = NIL
      BY <3>3 DEF Sound, IInv, ParkedRegs, Parked
    <3>5. lb'[w] = c /\ \A u \in Task : u # w => lb'[u] = lb[u]
      BY <1>3, <2>4, <3>2
    <3> QED
      BY <1>1, <2>2, <3>1, <3>2, <3>4, <3>5 DEF Placed
  <2> QED
    BY <2>2, <2>3, <2>4
<1>12. ASSUME NEW t \in Task, AllocReset(t) PROVE Placed(b)'
  BY <1>2, <1>12 DEF AllocReset, poolVars, regVars
<1>13. ASSUME NEW t \in Task, SendNoLB(t) \/ CheckNone(t) \/ SpawnTSS(t) \/ \E p \in Pri : SpawnPlace(t, p)
       PROVE  Placed(b)'
  BY <1>2, <1>13 DEF SendNoLB, CheckNone, SpawnTSS, SpawnPlace, exchVars, poolVars, regVars
<1>14. ASSUME NEW t \in Task, Program(t) PROVE Placed(b)'
  <2>1. CASE AllocExch(t) \/ \E p \in Pri : SpawnTask(t, p)
    BY <1>2, <2>1, AllocPlaced DEF AllocExch, SpawnTask, AllocOwner, poolVars, runVars
  <2>2. CASE \/ \E e \in Exch : \/ SendMsg(t, e) \/ WaitMsg(t, e)
                                \/ CheckMsg(t, e) \/ DeAllocExch(t, e)
             \/ \E p \in Pri : SetPriority(t, p)
    BY <1>2, <2>2 DEF SendMsg, WaitMsg, CheckMsg, DeAllocExch, SetPriority,
       exchVars, poolVars, regVars
  <2> QED
    BY <1>14, <2>1, <2>2 DEF Program
<1>15. CASE WaitUnhalt \/ IntTimer
  BY <1>2, <1>15 DEF WaitUnhalt, IntTimer, exchVars, poolVars, regVars
<1> QED
  BY <1>4, <1>5, <1>6, <1>7, <1>8, <1>9, <1>10, <1>11, <1>12, <1>13, <1>14, <1>15
     DEF Next, Interrupt, Primitive

-----------------------------------------------------------------------------
(* Nor is a task. *)

TaskPlaced(u) == u \in pFreeTSS \/ Running(u) \/ Ready(u) \/ Waiting(u) \/ Transit(u)

\* The ready queue, and the switch to one of its tasks.
LEMMA RunNextPlaced ==
    ASSUME NEW r \in [Pri -> Seq(Task)], EachOnce(r), RunNext(r), ~dfHalted'
    PROVE  \A u \in Task : Queued(r, u) => Running(u)' \/ Ready(u)'
BY RunNextMoves DEF Running, Ready

\* A task that is linked into the ready queue.
LEMMA EnQueuePlaced ==
    ASSUME Sound, NEW t \in Task, ~Ready(t)
    PROVE  /\ enQueueRdy(RdyQ, t) \in [Pri -> Seq(Task)] /\ EachOnce(enQueueRdy(RdyQ, t))
           /\ \A y : Queued(enQueueRdy(RdyQ, t), y) <=> Ready(y) \/ y = t
BY EnQueueRdyAdds DEF Sound, IInv, TypeOK, TasksDisjoint, Ready

\* Every step puts a task it takes somewhere else.
LEMMA NextTaskPlaced ==
    ASSUME Sound, Next, NEW u \in Task, TaskPlaced(u)
    PROVE  TaskPlaced(u)'
<1>1. TaskPlaced(u) /\ u # NIL /\ u \notin LB /\ Intact
  BY NamesAssumption DEF Sound
<1>2. ASSUME pFreeTSS' = pFreeTSS, UNCHANGED runVars, tss' = tss,
             Queued(queue, u) => Queued(queue', u)
      PROVE  TaskPlaced(u)'
  BY <1>1, <1>2 DEF TaskPlaced, Running, Ready, Waiting, Transit, runVars
<1>3. /\ ex \in [Task -> Exch] /\ tss \in [Task -> Task \cup {NIL}]
      /\ RdyQ \in [Pri -> Seq(Task)] /\ EachOnce(RdyQ)
  BY DEF Sound, IInv, TypeOK, TasksDisjoint
<1>4. ASSUME NEW t \in Task, SendTake(t) PROVE TaskPlaced(u)'
  <2>1. /\ pc[t] = "Send01" /\ ex[t] \in Exch /\ pFreeTSS' = pFreeTSS /\ UNCHANGED runVars
        /\ \/ ~HasTSS(ex[t]) /\ queue' = queue /\ tss' = tss
           \/ /\ HasTSS(ex[t]) /\ queue' = Pop(queue, ex[t])
              /\ tss' = [tss EXCEPT ![t] = Head(queue[ex[t]])]
    BY <1>3, <1>4 DEF SendTake, At
  <2>2. tss[t] = NIL
    BY <2>1 DEF Sound, IInv, Regs
  <2>3. CASE HasTSS(ex[t]) /\ tss' = [tss EXCEPT ![t] = Head(queue[ex[t]])]
             /\ queue' = Pop(queue, ex[t])
    <3>1. Queued(queue, u) => Queued(queue', u) \/ u = Head(queue[ex[t]])
      BY <2>1, <2>3, PopPlaced
    <3>2. tss'[t] = Head(queue[ex[t]]) /\ \A s \in Task : s # t => tss'[s] = tss[s]
      BY <1>3, <2>3
    <3> QED
      BY <1>1, <2>1, <2>2, <3>1, <3>2
         DEF TaskPlaced, Running, Ready, Waiting, Transit, runVars
  <2> QED
    BY <1>2, <2>1, <2>3
<1>5. ASSUME NEW t \in Task, SendQueue(t) PROVE TaskPlaced(u)'
  <2>1. /\ pc[t] = "Send_STI" /\ ex[t] \in Exch /\ lb[t] # NIL
        /\ queue' = enQueue(ex[t], lb[t])
        /\ pFreeTSS' = pFreeTSS /\ UNCHANGED runVars /\ tss' = tss
    BY <1>3, <1>5 DEF SendQueue, At, Sound, IInv, Regs, poolVars
  <2>2. lb[t] \in LB /\ ~Queued(queue, lb[t])
    BY <2>1 DEF Sound, IInv, LinkBlocksDisjoint, TypeOK
  <2> QED
    BY <1>2, <2>1, <2>2, PutPlaced
<1>6. ASSUME NEW t \in Task, SendHandOver(t) PROVE TaskPlaced(u)'
  <2>1. /\ pc[t] = "Send_STI" /\ tss[t] # NIL /\ queue' = queue /\ pFreeTSS' = pFreeTSS
        /\ tss' = [tss EXCEPT ![t] = NIL] /\ Running(t) /\ ~dfHalted'
        /\ RunNext(enQueueRdy(enQueueRdy(RdyQ, tss[t]), t))
    BY <1>6 DEF SendHandOver, At, exchVars, poolVars, Running
  <2>2. PICK w \in Task : w = tss[t]
    BY <1>3, <2>1
  <2>3. Transit(w) /\ w # t /\ ~Ready(w) /\ ~Ready(t)
    BY <2>1, <2>2 DEF Transit, Sound, IInv, TasksDisjoint
  <2>4. PICK r : r = enQueueRdy(enQueueRdy(RdyQ, w), t)
    OBVIOUS
  <2>5. /\ r \in [Pri -> Seq(Task)] /\ EachOnce(r)
        /\ \A y : Queued(r, y) <=> Ready(y) \/ y = w \/ y = t
    <3>1. /\ enQueueRdy(RdyQ, w) \in [Pri -> Seq(Task)] /\ EachOnce(enQueueRdy(RdyQ, w))
          /\ \A y : Queued(enQueueRdy(RdyQ, w), y) <=> Ready(y) \/ y = w
      BY <2>3, EnQueuePlaced
    <3>2. Priority \in [Task -> Pri]
      BY DEF Sound, IInv, TypeOK
    <3> QED
      BY <2>3, <2>4, <3>1, <3>2, EnQueueRdyAdds
  <2>6. \A y \in Task : Ready(y) \/ y = w \/ y = t => Running(y)' \/ Ready(y)'
    BY <2>1, <2>2, <2>4, <2>5, RunNextPlaced
  <2>7. \A s \in Task : s # t => tss'[s] = tss[s]
    BY <1>3, <2>1
  <2>8. Running(u) => u = t
    BY <2>1 DEF Running
  <2> QED
    BY <1>1, <2>1, <2>2, <2>6, <2>7, <2>8 DEF TaskPlaced, Waiting, Transit
<1>7. ASSUME NEW t \in Task, TakeMsg(t) PROVE TaskPlaced(u)'
  <2>1. /\ ex[t] \in Exch /\ HasMsg(ex[t]) /\ queue' = Pop(queue, ex[t])
        /\ pFreeTSS' = pFreeTSS /\ UNCHANGED runVars /\ tss' = tss
    BY <1>3, <1>7 DEF TakeMsg, At, poolVars
  <2> QED
    BY <1>1, <1>2, <2>1, PopPlaced
<1>8. ASSUME NEW t \in Task, WaitBlock(t) PROVE TaskPlaced(u)'
  <2>1. /\ ex[t] \in Exch /\ Running(t) /\ queue' = enQueue(ex[t], t)
        /\ pFreeTSS' = pFreeTSS /\ tss' = tss
        /\ \/ RdyQ' = RdyQ
           \/ RunNext(RdyQ) /\ ~dfHalted'
    BY <1>3, <1>8 DEF WaitBlock, At, poolVars, regVars, Running
  <2>2. ~Queued(queue, t)
    BY <2>1 DEF Sound, IInv, TasksDisjoint, Waiting
  <2>3. \A y : Queued(queue', y) <=> Queued(queue, y) \/ y = t
    BY <2>1, <2>2, PutPlaced
  <2>4. Ready(u) => Running(u)' \/ Ready(u)'
    BY <1>3, <2>1, RunNextPlaced DEF Ready
  <2>5. Running(u) => u = t
    BY <2>1 DEF Running
  <2> QED
    BY <1>1, <2>1, <2>3, <2>4, <2>5 DEF TaskPlaced, Waiting, Transit
<1>9. ASSUME NEW t \in Task, DeAllocFree(t) PROVE TaskPlaced(u)'
  <2>1. /\ ex[t] \in Exch /\ queue' = Clear(queue, ex[t]) /\ tss' = tss /\ UNCHANGED runVars
        /\ \/ fEMsg[ex[t]] /\ pFreeTSS' = pFreeTSS
           \/ ~fEMsg[ex[t]] /\ pFreeTSS' = pFreeTSS \cup ToSet(queue[ex[t]])
    BY <1>3, <1>9 DEF DeAllocFree, QueuedAt, regVars
  <2>2. fEMsg[ex[t]] => u \notin ToSet(queue[ex[t]])
    BY <1>1, <2>1, Kinds DEF Sound, IInv
  <2>3. \A y : Queued(queue', y) <=> Queued(queue, y) /\ y \notin ToSet(queue[ex[t]])
    <3>1. PICK U : U = Task \cup LB
      OBVIOUS
    <3>2. queue \in [Exch -> Seq(U)] /\ EachOnce(queue)
      BY <3>1 DEF Sound, IInv, LinkBlocksDisjoint, TypeOK
    <3> QED
      BY <2>1, <3>2, ClearQueued
  <2> QED
    BY <1>1, <2>1, <2>2, <2>3 DEF TaskPlaced, Running, Ready, Waiting, Transit, runVars
<1>10. ASSUME NEW t \in Task, SpawnTSS(t) PROVE TaskPlaced(u)'
  <2>1. /\ pc[t] = "ST_TSS" /\ queue' = queue /\ UNCHANGED runVars
        /\ \/ pFreeTSS' = pFreeTSS /\ tss' = tss
           \/ \E n \in pFreeTSS : pFreeTSS' = pFreeTSS \ {n} /\ tss' = [tss EXCEPT ![t] = n]
    BY <1>10 DEF SpawnTSS, At, exchVars
  <2>2. tss[t] = NIL
    BY <2>1 DEF Sound, IInv, Regs
  <2>3. ASSUME NEW n \in pFreeTSS, pFreeTSS' = pFreeTSS \ {n}, tss' = [tss EXCEPT ![t] = n]
        PROVE  TaskPlaced(u)'
    <3>1. tss'[t] = n /\ \A s \in Task : s # t => tss'[s] = tss[s]
      BY <1>3, <2>3
    <3> QED
      BY <1>1, <2>1, <2>2, <2>3, <3>1
         DEF TaskPlaced, Running, Ready, Waiting, Transit, runVars
  <2> QED
    BY <1>2, <2>1, <2>3
<1>11. ASSUME NEW t \in Task, NEW p \in Pri, SpawnPlace(t, p) PROVE TaskPlaced(u)'
  <2>1. /\ pc[t] = "ST0004" /\ queue' = queue /\ pFreeTSS' = pFreeTSS /\ Running(t)
        /\ tss' = [tss EXCEPT ![t] = NIL] /\ dfHalted' = dfHalted /\ ~dfHalted
        /\ \/ RdyQ' = enQueueRdy(RdyQ, t) /\ pRunTSS' = tss[t]
           \/ RdyQ' = Put(RdyQ, p, tss[t]) /\ pRunTSS' = pRunTSS
    BY <1>11 DEF SpawnPlace, At, exchVars, poolVars, Running
  <2>2. PICK n \in Task : n = tss[t]
    BY <1>3, <2>1 DEF Sound, IInv, Regs
  <2>3. ~Ready(n) /\ ~Ready(t)
    BY <2>1, <2>2 DEF Transit, Sound, IInv, TasksDisjoint
  <2>4. /\ \A y : Queued(enQueueRdy(RdyQ, t), y) <=> Ready(y) \/ y = t
        /\ \A y : Queued(Put(RdyQ, p, n), y) <=> Ready(y) \/ y = n
    BY <1>3, <2>3, EnQueuePlaced, PutReady DEF Ready
  <2>5. /\ Ready(u) => Ready(u)'
        /\ u = t \/ u = n => Running(u)' \/ Ready(u)'
    BY <2>1, <2>2, <2>4 DEF Ready, Running
  <2>6. \A s \in Task : s # t => tss'[s] = tss[s]
    BY <1>3, <2>1
  <2>7. Running(u) => u = t
    BY <2>1 DEF Running
  <2> QED
    BY <1>1, <2>1, <2>2, <2>5, <2>6, <2>7 DEF TaskPlaced, Waiting, Transit
<1>12. CASE WaitUnhalt
  <2>1. dfHalted /\ ~dfHalted' /\ RunNext(RdyQ) /\ queue' = queue /\ pFreeTSS' = pFreeTSS /\ tss' = tss
    BY <1>12 DEF WaitUnhalt, exchVars, poolVars, regVars
  <2>2. Ready(u) => Running(u)' \/ Ready(u)'
    BY <1>3, <2>1, RunNextPlaced DEF Ready
  <2> QED
    BY <1>1, <2>1, <2>2 DEF TaskPlaced, Running, Waiting, Transit
<1>13. CASE IntTimer
  <2>1. queue' = queue /\ pFreeTSS' = pFreeTSS /\ tss' = tss /\ dfHalted' = dfHalted
    BY <1>13 DEF IntTimer, exchVars, poolVars, regVars
  <2>2. CASE UNCHANGED <<pRunTSS, RdyQ>>
    BY <1>1, <2>1, <2>2 DEF TaskPlaced, Running, Ready, Waiting, Transit
  <2>3. ASSUME NEW p \in Pri, RdyQ[p] # << >>, ~dfHalted, pRunTSS' = Head(RdyQ[p]),
               RdyQ' = enQueueRdy(Pop(RdyQ, p), pRunTSS)
        PROVE  TaskPlaced(u)'
    <3>1. pRunTSS \in Task /\ Priority \in [Task -> Pri] /\ ~Ready(pRunTSS)
      BY <2>3 DEF Sound, IInv, TypeOK, TasksDisjoint, Running
    <3>2. /\ Pop(RdyQ, p) \in [Pri -> Seq(Task)]
          /\ \A y : Queued(Pop(RdyQ, p), y) <=> Queued(RdyQ, y) /\ y # Head(RdyQ[p])
      BY <1>3, <2>3, PopReady
    <3>3. \A y : Queued(RdyQ', y) <=> Queued(Pop(RdyQ, p), y) \/ y = pRunTSS
      BY <2>3, <3>1, <3>2, EnQueueRdyAdds
    <3> QED
      BY <1>1, <2>1, <2>3, <3>2, <3>3 DEF TaskPlaced, Running, Ready, Waiting, Transit
  <2> QED
    BY <1>13, <2>2, <2>3 DEF IntTimer, TaskCheck, HighestReady
<1>14. ASSUME NEW e \in ISends, ISendMsg(e) PROVE TaskPlaced(u)'
  <2>1. e \in Exch /\ pFreeTSS' = pFreeTSS /\ tss' = tss /\ UNCHANGED <<pRunTSS, dfHalted, slice>>
    BY <1>14, ProgramAssumption DEF ISendMsg
  <2>2. PICK c \in pFreeLB :
          \/ /\ HasTSS(e) /\ queue' = Pop(queue, e)
             /\ RdyQ' = enQueueRdy(RdyQ, Head(queue[e]))
          \/ queue' = enQueue(e, c) /\ RdyQ' = RdyQ
    BY <1>14 DEF ISendMsg
  <2>3. CASE queue' = enQueue(e, c) /\ RdyQ' = RdyQ
    <3>1. c \in LB /\ ~Queued(queue, c)
      BY DEF Sound, IInv, LinkBlocksDisjoint, TypeOK
    <3> QED
      BY <1>2, <2>1, <2>3, <3>1, PutPlaced DEF runVars
  <2>4. CASE HasTSS(e) /\ queue' = Pop(queue, e) /\ RdyQ' = enQueueRdy(RdyQ, Head(queue[e]))
    <3>1. /\ \A y : Queued(queue', y) <=> Queued(queue, y) /\ y # Head(queue[e])
          /\ Head(queue[e]) \in Task
      BY <2>1, <2>4, PopPlaced
    <3>2. PICK w \in Task : w = Head(queue[e])
      BY <3>1
    <3>3. Waiting(w) /\ ~Ready(w)
      BY <1>1, <2>1, <2>4, <3>2, PopAtExch
         DEF Waiting, Sound, IInv, LinkBlocksDisjoint, HasTSS, TasksDisjoint
    <3>4. \A y : Ready(y)' <=> Ready(y) \/ y = w
      BY <2>4, <3>2, <3>3, EnQueuePlaced DEF Ready
    <3> QED
      BY <1>1, <2>1, <3>1, <3>2, <3>4 DEF TaskPlaced, Running, Waiting, Transit
  <2> QED
    BY <2>2, <2>3, <2>4
<1>15. ASSUME NEW t \in Task, AllocReset(t) PROVE TaskPlaced(u)'
  BY <1>2, <1>15 DEF AllocReset, poolVars, regVars
<1>16. ASSUME NEW t \in Task, SendNoLB(t) \/ CheckNone(t) \/ Deliver(t) PROVE TaskPlaced(u)'
  BY <1>2, <1>16 DEF SendNoLB, CheckNone, Deliver, exchVars, poolVars, regVars
<1>17. ASSUME NEW t \in Task, Program(t) PROVE TaskPlaced(u)'
  <2>1. CASE AllocExch(t) \/ \E p \in Pri : SpawnTask(t, p)
    BY <1>2, <2>1, AllocPlaced DEF AllocExch, SpawnTask, AllocOwner, poolVars, runVars
  <2>2. CASE \/ \E e \in Exch : \/ SendMsg(t, e) \/ WaitMsg(t, e)
                                \/ CheckMsg(t, e) \/ DeAllocExch(t, e)
             \/ \E p \in Pri : SetPriority(t, p)
    BY <1>2, <2>2 DEF SendMsg, WaitMsg, CheckMsg, DeAllocExch, SetPriority,
       exchVars, poolVars, regVars
  <2> QED
    BY <1>17, <2>1, <2>2 DEF Program
<1> QED
  BY <1>4, <1>5, <1>6, <1>7, <1>8, <1>9, <1>10, <1>11, <1>12, <1>13, <1>14, <1>15, <1>16,
     <1>17 DEF Next, Interrupt, Primitive

\* While the exchanges are whole every link block and every task that a step
\* takes from one place it puts into another.
THEOREM NothingElseLoses == Spec => WholeLosesNothing
<1>1. ASSUME IInv, Next, Whole, LinkBlocksConserved PROVE LinkBlocksConserved'
  <2>1. Sound /\ \A b \in LB : Placed(b)
    BY <1>1, StepIntact DEF Sound, LinkBlocksConserved, Placed
  <2>2. \A b \in LB : Placed(b)'
    BY <1>1, <2>1, NextPlaced
  <2>3. TypeOK'
    BY <1>1, NextIInv DEF IInv
  <2> QED
    BY <2>2, <2>3 DEF LinkBlocksConserved, Placed, TypeOK
<1>2. ASSUME IInv, Next, Whole, TasksConserved PROVE TasksConserved'
  <2>1. Sound /\ \A u \in Task : TaskPlaced(u)
    BY <1>2, StepIntact DEF Sound, TasksConserved, TaskPlaced
  <2>2. \A u \in Task : TaskPlaced(u)'
    BY <1>2, <2>1, NextTaskPlaced
  <2> QED
    BY <2>2 DEF TasksConserved, TaskPlaced
<1>3. IInv /\ [Next]_vars =>
        [Whole => /\ LinkBlocksConserved => LinkBlocksConserved'
                  /\ TasksConserved => TasksConserved']_vars
  BY <1>1, <1>2
<1> QED
  BY <1>3, Invariance, PTL DEF Spec, WholeLosesNothing

-----------------------------------------------------------------------------
(* The exchanges implement the mailboxes. *)

\* What Mailbox sees.
Pending   == [e \in Exch |-> IF fEMsg[e] THEN queue[e] ELSE << >>]
WaitingAt == [e \in Exch |-> IF fEMsg[e] THEN << >> ELSE queue[e]]
Inboxes   == [t \in Task |-> Inbox(t)]

\* The inbox of u for given registers, and the message that is u's own.
InboxOf(P, L, T, u) ==
    IF \E s \in Task : P[s] = "Send_STI" /\ T[s] = u
    THEN L[CHOOSE s \in Task : P[s] = "Send_STI" /\ T[s] = u]
    ELSE IF P[u] \in {"Wait03", "Wait06"} THEN L[u] ELSE NIL

Own(P, L, u) == IF P[u] \in {"Wait03", "Wait06"} THEN L[u] ELSE NIL

Single(T) == \A t, u, v \in Task : T[u] = t /\ T[v] = t => u = v

\* At most one task hands over to u, and then its message is in u's inbox.
LEMMA InboxOfIs ==
    ASSUME NEW P, NEW L, NEW T, Single(T), NEW u \in Task
    PROVE  /\ \A s \in Task : P[s] = "Send_STI" /\ T[s] = u => InboxOf(P, L, T, u) = L[s]
           /\ (\A s \in Task : ~(P[s] = "Send_STI" /\ T[s] = u)) =>
                InboxOf(P, L, T, u) = Own(P, L, u)
<1>1. ASSUME NEW s \in Task, P[s] = "Send_STI" /\ T[s] = u
      PROVE  InboxOf(P, L, T, u) = L[s]
  <2>1. PICK c \in Task : c = CHOOSE x \in Task : P[x] = "Send_STI" /\ T[x] = u
    BY <1>1
  <2>2. P[c] = "Send_STI" /\ T[c] = u
    BY <1>1, <2>1
  <2>3. c = s
    BY <1>1, <2>2 DEF Single
  <2> QED
    BY <1>1, <2>1, <2>3 DEF InboxOf
<1>2. ASSUME \A s \in Task : ~(P[s] = "Send_STI" /\ T[s] = u)
      PROVE  InboxOf(P, L, T, u) = Own(P, L, u)
  BY <1>2 DEF InboxOf, Own
<1> QED
  BY <1>1, <1>2

\* The same of the registers now and after a step.
LEMMA Inboxed ==
    ASSUME IInv, IInv', NEW u \in Task
    PROVE  /\ \A s \in Task : Handing(s, u) => Inbox(u) = lb[s]
           /\ (\A s \in Task : ~Handing(s, u)) => Inbox(u) = Own(pc, lb, u)
           /\ \A s \in Task : Handing(s, u)' => Inbox(u)' = lb'[s]
           /\ (\A s \in Task : ~Handing(s, u)') => Inbox(u)' = Own(pc', lb', u)
           /\ Inboxes[u] = Inbox(u) /\ Inboxes'[u] = Inbox(u)'
<1>1. Single(tss) /\ Single(tss')
  BY DEF IInv, TasksDisjoint, Single
<1>2. /\ Inbox(u) = InboxOf(pc, lb, tss, u)
      /\ Inbox(u)' = InboxOf(pc', lb', tss', u)
  BY DEF Inbox, InboxOf, Handing
<1>3. /\ \A s \in Task : pc[s] = "Send_STI" /\ tss[s] = u => InboxOf(pc, lb, tss, u) = lb[s]
      /\ (\A s \in Task : ~(pc[s] = "Send_STI" /\ tss[s] = u)) =>
           InboxOf(pc, lb, tss, u) = Own(pc, lb, u)
  BY <1>1, InboxOfIs
<1>4. /\ \A s \in Task : pc'[s] = "Send_STI" /\ tss'[s] = u => InboxOf(pc', lb', tss', u) = lb'[s]
      /\ (\A s \in Task : ~(pc'[s] = "Send_STI" /\ tss'[s] = u)) =>
           InboxOf(pc', lb', tss', u) = Own(pc', lb', u)
  BY <1>1, InboxOfIs
<1> QED
  BY <1>2, <1>3, <1>4 DEF Handing, Inboxes

\* An inbox stays as it is when the same task hands over to it and its own
\* message is the same.
LEMMA InboxSame ==
    ASSUME IInv, IInv', NEW u \in Task,
           \A s \in Task : /\ Handing(s, u)' <=> Handing(s, u)
                           /\ Handing(s, u) => lb'[s] = lb[s],
           Own(pc', lb', u) = Own(pc, lb, u)
    PROVE  Inboxes'[u] = Inboxes[u]
<1>1. CASE \E s \in Task : Handing(s, u)
  BY <1>1, Inboxed
<1>2. CASE \A s \in Task : ~Handing(s, u)
  BY <1>2, Inboxed
<1> QED
  BY <1>1, <1>2

\* Nobody hands a message to a task that is running or waits in a queue.
LEMMA NoneHands ==
    ASSUME IInv, NEW u \in Task, Running(u) \/ Waiting(u) \/ Ready(u)
    PROVE  \A s \in Task : ~Handing(s, u)
BY DEF IInv, TasksDisjoint, Transit, Handing

\* A link block that is free, or is held by a task that has yet to queue it,
\* is no message in use.
LEMMA NotInUse ==
    ASSUME IInv, IInv', NEW b \in LB,
           \/ b \in pFreeLB
           \/ \E t \in Task : lb[t] = b /\ pc[t] = "Send_STI" /\ tss[t] = NIL
    PROVE  /\ \A e \in Exch : \A i \in 1 .. Len(Pending[e]) : Pending[e][i] # b
           /\ \A u \in Task : Inboxes[u] # b
<1>1. /\ queue \in [Exch -> Seq(Task \cup LB)] /\ NIL \notin Task /\ b # NIL
      /\ tss \in [Task -> Task \cup {NIL}]
  BY NamesAssumption DEF IInv, TypeOK
<1>2. ~Queued(queue, b)
  BY <1>1 DEF IInv, LinkBlocksDisjoint
<1>3. ASSUME NEW e \in Exch, NEW i \in 1 .. Len(Pending[e]), Pending[e][i] = b PROVE FALSE
  <2>1. Pending[e] = queue[e]
    BY <1>3 DEF Pending
  <2>2. b \in ToSet(queue[e])
    BY <1>1, <1>3, <2>1, LenProperties DEF ToSet
  <2> QED
    BY <1>1, <1>2, <2>2 DEF Queued
<1>4. ASSUME NEW u \in Task, Inboxes[u] = b PROVE FALSE
  <2>1. CASE \E s \in Task : Handing(s, u)
    <3>1. PICK s \in Task : Handing(s, u) /\ lb[s] = b
      BY <1>4, <2>1, Inboxed
    <3> QED
      BY <1>1, <3>1 DEF Handing, IInv, LinkBlocksDisjoint
  <2>2. CASE \A s \in Task : ~Handing(s, u)
    <3>1. lb[u] = b /\ pc[u] \in {"Wait03", "Wait06"}
      BY <1>1, <1>4, <2>2, Inboxed DEF Own
    <3> QED
      BY <1>1, <3>1 DEF IInv, LinkBlocksDisjoint
  <2> QED
    BY <2>1, <2>2
<1> QED
  BY <1>3, <1>4

\* A task that is not queued at an exchange is not waiting there.
LEMMA NotWaiting ==
    ASSUME IInv, NEW t \in Task, ~Waiting(t)
    PROVE  \A e \in Exch : \A i \in 1 .. Len(WaitingAt[e]) : WaitingAt[e][i] # t
<1>1. queue \in [Exch -> Seq(Task \cup LB)]
  BY DEF IInv, TypeOK
<1> SUFFICES ASSUME NEW e \in Exch, NEW i \in 1 .. Len(WaitingAt[e]), WaitingAt[e][i] = t PROVE FALSE
  OBVIOUS
<1>2. WaitingAt[e] = queue[e]
  BY DEF WaitingAt
<1>3. t \in ToSet(queue[e])
  BY <1>1, <1>2, LenProperties DEF ToSet
<1> QED
  BY <1>1, <1>3 DEF Waiting, Queued

\* What Mailbox sees of the queues after a step at exchange e.
LEMMA SeenQueues ==
    ASSUME IInv, NEW e \in Exch, NEW q, NEW m \in BOOLEAN,
           queue' = [queue EXCEPT ![e] = q], fEMsg' = [fEMsg EXCEPT ![e] = m]
    PROVE  /\ Pending' = [Pending EXCEPT ![e] = IF m THEN q ELSE << >>]
           /\ WaitingAt' = [WaitingAt EXCEPT ![e] = IF m THEN << >> ELSE q]
<1>1. queue \in [Exch -> Seq(Task \cup LB)] /\ fEMsg \in [Exch -> BOOLEAN]
  BY DEF IInv, TypeOK
<1>2. /\ queue'[e] = q /\ (fEMsg'[e] <=> m)
      /\ \A f \in Exch : f # e => queue'[f] = queue[f] /\ (fEMsg'[f] <=> fEMsg[f])
  BY <1>1
<1>3. Pending' = [Pending EXCEPT ![e] = IF m THEN q ELSE << >>]
  BY <1>2 DEF Pending
<1>4. WaitingAt' = [WaitingAt EXCEPT ![e] = IF m THEN << >> ELSE q]
  BY <1>2 DEF WaitingAt
<1> QED
  BY <1>3, <1>4

\* The actions of Mailbox, of what it sees.
LEMMA MailboxSteps ==
    ASSUME NEW e \in Exch
    PROVE  /\ \A b \in LB :
                /\ \A f \in Exch : \A i \in 1 .. Len(Pending[f]) : Pending[f][i] # b
                /\ \A u \in Task : Inboxes[u] # b
                /\ \/ /\ WaitingAt[e] = << >> /\ Pending' = [Pending EXCEPT ![e] = Append(@, b)]
                      /\ WaitingAt' = WaitingAt /\ Inboxes' = Inboxes
                   \/ /\ WaitingAt[e] # << >> /\ WaitingAt' = [WaitingAt EXCEPT ![e] = Tail(@)]
                      /\ Inboxes' = [Inboxes EXCEPT ![Head(WaitingAt[e])] = b]
                      /\ Pending' = Pending
                => MB!Next
           /\ \A t \in Task :
                /\ Pending[e] # << >> /\ Inboxes[t] = NIL
                /\ \A f \in Exch : \A i \in 1 .. Len(WaitingAt[f]) : WaitingAt[f][i] # t
                /\ Inboxes' = [Inboxes EXCEPT ![t] = Head(Pending[e])]
                /\ Pending' = [Pending EXCEPT ![e] = Tail(@)] /\ WaitingAt' = WaitingAt
                => MB!Next
           /\ \A t \in Task :
                /\ Pending[e] = << >> /\ Inboxes[t] = NIL
                /\ \A f \in Exch : \A i \in 1 .. Len(WaitingAt[f]) : WaitingAt[f][i] # t
                /\ WaitingAt' = [WaitingAt EXCEPT ![e] = Append(@, t)]
                /\ Pending' = Pending /\ Inboxes' = Inboxes
                => MB!Next
           /\ \A t \in Task :
                /\ Inboxes[t] # NIL /\ Inboxes' = [Inboxes EXCEPT ![t] = NIL]
                /\ Pending' = Pending /\ WaitingAt' = WaitingAt
                => MB!Next
           /\ Pending' = [Pending EXCEPT ![e] = << >>] /\ WaitingAt' = [WaitingAt EXCEPT ![e] = << >>]
              /\ Inboxes' = Inboxes
              => MB!Next
           /\ UNCHANGED <<Pending, WaitingAt, Inboxes>> => UNCHANGED MB!vars
<1>1. ASSUME NEW b \in LB,
             \A f \in Exch : \A i \in 1 .. Len(Pending[f]) : Pending[f][i] # b,
             \A u \in Task : Inboxes[u] # b,
             \/ /\ WaitingAt[e] = << >> /\ Pending' = [Pending EXCEPT ![e] = Append(@, b)]
                /\ WaitingAt' = WaitingAt /\ Inboxes' = Inboxes
             \/ /\ WaitingAt[e] # << >> /\ WaitingAt' = [WaitingAt EXCEPT ![e] = Tail(@)]
                /\ Inboxes' = [Inboxes EXCEPT ![Head(WaitingAt[e])] = b]
                /\ Pending' = Pending
      PROVE  MB!Next
  <2>1. ~MB!InUse(b)
    BY <1>1 DEF MB!InUse, Pending, Inboxes
  <2>2. MB!Send(e, b)
    BY <1>1, <2>1 DEF MB!Send, Pending, WaitingAt, Inboxes
  <2> QED
    BY <2>2 DEF MB!Next
<1>2. ASSUME NEW t \in Task, Inboxes[t] = NIL,
             \A f \in Exch : \A i \in 1 .. Len(WaitingAt[f]) : WaitingAt[f][i] # t,
             \/ /\ Pending[e] # << >> /\ Inboxes' = [Inboxes EXCEPT ![t] = Head(Pending[e])]
                /\ Pending' = [Pending EXCEPT ![e] = Tail(@)] /\ WaitingAt' = WaitingAt
             \/ /\ Pending[e] = << >> /\ WaitingAt' = [WaitingAt EXCEPT ![e] = Append(@, t)]
                /\ Pending' = Pending /\ Inboxes' = Inboxes
      PROVE  MB!Next
  <2>1. ~MB!IsWaiting(t)
    BY <1>2 DEF MB!IsWaiting, WaitingAt
  <2>2. MB!Receive(t, e) \/ MB!Wait(t, e)
    BY <1>2, <2>1 DEF MB!Receive, MB!Wait, Pending, WaitingAt, Inboxes
  <2> QED
    BY <2>2 DEF MB!Next
<1>3. ASSUME NEW t \in Task, Inboxes[t] # NIL, Inboxes' = [Inboxes EXCEPT ![t] = NIL],
             Pending' = Pending, WaitingAt' = WaitingAt
      PROVE  MB!Next
  <2>1. MB!Read(t)
    BY <1>3 DEF MB!Read, Pending, WaitingAt, Inboxes
  <2> QED
    BY <2>1 DEF MB!Next
<1>4. ASSUME Pending' = [Pending EXCEPT ![e] = << >>],
             WaitingAt' = [WaitingAt EXCEPT ![e] = << >>], Inboxes' = Inboxes
      PROVE  MB!Next
  <2>1. MB!Close(e)
    BY <1>4 DEF MB!Close, Pending, WaitingAt, Inboxes
  <2> QED
    BY <2>1 DEF MB!Next
<1>5. UNCHANGED <<Pending, WaitingAt, Inboxes>> => UNCHANGED MB!vars
  BY DEF MB!vars, Pending, WaitingAt, Inboxes
<1> QED
  BY <1>1, <1>2, <1>3, <1>4, <1>5

\* A state in which each exchange holds one kind.
Unbroken == IInv /\ Intact

\* The first of the tasks that wait at an exchange.
LEMMA FirstWaiting ==
    ASSUME Unbroken, NEW e \in Exch, HasTSS(e)
    PROVE  Head(queue[e]) \in Task /\ Waiting(Head(queue[e]))
<1>1. Intact /\ queue[e] # << >>
  BY DEF Unbroken, HasTSS
<1> QED
  BY <1>1, Kinds, PopAtExch DEF Unbroken, IInv, LinkBlocksDisjoint, Waiting

\* A step after which only the inbox of x may be another one.
LEMMA OneInbox ==
    ASSUME IInv, IInv', NEW x \in Task,
           \A u \in Task : u # x =>
               /\ Own(pc', lb', u) = Own(pc, lb, u)
               /\ \A s \in Task : /\ Handing(s, u)' <=> Handing(s, u)
                                  /\ Handing(s, u) => lb'[s] = lb[s]
    PROVE  Inboxes' = [Inboxes EXCEPT ![x] = Inbox(x)']
<1>1. \A u \in Task : u # x => Inboxes'[u] = Inboxes[u]
  BY InboxSame
<1>2. Inboxes'[x] = Inbox(x)'
  BY Inboxed
<1>3. Inboxes' = [u \in Task |-> Inboxes'[u]] /\ Inboxes = [u \in Task |-> Inboxes[u]]
  BY DEF Inboxes
<1> QED
  BY <1>1, <1>2, <1>3

\* Task u takes no message and hands none over.
Quiet(u) ==
    \/ pc'[u] = pc[u] /\ lb'[u] = lb[u] /\ tss'[u] = tss[u]
    \/ /\ pc[u] = "Send_STI" => tss[u] = NIL
       /\ pc'[u] = "Send_STI" => tss'[u] = NIL
       /\ Own(pc', lb', u) = Own(pc, lb, u)

\* A step of quiet tasks.
LEMMA QuietStep ==
    ASSUME IInv, IInv', \A u \in Task : Quiet(u)
    PROVE  Inboxes' = Inboxes
<1>1. \A u \in Task : Own(pc', lb', u) = Own(pc, lb, u)
  BY DEF Quiet, Own
<1>2. \A s, u \in Task : /\ Handing(s, u)' <=> Handing(s, u)
                         /\ Handing(s, u) => lb'[s] = lb[s]
  BY NamesAssumption DEF Quiet, Handing
<1>3. \A u \in Task : Inboxes'[u] = Inboxes[u]
  BY <1>1, <1>2, InboxSame
<1>4. Inboxes' = [u \in Task |-> Inboxes'[u]] /\ Inboxes = [u \in Task |-> Inboxes[u]]
  BY DEF Inboxes
<1> QED
  BY <1>3, <1>4

\* A step of Mailbox, or one that Mailbox does not see.
MBStep == MB!Next \/ UNCHANGED MB!vars

\* Mailbox does not see a step of quiet tasks that changes no exchange.
LEMMA UnseenStep ==
    ASSUME IInv, IInv', UNCHANGED <<queue, fEMsg>>, \A u \in Task : Quiet(u)
    PROVE  MBStep
<1>1. Pending' = Pending /\ WaitingAt' = WaitingAt /\ Inboxes' = Inboxes
  BY QuietStep DEF Pending, WaitingAt
<1>2. 0 \in Exch
  BY SizesAssumption DEF Exch
<1> QED
  BY <1>1, <1>2, MailboxSteps DEF MBStep

\* The steps that change no queue and carry no message.
LEMMA UnseenSteps ==
    ASSUME Unbroken, IInv',
           \/ \E t \in Task :
                \/ SendNoLB(t) \/ CheckNone(t) \/ AllocReset(t) \/ SpawnTSS(t)
                \/ \E p \in Pri : SpawnPlace(t, p) \/ SetPriority(t, p)
                \/ \E e \in Exch : \/ SendMsg(t, e) \/ WaitMsg(t, e)
                                   \/ CheckMsg(t, e) \/ DeAllocExch(t, e)
           \/ WaitUnhalt \/ IntTimer \/ UNCHANGED vars
    PROVE  MBStep
<1>1. IInv /\ pc \in [Task -> Label] /\ lb \in [Task -> LB \cup {NIL}]
      /\ tss \in [Task -> Task \cup {NIL}] /\ NIL \notin Task
  BY NamesAssumption DEF Unbroken, IInv, TypeOK
<1>2. ASSUME NEW t \in Task, NEW k \in Label \ {"Send_STI", "Wait03", "Wait06"},
             NEW l \in Label \ {"Send_STI", "Wait03", "Wait06"},
             pc[t] = k, pc' = [pc EXCEPT ![t] = l], lb' = lb,
             \A u \in Task : u # t => tss'[u] = tss[u], UNCHANGED <<queue, fEMsg>>
      PROVE  MBStep
  <2>1. pc'[t] = l /\ \A u \in Task : u # t => pc'[u] = pc[u]
    BY <1>1, <1>2
  <2>2. \A u \in Task : Quiet(u)
    BY <1>2, <2>1 DEF Quiet, Own
  <2> QED
    BY <1>1, <1>2, <2>2, UnseenStep
<1>3. ASSUME NEW t \in Task, NEW p \in Pri, SetPriority(t, p) PROVE MBStep
  <2>1. UNCHANGED <<queue, fEMsg, pc, lb, tss>>
    BY <1>3 DEF SetPriority, exchVars, regVars
  <2> QED
    BY <1>1, <2>1, UnseenStep DEF Quiet
<1>8. ASSUME NEW t \in Task, NEW e \in Exch,
             SendMsg(t, e) \/ WaitMsg(t, e) \/ CheckMsg(t, e) \/ DeAllocExch(t, e)
      PROVE  MBStep
  <2>1. /\ pc[t] \in {"run", "ST_Free"} /\ UNCHANGED <<queue, fEMsg, lb, tss>>
        /\ \E l \in {"Send01", "Wait01", "Chk02", "DE000", "run"} :
             pc' = [pc EXCEPT ![t] = l]
    BY <1>8 DEF SendMsg, WaitMsg, CheckMsg, DeAllocExch, Calling, At, Goto, exchVars
  <2> QED
    BY <1>2, <2>1 DEF Label
<1>4. ASSUME NEW t \in Task, SendNoLB(t) \/ CheckNone(t) \/ AllocReset(t) PROVE MBStep
  <2>1. /\ pc[t] \in {"Send01", "Chk02", "AE001", "ST_AE001"} /\ UNCHANGED <<fEMsg, lb, tss>>
        /\ \E l \in {"run", "ST_TSS"} : pc' = [pc EXCEPT ![t] = l]
    BY <1>4 DEF SendNoLB, CheckNone, AllocReset, At, Goto, exchVars, regVars
  <2>2. queue' = queue
    BY <1>4 DEF SendNoLB, CheckNone, AllocReset, exchVars
  <2> QED
    BY <1>2, <2>1, <2>2 DEF Label
<1>5. ASSUME NEW t \in Task, SpawnTSS(t) PROVE MBStep
  <2>1. /\ pc[t] = "ST_TSS" /\ UNCHANGED <<queue, fEMsg, lb>>
        /\ \E l \in {"ST0004", "ST_Free"} : pc' = [pc EXCEPT ![t] = l]
        /\ tss' = tss \/ \E n \in pFreeTSS : tss' = [tss EXCEPT ![t] = n]
    BY <1>5 DEF SpawnTSS, At, Goto, exchVars
  <2>2. \A u \in Task : u # t => tss'[u] = tss[u]
    BY <1>1, <2>1
  <2> QED
    BY <1>2, <2>1, <2>2 DEF Label
<1>6. ASSUME NEW t \in Task, NEW p \in Pri, SpawnPlace(t, p) PROVE MBStep
  <2>1. /\ pc[t] = "ST0004" /\ UNCHANGED <<queue, fEMsg, lb>>
        /\ pc' = [pc EXCEPT ![t] = "run", ![tss[t]] = "run"]
        /\ tss' = [tss EXCEPT ![t] = NIL]
    BY <1>6 DEF SpawnPlace, At, exchVars
  <2>2. PICK n \in Task : n = tss[t]
    BY <1>1, <2>1 DEF IInv, Regs
  <2>3. pc[n] \in {"run", "Wait03"} /\ lb[n] = NIL
    BY <1>1, <2>2 DEF Transit, Parked, IInv, ParkedRegs
  <2>4. /\ pc'[t] = "run" /\ pc'[n] = "run"
        /\ \A u \in Task : u # t => tss'[u] = tss[u]
        /\ \A u \in Task : u # t /\ u # n => pc'[u] = pc[u]
    BY <1>1, <2>1, <2>2
  <2>5. \A u \in Task : Quiet(u)
    BY <2>1, <2>3, <2>4 DEF Quiet, Own
  <2> QED
    BY <1>1, <2>1, <2>5, UnseenStep
<1>7. CASE WaitUnhalt \/ IntTimer \/ UNCHANGED vars
  <2>1. UNCHANGED <<queue, fEMsg, pc, lb, tss>>
    BY <1>7 DEF WaitUnhalt, IntTimer, vars, exchVars, regVars
  <2> QED
    BY <1>1, <2>1, UnseenStep DEF Quiet
<1> QED
  BY <1>3, <1>4, <1>5, <1>6, <1>7, <1>8

\* SendMsg found no task waiting, and has not broken its exchange since.
LEMMA NoneCame ==
    ASSUME IInv, Intact, Intact', NEW t \in Task, SendQueue(t)
    PROVE  ~HasTSS(ex[t])
<1> DEFINE e == ex[t]
<1> SUFFICES ASSUME HasTSS(e) PROVE FALSE
  OBVIOUS
<1>1. /\ queue \in [Exch -> Seq(Task \cup LB)] /\ fEMsg \in [Exch -> BOOLEAN]
      /\ e \in Exch /\ lb[t] \in LB
  BY DEF IInv, TypeOK, Regs, SendQueue, At
<1>2. /\ queue[e] # << >> /\ queue[e] \in Seq(Task) /\ queue[e][1] \in Task
  <2>1. queue[e] # << >> /\ queue[e] \in Seq(Task)
    BY <1>1, Kinds DEF IInv, HasTSS
  <2> QED
    BY <2>1, HeadTailProperties
<1>3. /\ fEMsg'[e] = TRUE
      /\ queue'[e] = queue[e] \/ queue'[e] = Append(queue[e], lb[t])
  BY <1>1 DEF SendQueue, enQueue, Put
<1>4. queue'[e][1] = queue[e][1] /\ Len(queue'[e]) >= 1
  <2>1. Len(queue[e]) \in Nat /\ Len(queue[e]) >= 1
    BY <1>2, EmptySeq, LenProperties
  <2>2. /\ Append(queue[e], lb[t])[1] = queue[e][1]
        /\ Len(Append(queue[e], lb[t])) >= 1
    BY <1>1, <2>1, AppendProperties
  <2> QED
    BY <1>3, <2>1, <2>2
<1>5. queue'[e] \in Seq(LB)
  BY <1>1, <1>3 DEF Intact, OneKind
<1>6. queue'[e][1] \in LB
  <2>1. 1 \in 1 .. Len(queue'[e])
    BY <1>4, <1>5, LenProperties
  <2> QED
    BY <1>5, <2>1, ElementOfSeq
<1> QED
  BY <1>2, <1>4, <1>6, NamesAssumption

\* The message that is sent goes where Mailbox sends it.
LEMMA SendSteps ==
    ASSUME Unbroken, IInv', Intact', NEW t \in Task, SendTake(t) \/ SendQueue(t) \/ SendHandOver(t)
    PROVE  MBStep
<1> DEFINE e == ex[t]
<1>1. /\ IInv /\ pc \in [Task -> Label] /\ lb \in [Task -> LB \cup {NIL}] /\ e \in Exch
      /\ tss \in [Task -> Task \cup {NIL}] /\ NIL \notin Task
      /\ queue \in [Exch -> Seq(Task \cup LB)] /\ fEMsg \in [Exch -> BOOLEAN]
  BY NamesAssumption DEF Unbroken, IInv, TypeOK
<1>2. CASE SendTake(t)
  <2>1. PICK b \in pFreeLB : lb' = [lb EXCEPT ![t] = b]
    BY <1>2 DEF SendTake
  <2>2. /\ pc[t] = "Send01" /\ pc' = [pc EXCEPT ![t] = "Send_STI"] /\ fEMsg' = fEMsg
        /\ \/ ~HasTSS(e) /\ queue' = queue /\ tss' = tss
           \/ HasTSS(e) /\ queue' = Pop(queue, e) /\ tss' = [tss EXCEPT ![t] = Head(queue[e])]
    BY <1>2 DEF SendTake, At, Goto
  <2>3. /\ pc'[t] = "Send_STI" /\ lb'[t] = b
        /\ \A u \in Task : u # t => pc'[u] = pc[u] /\ lb'[u] = lb[u]
    BY <1>1, <2>1, <2>2
  <2>4. CASE ~HasTSS(e)
    <3>1. tss[t] = NIL
      BY <1>1, <2>2 DEF IInv, Regs
    <3>2. \A u \in Task : Quiet(u)
      BY <2>2, <2>3, <2>4, <3>1 DEF Quiet, Own
    <3> QED
      BY <1>1, <2>2, <2>4, <3>2, UnseenStep
  <2>5. CASE HasTSS(e)
    <3>1. PICK h \in Task : h = Head(queue[e])
      BY <1>1, <2>5, FirstWaiting
    <3>2. tss'[t] = h /\ \A u \in Task : u # t => tss'[u] = tss[u]
      BY <1>1, <2>2, <2>5, <3>1
    <3>3. \A u \in Task : Own(pc', lb', u) = Own(pc, lb, u)
      BY <2>2, <2>3 DEF Own
    <3>4. \A u \in Task : u # h => \A s \in Task : /\ Handing(s, u)' <=> Handing(s, u)
                                                   /\ Handing(s, u) => lb'[s] = lb[s]
      BY <2>2, <2>3, <3>2 DEF Handing
    <3>5. Inbox(h)' = b
      BY <1>1, <2>3, <3>2, Inboxed DEF Handing
    <3>6. Inboxes' = [Inboxes EXCEPT ![h] = b]
      BY <1>1, <3>3, <3>4, <3>5, OneInbox
    <3>7. /\ queue' = [queue EXCEPT ![e] = Tail(queue[e])] /\ fEMsg' = [fEMsg EXCEPT ![e] = FALSE]
          /\ Pending[e] = << >> /\ WaitingAt[e] = queue[e] /\ queue[e] # << >>
      BY <1>1, <2>2, <2>5 DEF HasTSS, Pop, Pending, WaitingAt
    <3>8. /\ Pending' = [Pending EXCEPT ![e] = << >>]
          /\ WaitingAt' = [WaitingAt EXCEPT ![e] = Tail(queue[e])]
      BY <1>1, <3>7, SeenQueues
    <3>9. Pending' = Pending
      BY <3>7, <3>8 DEF Pending
    <3>10. b \in LB
      BY DEF Unbroken, IInv, TypeOK
    <3>11. WaitingAt' = [WaitingAt EXCEPT ![e] = Tail(@)]
      BY <3>7, <3>8
    <3>12. Inboxes' = [Inboxes EXCEPT ![Head(WaitingAt[e])] = b] /\ WaitingAt[e] # << >>
      BY <3>1, <3>6, <3>7
    <3>13. /\ \A f \in Exch : \A i \in 1 .. Len(Pending[f]) : Pending[f][i] # b
           /\ \A u \in Task : Inboxes[u] # b
      BY <1>1, <3>10, NotInUse
    <3> QED
      BY <1>1, <3>9, <3>10, <3>11, <3>12, <3>13, MailboxSteps DEF MBStep
  <2> QED
    BY <2>4, <2>5
<1>3. CASE SendQueue(t)
  <2>1. /\ pc[t] = "Send_STI" /\ tss[t] = NIL /\ pc' = [pc EXCEPT ![t] = "run"] /\ tss' = tss
        /\ queue' = enQueue(e, lb[t]) /\ fEMsg' = [fEMsg EXCEPT ![e] = TRUE]
        /\ lb' = [lb EXCEPT ![t] = NIL]
    BY <1>3 DEF SendQueue, At, Goto
  <2>2. PICK b \in LB : b = lb[t]
    BY <1>1, <2>1 DEF IInv, Regs
  <2>3. ~HasTSS(e)
    BY <1>1, <1>3, NoneCame DEF Unbroken
  <2>4. \A u \in Task : Quiet(u)
    <3>1. /\ pc'[t] = "run"
          /\ \A u \in Task : u # t => pc'[u] = pc[u] /\ lb'[u] = lb[u] /\ tss'[u] = tss[u]
      BY <1>1, <2>1
    <3> QED
      BY <2>1, <3>1 DEF Quiet, Own
  <2>5. /\ Inboxes' = Inboxes /\ WaitingAt[e] = << >> /\ Pending[e] = queue[e]
    BY <1>1, <2>3, <2>4, QuietStep DEF HasTSS, WaitingAt, Pending
  <2>6. CASE Detached(e)
    <3>1. queue' = queue /\ fEMsg[e] = TRUE
      BY <1>1, <2>1, <2>3, <2>6 DEF enQueue, Detached, HasTSS
    <3>2. fEMsg' = fEMsg
      BY <1>1, <2>1, <3>1
    <3> QED
      BY <1>1, <2>4, <3>1, <3>2, UnseenStep
  <2>7. CASE ~Detached(e)
    <3>1. queue' = [queue EXCEPT ![e] = Append(queue[e], b)]
      BY <2>1, <2>2, <2>7 DEF enQueue, Put
    <3>2. /\ Pending' = [Pending EXCEPT ![e] = Append(queue[e], b)]
         /\ WaitingAt' = [WaitingAt EXCEPT ![e] = << >>]
      BY <1>1, <2>1, <3>1, SeenQueues
    <3>3. WaitingAt' = WaitingAt
      BY <2>5, <3>2 DEF WaitingAt
    <3>4. Pending' = [Pending EXCEPT ![e] = Append(@, b)]
      BY <2>5, <3>2
    <3>5. /\ \A f \in Exch : \A i \in 1 .. Len(Pending[f]) : Pending[f][i] # b
          /\ \A u \in Task : Inboxes[u] # b
      BY <1>1, <2>1, <2>2, NotInUse
    <3> QED
      BY <1>1, <2>5, <3>3, <3>4, <3>5, MailboxSteps DEF MBStep
  <2> QED
    BY <2>6, <2>7
<1>4. CASE SendHandOver(t)
  <2>1. /\ pc[t] = "Send_STI" /\ tss[t] # NIL /\ pc' = [pc EXCEPT ![t] = "run"]
        /\ queue' = queue /\ fEMsg' = fEMsg /\ tss' = [tss EXCEPT ![t] = NIL]
        /\ lb' = [lb EXCEPT ![tss[t]] = lb[t], ![t] = NIL] /\ Running(t)
    BY <1>4 DEF SendHandOver, At, Goto, exchVars, Running
  <2>2. PICK w \in Task : w = tss[t]
    BY <1>1, <2>1
  <2>3. w # t /\ pc[w] = "Wait03"
    BY <2>1, <2>2 DEF Transit, IInv, Unbroken, TasksDisjoint, ParkedRegs
  <2>4. /\ pc'[t] = "run" /\ tss'[t] = NIL /\ lb'[w] = lb[t]
        /\ \A u \in Task : u # t => pc'[u] = pc[u] /\ tss'[u] = tss[u]
        /\ \A u \in Task : u # t /\ u # w => lb'[u] = lb[u]
    BY <1>1, <2>1, <2>2, <2>3
  <2>5. \A u \in Task : u # w => Own(pc', lb', u) = Own(pc, lb, u)
    BY <2>1, <2>4 DEF Own
  <2>6. \A u \in Task : u # w => \A s \in Task : /\ Handing(s, u)' <=> Handing(s, u)
                                                 /\ Handing(s, u) => lb'[s] = lb[s]
    BY <2>1, <2>2, <2>3, <2>4 DEF Handing
  <2>7. Inbox(w) = lb[t]
    BY <1>1, <2>1, <2>2, Inboxed DEF Handing
  <2>8. \A s \in Task : ~Handing(s, w)'
    BY <1>1, <2>1, <2>2, <2>4 DEF Handing, IInv, TasksDisjoint
  <2>9. Inbox(w)' = lb[t]
    BY <1>1, <2>3, <2>4, <2>8, Inboxed DEF Own
  <2>10. Inboxes' = [Inboxes EXCEPT ![w] = Inbox(w)']
    BY <1>1, <2>5, <2>6, OneInbox
  <2>11. Inboxes' = Inboxes
    BY <2>7, <2>9, <2>10 DEF Inboxes
  <2>12. Pending' = Pending /\ WaitingAt' = WaitingAt
    BY <2>1 DEF Pending, WaitingAt
  <2> QED
    BY <1>1, <2>11, <2>12, MailboxSteps DEF MBStep
<1> QED
  BY <1>2, <1>3, <1>4

\* A task that waits or takes a message does what a task of Mailbox does.
LEMMA ReceiveSteps ==
    ASSUME Unbroken, IInv', NEW t \in Task, TakeMsg(t) \/ WaitBlock(t) \/ Deliver(t)
    PROVE  MBStep
<1> DEFINE e == ex[t]
<1>1. /\ IInv /\ pc \in [Task -> Label] /\ lb \in [Task -> LB \cup {NIL}] /\ e \in Exch
      /\ queue \in [Exch -> Seq(Task \cup LB)] /\ fEMsg \in [Exch -> BOOLEAN]
      /\ NIL \notin LB
  BY NamesAssumption DEF Unbroken, IInv, TypeOK
<1>2. Running(t)
  BY DEF TakeMsg, WaitBlock, Deliver, At, Running
<1>3. /\ \A s \in Task : ~Handing(s, t)
      /\ \A f \in Exch : \A i \in 1 .. Len(WaitingAt[f]) : WaitingAt[f][i] # t
  <2>1. ~Waiting(t)
    BY <1>1, <1>2 DEF IInv, TasksDisjoint
  <2> QED
    BY <1>1, <1>2, <2>1, NoneHands, NotWaiting
<1>4. Inbox(t) = Own(pc, lb, t) /\ Inboxes[t] = Inbox(t)
  BY <1>1, <1>3, Inboxed
<1>5. ASSUME NEW k, NEW l, NEW x, pc[t] = k, pc' = [pc EXCEPT ![t] = l], tss' = tss,
             k # "Send_STI", l # "Send_STI", lb' = [lb EXCEPT ![t] = x]
      PROVE  Inboxes' = [Inboxes EXCEPT ![t] = Own(pc', lb', t)]
  <2>1. pc'[t] = l /\ \A u \in Task : u # t => pc'[u] = pc[u] /\ lb'[u] = lb[u]
    BY <1>1, <1>5
  <2>2. \A u \in Task : \A s \in Task : /\ Handing(s, u)' <=> Handing(s, u)
                                        /\ Handing(s, u) => lb'[s] = lb[s]
    BY <1>5, <2>1 DEF Handing
  <2>3. \A u \in Task : u # t => Own(pc', lb', u) = Own(pc, lb, u)
    BY <2>1 DEF Own
  <2>4. Inbox(t)' = Own(pc', lb', t)
    BY <1>1, <1>3, <2>2, Inboxed
  <2> QED
    BY <1>1, <2>2, <2>3, <2>4, OneInbox
<1>6. CASE TakeMsg(t)
  <2>1. /\ pc[t] \in {"Wait01", "Chk02"} /\ HasMsg(e) /\ fEMsg' = fEMsg /\ tss' = tss
        /\ pc' = [pc EXCEPT ![t] = "Wait06"] /\ queue' = Pop(queue, e)
        /\ lb' = [lb EXCEPT ![t] = Head(queue[e])]
    BY <1>6 DEF TakeMsg, At, Goto
  <2>2. /\ queue' = [queue EXCEPT ![e] = Tail(queue[e])] /\ fEMsg' = [fEMsg EXCEPT ![e] = TRUE]
        /\ Pending[e] = queue[e] /\ WaitingAt[e] = << >> /\ queue[e] # << >>
    BY <1>1, <2>1 DEF HasMsg, Pop, Pending, WaitingAt
  <2>3. /\ Pending' = [Pending EXCEPT ![e] = Tail(queue[e])]
        /\ WaitingAt' = [WaitingAt EXCEPT ![e] = << >>]
    BY <1>1, <2>2, SeenQueues
  <2>4. WaitingAt' = WaitingAt /\ Pending' = [Pending EXCEPT ![e] = Tail(@)] /\ Pending[e] # << >>
    BY <2>2, <2>3 DEF WaitingAt
  <2>5. Own(pc', lb', t) = Head(Pending[e])
    BY <1>1, <2>1, <2>2 DEF Own
  <2>6. Inboxes' = [Inboxes EXCEPT ![t] = Own(pc', lb', t)]
    BY <1>5, <2>1
  <2>7. Inboxes[t] = NIL
    BY <1>4, <2>1 DEF Own
  <2> QED
    BY <1>1, <1>3, <2>4, <2>5, <2>6, <2>7, MailboxSteps DEF MBStep
<1>7. CASE WaitBlock(t)
  <2>1. /\ pc[t] = "Wait01" /\ ~HasMsg(e) /\ fEMsg' = [fEMsg EXCEPT ![e] = FALSE]
        /\ pc' = [pc EXCEPT ![t] = "Wait03"] /\ queue' = enQueue(e, t)
        /\ lb' = lb /\ tss' = tss
    BY <1>7 DEF WaitBlock, At, Goto, regVars
  <2>2. lb[t] = NIL /\ pc'[t] = "Wait03"
    BY <1>1, <2>1 DEF IInv, Regs
  <2>3. \A u \in Task : Quiet(u)
    BY <1>1, <2>1, <2>2 DEF Quiet, Own
  <2>4. CASE Detached(e)
    <3>1. queue' = queue /\ fEMsg[e] = FALSE
      BY <1>1, <2>1, <2>4 DEF enQueue, Detached, HasMsg
    <3>2. fEMsg' = fEMsg
      BY <1>1, <2>1, <3>1
    <3> QED
      BY <1>1, <2>3, <3>1, <3>2, UnseenStep
  <2>5. CASE ~Detached(e)
    <3>1. /\ queue' = [queue EXCEPT ![e] = Append(queue[e], t)]
          /\ WaitingAt[e] = queue[e] /\ Pending[e] = << >>
      BY <1>1, <2>1, <2>5 DEF HasMsg, enQueue, Put, Pending, WaitingAt
    <3>2. /\ Pending' = [Pending EXCEPT ![e] = << >>]
          /\ WaitingAt' = [WaitingAt EXCEPT ![e] = Append(queue[e], t)]
      BY <1>1, <2>1, <3>1, SeenQueues
    <3>3. Pending' = Pending /\ WaitingAt' = [WaitingAt EXCEPT ![e] = Append(@, t)]
      BY <3>1, <3>2 DEF Pending
    <3>4. Inboxes' = Inboxes /\ Inboxes[t] = NIL
      BY <1>1, <1>4, <2>1, <2>3, QuietStep DEF Own
    <3> QED
      BY <1>1, <1>3, <3>1, <3>3, <3>4, MailboxSteps DEF MBStep
  <2> QED
    BY <2>4, <2>5
<1>8. CASE Deliver(t)
  <2>1. /\ pc[t] \in {"Wait03", "Wait06"} /\ UNCHANGED <<queue, fEMsg, tss>>
        /\ pc' = [pc EXCEPT ![t] = "run"] /\ lb' = [lb EXCEPT ![t] = NIL]
    BY <1>8 DEF Deliver, At, Goto, exchVars
  <2>2. lb[t] # NIL
    BY <1>1, <1>2, <2>1 DEF IInv, Regs, ParkedRegs
  <2>3. Inboxes[t] # NIL
    BY <1>4, <2>1, <2>2 DEF Own
  <2>4. Inboxes' = [Inboxes EXCEPT ![t] = Own(pc', lb', t)]
    BY <1>5, <2>1
  <2>5. Own(pc', lb', t) = NIL
    BY <1>1, <2>1 DEF Own
  <2>6. Pending' = Pending /\ WaitingAt' = WaitingAt
    BY <2>1 DEF Pending, WaitingAt
  <2> QED
    BY <1>1, <2>3, <2>4, <2>5, <2>6, MailboxSteps DEF MBStep
<1> QED
  BY <1>6, <1>7, <1>8

\* An exchange that is deallocated, or allocated, is emptied.
LEMMA CloseStep ==
    ASSUME Unbroken, IInv', NEW t \in Task,
           DeAllocFree(t) \/ AllocExch(t) \/ \E p \in Pri : SpawnTask(t, p)
    PROVE  MBStep
<1>1. /\ IInv /\ pc \in [Task -> Label] /\ ex \in [Task -> Exch]
      /\ fEMsg \in [Exch -> BOOLEAN]
  BY DEF Unbroken, IInv, TypeOK
<1>2. PICK e \in Exch, k \in {"DE000", "run"}, l \in {"run", "AE001", "ST_AE001"}, m \in BOOLEAN :
        /\ pc[t] = k /\ pc' = [pc EXCEPT ![t] = l] /\ UNCHANGED <<lb, tss>>
        /\ queue' = [queue EXCEPT ![e] = << >>] /\ fEMsg' = [fEMsg EXCEPT ![e] = m]
  <2>1. CASE DeAllocFree(t)
    <3>1. /\ ex[t] \in Exch /\ pc[t] = "DE000" /\ pc' = [pc EXCEPT ![t] = "run"]
          /\ UNCHANGED <<lb, tss>> /\ queue' = [queue EXCEPT ![ex[t]] = << >>]
          /\ fEMsg' = [fEMsg EXCEPT ![ex[t]] = FALSE]
      BY <1>1, <2>1 DEF DeAllocFree, At, Goto, regVars, Clear
    <3> QED
      BY <3>1
  <2>2. ASSUME NEW l \in {"AE001", "ST_AE001"}, At(t, "run"), AllocOwner(t, l)
        PROVE  \E e \in Exch, m \in BOOLEAN :
                 /\ pc[t] = "run" /\ pc' = [pc EXCEPT ![t] = l] /\ UNCHANGED <<lb, tss>>
                 /\ queue' = [queue EXCEPT ![e] = << >>] /\ fEMsg' = [fEMsg EXCEPT ![e] = m]
    <3>1. PICK e \in Exch : queue' = [queue EXCEPT ![e] = << >>]
      BY <2>2 DEF AllocOwner, Clear
    <3>2. /\ pc[t] = "run" /\ pc' = [pc EXCEPT ![t] = l] /\ UNCHANGED <<fEMsg, lb, tss>>
      BY <2>2 DEF AllocOwner, At, Goto
    <3>3. fEMsg' = [fEMsg EXCEPT ![e] = fEMsg[e]] /\ fEMsg[e] \in BOOLEAN
      BY <1>1, <3>2
    <3> QED
      BY <3>1, <3>2, <3>3
  <2> QED
    BY <2>1, <2>2 DEF AllocExch, SpawnTask, Calling
<1>3. \A u \in Task : Quiet(u)
  <2>1. pc'[t] = l /\ \A u \in Task : u # t => pc'[u] = pc[u]
    BY <1>1, <1>2
  <2> QED
    BY <1>2, <2>1 DEF Quiet, Own
<1>4. Pending' = [Pending EXCEPT ![e] = << >>] /\ WaitingAt' = [WaitingAt EXCEPT ![e] = << >>]
  <2>1. /\ Pending' = [Pending EXCEPT ![e] = IF m THEN << >> ELSE << >>]
        /\ WaitingAt' = [WaitingAt EXCEPT ![e] = IF m THEN << >> ELSE << >>]
    BY <1>1, <1>2, SeenQueues
  <2> QED
    BY <2>1
<1> QED
  BY <1>1, <1>3, <1>4, QuietStep, MailboxSteps DEF MBStep

\* An interrupt handler sends as a task does.
LEMMA ISendStep ==
    ASSUME Unbroken, IInv', NEW e \in Exch, ISendMsg(e)
    PROVE  MBStep
<1>1. /\ IInv /\ lb \in [Task -> LB \cup {NIL}] /\ pFreeLB \subseteq LB
      /\ queue \in [Exch -> Seq(Task \cup LB)] /\ fEMsg \in [Exch -> BOOLEAN]
  BY DEF Unbroken, IInv, TypeOK
<1>2. PICK b \in pFreeLB :
        IF HasTSS(e)
        THEN /\ queue' = Pop(queue, e)
             /\ lb' = [lb EXCEPT ![Head(queue[e])] = b]
             /\ fEMsg' = fEMsg
        ELSE /\ queue' = enQueue(e, b)
             /\ fEMsg' = [fEMsg EXCEPT ![e] = TRUE]
             /\ lb' = lb
  BY DEF ISendMsg
<1>3. pc' = pc /\ tss' = tss
  BY DEF ISendMsg
<1>4. /\ \A f \in Exch : \A i \in 1 .. Len(Pending[f]) : Pending[f][i] # b
      /\ \A u \in Task : Inboxes[u] # b
  BY <1>1, NotInUse
<1>5. CASE HasTSS(e)
  <2>1. PICK h \in Task : h = Head(queue[e])
    BY <1>5, FirstWaiting
  <2>2. Waiting(h)
    BY <1>5, <2>1, FirstWaiting
  <2>3. pc[h] = "Wait03" /\ \A s \in Task : ~Handing(s, h)
    BY <1>1, <2>2, NoneHands DEF IInv, ParkedRegs
  <2>4. lb'[h] = b /\ \A u \in Task : u # h => lb'[u] = lb[u]
    BY <1>1, <1>2, <1>5, <2>1
  <2>5. \A s, u \in Task : /\ Handing(s, u)' <=> Handing(s, u)
                           /\ Handing(s, u) => lb'[s] = lb[s]
    BY <1>3, <2>3, <2>4 DEF Handing
  <2>6. \A u \in Task : u # h => Own(pc', lb', u) = Own(pc, lb, u)
    BY <1>3, <2>4 DEF Own
  <2>7. Inbox(h)' = b
    BY <1>1, <1>3, <2>3, <2>4, <2>5, Inboxed DEF Own
  <2>8. Inboxes' = [Inboxes EXCEPT ![h] = b]
    BY <1>1, <2>5, <2>6, <2>7, OneInbox
  <2>9. /\ queue' = [queue EXCEPT ![e] = Tail(queue[e])] /\ fEMsg' = [fEMsg EXCEPT ![e] = FALSE]
        /\ Pending[e] = << >> /\ WaitingAt[e] = queue[e] /\ queue[e] # << >>
    BY <1>1, <1>2, <1>5 DEF HasTSS, Pop, Pending, WaitingAt
  <2>10. /\ Pending' = [Pending EXCEPT ![e] = << >>]
         /\ WaitingAt' = [WaitingAt EXCEPT ![e] = Tail(queue[e])]
    BY <1>1, <2>9, SeenQueues
  <2>11. Pending' = Pending /\ WaitingAt' = [WaitingAt EXCEPT ![e] = Tail(@)]
    BY <2>9, <2>10 DEF Pending
  <2>12. Inboxes' = [Inboxes EXCEPT ![Head(WaitingAt[e])] = b] /\ WaitingAt[e] # << >>
    BY <2>1, <2>8, <2>9
  <2> QED
    BY <1>1, <1>4, <2>11, <2>12, MailboxSteps DEF MBStep
<1>6. CASE ~HasTSS(e)
  <2>1. \A u \in Task : Quiet(u)
    BY <1>2, <1>3, <1>6 DEF Quiet
  <2>2. CASE Detached(e)
    <3>1. queue' = queue /\ fEMsg[e] = TRUE
      BY <1>1, <1>2, <1>6, <2>2 DEF enQueue, Detached, HasTSS
    <3>2. fEMsg' = fEMsg
      BY <1>1, <1>2, <1>6, <3>1
    <3> QED
      BY <1>1, <2>1, <3>1, <3>2, UnseenStep
  <2>3. CASE ~Detached(e)
    <3>1. /\ queue' = [queue EXCEPT ![e] = Append(queue[e], b)]
          /\ fEMsg' = [fEMsg EXCEPT ![e] = TRUE]
      BY <1>2, <1>6, <2>3 DEF enQueue, Put
    <3>2. Inboxes' = Inboxes /\ WaitingAt[e] = << >> /\ Pending[e] = queue[e]
      BY <1>1, <1>6, <2>1, QuietStep DEF HasTSS, WaitingAt, Pending
    <3>3. /\ Pending' = [Pending EXCEPT ![e] = Append(queue[e], b)]
          /\ WaitingAt' = [WaitingAt EXCEPT ![e] = << >>]
      BY <1>1, <3>1, SeenQueues
    <3>4. WaitingAt' = WaitingAt /\ Pending' = [Pending EXCEPT ![e] = Append(@, b)]
      BY <3>2, <3>3 DEF WaitingAt
    <3> QED
      BY <1>1, <1>4, <3>2, <3>4, MailboxSteps DEF MBStep
  <2> QED
    BY <2>2, <2>3
<1> QED
  BY <1>5, <1>6

\* Every step of the kernel is one of Mailbox, or one that it does not see.
LEMMA NextMailbox ==
    ASSUME Unbroken, IInv', Intact', [Next]_vars
    PROVE  [MB!Next]_(MB!vars)
<1>1. \A e \in ISends : e \in Exch
  BY ProgramAssumption
<1>2. MBStep
  BY <1>1, UnseenSteps, SendSteps, ReceiveSteps, CloseStep, ISendStep
     DEF Next, Primitive, Program, Interrupt
<1> QED
  BY <1>2 DEF MBStep

\* Nothing has been sent.
LEMMA InitMailbox == Init => MB!Init
<1> SUFFICES ASSUME Init PROVE MB!Init
  OBVIOUS
<1>1. \A t \in Task : Inbox(t) = NIL
  BY DEF Init, Inbox, Handing
<1>2. /\ [e \in Exch |-> IF fEMsg[e] THEN queue[e] ELSE << >>] = [e \in Exch |-> << >>]
      /\ [e \in Exch |-> IF fEMsg[e] THEN << >> ELSE queue[e]] = [e \in Exch |-> << >>]
  BY DEF Init
<1>3. [t \in Task |-> Inbox(t)] = [t \in Task |-> NIL]
  BY <1>1
<1> QED
  BY <1>2, <1>3 DEF MB!Init

\* The mailbox that an exchange implements until it is broken: every message
\* queued there is delivered once, to one task, in the order of the sends, and
\* the tasks that wait are served in turn.
THEOREM MailboxesTillBroken == Spec => MailboxTillBroken
<1>1. IInv /\ IInv' /\ [Next]_vars => [Intact' => MB!Next]_(MB!vars)
  <2> SUFFICES ASSUME IInv, IInv', [Next]_vars, Intact' PROVE [MB!Next]_(MB!vars)
    OBVIOUS
  <2>1. CASE UNCHANGED vars
    <3>1. UNCHANGED <<queue, fEMsg, pc, lb, tss>>
      BY <2>1 DEF vars, exchVars, regVars
    <3>2. MBStep
      BY <3>1, UnseenStep DEF Quiet
    <3> QED
      BY <3>2 DEF MBStep
  <2>2. CASE Next
    BY <2>2, StepIntact, NextMailbox DEF Unbroken
  <2> QED
    BY <2>1, <2>2
<1> QED
  BY <1>1, Invariance, InitMailbox, PTL DEF Spec, MailboxTillBroken

\* So it is for ever where no exchange is broken, as with programs whose
\* priorities keep the tasks apart that meet at an exchange.
COROLLARY ExchangesAreMailboxes == Spec /\ []ExchHoldsOneKind => ImplementsMailbox
<1>1. ExchHoldsOneKind' => Intact'
  BY DEF ExchHoldsOneKind
<1>2. MailboxTillBroken /\ []ExchHoldsOneKind => ImplementsMailbox
  BY <1>1, PTL DEF MailboxTillBroken, ImplementsMailbox, MB!Spec
<1> QED
  BY <1>2, MailboxesTillBroken
=============================================================================
