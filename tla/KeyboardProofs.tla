---------------------------- MODULE KeyboardProofs ----------------------------
(***************************************************************************)
(* Proofs about Keyboard, for any jobs, request blocks and link blocks.  A *)
(* request block is in one place at a time.  Until a SendAbort takes the   *)
(* answer to another request for its own: when a job is gone, none of its  *)
(* requests is left; the job that owns the keyboard does not wait for a    *)
(* key that was typed; and the service is what KeyFeed says.               *)
(***************************************************************************)
EXTENDS Keyboard, FiniteSetTheorems, SequenceTheorems, TLAPS

Erc   == {"int", "request", "moved", "ok", "ErcNoKeyAvail"}
Msg   == [h : RQB \cup {ISR}, erc : Erc]
RqMsg == [h : RQB, erc : Erc]

\* What may be queued at the exchange e: the messages of the ISR go to one.
MsgAt(e) == IF e = "main" THEN Msg ELSE RqMsg

Code  == {"none", "read", "poll", "global", "assign", "abort"}
SvcPc == {"top", "glob", "main", "wait", "alias", "rq", "assign", "abort", "sifted", "resp",
          "dealias", "send"}
MgrPc == {"idle", "awake", "global", "assigning", "freed", "killing", "aborting"}

QueuesOK == DOMAIN queue = Exch /\ \A e \in Exch : queue[e] \in Seq(MsgAt(e))

RqbsOK ==
    /\ freeRQB \in Seq(RQB)
    /\ rqb \in [RQB -> [ServiceCode : Code, RespExch : Job \cup {"mgr", None},
                        RqOwnerJob : Job \cup {None}, dData0 : Job \cup {None}]]

SvcType == [pc : SvcPc, rq : RQB \cup {None}, rq2 : RQB \cup {None}, erc : Erc,
            then : {"top", "glob", "assign", "abort"}]

JobsOK ==
    /\ DOMAIN job = Job
    /\ \A j \in Job : /\ DOMAIN job[j] = {"pc", "h", "key"}
                      /\ job[j].pc = "send" => job[j].h \in RQB

MgrType == [pc : MgrPc, h : RQB \cup {None}, on : Job \cup {None}]

\* What the service has in its hands at each place.
SvcHolds ==
    /\ svc.rq \in RQB <=> svc.pc \in {"alias", "rq", "assign", "abort", "sifted"}
    /\ svc.rq2 \in RQB <=> svc.pc \in {"sifted", "resp", "dealias", "send"}
    /\ svc.pc = "sifted" => svc.then \in {"assign", "abort"}
    /\ svc.pc \in {"resp", "dealias", "send"} => svc.then \in {"top", "glob"}

SvcOK == svc \in SvcType /\ SvcHolds

\* The exchanges of the service.
Shelf == {"main", "wait", "hold", "glob"}

\* h is in a list of blocks; in a list of messages.
InList(s, h)  == \E i \in DOMAIN s : s[i] = h
InQueue(s, h) == \E i \in DOMAIN s : s[i].h = h

\* No block is twice in it.
OnceInList(s)  == \A i, k \in DOMAIN s : s[i] = s[k] => i = k
OnceInQueue(s) == \A i, k \in DOMAIN s : s[i].h = s[k].h => i = k \/ s[i].h = ISR

\* Who has the block h.
Holder == Shelf \cup {"free", "rq", "rq2"}

Holds(k, h) ==
    \/ k = "free" /\ InList(freeRQB, h)
    \/ k \in Shelf /\ InQueue(queue[k], h)
    \/ k = "rq" /\ svc.rq = h
    \/ k = "rq2" /\ svc.rq2 = h

Makes(j, h) == job[j].pc = "send" /\ job[j].h = h

\* One at most.
OneHolder ==
    \A h \in RQB :
        /\ \A k, l \in Holder : Holds(k, h) /\ Holds(l, h) => k = l
        /\ \A k \in Holder, j \in Job : ~(Holds(k, h) /\ Makes(j, h))
        /\ \A j, l \in Job : Makes(j, h) /\ Makes(l, h) => j = l

ListedOnce == OnceInList(freeRQB) /\ \A e \in Shelf : OnceInQueue(queue[e])

Types == QueuesOK /\ RqbsOK /\ SvcOK /\ JobsOK /\ mgr \in MgrType

IInv == Types /\ OneHolder /\ ListedOnce

-----------------------------------------------------------------------------
(* Lists. *)

LEMMA ListTail ==
    ASSUME NEW S, NEW s \in Seq(S), s # <<>>
    PROVE  /\ Head(s) \in S /\ Tail(s) \in Seq(S) /\ InList(s, Head(s))
           /\ \A h : InList(Tail(s), h) => InList(s, h)
           /\ OnceInList(s) => OnceInList(Tail(s)) /\ ~InList(Tail(s), Head(s))
<1>1. Len(s) \in Nat /\ Len(s) >= 1 /\ DOMAIN s = 1 .. Len(s) /\ Head(s) = s[1]
  OBVIOUS
<1>2. /\ Tail(s) \in Seq(S) /\ DOMAIN Tail(s) = 1 .. Len(s) - 1
      /\ \A i \in 1 .. Len(s) - 1 : Tail(s)[i] = s[i + 1]
  OBVIOUS
<1>3. \A i \in 1 .. Len(s) - 1 : i + 1 \in 1 .. Len(s) /\ i + 1 # 1
  BY <1>1
<1>4. 1 \in DOMAIN s /\ Head(s) \in S
  BY <1>1
<1>5. ASSUME OnceInList(s) PROVE OnceInList(Tail(s)) /\ ~InList(Tail(s), Head(s))
  <2>1. \A i, k \in 1 .. Len(s) - 1 : s[i + 1] = s[k + 1] => i = k
    BY <1>1, <1>3, <1>5 DEF OnceInList
  <2>2. \A i \in 1 .. Len(s) - 1 : s[i + 1] # s[1]
    BY <1>1, <1>3, <1>4, <1>5 DEF OnceInList
  <2> QED
    BY <1>1, <1>2, <2>1, <2>2 DEF OnceInList, InList
<1> QED
  BY <1>1, <1>2, <1>3, <1>4, <1>5 DEF InList

LEMMA ListPush ==
    ASSUME NEW S, NEW s \in Seq(S), NEW x \in S
    PROVE  /\ <<x>> \o s \in Seq(S)
           /\ \A h : InList(<<x>> \o s, h) => InList(s, h) \/ h = x
           /\ OnceInList(s) /\ ~InList(s, x) => OnceInList(<<x>> \o s)
<1> DEFINE t == <<x>> \o s
<1>1. /\ t \in Seq(S) /\ Len(t) = Len(s) + 1 /\ Len(s) \in Nat
      /\ DOMAIN t = 1 .. Len(s) + 1 /\ DOMAIN s = 1 .. Len(s)
      /\ t[1] = x /\ \A i \in 2 .. Len(s) + 1 : t[i] = s[i - 1]
  OBVIOUS
<1>2. \A i \in 1 .. Len(s) + 1 : i = 1 \/ (i \in 2 .. Len(s) + 1 /\ i - 1 \in 1 .. Len(s))
  BY <1>1
<1> HIDE DEF t
<1>3. \A h : InList(t, h) => InList(s, h) \/ h = x
  BY <1>1, <1>2 DEF InList
<1>4. ASSUME OnceInList(s), ~InList(s, x) PROVE OnceInList(t)
  <2>1. \A i \in 2 .. Len(s) + 1 : t[i] # x
    BY <1>1, <1>2, <1>4 DEF InList
  <2>2. \A i, k \in 2 .. Len(s) + 1 : t[i] = t[k] => i = k
    <3> SUFFICES ASSUME NEW i \in 2 .. Len(s) + 1, NEW k \in 2 .. Len(s) + 1, t[i] = t[k]
                 PROVE  i = k
      OBVIOUS
    <3>1. i - 1 \in 1 .. Len(s) /\ k - 1 \in 1 .. Len(s) /\ s[i - 1] = s[k - 1]
      BY <1>1
    <3>2. i - 1 = k - 1
      BY <1>1, <1>4, <3>1 DEF OnceInList
    <3> QED
      BY <1>1, <3>2
  <2>3. \A i, k \in 1 .. Len(s) + 1 : t[i] = t[k] => i = k
    BY <1>1, <1>2, <2>1, <2>2
  <2> QED
    BY <1>1, <2>3 DEF OnceInList
<1> QED
  BY <1>1, <1>3, <1>4 DEF t

LEMMA QueueTail ==
    ASSUME NEW S, NEW s \in Seq(S), s # <<>>
    PROVE  /\ Head(s) \in S /\ Tail(s) \in Seq(S) /\ InQueue(s, Head(s).h)
           /\ \A h : InQueue(Tail(s), h) => InQueue(s, h)
           /\ OnceInQueue(s) => /\ OnceInQueue(Tail(s))
                                /\ Head(s).h # ISR => ~InQueue(Tail(s), Head(s).h)
<1>1. Len(s) \in Nat /\ Len(s) >= 1 /\ DOMAIN s = 1 .. Len(s) /\ Head(s) = s[1]
  OBVIOUS
<1>2. /\ Tail(s) \in Seq(S) /\ DOMAIN Tail(s) = 1 .. Len(s) - 1
      /\ \A i \in 1 .. Len(s) - 1 : Tail(s)[i] = s[i + 1]
  OBVIOUS
<1>3. \A i \in 1 .. Len(s) - 1 : i + 1 \in 1 .. Len(s) /\ i + 1 # 1
  BY <1>1
<1>4. 1 \in DOMAIN s /\ Head(s) \in S
  BY <1>1
<1>5. ASSUME OnceInQueue(s)
      PROVE  OnceInQueue(Tail(s)) /\ (Head(s).h # ISR => ~InQueue(Tail(s), Head(s).h))
  <2>1. \A i, k \in 1 .. Len(s) - 1 : s[i + 1].h = s[k + 1].h => i = k \/ s[i + 1].h = ISR
    BY <1>1, <1>3, <1>5 DEF OnceInQueue
  <2>2. s[1].h # ISR => \A i \in 1 .. Len(s) - 1 : s[i + 1].h # s[1].h
    BY <1>1, <1>3, <1>4, <1>5 DEF OnceInQueue
  <2> QED
    BY <1>1, <1>2, <2>1, <2>2 DEF OnceInQueue, InQueue
<1> QED
  BY <1>1, <1>2, <1>3, <1>4, <1>5 DEF InQueue

LEMMA QueueAppend ==
    ASSUME NEW S, NEW s \in Seq(S), NEW x \in S
    PROVE  /\ Append(s, x) \in Seq(S)
           /\ \A h : InQueue(Append(s, x), h) => InQueue(s, h) \/ h = x.h
           /\ OnceInQueue(s) /\ (x.h = ISR \/ ~InQueue(s, x.h)) => OnceInQueue(Append(s, x))
<1> DEFINE t == Append(s, x)
<1>1. /\ t \in Seq(S) /\ Len(s) \in Nat
      /\ DOMAIN t = 1 .. Len(s) + 1 /\ DOMAIN s = 1 .. Len(s)
      /\ t[Len(s) + 1] = x /\ \A i \in 1 .. Len(s) : t[i] = s[i]
  OBVIOUS
<1>2. \A i \in 1 .. Len(s) + 1 : i = Len(s) + 1 \/ i \in 1 .. Len(s)
  BY <1>1
<1> HIDE DEF t
<1>3. \A h : InQueue(t, h) => InQueue(s, h) \/ h = x.h
  BY <1>1, <1>2 DEF InQueue
<1>4. ASSUME OnceInQueue(s), x.h = ISR \/ ~InQueue(s, x.h) PROVE OnceInQueue(t)
  <2>1. \A i \in 1 .. Len(s) : t[i].h = x.h => x.h = ISR
    BY <1>1, <1>4 DEF InQueue
  <2>2. \A i, k \in 1 .. Len(s) : t[i].h = t[k].h => i = k \/ t[i].h = ISR
    BY <1>1, <1>4 DEF OnceInQueue
  <2>3. \A i, k \in 1 .. Len(s) + 1 : t[i].h = t[k].h => i = k \/ t[i].h = ISR
    BY <1>1, <1>2, <2>1, <2>2
  <2> QED
    BY <1>1, <2>3 DEF OnceInQueue
<1> QED
  BY <1>1, <1>3, <1>4 DEF t

-----------------------------------------------------------------------------
(* What the steps do to the exchanges and to those who hold a block. *)

\* The queues of the service after a message was taken or sent somewhere.
ShelvesKept == \A e \in Shelf : queue'[e] = queue[e]

\* Nobody has a block that he had not, but h, which `to` may have now.
HoldersKept(to, h) ==
    \A g \in RQB, k \in Holder : Holds(k, g)' => Holds(k, g) \/ (k = to /\ g = h)

MakersKept == \A j \in Job, h \in RQB : Makes(j, h)' => Makes(j, h)

LEMMA Names ==
    /\ Shelf \subseteq Exch /\ Job \subseteq Exch /\ "mgr" \in Exch /\ "mgr" \notin Shelf
    /\ Job \cap Shelf = {} /\ "main" \in Shelf
    /\ \A e \in Shelf \ {"main"} : MsgAt(e) = RqMsg
    /\ MsgAt("main") = Msg /\ RqMsg \subseteq Msg
    /\ None \notin RQB /\ None \notin Exch /\ ISR \notin RQB
    /\ \A e \in Exch : RqMsg \subseteq MsgAt(e)
<1>1. RqMsg \subseteq Msg
  BY DEF RqMsg, Msg
<1> QED
  BY <1>1, KeyboardAssumption DEF Shelf, MsgAt, ISR

LEMMA TakeShelf ==
    ASSUME QueuesOK, ListedOnce, NEW e \in Shelf, Take(e), NEW m, m = Head(queue[e])
    PROVE  /\ QueuesOK' /\ \A x \in Shelf : OnceInQueue(queue'[x])
           /\ m \in MsgAt(e) /\ InQueue(queue[e], m.h)
           /\ m.h # ISR => ~InQueue(queue'[e], m.h)
           /\ \A x \in Shelf : \A h : InQueue(queue'[x], h) => InQueue(queue[x], h)
<1>1. e \in Exch /\ queue[e] \in Seq(MsgAt(e)) /\ queue[e] # <<>> /\ DOMAIN queue = Exch
  BY Names DEF QueuesOK, Take
<1>2. queue' = [queue EXCEPT ![e] = Tail(@)]
  BY DEF Take
<1>3. /\ DOMAIN queue' = Exch /\ queue'[e] = Tail(queue[e])
      /\ \A x \in Exch : x # e => queue'[x] = queue[x]
  BY <1>1, <1>2
<1>4. /\ m \in MsgAt(e) /\ Tail(queue[e]) \in Seq(MsgAt(e)) /\ InQueue(queue[e], m.h)
      /\ \A h : InQueue(Tail(queue[e]), h) => InQueue(queue[e], h)
      /\ OnceInQueue(queue[e]) => /\ OnceInQueue(Tail(queue[e]))
                                  /\ m.h # ISR => ~InQueue(Tail(queue[e]), m.h)
  BY <1>1, QueueTail
<1>5. OnceInQueue(queue[e]) /\ \A x \in Shelf : OnceInQueue(queue[x])
  BY DEF ListedOnce
<1>6. QueuesOK'
  BY <1>3, <1>4 DEF QueuesOK
<1> QED
  BY <1>3, <1>4, <1>5, <1>6, Names

LEMMA TakeOther ==
    ASSUME QueuesOK, NEW e \in Job \cup {"mgr", None}, Take(e)
    PROVE  QueuesOK' /\ ShelvesKept
<1>1. e \notin Shelf /\ DOMAIN queue = Exch
  BY Names DEF QueuesOK
<1>2. queue' = [queue EXCEPT ![e] = Tail(@)] /\ queue[e] # <<>>
  BY DEF Take
<1>3. ShelvesKept
  BY <1>1, <1>2, Names DEF ShelvesKept
<1>4. ASSUME NEW x \in Exch PROVE queue'[x] \in Seq(MsgAt(x))
  <2>1. queue[x] \in Seq(MsgAt(x))
    BY DEF QueuesOK
  <2>2. CASE x = e
    <3>1. Tail(queue[x]) \in Seq(MsgAt(x))
      BY <1>2, <2>1, <2>2, QueueTail
    <3> QED
      BY <1>1, <1>2, <2>2, <3>1
  <2>3. CASE x # e
    BY <1>1, <1>2, <2>1, <2>3
  <2> QED
    BY <2>2, <2>3
<1>5. DOMAIN queue' = Exch
  BY <1>1, <1>2
<1> QED
  BY <1>3, <1>4, <1>5 DEF QueuesOK

\* The queue of an exchange that is not the service's is made empty.
LEMMA EmptyOther ==
    ASSUME QueuesOK, NEW e \in Job \cup {"mgr", None}, queue' = [queue EXCEPT ![e] = <<>>]
    PROVE  QueuesOK' /\ ShelvesKept
<1>1. e \notin Shelf /\ DOMAIN queue = Exch
  BY Names DEF QueuesOK
<1>2. ShelvesKept
  BY <1>1, Names DEF ShelvesKept
<1>3. ASSUME NEW x \in Exch PROVE queue'[x] \in Seq(MsgAt(x))
  <2>1. queue[x] \in Seq(MsgAt(x)) /\ <<>> \in Seq(MsgAt(x))
    BY DEF QueuesOK
  <2> QED
    BY <1>1, <2>1
<1>4. DOMAIN queue' = Exch
  BY <1>1
<1> QED
  BY <1>2, <1>3, <1>4 DEF QueuesOK

LEMMA SendShelf ==
    ASSUME QueuesOK, ListedOnce, NEW e \in Shelf, NEW h, NEW erc \in Erc, Send(e, h, erc),
           h \in RQB \/ (e = "main" /\ h = ISR), h = ISR \/ ~InQueue(queue[e], h)
    PROVE  /\ QueuesOK' /\ \A x \in Shelf : OnceInQueue(queue'[x])
           /\ \A x \in Shelf : \A g : InQueue(queue'[x], g) => InQueue(queue[x], g) \/ (x = e /\ g = h)
<1>1. CASE queue' = queue
  BY <1>1 DEF QueuesOK, ListedOnce
<1>2. CASE queue' # queue
  <2> DEFINE m == [h |-> h, erc |-> erc]
  <2>1. queue' = [queue EXCEPT ![e] = Append(@, m)]
    BY <1>2 DEF Send
  <2>2. e \in Exch /\ queue[e] \in Seq(MsgAt(e)) /\ DOMAIN queue = Exch
    BY Names DEF QueuesOK
  <2>3. m \in MsgAt(e) /\ m.h = h
    BY Names DEF MsgAt, Msg, RqMsg
  <2> HIDE DEF m
  <2>4. /\ DOMAIN queue' = Exch /\ queue'[e] = Append(queue[e], m)
        /\ \A x \in Exch : x # e => queue'[x] = queue[x]
    BY <2>1, <2>2
  <2>5. /\ Append(queue[e], m) \in Seq(MsgAt(e))
        /\ \A g : InQueue(Append(queue[e], m), g) => InQueue(queue[e], g) \/ g = m.h
        /\ OnceInQueue(queue[e]) /\ (m.h = ISR \/ ~InQueue(queue[e], m.h))
              => OnceInQueue(Append(queue[e], m))
    BY <2>2, <2>3, QueueAppend
  <2>6. \A x \in Shelf : OnceInQueue(queue[x])
    BY DEF ListedOnce
  <2>7. QueuesOK'
    BY <2>4, <2>5 DEF QueuesOK
  <2> QED
    BY <2>3, <2>4, <2>5, <2>6, <2>7, Names
<1> QED
  BY <1>1, <1>2

LEMMA SendOther ==
    ASSUME QueuesOK, NEW e \in Job \cup {"mgr", None}, NEW h \in RQB, NEW erc \in Erc,
           Send(e, h, erc)
    PROVE  QueuesOK' /\ ShelvesKept
<1>1. CASE queue' = queue
  BY <1>1 DEF QueuesOK, ShelvesKept
<1>2. CASE queue' # queue
  <2> DEFINE m == [h |-> h, erc |-> erc]
  <2>1. queue' = [queue EXCEPT ![e] = Append(@, m)]
    BY <1>2 DEF Send
  <2>2. e \notin Shelf /\ DOMAIN queue = Exch
    BY Names DEF QueuesOK
  <2>3. ShelvesKept
    BY <2>1, <2>2, Names DEF ShelvesKept
  <2>4. m \in RqMsg
    BY DEF RqMsg
  <2> HIDE DEF m
  <2>5. ASSUME NEW x \in Exch PROVE queue'[x] \in Seq(MsgAt(x))
    <3>1. queue[x] \in Seq(MsgAt(x)) /\ m \in MsgAt(x)
      BY <2>4, Names DEF QueuesOK
    <3>2. Append(queue[x], m) \in Seq(MsgAt(x))
      BY <3>1
    <3>3. CASE x = e
      BY <2>1, <2>2, <3>2, <3>3
    <3>4. CASE x # e
      BY <2>1, <2>2, <3>1, <3>4
    <3> QED
      BY <3>3, <3>4
  <2>6. DOMAIN queue' = Exch
    BY <2>1, <2>2
  <2> QED
    BY <2>3, <2>5, <2>6 DEF QueuesOK
<1> QED
  BY <1>1, <1>2

\* Nobody gets a block.
LEMMA NoneMoves ==
    ASSUME OneHolder, HoldersKept("none", None), MakersKept
    PROVE  OneHolder'
<1>1. \A h \in RQB, k \in Holder : Holds(k, h)' => Holds(k, h)
  BY DEF HoldersKept, Holder, Shelf
<1> QED
  BY <1>1 DEF OneHolder, MakersKept

\* A block goes from one to another.
LEMMA OneMoves ==
    ASSUME OneHolder, NEW h \in RQB, NEW from \in Holder, NEW to \in Holder,
           Holds(from, h), ~Holds(from, h)', HoldersKept(to, h), MakersKept
    PROVE  OneHolder'
<1> SUFFICES ASSUME NEW g \in RQB
             PROVE  /\ \A k, l \in Holder : Holds(k, g)' /\ Holds(l, g)' => k = l
                    /\ \A k \in Holder, j \in Job : ~(Holds(k, g)' /\ Makes(j, g)')
                    /\ \A j, l \in Job : Makes(j, g)' /\ Makes(l, g)' => j = l
  BY DEF OneHolder
<1>1. CASE g # h
  <2>1. \A k \in Holder : Holds(k, g)' => Holds(k, g)
    BY <1>1 DEF HoldersKept
  <2> QED
    BY <2>1 DEF OneHolder, MakersKept
<1>2. CASE g = h
  <2>1. \A k \in Holder : Holds(k, h) => k = from
    BY DEF OneHolder
  <2>2. \A j \in Job : ~Makes(j, h)
    BY DEF OneHolder
  <2>3. \A k \in Holder : Holds(k, h)' => k = to
    BY <2>1 DEF HoldersKept
  <2>4. \A j \in Job : ~Makes(j, h)'
    BY <2>2 DEF MakersKept
  <2> QED
    BY <1>2, <2>3, <2>4
<1> QED
  BY <1>1, <1>2

LEMMA HoldersFrom ==
    ASSUME NEW to, NEW h,
           \A g \in RQB : InList(freeRQB', g) => InList(freeRQB, g) \/ (to = "free" /\ g = h),
           \A x \in Shelf : \A g \in RQB :
                InQueue(queue'[x], g) => InQueue(queue[x], g) \/ (x = to /\ g = h),
           svc'.rq \in RQB => svc'.rq = svc.rq \/ (to = "rq" /\ svc'.rq = h),
           svc'.rq2 \in RQB => svc'.rq2 = svc.rq2 \/ (to = "rq2" /\ svc'.rq2 = h)
    PROVE  HoldersKept(to, h)
BY DEF HoldersKept, Holds, Holder

\* The service goes on.
LEMMA GotoSvc ==
    ASSUME NEW pc \in {"top", "glob", "main", "wait"}, Goto(pc)
    PROVE  SvcOK' /\ svc'.rq \notin RQB /\ svc'.rq2 \notin RQB
<1>1. svc' = [pc |-> pc, rq |-> None, rq2 |-> None, erc |-> "ok", then |-> "top"]
  BY DEF Goto, Service
<1>2. svc' \in SvcType
  BY <1>1 DEF SvcType, SvcPc, Erc
<1> QED
  BY <1>1, <1>2, Names DEF SvcOK, SvcHolds

LEMMA AnswerSvc ==
    ASSUME NEW h \in RQB, NEW erc \in Erc, NEW then \in {"top", "glob"}, Answer(h, erc, then)
    PROVE  SvcOK' /\ svc'.rq \notin RQB /\ svc'.rq2 = h
<1>1. svc' = [pc |-> "resp", rq |-> None, rq2 |-> h, erc |-> erc, then |-> then]
  BY DEF Answer, Service
<1>2. svc' \in SvcType
  BY <1>1 DEF SvcType, SvcPc
<1> QED
  BY <1>1, <1>2, Names DEF SvcOK, SvcHolds

LEMMA ReceiveSvc ==
    ASSUME NEW h \in RQB, NEW pc \in {"alias", "rq", "assign", "abort"},
           svc' = [Service(pc) EXCEPT !.rq = h]
    PROVE  SvcOK' /\ svc'.rq = h /\ svc'.rq2 \notin RQB
<1>1. svc' = [pc |-> pc, rq |-> h, rq2 |-> None, erc |-> "ok", then |-> "top"]
  BY DEF Service
<1>2. svc' \in SvcType
  <2>1. pc \in SvcPc
    BY DEF SvcPc
  <2>2. [pc |-> pc, rq |-> h, rq2 |-> None, erc |-> "ok", then |-> "top"] \in SvcType
    BY <2>1 DEF SvcType, Erc
  <2> QED
    BY <1>1, <2>2
<1> QED
  BY <1>1, <1>2, Names DEF SvcOK, SvcHolds

\* A step of the service that takes no message and sends none.
LEMMA SvcStep ==
    ASSUME IInv, UNCHANGED <<queue, freeRQB, rqb, mgr>>, JobsOK', MakersKept, SvcOK',
           svc'.rq \in RQB => svc'.rq = svc.rq,
           svc'.rq2 \in RQB => svc'.rq2 = svc.rq2 \/ (svc'.rq2 = svc.rq /\ svc'.rq \notin RQB)
    PROVE  IInv'
<1>1. Types' /\ ListedOnce'
  BY DEF IInv, Types, QueuesOK, RqbsOK, ListedOnce
<1>2. OneHolder
  BY DEF IInv
<1>3. CASE svc'.rq2 \in RQB => svc'.rq2 = svc.rq2
  <2>1. HoldersKept("none", None)
    BY <1>3, HoldersFrom
  <2> QED
    BY <1>1, <1>2, <2>1, NoneMoves DEF IInv
<1>4. CASE svc'.rq2 \in RQB /\ svc'.rq2 = svc.rq /\ svc'.rq \notin RQB
  <2>1. PICK h \in RQB : h = svc.rq
    BY <1>4
  <2>2. HoldersKept("rq2", h)
    BY <1>4, <2>1, HoldersFrom
  <2>3. Holds("rq", h) /\ ~Holds("rq", h)' /\ "rq" \in Holder /\ "rq2" \in Holder
    BY <1>4, <2>1 DEF Holds, Holder, Shelf
  <2> QED
    BY <1>1, <1>2, <2>2, <2>3, OneMoves DEF IInv
<1> QED
  BY <1>3, <1>4

\* A step of others, which changes no queue of the service.
LEMMA OffShelf ==
    ASSUME IInv, UNCHANGED <<freeRQB, rqb, svc>>, QueuesOK', ShelvesKept, JobsOK', MakersKept,
           mgr' \in MgrType
    PROVE  IInv'
<1>1. Types' /\ ListedOnce'
  BY DEF IInv, Types, RqbsOK, SvcOK, SvcHolds, ListedOnce, ShelvesKept
<1>2. HoldersKept("none", None)
  BY HoldersFrom DEF ShelvesKept
<1> QED
  BY <1>1, <1>2, NoneMoves DEF IInv

\* The service takes a message that is no request, or one with a request.
LEMMA TakeISR ==
    ASSUME IInv, NEW e \in Shelf, Take(e), UNCHANGED <<job, mgr>>, SvcOK',
           svc'.rq \notin RQB, svc'.rq2 \notin RQB
    PROVE  IInv'
<1>1. QueuesOK /\ ListedOnce /\ OneHolder /\ UNCHANGED <<freeRQB, rqb>>
  BY DEF IInv, Types, Take
<1>2. /\ QueuesOK' /\ \A x \in Shelf : OnceInQueue(queue'[x])
      /\ \A x \in Shelf : \A h : InQueue(queue'[x], h) => InQueue(queue[x], h)
  BY <1>1, TakeShelf
<1>3. Types' /\ ListedOnce'
  BY <1>1, <1>2 DEF IInv, Types, RqbsOK, JobsOK, ListedOnce
<1>4. HoldersKept("none", None) /\ MakersKept
  BY <1>1, <1>2, HoldersFrom DEF MakersKept, Makes
<1> QED
  BY <1>1, <1>3, <1>4, NoneMoves DEF IInv

LEMMA TakeRq ==
    ASSUME IInv, NEW e \in Shelf, Take(e), NEW h \in RQB, h = Head(queue[e]).h,
           UNCHANGED <<job, mgr>>, SvcOK',
           NEW to \in {"rq", "rq2"},
           svc'.rq \in RQB => svc'.rq = svc.rq \/ (to = "rq" /\ svc'.rq = h),
           svc'.rq2 \in RQB => svc'.rq2 = svc.rq2 \/ (to = "rq2" /\ svc'.rq2 = h)
    PROVE  IInv'
<1>1. QueuesOK /\ ListedOnce /\ OneHolder /\ UNCHANGED <<freeRQB, rqb>>
  BY DEF IInv, Types, Take
<1>2. PICK m : m = Head(queue[e])
  OBVIOUS
<1>3. /\ QueuesOK' /\ \A x \in Shelf : OnceInQueue(queue'[x])
      /\ InQueue(queue[e], m.h) /\ (m.h # ISR => ~InQueue(queue'[e], m.h))
      /\ \A x \in Shelf : \A g : InQueue(queue'[x], g) => InQueue(queue[x], g)
  BY <1>1, <1>2, TakeShelf
<1>4. Types' /\ ListedOnce'
  BY <1>1, <1>3 DEF IInv, Types, RqbsOK, JobsOK, ListedOnce
<1>5. HoldersKept(to, h)
  BY <1>1, <1>3, HoldersFrom
<1>6. MakersKept
  BY DEF MakersKept, Makes
<1>7. Holds(e, h) /\ ~Holds(e, h)' /\ e \in Holder /\ to \in Holder
  BY <1>2, <1>3, Names DEF Holds, Holder, Shelf
<1> QED
  BY <1>1, <1>4, <1>5, <1>6, <1>7, OneMoves DEF IInv

\* The block that the service has in its hands goes to one of its exchanges.
LEMMA MoveRq ==
    ASSUME IInv, NEW e \in Shelf, NEW from \in {"rq", "rq2"}, NEW h \in RQB, Holds(from, h),
           MoveRequest(h, e), UNCHANGED <<job, mgr>>, SvcOK',
           svc'.rq \in RQB => svc'.rq = svc.rq /\ from # "rq",
           svc'.rq2 \notin RQB
    PROVE  IInv'
<1>1. QueuesOK /\ ListedOnce /\ OneHolder /\ UNCHANGED <<freeRQB, rqb>>
  BY DEF IInv, Types, MoveRequest
<1>2. from \in Holder /\ e \in Holder /\ from # e
  BY DEF Holder, Shelf
<1>3. ~Holds(e, h)
  BY <1>1, <1>2 DEF OneHolder
<1>4. ~InQueue(queue[e], h)
  BY <1>3 DEF Holds
<1>5. Send(e, h, "moved") /\ "moved" \in Erc
  BY DEF MoveRequest, Erc
<1>6. /\ QueuesOK' /\ \A x \in Shelf : OnceInQueue(queue'[x])
      /\ \A x \in Shelf : \A g : InQueue(queue'[x], g) => InQueue(queue[x], g) \/ (x = e /\ g = h)
  BY <1>1, <1>4, <1>5, SendShelf
<1>7. Types' /\ ListedOnce'
  BY <1>1, <1>6 DEF IInv, Types, RqbsOK, JobsOK, ListedOnce
<1>8. HoldersKept(e, h)
  BY <1>1, <1>6, HoldersFrom
<1>9. MakersKept
  BY DEF MakersKept, Makes
<1>10. ~Holds(from, h)'
  BY DEF Holds, Shelf
<1> QED
  BY <1>1, <1>2, <1>7, <1>8, <1>9, <1>10, OneMoves DEF IInv

\* The service gives a block back.
LEMMA DisposeRq ==
    ASSUME IInv, NEW h \in RQB, h = svc.rq2, DisposeRQB(h), QueuesOK', ShelvesKept,
           UNCHANGED <<job, mgr>>, SvcOK',
           svc'.rq \in RQB => svc'.rq = svc.rq, svc'.rq2 \notin RQB
    PROVE  IInv'
<1>1. RqbsOK /\ ListedOnce /\ OneHolder /\ Holds("rq2", h) /\ "rq2" \in Holder /\ "free" \in Holder
  BY DEF IInv, Types, Holds, Holder
<1>2. ~InList(freeRQB, h)
  BY <1>1 DEF OneHolder, Holds
<1>3. /\ freeRQB' \in Seq(RQB) /\ OnceInList(freeRQB')
      /\ \A g : InList(freeRQB', g) => InList(freeRQB, g) \/ g = h
  BY <1>1, <1>2, ListPush DEF DisposeRQB, RqbsOK, ListedOnce
<1>4. RqbsOK'
  BY <1>1, <1>3 DEF RqbsOK, DisposeRQB, NoRq, Code
<1>5. Types' /\ ListedOnce'
  BY <1>3, <1>4 DEF IInv, Types, JobsOK, ListedOnce, ShelvesKept
<1>6. HoldersKept("free", h)
  BY <1>3, HoldersFrom DEF ShelvesKept
<1>7. MakersKept /\ ~Holds("rq2", h)'
  BY DEF MakersKept, Makes, Holds, Shelf
<1> QED
  BY <1>1, <1>5, <1>6, <1>7, OneMoves DEF IInv

-----------------------------------------------------------------------------
(* The invariant, step by step. *)

LEMMA InitIInv == Init => IInv
<1> SUFFICES ASSUME Init PROVE IInv
  OBVIOUS
<1>1. QueuesOK /\ \A e \in Shelf : queue[e] = <<>>
  <2>1. queue = [e \in Exch |-> <<>>]
    BY DEF Init, RequestsInit
  <2>2. \A e \in Exch : <<>> \in Seq(MsgAt(e))
    OBVIOUS
  <2> QED
    BY <2>1, <2>2, Names DEF QueuesOK
<1>2. freeRQB \in Seq(RQB) /\ OnceInList(freeRQB)
  <2> DEFINE N == 1 .. Cardinality(RQB)
  <2>1. IsFiniteSet(RQB) /\ Cardinality(RQB) \in Nat
    BY RequestsAssumption, FS_CardinalityType
  <2>2. freeRQB \in [N -> RQB] /\ {freeRQB[i] : i \in DOMAIN freeRQB} = RQB
    BY DEF Init, RequestsInit
  <2>3. freeRQB \in Surjection(N, RQB)
    BY <2>2 DEF Surjection
  <2>4. IsFiniteSet(N) /\ Cardinality(N) = Cardinality(RQB)
    BY <2>1, FS_Interval
  <2>5. freeRQB \in Injection(N, RQB)
    BY <2>3, <2>4, FS_SurjSameCardinalityImpliesInj
  <2>6. OnceInList(freeRQB)
    BY <2>2, <2>5 DEF Injection, IsInjective, OnceInList
  <2> QED
    BY <2>1, <2>2, <2>6
<1>3. RqbsOK
  <2>1. rqb = [h \in RQB |-> NoRq]
    BY DEF Init, RequestsInit
  <2> QED
    BY <1>2, <2>1 DEF RqbsOK, NoRq, Code
<1>4. svc \in SvcType /\ svc.rq = None /\ svc.rq2 = None /\ svc.pc = "top"
  BY DEF Init, Service, SvcType, SvcPc, Erc
<1>5. SvcOK
  BY <1>4, Names DEF SvcOK, SvcHolds
<1>6. JobsOK /\ \A j \in Job : job[j].pc = "idle"
  BY DEF Init, IdleJob, JobsOK
<1>7. mgr \in MgrType
  BY DEF Init, IdleTask, MgrType, MgrPc
<1>8. \A h \in RQB, k \in Holder : Holds(k, h) => k = "free"
  BY <1>1, <1>4, Names DEF Holds, InQueue
<1>9. OneHolder
  BY <1>6, <1>8 DEF OneHolder, Makes
<1>10. ListedOnce
  BY <1>1, <1>2 DEF ListedOnce, OnceInQueue
<1> QED
  BY <1>1, <1>3, <1>5, <1>6, <1>7, <1>9, <1>10 DEF IInv, Types

LEMMA IntKeyBrdIInv == ASSUME IInv, NEW b, IntKeyBrd(b) PROVE IInv'
<1>1. /\ QueuesOK /\ ListedOnce /\ OneHolder /\ UNCHANGED <<freeRQB, rqb, svc, job, mgr>>
      /\ Send("main", ISR, "int") /\ "int" \in Erc /\ "main" \in Shelf
  BY DEF IInv, Types, IntKeyBrd, Erc, Shelf
<1>2. /\ QueuesOK' /\ \A x \in Shelf : OnceInQueue(queue'[x])
      /\ \A x \in Shelf : \A g : InQueue(queue'[x], g) => InQueue(queue[x], g) \/ (x = "main" /\ g = ISR)
  BY <1>1, SendShelf
<1>3. Types' /\ ListedOnce'
  BY <1>1, <1>2 DEF IInv, Types, RqbsOK, SvcOK, SvcHolds, JobsOK, ListedOnce
<1>4. HoldersKept("none", None) /\ MakersKept
  BY <1>1, <1>2, HoldersFrom, Names DEF MakersKept, Makes
<1> QED
  BY <1>1, <1>3, <1>4, NoneMoves DEF IInv

\* What the service has where it stands.
LEMMA SvcAt ==
    ASSUME IInv
    PROVE  /\ svc.pc \in {"alias", "rq", "assign", "abort", "sifted"} => svc.rq \in RQB
           /\ svc.pc \in {"sifted", "resp", "dealias", "send"} => svc.rq2 \in RQB
           /\ svc.pc = "sifted" => svc.then \in {"assign", "abort"}
           /\ svc.pc \in {"resp", "dealias", "send"} => svc.then \in {"top", "glob"}
           /\ svc.rq \in RQB => svc.pc \in {"alias", "rq", "assign", "abort", "sifted"}
           /\ svc.rq2 \in RQB => svc.pc \in {"sifted", "resp", "dealias", "send"}
           /\ svc \in SvcType
BY DEF IInv, Types, SvcOK, SvcHolds

\* The service changes its place, and has what it had.
LEMMA SvcWith ==
    ASSUME svc \in SvcType, NEW pc \in SvcPc, svc' = [svc EXCEPT !.pc = pc],
           \/ svc.rq \in RQB /\ svc.rq2 \notin RQB /\ pc \in {"alias", "rq", "assign", "abort"}
           \/ /\ svc.rq \notin RQB /\ svc.rq2 \in RQB /\ pc \in {"resp", "dealias", "send"}
              /\ svc.then \in {"top", "glob"}
    PROVE  SvcOK' /\ svc'.rq = svc.rq /\ svc'.rq2 = svc.rq2
<1>1. /\ svc' \in SvcType /\ svc'.rq = svc.rq /\ svc'.rq2 = svc.rq2 /\ svc'.pc = pc
      /\ svc'.then = svc.then
  BY DEF SvcType
<1> QED
  BY <1>1 DEF SvcOK, SvcHolds

\* At those exchanges there are requests.
LEMMA ServedRq ==
    ASSUME IInv, NEW e \in {"wait", "hold", "glob"}, Take(e)
    PROVE  Head(queue[e]).h \in RQB
<1>1. e \in Shelf /\ MsgAt(e) = RqMsg /\ QueuesOK /\ ListedOnce
  BY DEF Shelf, MsgAt, IInv, Types
<1>2. PICK m : m = Head(queue[e])
  OBVIOUS
<1>3. m \in RqMsg
  BY <1>1, <1>2, TakeShelf
<1> QED
  BY <1>2, <1>3 DEF RqMsg

\* Each job stays where it is.
JobsStay == \A j \in Job : job'[j].pc = job[j].pc /\ job'[j].h = job[j].h

\* A job gets a key.
LEMMA KeyWritten ==
    ASSUME JobsOK, NEW j, NEW v, job' = [job EXCEPT ![j].key = v]
    PROVE  JobsOK' /\ MakersKept /\ JobsStay
<1>1. ASSUME NEW l \in Job
      PROVE  DOMAIN job'[l] = {"pc", "h", "key"} /\ job'[l].pc = job[l].pc /\ job'[l].h = job[l].h
  <2>1. DOMAIN job[l] = {"pc", "h", "key"} /\ l \in DOMAIN job
    BY DEF JobsOK
  <2>2. CASE l = j
    BY <2>1, <2>2
  <2>3. CASE l # j
    BY <2>1, <2>3
  <2> QED
    BY <2>2, <2>3
<1>2. DOMAIN job' = Job
  BY DEF JobsOK
<1> QED
  BY <1>1, <1>2 DEF JobsOK, MakersKept, Makes, JobsStay

LEMMA ServiceIInv == ASSUME IInv, KBDServiceTask PROVE IInv'
<1>1. QueuesOK /\ JobsOK /\ mgr \in MgrType /\ RqbsOK
  BY DEF IInv, Types
<1>2. ASSUME UNCHANGED job PROVE JobsOK' /\ MakersKept
  BY <1>1, <1>2 DEF JobsOK, MakersKept, Makes
<1>3. /\ "ok" \in Erc /\ "ErcNoKeyAvail" \in Erc
      /\ "main" \in Shelf /\ "wait" \in Shelf /\ "hold" \in Shelf /\ "glob" \in Shelf
      /\ {"assign", "abort", "dealias", "send"} \subseteq SvcPc
  BY DEF Erc, Shelf, SvcPc
<1>4. CASE Top
  <2>1. PICK pc \in {"glob", "main"} : Goto(pc)
    BY <1>4 DEF Top
  <2>2. UNCHANGED <<queue, freeRQB, rqb, mgr, job>>
    BY <1>4 DEF Top, rqVars
  <2> QED
    BY <1>2, <2>1, <2>2, GotoSvc, SvcStep
<1>5. CASE Global1
  <2>1. CASE Take("glob") /\ Answer(Head(queue["glob"]).h, "ok", "glob")
    <3>1. PICK h \in RQB : h = Head(queue["glob"]).h
      BY <2>1, ServedRq
    <3>2. SvcOK' /\ svc'.rq \notin RQB /\ svc'.rq2 = h
      BY <1>3, <2>1, <3>1, AnswerSvc
    <3> QED
      BY <1>3, <1>5, <2>1, <3>1, <3>2, TakeRq DEF Global1
  <2>2. CASE Goto("top") /\ UNCHANGED rqVars
    BY <1>2, <1>5, <2>2, GotoSvc, SvcStep DEF Global1, rqVars
  <2> QED
    BY <1>5, <2>1, <2>2 DEF Global1
<1>6. CASE WaitMain
  <2>1. Take("main") /\ UNCHANGED <<job, mgr>>
    BY <1>6 DEF WaitMain
  <2>2. First \in Msg
    BY <1>1, <1>3, <2>1, TakeShelf, Names DEF IInv, First
  <2>3. CASE First.h = ISR
    <3>1. PICK pc \in {"glob", "wait"} : Goto(pc)
      BY <1>6, <2>3 DEF WaitMain
    <3> QED
      BY <1>3, <2>1, <3>1, GotoSvc, TakeISR
  <2>4. CASE First.h # ISR
    <3>1. PICK h \in RQB : h = Head(queue["main"]).h
      BY <2>2, <2>4 DEF Msg, First
    <3>2. PICK pc \in {"alias", "rq"} : svc' = [Service(pc) EXCEPT !.rq = h]
      BY <1>6, <2>4, <3>1 DEF WaitMain, First
    <3>3. SvcOK' /\ svc'.rq = h /\ svc'.rq2 \notin RQB
      BY <3>2, ReceiveSvc
    <3> QED
      BY <1>3, <2>1, <3>1, <3>3, TakeRq
  <2> QED
    BY <2>3, <2>4
<1>7. CASE AliasMem
  <2>1. svc.rq \in RQB /\ svc.rq2 \notin RQB /\ svc \in SvcType /\ svc' = [svc EXCEPT !.pc = "rq"]
    BY <1>7, SvcAt DEF AliasMem
  <2>2. svc' \in SvcType /\ svc'.rq = svc.rq /\ svc'.rq2 = svc.rq2 /\ svc'.pc = "rq"
    BY <2>1 DEF SvcType, SvcPc
  <2>3. SvcOK'
    BY <2>1, <2>2 DEF SvcOK, SvcHolds
  <2> QED
    BY <1>2, <1>7, <2>2, <2>3, SvcStep DEF AliasMem, rqVars
<1>8. CASE CheckWait
  <2>1. CASE Take("wait") /\ svc' = [Service("rq") EXCEPT !.rq = Head(queue["wait"]).h]
    <3>1. PICK h \in RQB : h = Head(queue["wait"]).h
      BY <2>1, ServedRq
    <3>2. SvcOK' /\ svc'.rq = h /\ svc'.rq2 \notin RQB
      BY <2>1, <3>1, ReceiveSvc
    <3> QED
      BY <1>3, <1>8, <2>1, <3>1, <3>2, TakeRq DEF CheckWait
  <2>2. CASE Goto("top") /\ UNCHANGED rqVars
    BY <1>2, <1>8, <2>2, GotoSvc, SvcStep DEF CheckWait, rqVars
  <2> QED
    BY <1>8, <2>1, <2>2 DEF CheckWait

<1>9. CASE ReadKey
  <2>1. svc.pc = "rq" /\ Answer(svc.rq, "ok", "top") /\ UNCHANGED <<queue, freeRQB, rqb, mgr>>
    BY <1>9 DEF ReadKey, Serving, rqVars
  <2>2. JobsOK' /\ MakersKept
    BY <1>1, <1>9, KeyWritten DEF ReadKey, ReadKBFinal
  <2>3. svc.rq \in RQB
    BY <2>1, SvcAt
  <2> QED
    BY <1>3, <2>1, <2>2, <2>3, AnswerSvc, SvcStep
<1>10. CASE ReadNone
  <2>1. /\ svc.pc = "rq" /\ Answer(svc.rq, "ErcNoKeyAvail", "top")
        /\ UNCHANGED <<queue, freeRQB, rqb, job, mgr>>
    BY <1>10 DEF ReadNone, Serving, rqVars
  <2>2. svc.rq \in RQB
    BY <2>1, SvcAt
  <2> QED
    BY <1>2, <1>3, <2>1, <2>2, AnswerSvc, SvcStep
<1>11. CASE Park
  <2>1. svc.pc = "rq" /\ Goto("top") /\ UNCHANGED <<job, mgr>>
    BY <1>11 DEF Park, Serving
  <2>2. PICK e \in {"hold", "wait", "glob"} : MoveRequest(svc.rq, e)
    BY <1>11 DEF Park
  <2>3. PICK h \in RQB : h = svc.rq
    BY <2>1, SvcAt
  <2>4. Holds("rq", h)
    BY <2>3 DEF Holds
  <2>5. SvcOK' /\ svc'.rq \notin RQB /\ svc'.rq2 \notin RQB
    BY <2>1, GotoSvc
  <2> QED
    BY <1>3, <2>1, <2>2, <2>3, <2>4, <2>5, MoveRq
<1>12. CASE AssignKBD
  <2>1. /\ svc.pc = "rq" /\ UNCHANGED <<queue, freeRQB, rqb, job, mgr>>
        /\ Answer(svc.rq, "ok", "top") \/ svc' = [svc EXCEPT !.pc = "assign"]
    BY <1>12 DEF AssignKBD, Serving, rqVars
  <2>2. svc.rq \in RQB /\ svc.rq2 \notin RQB /\ svc \in SvcType
    BY <2>1, SvcAt
  <2>3. CASE Answer(svc.rq, "ok", "top")
    BY <1>2, <1>3, <2>1, <2>2, <2>3, AnswerSvc, SvcStep
  <2>4. CASE svc' = [svc EXCEPT !.pc = "assign"]
    BY <1>2, <1>3, <2>1, <2>2, <2>4, SvcWith, SvcStep
  <2> QED
    BY <2>1, <2>3, <2>4
<1>13. CASE AbortJob
  <2>1. /\ svc.pc = "rq" /\ UNCHANGED <<queue, freeRQB, rqb, job, mgr>>
        /\ svc' = [svc EXCEPT !.pc = "abort"]
    BY <1>13 DEF AbortJob, Serving, rqVars
  <2>2. svc.rq \in RQB /\ svc.rq2 \notin RQB /\ svc \in SvcType
    BY <2>1, SvcAt
  <2> QED
    BY <1>2, <1>3, <2>1, <2>2, SvcWith, SvcStep
<1>14. CASE Sift
  <2>1. svc.pc \in {"assign", "abort"} /\ UNCHANGED <<job, mgr>>
    BY <1>14 DEF Sift
  <2>2. svc.rq \in RQB /\ svc.rq2 \notin RQB /\ svc \in SvcType
    BY <2>1, SvcAt
  <2>3. CASE Answer(svc.rq, "ok", "top") /\ UNCHANGED rqVars
    BY <1>2, <1>3, <2>1, <2>2, <2>3, AnswerSvc, SvcStep DEF rqVars
  <2>4. ASSUME NEW e \in {"wait", "hold", "glob"}, Take(e),
               svc' = [svc EXCEPT !.then = svc.pc, !.pc = "sifted", !.rq2 = Head(queue[e]).h]
        PROVE  IInv'
    <3>1. PICK h \in RQB : h = Head(queue[e]).h
      BY <2>4, ServedRq
    <3>2. svc' = [svc EXCEPT !.then = svc.pc, !.pc = "sifted", !.rq2 = h]
      BY <2>4, <3>1
    <3>3. /\ svc'.pc = "sifted" /\ svc'.rq = svc.rq /\ svc'.rq2 = h /\ svc'.then = svc.pc
          /\ svc' \in SvcType
      BY <2>1, <2>2, <3>2 DEF SvcType, SvcPc
    <3>4. SvcOK'
      BY <2>1, <2>2, <3>3 DEF SvcOK, SvcHolds
    <3> QED
      BY <1>3, <2>1, <2>4, <3>1, <3>3, <3>4, TakeRq
  <2>5. ASSUME ~(Answer(svc.rq, "ok", "top") /\ UNCHANGED rqVars)
        PROVE  \E e \in {"wait", "hold", "glob"} :
                    /\ Take(e)
                    /\ svc' = [svc EXCEPT !.then = svc.pc, !.pc = "sifted", !.rq2 = Head(queue[e]).h]
    <3>1. PICK at : at = Sifted[svc.pc]
      OBVIOUS
    <3>2. PICK i \in DOMAIN at :
                    /\ Take(at[i])
                    /\ svc' = [svc EXCEPT !.then = svc.pc, !.pc = "sifted",
                                          !.rq2 = Head(queue[at[i]]).h]
      BY <1>14, <2>5, <3>1 DEF Sift
    <3>3. at = <<"wait", "hold">> \/ at = <<"wait", "hold", "glob">>
      BY <2>1, <3>1 DEF Sifted
    <3>4. at[i] \in {"wait", "hold", "glob"}
      BY <3>3
    <3> QED
      BY <3>2, <3>4
  <2> QED
    BY <2>3, <2>4, <2>5
<1>15. CASE SiftMove
  <2>1. /\ svc.pc = "sifted" /\ svc' = [Service(svc.then) EXCEPT !.rq = svc.rq]
        /\ UNCHANGED <<job, mgr>>
        /\ RespondAbort(svc.rq2) \/ MoveRequest(svc.rq2, "main")
    BY <1>15 DEF SiftMove
  <2>2. svc.rq \in RQB /\ svc.rq2 \in RQB /\ svc.then \in {"assign", "abort"}
    BY <2>1, SvcAt
  <2>3. SvcOK' /\ svc'.rq = svc.rq /\ svc'.rq2 \notin RQB
    BY <2>1, <2>2, ReceiveSvc
  <2>4. CASE MoveRequest(svc.rq2, "main")
    BY <1>3, <2>1, <2>2, <2>3, <2>4, MoveRq DEF Holds
  <2>5. CASE RespondAbort(svc.rq2)
    <3>1. DisposeRQB(svc.rq2) /\ QueuesOK' /\ ShelvesKept
      BY <1>1, <2>5 DEF RespondAbort, QueuesOK, ShelvesKept
    <3> QED
      BY <2>1, <2>2, <2>3, <3>1, DisposeRq
  <2> QED
    BY <2>1, <2>4, <2>5
<1>16. CASE CheckResp
  <2>1. svc.pc = "resp" /\ UNCHANGED <<queue, freeRQB, rqb, job, mgr>>
    BY <1>16 DEF CheckResp, rqVars
  <2>2. svc.rq \notin RQB /\ svc.rq2 \in RQB /\ svc.then \in {"top", "glob"} /\ svc \in SvcType
    BY <2>1, SvcAt
  <2>3. CASE Goto(svc.then)
    BY <1>2, <2>1, <2>2, <2>3, GotoSvc, SvcStep
  <2>4. ASSUME NEW pc \in {"dealias", "send"}, svc' = [svc EXCEPT !.pc = pc] PROVE IInv'
    BY <1>2, <1>3, <2>1, <2>2, <2>4, SvcWith, SvcStep
  <2> QED
    BY <1>16, <2>3, <2>4 DEF CheckResp
<1>17. CASE SendResp
  <2>1. /\ svc.pc \in {"dealias", "send"} /\ Respond(svc.rq2, svc.erc) /\ Goto(svc.then)
        /\ UNCHANGED <<job, mgr>>
    BY <1>17 DEF SendResp
  <2>2. svc.rq2 \in RQB /\ svc.then \in {"top", "glob"} /\ svc.erc \in Erc
    BY <2>1, SvcAt DEF SvcType
  <2>3. PICK e : e = rqb[svc.rq2].RespExch
    OBVIOUS
  <2>4. e \in Job \cup {"mgr", None}
    BY <1>1, <2>2, <2>3 DEF RqbsOK
  <2>5. DisposeRQB(svc.rq2) /\ Send(e, svc.rq2, svc.erc)
    BY <2>1, <2>3 DEF Respond
  <2>6. QueuesOK' /\ ShelvesKept
    BY <1>1, <2>2, <2>4, <2>5, SendOther
  <2>7. SvcOK' /\ svc'.rq \notin RQB /\ svc'.rq2 \notin RQB
    BY <2>1, <2>2, GotoSvc
  <2> QED
    BY <2>1, <2>2, <2>5, <2>6, <2>7, DisposeRq
<1> QED
  BY <1>4, <1>5, <1>6, <1>7, <1>8, <1>9, <1>10, <1>11, <1>12, <1>13, <1>14, <1>15, <1>16, <1>17
  DEF KBDServiceTask

-----------------------------------------------------------------------------
(* The jobs and the tasks. *)

LEMMA JobSet ==
    ASSUME JobsOK, NEW j \in Job, NEW r, DOMAIN r = {"pc", "h", "key"},
           r.pc = "send" => r.h \in RQB, job' = [job EXCEPT ![j] = r]
    PROVE  /\ JobsOK' /\ job'[j] = r /\ \A l \in Job : l # j => job'[l] = job[l]
           /\ r.pc # "send" => MakersKept
<1>1. DOMAIN job' = Job /\ job'[j] = r /\ \A l \in Job : l # j => job'[l] = job[l]
  BY DEF JobsOK
<1>2. \A l \in Job : job'[l] = r \/ job'[l] = job[l]
  BY <1>1
<1>3. JobsOK'
  BY <1>1, <1>2 DEF JobsOK
<1> QED
  BY <1>1, <1>2, <1>3 DEF MakersKept, Makes

LEMMA TakeFree ==
    ASSUME RqbsOK, ListedOnce, NEW code \in Code, NEW resp \in Job \cup {"mgr", None},
           NEW owner \in Job \cup {None}, NEW data \in Job \cup {None},
           TakeRQB(code, resp, owner, data), NEW h, h = Head(freeRQB)
    PROVE  /\ RqbsOK' /\ OnceInList(freeRQB') /\ h \in RQB
           /\ InList(freeRQB, h) /\ ~InList(freeRQB', h)
           /\ \A g : InList(freeRQB', g) => InList(freeRQB, g)
<1>1. freeRQB \in Seq(RQB) /\ freeRQB # <<>> /\ freeRQB' = Tail(freeRQB) /\ OnceInList(freeRQB)
  BY DEF TakeRQB, RqbsOK, ListedOnce
<1>2. /\ freeRQB' \in Seq(RQB) /\ h \in RQB
      /\ OnceInList(freeRQB') /\ InList(freeRQB, h) /\ ~InList(freeRQB', h)
      /\ \A g : InList(freeRQB', g) => InList(freeRQB, g)
  BY <1>1, ListTail
<1>3. rqb' = [rqb EXCEPT ![h] = [ServiceCode |-> code, RespExch |-> resp,
                                 RqOwnerJob |-> owner, dData0 |-> data]]
  BY DEF TakeRQB
<1>4. RqbsOK'
  BY <1>2, <1>3 DEF RqbsOK
<1> QED
  BY <1>2, <1>4

LEMMA ReadKBDIInv == ASSUME IInv, NEW j \in Job, ReadKBD(j) PROVE IInv'
<1>1. QueuesOK /\ RqbsOK /\ SvcOK /\ JobsOK /\ mgr \in MgrType /\ ListedOnce /\ OneHolder
  BY DEF IInv, Types
<1>2. UNCHANGED <<queue, svc, mgr>>
  BY DEF ReadKBD, NewRQB, rqVars
<1>3. CASE /\ freeRQB = <<>> /\ UNCHANGED rqVars
           /\ job' = [job EXCEPT ![j] = [pc |-> "asked", h |-> None, key |-> None]]
  <2> DEFINE r == [pc |-> "asked", h |-> None, key |-> None]
  <2>1. DOMAIN r = {"pc", "h", "key"} /\ r.pc = "asked" /\ job' = [job EXCEPT ![j] = r]
    BY <1>3
  <2> HIDE DEF r
  <2>2. JobsOK' /\ MakersKept
    BY <1>1, <2>1, JobSet
  <2>3. QueuesOK' /\ ShelvesKept
    BY <1>1, <1>2 DEF QueuesOK, ShelvesKept
  <2> QED
    BY <1>1, <1>2, <1>3, <2>2, <2>3, OffShelf DEF rqVars
<1>4. ASSUME NEW code \in {"poll", "read"}, NewRQB(code, j, j, None),
             job' = [job EXCEPT ![j] = [pc |-> "send", h |-> Head(freeRQB), key |-> None]]
      PROVE  IInv'
  <2>1. PICK h : h = Head(freeRQB)
    OBVIOUS
  <2>2. TakeRQB(code, j, j, None)
    BY <1>4 DEF NewRQB
  <2>3. /\ RqbsOK' /\ OnceInList(freeRQB') /\ h \in RQB
        /\ InList(freeRQB, h) /\ ~InList(freeRQB', h)
        /\ \A g : InList(freeRQB', g) => InList(freeRQB, g)
    <3>1. code \in Code
      BY DEF Code
    <3> QED
      BY <1>1, <2>1, <2>2, <3>1, TakeFree
  <2>4. /\ JobsOK' /\ job'[j] = [pc |-> "send", h |-> h, key |-> None]
        /\ \A l \in Job : l # j => job'[l] = job[l]
    BY <1>1, <1>4, <2>1, <2>3, JobSet
  <2>5. Types' /\ ListedOnce'
    BY <1>1, <1>2, <2>3, <2>4 DEF Types, QueuesOK, SvcOK, SvcHolds, ListedOnce
  <2>6. HoldersKept("none", None)
    BY <1>2, <2>3, HoldersFrom
  <2>7. \A g \in RQB, k \in Holder : Holds(k, g)' => Holds(k, g)
    BY <2>6 DEF HoldersKept, Holder, Shelf
  <2>8. "free" \in Holder /\ Holds("free", h) /\ ~Holds("free", h)'
    BY <2>3 DEF Holder, Holds, Shelf
  <2>9. \A k \in Holder : ~Holds(k, h)'
    BY <1>1, <2>3, <2>7, <2>8 DEF OneHolder
  <2>10. \A l \in Job : ~Makes(l, h)
    BY <1>1, <2>3, <2>8 DEF OneHolder
  <2>11. \A l \in Job, g \in RQB : Makes(l, g)' => Makes(l, g) \/ (l = j /\ g = h)
    BY <2>4 DEF Makes
  <2>12. OneHolder'
    <3> SUFFICES ASSUME NEW g \in RQB
                 PROVE  /\ \A k, l \in Holder : Holds(k, g)' /\ Holds(l, g)' => k = l
                        /\ \A k \in Holder, i \in Job : ~(Holds(k, g)' /\ Makes(i, g)')
                        /\ \A i, l \in Job : Makes(i, g)' /\ Makes(l, g)' => i = l
      BY DEF OneHolder
    <3>1. CASE g = h
      BY <2>9, <2>10, <2>11, <3>1
    <3>2. CASE g # h
      BY <1>1, <2>7, <2>11, <3>2 DEF OneHolder
    <3> QED
      BY <3>1, <3>2
  <2> QED
    BY <2>5, <2>12 DEF IInv
<1> QED
  BY <1>3, <1>4 DEF ReadKBD

LEMMA ReadKBDSendIInv == ASSUME IInv, NEW j \in Job, ReadKBDSend(j) PROVE IInv'
<1>1. QueuesOK /\ RqbsOK /\ SvcOK /\ JobsOK /\ mgr \in MgrType /\ ListedOnce /\ OneHolder
  BY DEF IInv, Types
<1>2. UNCHANGED <<freeRQB, rqb, svc, mgr>> /\ job[j].pc = "send" /\ job[j].h \in RQB
  BY <1>1 DEF ReadKBDSend, Request, JobsOK
<1>3. PICK h \in RQB : h = job[j].h
  BY <1>2
<1>4. Makes(j, h) /\ \A k \in Holder : ~Holds(k, h)
  BY <1>1, <1>2, <1>3 DEF Makes, OneHolder
<1>5. \A l \in Job : Makes(l, h) => l = j
  BY <1>1, <1>3, <1>4 DEF OneHolder
<1>6. "main" \in Shelf /\ "main" \in Holder /\ "request" \in Erc
  BY DEF Shelf, Holder, Erc
<1>7. Send("main", h, "request") /\ ~InQueue(queue["main"], h)
  BY <1>3, <1>4, <1>6 DEF ReadKBDSend, Request, Holds
<1>8. /\ QueuesOK' /\ \A x \in Shelf : OnceInQueue(queue'[x])
      /\ \A x \in Shelf : \A g : InQueue(queue'[x], g) => InQueue(queue[x], g) \/ (x = "main" /\ g = h)
  BY <1>1, <1>6, <1>7, SendShelf
<1>9. PICK r : r = [job[j] EXCEPT !.pc = "asked"]
  OBVIOUS
<1>10. DOMAIN r = {"pc", "h", "key"} /\ r.pc = "asked" /\ job' = [job EXCEPT ![j] = r]
  <2>1. DOMAIN job[j] = {"pc", "h", "key"} /\ job' = [job EXCEPT ![j] = [job[j] EXCEPT !.pc = "asked"]]
    BY <1>1 DEF JobsOK, ReadKBDSend
  <2> QED
    BY <1>9, <2>1
<1>11. JobsOK' /\ job'[j] = r /\ MakersKept
  BY <1>1, <1>10, JobSet
<1>12. Types' /\ ListedOnce'
  BY <1>1, <1>2, <1>8, <1>11 DEF Types, RqbsOK, SvcOK, SvcHolds, ListedOnce
<1>13. HoldersKept("main", h)
  BY <1>2, <1>8, HoldersFrom
<1>14. OneHolder'
  <2> SUFFICES ASSUME NEW g \in RQB
               PROVE  /\ \A k, l \in Holder : Holds(k, g)' /\ Holds(l, g)' => k = l
                      /\ \A k \in Holder, i \in Job : ~(Holds(k, g)' /\ Makes(i, g)')
                      /\ \A i, l \in Job : Makes(i, g)' /\ Makes(l, g)' => i = l
    BY DEF OneHolder
  <2>1. \A i \in Job : Makes(i, g)' => Makes(i, g)
    BY <1>11 DEF MakersKept
  <2>2. CASE g = h
    <3>1. \A k \in Holder : Holds(k, h)' => k = "main"
      BY <1>4, <1>13 DEF HoldersKept
    <3>2. ~Makes(j, h)'
      BY <1>10, <1>11 DEF Makes
    <3>3. \A i \in Job : ~Makes(i, h)'
      BY <1>5, <2>1, <2>2, <3>2
    <3> QED
      BY <2>2, <3>1, <3>3
  <2>3. CASE g # h
    <3>1. \A k \in Holder : Holds(k, g)' => Holds(k, g)
      BY <1>13, <2>3 DEF HoldersKept
    <3> QED
      BY <1>1, <2>1, <3>1 DEF OneHolder
  <2> QED
    BY <2>2, <2>3
<1> QED
  BY <1>12, <1>14 DEF IInv

LEMMA JobsIInv == ASSUME IInv, Jobs PROVE IInv'
<1>1. QueuesOK /\ JobsOK /\ mgr \in MgrType
  BY DEF IInv, Types
<1>2. DOMAIN IdleJob = {"pc", "h", "key"} /\ IdleJob.pc = "idle"
  BY DEF IdleJob
<1>3. ASSUME NEW j \in Job, ReadKBDEnd(j) PROVE IInv'
  <2>1. Take(j) /\ job' = [job EXCEPT ![j] = IdleJob] /\ UNCHANGED <<freeRQB, rqb, svc, mgr>>
    BY <1>3 DEF ReadKBDEnd, Take
  <2>2. QueuesOK' /\ ShelvesKept
    BY <1>1, <2>1, TakeOther
  <2>3. JobsOK' /\ MakersKept
    BY <1>1, <1>2, <2>1, JobSet
  <2> QED
    BY <1>1, <2>1, <2>2, <2>3, OffShelf
<1>4. ASSUME NEW j \in Job, LoadJob(j) PROVE IInv'
  <2>1. /\ queue' = [queue EXCEPT ![j] = <<>>] /\ job' = [job EXCEPT ![j] = IdleJob]
        /\ UNCHANGED <<freeRQB, rqb, svc, mgr>>
    BY <1>4 DEF LoadJob, AllocExch
  <2>2. QueuesOK' /\ ShelvesKept
    BY <1>1, <2>1, EmptyOther
  <2>3. JobsOK' /\ MakersKept
    BY <1>1, <1>2, <2>1, JobSet
  <2> QED
    BY <1>1, <2>1, <2>2, <2>3, OffShelf
<1> QED
  BY <1>3, <1>4, ReadKBDIInv, ReadKBDSendIInv DEF Jobs

\* A task takes a block and sends it to the service, or finds none.
LEMMA RequestForIInv ==
    ASSUME IInv, NEW code \in Code, NEW resp \in Job \cup {"mgr", None},
           NEW data \in Job \cup {None}, RequestFor(code, resp, data),
           UNCHANGED <<svc, job>>, mgr' \in MgrType
    PROVE  IInv'
<1>1. QueuesOK /\ RqbsOK /\ SvcOK /\ JobsOK /\ ListedOnce /\ OneHolder
  BY DEF IInv, Types
<1>2. JobsOK' /\ MakersKept
  BY <1>1 DEF JobsOK, MakersKept, Makes
<1>3. CASE UNCHANGED rqVars
  <2>1. QueuesOK' /\ ShelvesKept /\ UNCHANGED <<freeRQB, rqb>>
    BY <1>1, <1>3 DEF QueuesOK, ShelvesKept, rqVars
  <2> QED
    BY <1>2, <2>1, OffShelf
<1>4. CASE TakeRQB(code, resp, None, data) /\ Send("main", Head(freeRQB), "request")
  <2>1. PICK h : h = Head(freeRQB)
    OBVIOUS
  <2>2. /\ RqbsOK' /\ OnceInList(freeRQB') /\ h \in RQB
        /\ InList(freeRQB, h) /\ ~InList(freeRQB', h)
        /\ \A g : InList(freeRQB', g) => InList(freeRQB, g)
    BY <1>1, <1>4, <2>1, TakeFree
  <2>3. "main" \in Shelf /\ "main" \in Holder /\ "free" \in Holder /\ "request" \in Erc
    BY DEF Shelf, Holder, Erc
  <2>4. Holds("free", h) /\ ~Holds("free", h)'
    BY <2>2 DEF Holds, Shelf
  <2>5. ~InQueue(queue["main"], h)
    BY <1>1, <2>2, <2>3, <2>4 DEF OneHolder, Holds
  <2>6. /\ QueuesOK' /\ \A x \in Shelf : OnceInQueue(queue'[x])
        /\ \A x \in Shelf : \A g : InQueue(queue'[x], g) => InQueue(queue[x], g) \/ (x = "main" /\ g = h)
    BY <1>1, <1>4, <2>1, <2>2, <2>3, <2>5, SendShelf
  <2>7. Types' /\ ListedOnce'
    BY <1>1, <1>2, <2>2, <2>6 DEF Types, SvcOK, SvcHolds, ListedOnce
  <2>8. HoldersKept("main", h)
    BY <2>2, <2>6, HoldersFrom
  <2> QED
    BY <1>1, <1>2, <2>2, <2>3, <2>4, <2>7, <2>8, OneMoves DEF IInv
<1> QED
  BY <1>3, <1>4 DEF RequestFor

LEMMA TasksIInv == ASSUME IInv, Tasks PROVE IInv'
<1>1. QueuesOK /\ JobsOK /\ mgr \in MgrType /\ RqbsOK /\ DOMAIN job = Job
  BY DEF IInv, Types, JobsOK
<1>2. mgr.on \in Job \cup {None} /\ mgr.h \in RQB \cup {None}
  BY <1>1 DEF MgrType
<1>3. ASSUME UNCHANGED job PROVE JobsOK' /\ MakersKept
  BY <1>1, <1>3 DEF JobsOK, MakersKept, Makes
<1>4. \A pc \in MgrPc : IdleTask(pc) \in MgrType
  BY DEF IdleTask, MgrType
<1>5. {"idle", "awake", "global", "assigning", "freed", "killing", "aborting"} = MgrPc
  BY DEF MgrPc
<1>6. CASE AskGlobal
  <2>1. RequestFor("global", "mgr", None) /\ mgr' = IdleTask("global") /\ UNCHANGED <<svc, job>>
    BY <1>6 DEF AskGlobal
  <2>2. mgr' \in MgrType /\ "global" \in Code
    BY <1>4, <1>5, <2>1 DEF Code
  <2> QED
    BY <2>1, <2>2, RequestForIInv
<1>7. ASSUME NEW j \in Job, MngrAssign(j) PROVE IInv'
  <2>1. RequestFor("assign", "mgr", j) /\ mgr' = IdleTask("assigning") /\ UNCHANGED <<svc, job>>
    BY <1>7 DEF MngrAssign
  <2>2. mgr' \in MgrType /\ "assign" \in Code
    BY <1>4, <1>5, <2>1 DEF Code
  <2> QED
    BY <2>1, <2>2, RequestForIInv
<1>8. CASE MngrWoken
  <2>1. /\ Take("mgr") /\ UNCHANGED <<freeRQB, rqb, svc, job>>
        /\ mgr' = IdleTask("awake") \/ mgr' = IdleTask("idle")
    BY <1>8 DEF MngrWoken, Take
  <2>2. mgr' \in MgrType
    BY <1>4, <1>5, <2>1
  <2>3. QueuesOK' /\ ShelvesKept
    BY <1>1, <2>1, TakeOther
  <2> QED
    BY <1>3, <2>1, <2>2, <2>3, OffShelf
<1>9. ASSUME NEW j \in Job, KillJob(j) PROVE IInv'
  <2>1. /\ queue' = [queue EXCEPT ![j] = <<>>] /\ UNCHANGED <<freeRQB, rqb, svc>>
        /\ mgr' = [IdleTask("freed") EXCEPT !.on = j]
        /\ job' = [job EXCEPT ![j].pc = IF @ = "idle" THEN "dying" ELSE "asker"]
    BY <1>9 DEF KillJob, DeAllocExch
  <2>2. PICK pc \in {"dying", "asker"} : job' = [job EXCEPT ![j].pc = pc]
    BY <1>1, <2>1
  <2>3. PICK r : r = [job[j] EXCEPT !.pc = pc]
    OBVIOUS
  <2>4. DOMAIN r = {"pc", "h", "key"} /\ r.pc = pc
    BY <1>1, <2>3 DEF JobsOK
  <2>5. job' = [job EXCEPT ![j] = r]
    BY <2>2, <2>3
  <2>6. JobsOK' /\ MakersKept
    BY <1>1, <2>4, <2>5, JobSet
  <2>7. mgr' \in MgrType
    BY <1>5, <2>1 DEF MgrType, IdleTask
  <2>8. QueuesOK' /\ ShelvesKept
    BY <1>1, <2>1, EmptyOther
  <2> QED
    BY <2>1, <2>6, <2>7, <2>8, OffShelf
<1>10. CASE KillExch
  <2>1. /\ queue' = [queue EXCEPT ![mgr.on] = <<>>] /\ UNCHANGED <<freeRQB, rqb, svc, job>>
        /\ mgr' = [mgr EXCEPT !.pc = "killing"]
    BY <1>10 DEF KillExch, AllocExch
  <2>2. mgr' \in MgrType
    BY <1>1, <1>5, <2>1 DEF MgrType
  <2>3. QueuesOK' /\ ShelvesKept
    BY <1>1, <1>2, <2>1, EmptyOther
  <2> QED
    BY <1>3, <2>1, <2>2, <2>3, OffShelf
<1>11. CASE SendAbort
  <2>1. RequestFor("abort", mgr.on, mgr.on) /\ UNCHANGED <<svc, job>>
    BY <1>11 DEF SendAbort
  <2>2. PICK h \in RQB \cup {None} : mgr' = [mgr EXCEPT !.pc = "aborting", !.h = h]
    <3>1. freeRQB # <<>> => Head(freeRQB) \in RQB
      BY <1>1, ListTail DEF RqbsOK
    <3> QED
      BY <1>11, <3>1 DEF SendAbort
  <2>3. mgr' \in MgrType /\ "abort" \in Code
    BY <1>1, <1>5, <2>2 DEF MgrType, Code
  <2> QED
    BY <1>2, <2>1, <2>3, RequestForIInv
<1>12. CASE SendAbortEnd
  <2>1. UNCHANGED <<freeRQB, rqb, svc>>
    BY <1>12 DEF SendAbortEnd, DeAllocExch, Take
  <2>2. CASE DeAllocExch(mgr.on) /\ mgr' = IdleTask("idle")
                /\ job' = [job EXCEPT ![mgr.on] = [IdleJob EXCEPT !.pc = "gone"]]
    <3>1. queue' = [queue EXCEPT ![mgr.on] = <<>>] /\ mgr' \in MgrType
      BY <1>4, <1>5, <2>2 DEF DeAllocExch
    <3>2. QueuesOK' /\ ShelvesKept
      BY <1>1, <1>2, <3>1, EmptyOther
    <3>3. CASE mgr.on \in Job
      <4>1. PICK r : r = [IdleJob EXCEPT !.pc = "gone"]
        OBVIOUS
      <4>2. DOMAIN r = {"pc", "h", "key"} /\ r.pc = "gone" /\ job' = [job EXCEPT ![mgr.on] = r]
        BY <2>2, <4>1 DEF IdleJob
      <4>3. JobsOK' /\ MakersKept
        BY <1>1, <3>3, <4>2, JobSet
      <4> QED
        BY <2>1, <3>1, <3>2, <4>3, OffShelf
    <3>4. CASE mgr.on \notin Job
      <4>1. DOMAIN job' = Job /\ \A l \in Job : job'[l] = job[l]
        BY <1>1, <2>2, <3>4
      <4>2. JobsOK' /\ MakersKept
        BY <1>1, <4>1 DEF JobsOK, MakersKept, Makes
      <4> QED
        BY <2>1, <3>1, <3>2, <4>2, OffShelf
    <3> QED
      BY <3>3, <3>4
  <2>3. CASE Take(mgr.on) /\ UNCHANGED <<job, mgr>>
    <3>1. QueuesOK' /\ ShelvesKept
      BY <1>1, <1>2, <2>3, TakeOther
    <3> QED
      BY <1>1, <1>3, <2>1, <2>3, <3>1, OffShelf
  <2> QED
    BY <1>12, <2>2, <2>3 DEF SendAbortEnd
<1> QED
  BY <1>6, <1>7, <1>8, <1>9, <1>10, <1>11, <1>12 DEF Tasks

LEMMA NextIInv == ASSUME IInv, [Next]_vars PROVE IInv'
<1>1. CASE Next
  BY <1>1, IntKeyBrdIInv, ServiceIInv, JobsIInv, TasksIInv DEF Next
<1>2. CASE UNCHANGED vars
  <2>1. UNCHANGED <<queue, freeRQB, rqb, svc, job, mgr>>
    BY <1>2 DEF vars, rqVars
  <2>2. Types' /\ ListedOnce' /\ MakersKept
    BY <2>1 DEF IInv, Types, QueuesOK, RqbsOK, SvcOK, SvcHolds, JobsOK, ListedOnce, MakersKept, Makes
  <2>3. HoldersKept("none", None)
    BY <2>1, HoldersFrom
  <2> QED
    BY <2>2, <2>3, NoneMoves DEF IInv
<1> QED
  BY <1>1, <1>2

\* A request block is with one holder, in a list once, and what the lists, the
\* queues and the variables of the service hold is of its type (Request,
\* MoveRequest, Respond, KBDServiceTask).
THEOREM Invariant == Spec => []IInv
BY InitIInv, NextIInv, PTL DEF Spec

-----------------------------------------------------------------------------
(* What it says of the list of all the handles. *)

\* h is at one place of it at most.
OneInList(s, h)  == \A i, k \in DOMAIN s : s[i] = h /\ s[k] = h => i = k
OneInQueue(s, h) == \A i, k \in DOMAIN s : s[i].h = h /\ s[k].h = h => i = k

LEMMA ListConcat ==
    ASSUME NEW S, NEW s \in Seq(S), NEW t \in Seq(S), NEW h
    PROVE  /\ s \o t \in Seq(S)
           /\ InList(s \o t, h) => InList(s, h) \/ InList(t, h)
           /\ OneInList(s, h) /\ OneInList(t, h) /\ ~(InList(s, h) /\ InList(t, h))
                => OneInList(s \o t, h)
<1> DEFINE u == s \o t
<1>1. /\ u \in Seq(S) /\ Len(s) \in Nat /\ Len(t) \in Nat
      /\ DOMAIN u = 1 .. Len(s) + Len(t) /\ DOMAIN s = 1 .. Len(s) /\ DOMAIN t = 1 .. Len(t)
      /\ \A i \in 1 .. Len(s) : u[i] = s[i]
      /\ \A i \in Len(s) + 1 .. Len(s) + Len(t) : u[i] = t[i - Len(s)]
  OBVIOUS
<1> HIDE DEF u
<1>2. ASSUME NEW i \in DOMAIN u
      PROVE  \/ i \in DOMAIN s /\ u[i] = s[i]
             \/ i - Len(s) \in DOMAIN t /\ u[i] = t[i - Len(s)]
  BY <1>1
<1>3. InList(u, h) => InList(s, h) \/ InList(t, h)
  BY <1>2 DEF InList
<1>4. ASSUME OneInList(s, h), OneInList(t, h), ~(InList(s, h) /\ InList(t, h))
      PROVE  OneInList(u, h)
  <2> SUFFICES ASSUME NEW i \in DOMAIN u, NEW k \in DOMAIN u, u[i] = h, u[k] = h
               PROVE  i = k
    BY DEF OneInList
  <2>1. CASE i \in DOMAIN s /\ u[i] = s[i]
    <3>1. k \in DOMAIN s /\ u[k] = s[k]
      BY <1>2, <1>4, <2>1 DEF InList
    <3> QED
      BY <1>4, <2>1, <3>1 DEF OneInList
  <2>2. CASE i - Len(s) \in DOMAIN t /\ u[i] = t[i - Len(s)]
    <3>1. k - Len(s) \in DOMAIN t /\ u[k] = t[k - Len(s)]
      BY <1>2, <1>4, <2>2 DEF InList
    <3>2. i - Len(s) = k - Len(s)
      BY <1>4, <2>2, <3>1 DEF OneInList
    <3> QED
      BY <1>1, <3>2
  <2> QED
    BY <1>2, <2>1, <2>2
<1> QED
  BY <1>1, <1>3, <1>4 DEF u

LEMMA QueueConcat ==
    ASSUME NEW S, NEW s \in Seq(S), NEW t \in Seq(S), NEW h
    PROVE  /\ s \o t \in Seq(S)
           /\ InQueue(s \o t, h) => InQueue(s, h) \/ InQueue(t, h)
           /\ OneInQueue(s, h) /\ OneInQueue(t, h) /\ ~(InQueue(s, h) /\ InQueue(t, h))
                => OneInQueue(s \o t, h)
<1> DEFINE u == s \o t
<1>1. /\ u \in Seq(S) /\ Len(s) \in Nat /\ Len(t) \in Nat
      /\ DOMAIN u = 1 .. Len(s) + Len(t) /\ DOMAIN s = 1 .. Len(s) /\ DOMAIN t = 1 .. Len(t)
      /\ \A i \in 1 .. Len(s) : u[i] = s[i]
      /\ \A i \in Len(s) + 1 .. Len(s) + Len(t) : u[i] = t[i - Len(s)]
  OBVIOUS
<1> HIDE DEF u
<1>2. ASSUME NEW i \in DOMAIN u
      PROVE  \/ i \in DOMAIN s /\ u[i] = s[i]
             \/ i - Len(s) \in DOMAIN t /\ u[i] = t[i - Len(s)]
  BY <1>1
<1>3. InQueue(u, h) => InQueue(s, h) \/ InQueue(t, h)
  BY <1>2 DEF InQueue
<1>4. ASSUME OneInQueue(s, h), OneInQueue(t, h), ~(InQueue(s, h) /\ InQueue(t, h))
      PROVE  OneInQueue(u, h)
  <2> SUFFICES ASSUME NEW i \in DOMAIN u, NEW k \in DOMAIN u, u[i].h = h, u[k].h = h
               PROVE  i = k
    BY DEF OneInQueue
  <2>1. CASE i \in DOMAIN s /\ u[i] = s[i]
    <3>1. k \in DOMAIN s /\ u[k] = s[k]
      BY <1>2, <1>4, <2>1 DEF InQueue
    <3> QED
      BY <1>4, <2>1, <3>1 DEF OneInQueue
  <2>2. CASE i - Len(s) \in DOMAIN t /\ u[i] = t[i - Len(s)]
    <3>1. k - Len(s) \in DOMAIN t /\ u[k] = t[k - Len(s)]
      BY <1>2, <1>4, <2>2 DEF InQueue
    <3>2. i - Len(s) = k - Len(s)
      BY <1>4, <2>2, <3>1 DEF OneInQueue
    <3> QED
      BY <1>1, <3>2
  <2> QED
    BY <1>2, <2>1, <2>2
<1> QED
  BY <1>1, <1>3, <1>4 DEF u

\* A set with one element at most.
LEMMA AtMostOne ==
    ASSUME NEW S, \A x, y \in S : x = y
    PROVE  Cardinality(S) \in {0, 1} /\ (S = {} => Cardinality(S) = 0)
<1>1. CASE S = {}
  BY <1>1, FS_EmptySet
<1>2. CASE S # {}
  <2>1. PICK x \in S : TRUE
    BY <1>2
  <2>2. S = {x}
    BY <2>1
  <2> QED
    BY <1>2, <2>2, FS_Singleton
<1> QED
  BY <1>1, <1>2

LEMMA OncePlaced == IInv => RqbsOnce
<1> SUFFICES ASSUME IInv, NEW h \in RQB
             PROVE  Cardinality({i \in DOMAIN Handles : Handles[i] = h})
                        + Cardinality({j \in Job : job[j].pc = "send" /\ job[j].h = h}) <= 1
  BY DEF RqbsOnce
<1>1. QueuesOK /\ RqbsOK /\ SvcOK /\ OneHolder /\ ListedOnce
  BY DEF IInv, Types
<1> DEFINE V == RQB \cup {ISR, None}
           q == [i \in DOMAIN Queued |-> Queued[i].h]
           r == <<svc.rq, svc.rq2>>
           mw == queue["main"] \o queue["wait"]
           mh == mw \o queue["hold"]
           P == {i \in DOMAIN Handles : Handles[i] = h}
           M == {j \in Job : job[j].pc = "send" /\ job[j].h = h}
<1>2. \A e \in Shelf : queue[e] \in Seq(Msg) /\ OneInQueue(queue[e], h)
  <2> SUFFICES ASSUME NEW e \in Shelf PROVE queue[e] \in Seq(Msg) /\ OneInQueue(queue[e], h)
    OBVIOUS
  <2>1. queue[e] \in Seq(MsgAt(e)) /\ MsgAt(e) \subseteq Msg
    BY <1>1, Names DEF QueuesOK
  <2>2. queue[e] \in Seq(Msg)
    BY <2>1
  <2>3. OneInQueue(queue[e], h)
    BY <1>1, Names DEF ListedOnce, OnceInQueue, OneInQueue
  <2> QED
    BY <2>2, <2>3
<1>3. /\ "main" \in Shelf /\ "wait" \in Shelf /\ "hold" \in Shelf /\ "glob" \in Shelf
      /\ {"main", "wait", "hold", "glob", "free", "rq", "rq2"} = Holder
  BY DEF Shelf, Holder
<1>4. \A e \in Shelf : InQueue(queue[e], h) <=> Holds(e, h)
  BY DEF Holds, Shelf
<1>5. \A k, l \in Holder : Holds(k, h) /\ Holds(l, h) => k = l
  BY <1>1 DEF OneHolder
<1>6. ~(InQueue(queue["main"], h) /\ InQueue(queue["wait"], h))
  BY <1>3, <1>4, <1>5
<1>7. /\ mw \in Seq(Msg) /\ OneInQueue(mw, h)
      /\ InQueue(mw, h) => InQueue(queue["main"], h) \/ InQueue(queue["wait"], h)
  BY <1>2, <1>3, <1>6, QueueConcat
<1> HIDE DEF mw
<1>8. ~(InQueue(mw, h) /\ InQueue(queue["hold"], h))
  BY <1>3, <1>4, <1>5, <1>7
<1>9. /\ mh \in Seq(Msg) /\ OneInQueue(mh, h)
      /\ InQueue(mh, h) => InQueue(mw, h) \/ InQueue(queue["hold"], h)
  BY <1>2, <1>3, <1>7, <1>8, QueueConcat
<1> HIDE DEF mh
<1>10. ~(InQueue(mh, h) /\ InQueue(queue["glob"], h))
  BY <1>3, <1>4, <1>5, <1>7, <1>9
<1>11. Queued = mh \o queue["glob"]
  BY DEF Queued, mh, mw
<1>12. /\ Queued \in Seq(Msg) /\ OneInQueue(Queued, h)
       /\ InQueue(Queued, h) => InQueue(mh, h) \/ InQueue(queue["glob"], h)
  BY <1>2, <1>3, <1>9, <1>10, <1>11, QueueConcat
<1>13. q \in Seq(V) /\ OneInList(q, h) /\ (InList(q, h) <=> InQueue(Queued, h))
  <2>1. Len(Queued) \in Nat /\ DOMAIN Queued = 1 .. Len(Queued)
    BY <1>12
  <2>2. \A i \in 1 .. Len(Queued) : Queued[i].h \in V
    <3>1. \A m \in Msg : m.h \in V
      BY DEF Msg
    <3>2. \A i \in 1 .. Len(Queued) : Queued[i] \in Msg
      BY <1>12, <2>1
    <3> HIDE DEF V
    <3> QED
      BY <3>1, <3>2
  <2>3. q \in Seq(V)
    BY <2>1, <2>2
  <2> QED
    BY <1>12, <2>3 DEF OneInList, OneInQueue, InList, InQueue
<1>14. InList(q, h) => \E e \in Shelf : Holds(e, h)
  BY <1>3, <1>4, <1>7, <1>9, <1>12, <1>13
<1> HIDE DEF q
<1>15. freeRQB \in Seq(V) /\ OneInList(freeRQB, h) /\ (InList(freeRQB, h) <=> Holds("free", h))
  <2>1. freeRQB \in Seq(V)
    BY <1>1 DEF RqbsOK
  <2> QED
    BY <1>1, <2>1 DEF ListedOnce, OnceInList, OneInList, Holds, Shelf
<1>16. r \in Seq(V) /\ OneInList(r, h) /\ (InList(r, h) => Holds("rq", h) \/ Holds("rq2", h))
  <2>1. svc.rq \in V /\ svc.rq2 \in V
    BY <1>1 DEF SvcOK, SvcType
  <2>2. r \in Seq(V) /\ DOMAIN r = 1 .. 2 /\ r[1] = svc.rq /\ r[2] = svc.rq2
    BY <2>1
  <2>3. ~(svc.rq = h /\ svc.rq2 = h)
    BY <1>3, <1>5 DEF Holds
  <2>4. \A i \in 1 .. 2 : i = 1 \/ i = 2
    OBVIOUS
  <2> QED
    BY <2>2, <2>3, <2>4 DEF OneInList, InList, Holds
<1> HIDE DEF r
<1> DEFINE fq == freeRQB \o q
<1>17. ~(InList(freeRQB, h) /\ InList(q, h))
  BY <1>3, <1>5, <1>14, <1>15 DEF Shelf
<1>18. fq \in Seq(V) /\ OneInList(fq, h) /\ (InList(fq, h) => InList(freeRQB, h) \/ InList(q, h))
  BY <1>13, <1>15, <1>17, ListConcat
<1> HIDE DEF fq
<1>19. ~(InList(fq, h) /\ InList(r, h))
  BY <1>3, <1>5, <1>14, <1>15, <1>16, <1>18 DEF Shelf
<1>20. Handles = fq \o r
  BY DEF Handles, fq, q, r
<1>21. OneInList(Handles, h) /\ (InList(Handles, h) => InList(fq, h) \/ InList(r, h))
  BY <1>16, <1>18, <1>19, <1>20, ListConcat
<1>22. InList(Handles, h) => \E k \in Holder : Holds(k, h)
  BY <1>3, <1>14, <1>15, <1>16, <1>18, <1>21 DEF Shelf
<1>23. \A x, y \in P : x = y
  BY <1>21 DEF OneInList
<1>24. \A x, y \in M : x = y
  BY <1>1 DEF OneHolder, Makes
<1>25. P = {} \/ M = {}
  BY <1>1, <1>22 DEF InList, OneHolder, Makes
<1>26. Cardinality(P) \in {0, 1} /\ (P = {} => Cardinality(P) = 0)
  BY <1>23, AtMostOne
<1>27. Cardinality(M) \in {0, 1} /\ (M = {} => Cardinality(M) = 0)
  BY <1>24, AtMostOne
<1> QED
  BY <1>25, <1>26, <1>27

\* A request block is in one place at a time, however the service moves it and
\* jobs die (Request, MoveRequest, Respond, KBDServiceTask, SendAbort).
THEOREM BlocksOnce == Spec => []RqbsOnce
BY Invariant, OncePlaced, PTL

-----------------------------------------------------------------------------
(* Whose requests the service has, until a SendAbort is fooled.             *)

\* The service has the block h: it is queued, or in its hands.
Hand    == Shelf \cup {"rq", "rq2"}
Held(h) == \E k \in Hand : Holds(k, h)

\* The requests that are to be answered at the exchange x: of a job, or of the
\* manager task.
Asks(x) == {h \in RQB : Held(h) /\ rqb[h].ServiceCode # "abort" /\ rqb[h].RespExch = x}

Asker == Job \cup {"mgr"}

KillPc == {"freed", "killing", "aborting"}
DeadPc == {"asker", "dying"}

\* What the blocks say.
Kinds ==
    \A h \in RQB : Held(h) =>
        \/ /\ rqb[h].ServiceCode \in {"read", "poll"}
           /\ rqb[h].RqOwnerJob \in Job /\ rqb[h].RespExch = rqb[h].RqOwnerJob
        \/ /\ rqb[h].ServiceCode \in {"global", "assign"}
           /\ rqb[h].RqOwnerJob = None /\ rqb[h].RespExch = "mgr"
        \/ /\ rqb[h].ServiceCode = "abort" /\ mgr.pc = "aborting"
           /\ rqb[h].RqOwnerJob = None /\ rqb[h].RespExch = mgr.on /\ rqb[h].dData0 = mgr.on

\* What a job is about to send.
Drafts ==
    \A j \in Job : job[j].pc = "send" =>
        /\ rqb[job[j].h].ServiceCode \in {"read", "poll"}
        /\ rqb[job[j].h].RqOwnerJob = j /\ rqb[job[j].h].RespExch = j

\* An abort is never put away.
Parked ==
    \A h \in RQB, k \in {"wait", "hold", "glob"} :
        InQueue(queue[k], h) => rqb[h].ServiceCode # "abort"

\* What the service works on.
Serves ==
    /\ svc.pc \in {"assign", "abort"} => rqb[svc.rq].ServiceCode = svc.pc
    /\ svc.pc = "sifted" => rqb[svc.rq].ServiceCode = svc.then /\ rqb[svc.rq2].ServiceCode # "abort"
    /\ svc.pc = "alias" => Aliased(svc.rq)
    /\ svc.pc = "dealias" => Aliased(svc.rq2)

\* Each asks once at a time.
Single == \A x \in Asker : \A h, g \in Asks(x) : h = g

Resting(x) == IF x = "mgr" THEN mgr.pc \notin {"global", "assigning"} ELSE job[x].pc \in {"idle", "send"}
Expects(x) == IF x = "mgr" THEN mgr.pc \in {"global", "assigning"} ELSE job[x].pc = "asked"

\* It gets one answer to each request.
Answered ==
    \A x \in Asker :
        /\ Resting(x) => Asks(x) = {} /\ queue[x] = <<>>
        /\ Expects(x) => (Asks(x) = {} \/ queue[x] = <<>>) /\ Len(queue[x]) <= 1

\* The manager kills one job.
Killed ==
    /\ \A j \in Job : job[j].pc \in {"idle", "send", "asked", "asker", "dying", "gone"}
    /\ mgr.pc \in KillPc => mgr.on \in Job \ {Monitor} /\ job[mgr.on].pc \in DeadPc
    /\ \A j \in Job : job[j].pc \in DeadPc => mgr.pc \in KillPc /\ mgr.on = j
    /\ job[Monitor].pc # "gone"

\* Its request is answered or removed before the answer to the abort is sent.
Removed ==
    /\ \A j \in Job : job[j].pc = "gone" => Asks(j) = {}
    /\ mgr.pc \in {"killing", "aborting"} /\ queue[mgr.on] # <<>> => Asks(mgr.on) = {}
    /\ svc.rq2 \in RQB /\ rqb[svc.rq2].ServiceCode = "abort" => Asks(mgr.on) = {}

\* No request of the job that dies waits behind its abort, where the service would
\* put it away again.
IsAbort(h) == h \in RQB /\ rqb[h].ServiceCode = "abort"
OfDead(h)  == h \in RQB /\ rqb[h].RqOwnerJob = mgr.on

Ahead ==
    /\ \A i, k \in DOMAIN queue["main"] :
        IsAbort(queue["main"][i].h) /\ OfDead(queue["main"][k].h) => k < i
    /\ IsAbort(svc.rq) \/ IsAbort(svc.rq2) =>
        \A k \in DOMAIN queue["main"] : ~OfDead(queue["main"][k].h)

KInv == Kinds /\ Drafts /\ Parked /\ Serves /\ Single /\ Answered /\ Killed /\ Removed

-----------------------------------------------------------------------------
(* A step of the service, and of the ISR. *)

HeldOnly   == \A h \in RQB : Held(h)' => Held(h)
BlocksKept == \A h \in RQB : Held(h)' => rqb'[h] = rqb[h]
DraftsKept == \A j \in Job : job[j].pc = "send" => rqb'[job[j].h] = rqb[job[j].h]
AsksFewer  == \A x \in Asker : \A h \in RQB : h \in Asks(x)' => h \in Asks(x)

\* Those who ask get the answer for which they wait, or nothing.
AnswersSent ==
    \A x \in Asker :
        \/ queue'[x] = queue[x]
        \/ Asks(x)' = {} /\ ~Resting(x) /\ (Expects(x) => Len(queue'[x]) <= 1)

\* When the abort is to be answered, the job that is being killed has no request.
AbortLast ==
    svc.rq2 \in RQB /\ rqb[svc.rq2].ServiceCode = "abort" => Asks(mgr.on) = {}

LEMMA HeldFrom ==
    ASSUME \A e \in Shelf : \A h \in RQB : InQueue(queue'[e], h) => Held(h),
           svc'.rq \in RQB => Held(svc'.rq), svc'.rq2 \in RQB => Held(svc'.rq2)
    PROVE  HeldOnly
BY DEF HeldOnly, Held, Hand, Holds, Shelf

LEMMA HeldThere ==
    /\ \A e \in Shelf : \A h : InQueue(queue[e], h) => Held(h)
    /\ Held(svc.rq) /\ Held(svc.rq2)
BY DEF Held, Hand, Holds, Shelf

LEMMA FewerAsks == ASSUME HeldOnly, BlocksKept PROVE AsksFewer
BY DEF HeldOnly, BlocksKept, AsksFewer, Asks

LEMMA ServiceKeeps ==
    ASSUME KInv, HeldOnly, BlocksKept, DraftsKept, UNCHANGED mgr, JobsStay,
           AnswersSent, Parked', Serves', AbortLast'
    PROVE  KInv'
<1>1. AsksFewer
  BY FewerAsks
<1>2. Kinds'
  BY DEF KInv, Kinds, HeldOnly, BlocksKept
<1>3. Drafts'
  BY DEF KInv, Drafts, DraftsKept, JobsStay
<1>4. Single'
  BY <1>1 DEF KInv, Single, AsksFewer, Asks
<1>5. \A x \in Asker : (Resting(x)' <=> Resting(x)) /\ (Expects(x)' <=> Expects(x))
  BY DEF Resting, Expects, JobsStay, Asker
<1>6. \A x \in Asker : Asks(x) = {} => Asks(x)' = {}
  BY <1>1 DEF AsksFewer, Asks
<1>7. Answered'
  <2> SUFFICES ASSUME NEW x \in Asker
               PROVE  /\ Resting(x)' => Asks(x)' = {} /\ queue'[x] = <<>>
                      /\ Expects(x)' => (Asks(x)' = {} \/ queue'[x] = <<>>) /\ Len(queue'[x]) <= 1
    BY DEF Answered
  <2>1. /\ Resting(x) => Asks(x) = {} /\ queue[x] = <<>>
        /\ Expects(x) => (Asks(x) = {} \/ queue[x] = <<>>) /\ Len(queue[x]) <= 1
    BY DEF KInv, Answered
  <2> QED
    BY <1>5, <1>6, <2>1 DEF AnswersSent
<1>8. Killed'
  BY KeyboardAssumption DEF KInv, Killed, JobsStay, KillPc, DeadPc
<1>9. Removed'
  <2>1. ASSUME NEW j \in Job, job'[j].pc = "gone" PROVE Asks(j)' = {}
    BY <1>6, <2>1 DEF KInv, Removed, JobsStay, Asker
  <2>2. ASSUME mgr.pc \in {"killing", "aborting"}, queue'[mgr.on] # <<>>
        PROVE  Asks(mgr.on)' = {}
    <3>1. mgr.on \in Asker
      BY <2>2 DEF KInv, Killed, KillPc, Asker
    <3>2. PICK x \in Asker : x = mgr.on
      BY <3>1
    <3>3. Asks(x)' = {}
      BY <1>6, <2>2, <3>2 DEF KInv, Removed, AnswersSent
    <3> QED
      BY <3>2, <3>3
  <2> QED
    BY <2>1, <2>2 DEF Removed, AbortLast
<1> QED
  BY <1>2, <1>3, <1>4, <1>7, <1>8, <1>9 DEF KInv

\* The service takes no message and sends none.
LEMMA StillKeeps ==
    ASSUME IInv, KInv, UNCHANGED <<queue, rqb, mgr>>, JobsStay,
           svc'.rq \in RQB => svc'.rq = svc.rq,
           svc'.rq2 \in RQB => svc'.rq2 \in {svc.rq, svc.rq2},
           Serves', AbortLast'
    PROVE  KInv'
<1>1. HeldOnly
  BY HeldFrom, HeldThere
<1>2. BlocksKept /\ DraftsKept /\ AnswersSent
  BY DEF BlocksKept, DraftsKept, AnswersSent
<1>3. Parked'
  BY DEF KInv, Parked
<1> QED
  BY <1>1, <1>2, <1>3, ServiceKeeps

\* The service takes a message.
LEMMA TakeKeeps ==
    ASSUME IInv, KInv, NEW e \in Shelf, Take(e), NEW m, m = Head(queue[e]), UNCHANGED <<job, mgr>>,
           svc'.rq \in RQB => svc'.rq \in {svc.rq, m.h},
           svc'.rq2 \in RQB => svc'.rq2 = m.h /\ e # "main",
           Serves'
    PROVE  KInv' /\ UNCHANGED rqb
<1>1. QueuesOK /\ ListedOnce /\ UNCHANGED rqb
  BY DEF IInv, Types, Take
<1>2. /\ InQueue(queue[e], m.h)
      /\ \A x \in Shelf : \A h : InQueue(queue'[x], h) => InQueue(queue[x], h)
  BY <1>1, TakeShelf
<1>3. \A x \in Asker : queue'[x] = queue[x]
  <2>1. Asker \subseteq Exch \ Shelf /\ DOMAIN queue = Exch /\ queue' = [queue EXCEPT ![e] = Tail(@)]
    BY <1>1, Names DEF Asker, QueuesOK, Take
  <2> QED
    BY <2>1
<1>4. HeldOnly
  BY <1>2, HeldFrom, HeldThere
<1>5. BlocksKept /\ DraftsKept /\ AnswersSent
  BY <1>1, <1>3 DEF BlocksKept, DraftsKept, AnswersSent
<1>6. Parked'
  BY <1>1, <1>2 DEF KInv, Parked, Shelf
<1>7. AbortLast'
  BY <1>1, <1>2 DEF KInv, Parked, AbortLast, Shelf
<1>8. JobsStay
  BY DEF JobsStay
<1> QED
  BY <1>1, <1>4, <1>5, <1>6, <1>7, <1>8, ServiceKeeps

\* The service sends on what it has in its hands.
LEMMA MoveKeeps ==
    ASSUME IInv, KInv, NEW e \in Shelf, NEW h \in RQB, h \in {svc.rq, svc.rq2},
           MoveRequest(h, e), UNCHANGED <<job, mgr>>,
           svc'.rq \in RQB => svc'.rq = svc.rq, svc'.rq2 \notin RQB, Serves',
           rqb[h].ServiceCode # "abort"
    PROVE  KInv'
<1>1. QueuesOK /\ ListedOnce /\ OneHolder /\ UNCHANGED rqb
  BY DEF IInv, Types, MoveRequest
<1>2. ~InQueue(queue[e], h) /\ Held(h)
  BY <1>1, HeldThere DEF OneHolder, Holds, Holder, Shelf
<1>3. Send(e, h, "moved") /\ "moved" \in Erc
  BY DEF MoveRequest, Erc
<1>4. \A x \in Shelf : \A g : InQueue(queue'[x], g) => InQueue(queue[x], g) \/ (x = e /\ g = h)
  BY <1>1, <1>2, <1>3, SendShelf
<1>5. \A x \in Asker : queue'[x] = queue[x]
  <2>1. Asker \subseteq Exch \ Shelf /\ DOMAIN queue = Exch
    BY <1>1, Names DEF Asker, QueuesOK
  <2> QED
    BY <1>3, <2>1 DEF Send
<1>6. HeldOnly
  BY <1>2, <1>4, HeldFrom, HeldThere
<1>7. BlocksKept /\ DraftsKept /\ AnswersSent
  BY <1>1, <1>5 DEF BlocksKept, DraftsKept, AnswersSent
<1>8. Parked'
  BY <1>1, <1>4 DEF KInv, Parked, Shelf
<1>9. AbortLast' /\ JobsStay
  BY DEF AbortLast, JobsStay
<1> QED
  BY <1>1, <1>6, <1>7, <1>8, <1>9, ServiceKeeps

\* The service gives a block back.
LEMMA DisposeKeeps ==
    ASSUME IInv, KInv, NEW h \in RQB, h = svc.rq2, DisposeRQB(h), ShelvesKept,
           UNCHANGED <<job, mgr>>,
           svc'.rq \in RQB => svc'.rq = svc.rq, svc'.rq2 \notin RQB,
           AnswersSent, Serves'
    PROVE  KInv'
<1>1. OneHolder /\ RqbsOK /\ JobsOK
  BY DEF IInv, Types
<1>2. Holds("rq2", h) /\ "rq2" \in Holder /\ Hand \subseteq Holder
  BY DEF Holds, Holder, Hand
<1>3. \A g \in RQB : Held(g)' => Held(g) /\ g # h
  <2> SUFFICES ASSUME NEW g \in RQB, Held(g)' PROVE Held(g) /\ g # h
    OBVIOUS
  <2>1. PICK k \in Hand : Holds(k, g)' /\ k # "rq2"
    BY DEF Held, Hand, Holds, Shelf
  <2>2. Holds(k, g)
    BY <2>1 DEF Holds, Hand, ShelvesKept, Shelf
  <2> QED
    BY <1>1, <1>2, <2>1, <2>2 DEF OneHolder, Held
<1>4. rqb' = [rqb EXCEPT ![h] = NoRq] /\ DOMAIN rqb = RQB
  BY <1>1 DEF DisposeRQB, RqbsOK
<1>5. HeldOnly /\ BlocksKept
  BY <1>3, <1>4 DEF HeldOnly, BlocksKept
<1>6. DraftsKept
  <2>1. \A j \in Job : job[j].pc = "send" => job[j].h \in RQB /\ job[j].h # h
    BY <1>1, <1>2 DEF JobsOK, OneHolder, Makes
  <2> QED
    BY <1>4, <2>1 DEF DraftsKept
<1>7. AbortLast' /\ JobsStay
  BY DEF AbortLast, JobsStay
<1>8. Parked'
  <2>1. \A k \in {"wait", "hold", "glob"}, g \in RQB : InQueue(queue'[k], g) => Held(g)' /\ InQueue(queue[k], g)
    BY DEF ShelvesKept, Shelf, Held, Hand, Holds
  <2> QED
    BY <1>5, <2>1 DEF KInv, Parked, BlocksKept
<1> QED
  BY <1>5, <1>6, <1>7, <1>8, ServiceKeeps

\* The service has nothing on which it works.
LEMMA RestServes ==
    ASSUME svc'.pc \notin {"assign", "abort", "sifted", "alias", "dealias"}
    PROVE  Serves'
BY DEF Serves

\* What Kinds says of a request of a job.
LEMMA JobRq ==
    ASSUME KInv, NEW h \in RQB, Held(h), Aliased(h) \/ rqb[h].ServiceCode \in {"read", "poll"}
    PROVE  rqb[h].RqOwnerJob \in Job /\ h \in Asks(rqb[h].RqOwnerJob)
BY DEF KInv, Kinds, Asks, Aliased

\* Who has a request with the service waits.
LEMMA AskerWaits ==
    ASSUME KInv, NEW x \in Asker, Asks(x) # {}
    PROVE  ~Resting(x) /\ (Expects(x) => queue[x] = <<>>)
BY DEF KInv, Answered

\* When the service has an abort, the manager waits for it.
LEMMA AbortHeld ==
    ASSUME KInv, NEW h \in RQB, Held(h), rqb[h].ServiceCode = "abort"
    PROVE  /\ mgr.pc = "aborting" /\ mgr.on \in Job \ {Monitor} /\ job[mgr.on].pc \in DeadPc
           /\ rqb[h].RespExch = mgr.on /\ rqb[h].dData0 = mgr.on
BY DEF KInv, Kinds, Killed, KillPc

LEMMA GlobalKInv == ASSUME IInv, KInv, Global1 PROVE KInv'
<1>1. UNCHANGED <<job, mgr>> /\ JobsStay
  BY DEF Global1, JobsStay
<1>2. CASE Take("glob") /\ Answer(Head(queue["glob"]).h, "ok", "glob")
  <2>1. PICK m : m = Head(queue["glob"])
    OBVIOUS
  <2>2. svc'.rq = None /\ svc'.rq2 = m.h /\ svc'.pc = "resp"
    BY <1>2, <2>1 DEF Answer, Service
  <2>3. Serves' /\ "glob" \in Shelf
    BY <2>2, RestServes DEF Shelf
  <2> QED
    BY <1>1, <1>2, <2>1, <2>2, <2>3, Names, TakeKeeps
<1>3. CASE Goto("top") /\ UNCHANGED rqVars
  <2>1. svc'.rq = None /\ svc'.rq2 = None /\ svc'.pc = "top"
    BY <1>3 DEF Goto, Service
  <2>2. Serves' /\ AbortLast'
    BY <2>1, RestServes, Names DEF AbortLast
  <2> QED
    BY <1>1, <1>3, <2>1, <2>2, Names, StillKeeps DEF rqVars
<1> QED
  BY <1>2, <1>3 DEF Global1

LEMMA WaitMainKInv == ASSUME IInv, KInv, WaitMain PROVE KInv'
<1>1. UNCHANGED <<job, mgr>> /\ Take("main") /\ "main" \in Shelf
  BY DEF WaitMain, Shelf
<1>2. PICK m : m = Head(queue["main"])
  OBVIOUS
<1>3. CASE First.h = ISR
  <2>1. PICK pc \in {"glob", "wait"} : Goto(pc)
    BY <1>3 DEF WaitMain
  <2>2. svc'.rq = None /\ svc'.rq2 = None /\ svc'.pc = pc
    BY <2>1 DEF Goto, Service
  <2>3. Serves'
    BY <2>2, RestServes
  <2> QED
    BY <1>1, <1>2, <2>2, <2>3, Names, TakeKeeps
<1>4. CASE First.h # ISR
  <2>1. PICK pc \in {"alias", "rq"} :
            /\ svc' = [Service(pc) EXCEPT !.rq = m.h]
            /\ pc = "alias" => Aliased(m.h)
    BY <1>2, <1>4 DEF WaitMain, First
  <2>2. svc'.rq = m.h /\ svc'.rq2 = None /\ svc'.pc = pc
    BY <2>1 DEF Service
  <2>3. UNCHANGED rqb
    BY <1>1 DEF Take
  <2>4. Serves'
    BY <2>1, <2>2, <2>3 DEF Serves, Aliased
  <2> QED
    BY <1>1, <1>2, <2>2, <2>4, Names, TakeKeeps
<1> QED
  BY <1>3, <1>4

LEMMA CheckWaitKInv == ASSUME IInv, KInv, CheckWait PROVE KInv'
<1>1. UNCHANGED <<job, mgr>> /\ JobsStay
  BY DEF CheckWait, JobsStay
<1>2. CASE Take("wait") /\ svc' = [Service("rq") EXCEPT !.rq = Head(queue["wait"]).h]
  <2>1. PICK m : m = Head(queue["wait"])
    OBVIOUS
  <2>2. svc'.rq = m.h /\ svc'.rq2 = None /\ svc'.pc = "rq"
    BY <1>2, <2>1 DEF Service
  <2>3. Serves' /\ "wait" \in Shelf
    BY <2>2, RestServes DEF Shelf
  <2> QED
    BY <1>1, <1>2, <2>1, <2>2, <2>3, Names, TakeKeeps
<1>3. CASE Goto("top") /\ UNCHANGED rqVars
  <2>1. svc'.rq = None /\ svc'.rq2 = None /\ svc'.pc = "top"
    BY <1>3 DEF Goto, Service
  <2>2. Serves' /\ AbortLast'
    BY <2>1, RestServes, Names DEF AbortLast
  <2> QED
    BY <1>1, <1>3, <2>1, <2>2, Names, StillKeeps DEF rqVars
<1> QED
  BY <1>2, <1>3 DEF CheckWait

LEMMA ParkKInv == ASSUME IInv, KInv, Park PROVE KInv'
<1>1. /\ svc.pc = "rq" /\ rqb[svc.rq].ServiceCode \in {"read", "poll", "global"}
      /\ Goto("top") /\ UNCHANGED <<job, mgr>>
  BY DEF Park, Serving
<1>2. PICK e \in {"hold", "wait", "glob"} : MoveRequest(svc.rq, e)
  BY DEF Park
<1>3. PICK h \in RQB : h = svc.rq
  BY <1>1, SvcAt
<1>4. svc'.rq = None /\ svc'.rq2 = None /\ svc'.pc = "top"
  BY <1>1 DEF Goto, Service
<1>5. Serves' /\ e \in Shelf /\ e # "main"
  BY <1>4, RestServes DEF Shelf
<1> QED
  BY <1>1, <1>2, <1>3, <1>4, <1>5, Names, MoveKeeps

\* The service answers the abort when no request is left: it has looked at every
\* exchange where one may be.
LEMMA NoneLeft ==
    ASSUME IInv, KInv, Ahead, svc.pc = "abort",
           queue["wait"] = <<>>, queue["hold"] = <<>>, queue["glob"] = <<>>
    PROVE  Asks(mgr.on) = {}
<1>1. PICK r \in RQB : r = svc.rq
  BY SvcAt
<1>2. rqb[r].ServiceCode = "abort" /\ Held(r)
  BY <1>1, HeldThere DEF KInv, Serves
<1>3. mgr.on \in Job /\ mgr.on # "mgr"
  BY <1>2, AbortHeld, KeyboardAssumption
<1>4. SUFFICES ASSUME NEW h \in Asks(mgr.on) PROVE FALSE
  OBVIOUS
<1>5. ~InQueue(queue["main"], h)
  <2>1. OfDead(h)
    BY <1>3, <1>4 DEF KInv, Kinds, Asks, OfDead
  <2>2. IsAbort(svc.rq)
    BY <1>1, <1>2 DEF IsAbort
  <2> QED
    BY <2>1, <2>2 DEF Ahead, InQueue
<1>6. h \in RQB /\ rqb[h].ServiceCode # "abort" /\ Held(h)
  BY <1>4 DEF Asks
<1>7. svc.rq2 \notin RQB
  BY SvcAt
<1>8. PICK k \in {"main", "wait", "hold", "glob", "rq", "rq2"} : Holds(k, h)
  BY <1>6 DEF Held, Hand, Shelf
<1>9. k # "rq" /\ k # "rq2" /\ k # "main"
  BY <1>1, <1>2, <1>5, <1>6, <1>7, <1>8 DEF Holds, Shelf
<1>10. ~InQueue(<<>>, h)
  BY DEF InQueue
<1> QED
  BY <1>8, <1>9, <1>10 DEF Holds, Shelf

LEMMA SiftKInv == ASSUME IInv, KInv, Ahead, Sift PROVE KInv'
<1>1. svc.pc \in {"assign", "abort"} /\ UNCHANGED <<job, mgr>> /\ JobsStay
  BY DEF Sift, JobsStay
<1>2. svc.rq \in RQB /\ rqb[svc.rq].ServiceCode = svc.pc /\ svc \in SvcType
  BY <1>1, SvcAt DEF KInv, Serves
<1>3. PICK at : at = Sifted[svc.pc]
  OBVIOUS
<1>4. at = <<"wait", "hold">> \/ (at = <<"wait", "hold", "glob">> /\ svc.pc = "abort")
  BY <1>1, <1>3 DEF Sifted
<1>5. svc.pc = "abort" => at = <<"wait", "hold", "glob">>
  BY <1>3 DEF Sifted
<1>6. CASE (\A i \in DOMAIN at : queue[at[i]] = <<>>) /\ Answer(svc.rq, "ok", "top") /\ UNCHANGED rqVars
  <2>1. svc'.rq = None /\ svc'.rq2 = svc.rq /\ svc'.pc = "resp"
    BY <1>6 DEF Answer, Service
  <2>2. UNCHANGED <<queue, rqb, mgr>>
    BY <1>1, <1>6 DEF rqVars
  <2>3. svc.pc = "abort" => queue["wait"] = <<>> /\ queue["hold"] = <<>> /\ queue["glob"] = <<>>
    <3>1. \A i \in DOMAIN at : queue[at[i]] = <<>>
      BY <1>6
    <3>2. svc.pc = "abort" => 1 \in DOMAIN at /\ 2 \in DOMAIN at /\ 3 \in DOMAIN at /\ at[1] = "wait" /\ at[2] = "hold" /\ at[3] = "glob"
      BY <1>5
    <3> QED
      BY <3>1, <3>2
  <2>4. HeldOnly
    BY <2>1, <2>2, Names, HeldFrom, HeldThere
  <2>5. AsksFewer
    BY <2>2, <2>4, FewerAsks DEF BlocksKept
  <2>6. AbortLast'
    <3> SUFFICES ASSUME rqb[svc.rq].ServiceCode = "abort" PROVE Asks(mgr.on)' = {}
      BY <2>1, <2>2 DEF AbortLast
    <3>1. Asks(mgr.on) = {}
      BY <1>2, <2>3, NoneLeft
    <3>2. mgr.on \in Job
      BY <1>2, HeldThere, AbortHeld
    <3>3. PICK x \in Asker : x = mgr.on
      BY <3>2 DEF Asker
    <3>4. Asks(x)' = {}
      BY <2>5, <3>1, <3>3 DEF AsksFewer, Asks
    <3> QED
      BY <2>2, <3>3, <3>4
  <2> QED
    BY <1>1, <2>1, <2>2, <2>6, Names, RestServes, StillKeeps
<1>7. ASSUME NEW e \in {"wait", "hold", "glob"}, Take(e),
             svc' = [svc EXCEPT !.then = svc.pc, !.pc = "sifted", !.rq2 = Head(queue[e]).h]
      PROVE  KInv'
  <2>1. PICK m : m = Head(queue[e])
    OBVIOUS
  <2>2. svc'.rq = svc.rq /\ svc'.rq2 = m.h /\ svc'.pc = "sifted" /\ svc'.then = svc.pc
    BY <1>2, <1>7, <2>1 DEF SvcType
  <2>3. e \in Shelf /\ e # "main" /\ UNCHANGED rqb /\ queue[e] # <<>>
    BY <1>7 DEF Shelf, Take
  <2>4. m.h \in RQB /\ InQueue(queue[e], m.h)
    BY <1>7, <2>1, <2>3, ServedRq, TakeShelf DEF IInv, Types
  <2>5. Serves'
    BY <1>2, <2>2, <2>3, <2>4 DEF KInv, Parked, Serves
  <2> QED
    BY <1>1, <1>7, <2>1, <2>2, <2>3, <2>5, TakeKeeps
<1>8. ASSUME NEW i \in DOMAIN at, Take(at[i]),
             svc' = [svc EXCEPT !.then = svc.pc, !.pc = "sifted", !.rq2 = Head(queue[at[i]]).h]
      PROVE  KInv'
  <2>1. at[i] \in {"wait", "hold", "glob"}
    BY <1>4
  <2> QED
    BY <1>7, <1>8, <2>1
<1> QED
  BY <1>3, <1>6, <1>8 DEF Sift

LEMMA SiftMoveKInv == ASSUME IInv, KInv, SiftMove PROVE KInv'
<1>1. /\ svc.pc = "sifted" /\ svc' = [Service(svc.then) EXCEPT !.rq = svc.rq]
      /\ UNCHANGED <<job, mgr>>
  BY DEF SiftMove
<1>2. /\ svc.rq \in RQB /\ svc.rq2 \in RQB /\ svc.then \in {"assign", "abort"}
      /\ rqb[svc.rq].ServiceCode = svc.then /\ rqb[svc.rq2].ServiceCode # "abort"
  BY <1>1, SvcAt DEF KInv, Serves
<1>3. svc'.rq = svc.rq /\ svc'.rq2 = None /\ svc'.pc = svc.then
  BY <1>1 DEF Service
<1>4. svc.rq # svc.rq2 /\ RqbsOK
  BY <1>2 DEF IInv, Types, OneHolder, Holds, Holder
<1>5. CASE svc.then = "abort" /\ rqb[svc.rq2].RqOwnerJob = rqb[svc.rq].dData0
  <2>1. DisposeRQB(svc.rq2) /\ UNCHANGED queue
    BY <1>5 DEF SiftMove, RespondAbort
  <2>2. rqb'[svc.rq] = rqb[svc.rq]
    BY <1>2, <1>4, <2>1 DEF DisposeRQB, RqbsOK
  <2>3. Serves' /\ AnswersSent /\ ShelvesKept
    BY <1>2, <1>3, <2>1, <2>2 DEF Serves, AnswersSent, ShelvesKept
  <2> QED
    BY <1>1, <1>2, <1>3, <2>1, <2>3, Names, DisposeKeeps
<1>6. CASE ~(svc.then = "abort" /\ rqb[svc.rq2].RqOwnerJob = rqb[svc.rq].dData0)
  <2>1. MoveRequest(svc.rq2, "main")
    BY <1>6 DEF SiftMove
  <2>2. Serves' /\ "main" \in Shelf
    BY <1>2, <1>3, <2>1 DEF Serves, MoveRequest, Shelf
  <2> QED
    BY <1>1, <1>2, <1>3, <2>1, <2>2, Names, MoveKeeps
<1> QED
  BY <1>5, <1>6

LEMMA CheckRespKInv == ASSUME IInv, KInv, CheckResp PROVE KInv'
<1>1. svc.pc = "resp" /\ UNCHANGED <<queue, rqb, job, mgr>> /\ JobsStay
  BY DEF CheckResp, rqVars, JobsStay
<1>2. svc.rq \notin RQB /\ svc.rq2 \in RQB /\ svc.then \in {"top", "glob"} /\ svc \in SvcType
  BY <1>1, SvcAt
<1>3. CASE Goto(svc.then)
  <2>1. svc'.rq = None /\ svc'.rq2 = None /\ svc'.pc = svc.then
    BY <1>3 DEF Goto, Service
  <2>2. Serves' /\ AbortLast'
    BY <1>2, <2>1, RestServes, Names DEF AbortLast
  <2> QED
    BY <1>1, <2>1, <2>2, Names, StillKeeps
<1>4. ASSUME NEW pc \in {"dealias", "send"}, svc' = [svc EXCEPT !.pc = pc],
             pc = "dealias" => Aliased(svc.rq2)
      PROVE  KInv'
  <2>1. svc'.rq = svc.rq /\ svc'.rq2 = svc.rq2 /\ svc'.pc = pc
    BY <1>2, <1>4 DEF SvcType
  <2>2. Serves'
    BY <1>1, <1>4, <2>1 DEF Serves, Aliased
  <2>3. HeldOnly /\ AsksFewer
    BY <1>1, <2>1, HeldFrom, HeldThere, FewerAsks DEF BlocksKept
  <2>4. AbortLast'
    <3> SUFFICES ASSUME rqb[svc.rq2].ServiceCode = "abort" PROVE Asks(mgr.on)' = {}
      BY <1>1, <2>1 DEF AbortLast
    <3>1. Asks(mgr.on) = {}
      BY <1>2 DEF KInv, Removed
    <3>2. mgr.on \in Job
      BY <1>2, HeldThere, AbortHeld
    <3>3. PICK x \in Asker : x = mgr.on
      BY <3>2 DEF Asker
    <3>4. Asks(x)' = {}
      BY <2>3, <3>1, <3>3 DEF AsksFewer, Asks
    <3> QED
      BY <1>1, <3>3, <3>4
  <2> QED
    BY <1>1, <2>1, <2>2, <2>4, StillKeeps
<1> QED
  BY <1>3, <1>4 DEF CheckResp

LEMMA SendRespKInv == ASSUME IInv, KInv, SendResp PROVE KInv'
<1>1. /\ svc.pc \in {"dealias", "send"} /\ Respond(svc.rq2, svc.erc) /\ Goto(svc.then)
      /\ UNCHANGED <<job, mgr>>
  BY DEF SendResp
<1>2. PICK h \in RQB : h = svc.rq2
  BY <1>1, SvcAt
<1>3. svc.then \in {"top", "glob"} /\ svc.erc \in Erc /\ Held(h)
  BY <1>1, <1>2, SvcAt, HeldThere DEF SvcType
<1>4. svc'.rq = None /\ svc'.rq2 = None /\ svc'.pc = svc.then
  BY <1>1 DEF Goto, Service
<1>5. PICK e : e = rqb[h].RespExch
  OBVIOUS
<1>6. QueuesOK /\ e \in Job \cup {"mgr", None}
  BY <1>2, <1>5 DEF IInv, Types, RqbsOK
<1>7. DisposeRQB(h) /\ Send(e, h, svc.erc)
  BY <1>1, <1>2, <1>5 DEF Respond
<1>8. ShelvesKept
  BY <1>3, <1>6, <1>7, SendOther
<1>9. \A g \in RQB : Held(g)' => Held(g) /\ g # h /\ rqb'[g] = rqb[g]
  <2> SUFFICES ASSUME NEW g \in RQB, Held(g)' PROVE Held(g) /\ g # h /\ rqb'[g] = rqb[g]
    OBVIOUS
  <2>1. PICK k \in Hand : Holds(k, g)' /\ k # "rq2"
    BY <1>4, Names DEF Held, Hand, Holds, Shelf
  <2>2. Holds(k, g)
    BY <1>4, <1>8, <2>1, Names DEF Holds, Hand, ShelvesKept, Shelf
  <2>3. Holds("rq2", h) /\ "rq2" \in Holder /\ Hand \subseteq Holder
    BY <1>2 DEF Holds, Holder, Hand
  <2>4. g # h
    BY <2>1, <2>2, <2>3 DEF IInv, OneHolder
  <2>5. rqb'[g] = rqb[g]
    BY <1>7, <2>4 DEF DisposeRQB, IInv, Types, RqbsOK
  <2> QED
    BY <2>2, <2>4, <2>5 DEF Held
<1>10. \A x \in Asker : \A g \in RQB : g \in Asks(x)' => g \in Asks(x) /\ g # h
  BY <1>9 DEF Asks
<1>11. AnswersSent
  <2> SUFFICES ASSUME NEW x \in Asker, queue'[x] # queue[x]
               PROVE  Asks(x)' = {} /\ ~Resting(x) /\ (Expects(x) => Len(queue'[x]) <= 1)
    BY DEF AnswersSent
  <2>1. x \in DOMAIN queue /\ DOMAIN queue = Exch
    BY <1>6, Names DEF QueuesOK, Asker
  <2>2. x = e /\ queue'[x] = Append(queue[x], [h |-> h, erc |-> svc.erc])
    BY <1>7, <2>1 DEF Send
  <2>3. CASE rqb[h].ServiceCode # "abort"
    <3>1. h \in Asks(x)
      BY <1>3, <1>5, <2>2, <2>3 DEF Asks
    <3>2. ~Resting(x) /\ (Expects(x) => queue[x] = <<>>)
      BY <3>1, AskerWaits
    <3>3. \A g \in Asks(x) : g = h
      BY <3>1 DEF KInv, Single
    <3>4. Asks(x)' = {}
      BY <1>10, <3>3 DEF Asks
    <3>5. Len(Append(<<>>, [h |-> h, erc |-> svc.erc])) = 1
      OBVIOUS
    <3> QED
      BY <2>2, <3>2, <3>4, <3>5
  <2>4. CASE rqb[h].ServiceCode = "abort"
    <3>1. x = mgr.on /\ x \in Job /\ job[x].pc \in DeadPc
      BY <1>3, <1>5, <2>2, <2>4, AbortHeld
    <3>2. Asks(x) = {}
      BY <1>2, <2>4, <3>1 DEF KInv, Removed
    <3>3. Asks(x)' = {}
      BY <1>10, <3>2 DEF Asks
    <3>4. x # "mgr"
      BY <3>1, KeyboardAssumption
    <3> QED
      BY <3>1, <3>3, <3>4 DEF Resting, Expects, DeadPc
  <2> QED
    BY <2>3, <2>4
<1>12. Serves'
  BY <1>3, <1>4, RestServes
<1> QED
  BY <1>1, <1>2, <1>4, <1>7, <1>8, <1>11, <1>12, Names, DisposeKeeps

LEMMA AnswerKInv ==
    ASSUME IInv, KInv, svc.pc = "rq", rqb[svc.rq].ServiceCode # "abort",
           NEW erc, Answer(svc.rq, erc, "top"), UNCHANGED <<queue, rqb, mgr>>, JobsStay
    PROVE  KInv'
<1>1. svc'.rq = None /\ svc'.rq2 = svc.rq /\ svc'.pc = "resp"
  BY DEF Answer, Service
<1>2. Serves' /\ AbortLast'
  BY <1>1, RestServes DEF AbortLast
<1> QED
  BY <1>1, <1>2, Names, StillKeeps

LEMMA ServiceKInv == ASSUME IInv, KInv, Ahead, KBDServiceTask PROVE KInv'
<1>1. JobsOK /\ (UNCHANGED job => JobsStay)
  BY DEF IInv, Types, JobsStay
<1>2. CASE Top
  <2>1. PICK pc \in {"glob", "main"} : Goto(pc)
    BY <1>2 DEF Top
  <2>2. svc'.rq = None /\ svc'.rq2 = None /\ svc'.pc = pc /\ UNCHANGED <<queue, rqb, mgr, job>>
    BY <1>2, <2>1 DEF Top, rqVars, Goto, Service
  <2>3. Serves' /\ AbortLast'
    BY <2>2, RestServes, Names DEF AbortLast
  <2> QED
    BY <1>1, <2>2, <2>3, Names, StillKeeps
<1>3. ASSUME NEW pc \in {"rq", "assign", "abort"}, svc' = [svc EXCEPT !.pc = pc],
             svc.pc \in {"alias", "rq"}, UNCHANGED <<queue, rqb, mgr, job>>,
             pc \in {"assign", "abort"} => rqb[svc.rq].ServiceCode = pc
      PROVE  KInv'
  <2>1. svc \in SvcType /\ svc.rq2 \notin RQB
    BY <1>3, SvcAt
  <2>2. svc'.rq = svc.rq /\ svc'.rq2 = svc.rq2 /\ svc'.pc = pc
    BY <1>3, <2>1 DEF SvcType
  <2>3. Serves' /\ AbortLast'
    BY <1>3, <2>1, <2>2 DEF Serves, AbortLast
  <2> QED
    BY <1>1, <1>3, <2>1, <2>2, <2>3, StillKeeps
<1>4. CASE AliasMem
  BY <1>3, <1>4 DEF AliasMem, rqVars
<1>5. CASE AbortJob
  BY <1>3, <1>5 DEF AbortJob, Serving, rqVars
<1>6. CASE ReadKey
  <2>1. JobsStay
    BY <1>1, <1>6, KeyWritten DEF ReadKey, ReadKBFinal
  <2> QED
    BY <1>6, <2>1, AnswerKInv DEF ReadKey, Serving, rqVars
<1>7. CASE ReadNone
  BY <1>1, <1>7, AnswerKInv DEF ReadNone, Serving, rqVars
<1>8. CASE AssignKBD
  <2>1. /\ svc.pc = "rq" /\ rqb[svc.rq].ServiceCode = "assign"
        /\ UNCHANGED <<queue, rqb, mgr, job>>
        /\ Answer(svc.rq, "ok", "top") \/ svc' = [svc EXCEPT !.pc = "assign"]
    BY <1>8 DEF AssignKBD, Serving, rqVars
  <2> QED
    BY <1>1, <1>3, <2>1, AnswerKInv
<1> QED
  BY <1>2, <1>4, <1>5, <1>6, <1>7, <1>8, GlobalKInv, WaitMainKInv, CheckWaitKInv, ParkKInv,
     SiftKInv, SiftMoveKInv, CheckRespKInv, SendRespKInv
  DEF KBDServiceTask

LEMMA IntKeyBrdKInv == ASSUME IInv, KInv, NEW b, IntKeyBrd(b) PROVE KInv'
<1>1. /\ QueuesOK /\ ListedOnce /\ UNCHANGED <<rqb, svc, job, mgr>>
      /\ Send("main", ISR, "int") /\ "int" \in Erc /\ "main" \in Shelf
  BY DEF IInv, Types, IntKeyBrd, Erc, Shelf
<1>2. \A x \in Shelf : \A g : InQueue(queue'[x], g) => InQueue(queue[x], g) \/ (x = "main" /\ g = ISR)
  BY <1>1, SendShelf
<1>3. \A x \in Asker : queue'[x] = queue[x]
  <2>1. Asker \subseteq Exch \ Shelf /\ DOMAIN queue = Exch
    BY <1>1, Names DEF Asker, QueuesOK
  <2> QED
    BY <1>1, <2>1 DEF Send
<1>4. HeldOnly
  BY <1>1, <1>2, HeldFrom, HeldThere, Names
<1>5. AsksFewer
  BY <1>1, <1>4, FewerAsks DEF BlocksKept
<1>6. BlocksKept /\ DraftsKept /\ AnswersSent /\ JobsStay
  BY <1>1, <1>3 DEF BlocksKept, DraftsKept, AnswersSent, JobsStay
<1>7. Parked' /\ Serves'
  BY <1>1, <1>2, Names DEF Asks, KInv, Parked, Serves, Aliased, Shelf
<1>8. AbortLast'
  <2> SUFFICES ASSUME svc.rq2 \in RQB, rqb[svc.rq2].ServiceCode = "abort" PROVE Asks(mgr.on)' = {}
    BY <1>1 DEF AbortLast
  <2>1. Asks(mgr.on) = {} /\ mgr.on \in Job
    BY HeldThere, AbortHeld DEF KInv, Removed
  <2>2. PICK x \in Asker : x = mgr.on
    BY <2>1 DEF Asker
  <2>3. Asks(x)' = {}
    BY <1>5, <2>1, <2>2 DEF AsksFewer, Asks
  <2> QED
    BY <1>1, <2>2, <2>3
<1> QED
  BY <1>1, <1>4, <1>6, <1>7, <1>8, ServiceKeeps

-----------------------------------------------------------------------------
(* The steps of the jobs and of the tasks. *)

\* The service gets nothing, and has what it had.
LEMMA OthersKeep ==
    ASSUME IInv, KInv, UNCHANGED svc, HeldOnly, BlocksKept, ShelvesKept,
           \A h \in RQB : Held(h) /\ rqb[h].ServiceCode = "abort" => mgr' = mgr
    PROVE  Kinds' /\ Parked' /\ Serves' /\ Single' /\ AbortLast' /\ AsksFewer
<1>1. AsksFewer
  BY FewerAsks
<1>2. Kinds'
  BY DEF KInv, Kinds, HeldOnly, BlocksKept
<1>3. Single'
  BY <1>1 DEF KInv, Single, AsksFewer, Asks
<1>4. \A h \in RQB : svc.rq = h \/ svc.rq2 = h => Held(h) /\ Held(h)' /\ rqb'[h] = rqb[h]
  BY DEF BlocksKept, Held, Hand, Holds, Shelf
<1>5. Parked'
  <2>1. \A k \in {"wait", "hold", "glob"}, g \in RQB :
            InQueue(queue'[k], g) => Held(g)' /\ InQueue(queue[k], g)
    BY DEF ShelvesKept, Shelf, Held, Hand, Holds
  <2> QED
    BY <2>1 DEF KInv, Parked, BlocksKept
<1>6. Serves'
  BY <1>4, SvcAt DEF KInv, Serves, Aliased
<1>7. AbortLast'
  <2> SUFFICES ASSUME svc.rq2 \in RQB, rqb'[svc.rq2].ServiceCode = "abort" PROVE Asks(mgr.on)' = {}
    BY DEF AbortLast
  <2>1. Held(svc.rq2) /\ rqb[svc.rq2].ServiceCode = "abort" /\ mgr' = mgr
    BY <1>4
  <2>2. Asks(mgr.on) = {} /\ mgr.on \in Job
    BY <2>1, AbortHeld DEF KInv, Removed
  <2>3. PICK x \in Asker : x = mgr.on
    BY <2>2 DEF Asker
  <2>4. Asks(x)' = {}
    BY <1>1, <2>2, <2>3 DEF AsksFewer, Asks
  <2> QED
    BY <2>1, <2>3, <2>4
<1> QED
  BY <1>1, <1>2, <1>3, <1>5, <1>6, <1>7

\* A job that has no request with the service goes on.
LEMMA JobKeeps ==
    ASSUME IInv, KInv, NEW j \in Job, UNCHANGED <<svc, mgr>>, HeldOnly, BlocksKept, ShelvesKept,
           \A x \in Asker \ {j} : queue'[x] = queue[x], queue'[j] = <<>>, Asks(j) = {},
           \A l \in Job \ {j} : job'[l] = job[l], job[j].pc \notin DeadPc,
           job'[j].pc \in {"idle", "send", "asked"}, Drafts'
    PROVE  KInv'
<1>1. Kinds' /\ Parked' /\ Serves' /\ Single' /\ AbortLast' /\ AsksFewer
  BY OthersKeep
<1>2. \A x \in Asker : Asks(x) = {} => Asks(x)' = {}
  BY <1>1 DEF AsksFewer, Asks
<1>3. "mgr" \notin Job /\ Monitor \in Job
  BY KeyboardAssumption
<1>4. Answered'
  <2> SUFFICES ASSUME NEW x \in Asker
               PROVE  /\ Resting(x)' => Asks(x)' = {} /\ queue'[x] = <<>>
                      /\ Expects(x)' => (Asks(x)' = {} \/ queue'[x] = <<>>) /\ Len(queue'[x]) <= 1
    BY DEF Answered
  <2>1. CASE x = j
    <3>1. Asks(x)' = {} /\ queue'[x] = <<>> /\ Len(<<>>) = 0
      BY <1>2, <2>1
    <3> QED
      BY <3>1
  <2>2. CASE x # j
    <3>1. (Resting(x)' <=> Resting(x)) /\ (Expects(x)' <=> Expects(x)) /\ queue'[x] = queue[x]
      BY <1>3, <2>2 DEF Resting, Expects, Asker
    <3>2. /\ Resting(x) => Asks(x) = {} /\ queue[x] = <<>>
          /\ Expects(x) => (Asks(x) = {} \/ queue[x] = <<>>) /\ Len(queue[x]) <= 1
      BY DEF KInv, Answered
    <3> QED
      BY <1>2, <3>1, <3>2
  <2> QED
    BY <2>1, <2>2
<1>5. mgr.pc \in KillPc => mgr.on \in Job \ {Monitor} /\ mgr.on # j /\ job[mgr.on].pc \in DeadPc
  BY DEF KInv, Killed
<1>6. Killed'
  <2>1. \A l \in Job : l = j \/ job'[l] = job[l]
    OBVIOUS
  <2>2. job'[j].pc \notin DeadPc /\ job'[j].pc # "gone"
    BY DEF DeadPc
  <2>3. \A l \in Job : job'[l].pc \in {"idle", "send", "asked", "asker", "dying", "gone"}
    BY <2>1 DEF KInv, Killed
  <2>4. \A l \in Job : job'[l].pc \in DeadPc => mgr.pc \in KillPc /\ mgr.on = l
    BY <2>1, <2>2 DEF KInv, Killed
  <2>5. job'[Monitor].pc # "gone"
    BY <1>3, <2>1, <2>2 DEF KInv, Killed
  <2>6. mgr.pc \in KillPc => job'[mgr.on].pc \in DeadPc
    BY <1>5
  <2> QED
    BY <1>5, <2>3, <2>4, <2>5, <2>6 DEF Killed, DeadPc, KillPc
<1>7. Removed'
  <2>1. \A l \in Job : job'[l].pc = "gone" => Asks(l)' = {}
    BY <1>2 DEF KInv, Removed, Asker
  <2>2. ASSUME mgr.pc \in {"killing", "aborting"}, queue'[mgr.on] # <<>>
        PROVE  Asks(mgr.on)' = {}
    <3>1. PICK x \in Asker : x = mgr.on /\ x # j
      BY <1>5, <2>2 DEF KillPc, Asker
    <3>2. Asks(x)' = {}
      BY <1>2, <2>2, <3>1 DEF KInv, Removed
    <3> QED
      BY <3>1, <3>2
  <2> QED
    BY <1>1, <2>1, <2>2 DEF Removed, AbortLast, DeadPc
<1> QED
  BY <1>1, <1>4, <1>6, <1>7 DEF KInv

LEMMA ReadKBDKInv == ASSUME IInv, KInv, NEW j \in Job, ReadKBD(j) PROVE KInv'
<1>1. QueuesOK /\ RqbsOK /\ JobsOK /\ ListedOnce /\ OneHolder
  BY DEF IInv, Types
<1>2. UNCHANGED <<queue, svc, mgr>> /\ job[j].pc = "idle"
  BY DEF ReadKBD, NewRQB, rqVars
<1>3. Asks(j) = {} /\ queue[j] = <<>>
  BY <1>2, KeyboardAssumption DEF KInv, Answered, Resting, Asker
<1>4. HeldOnly /\ ShelvesKept /\ job[j].pc \notin DeadPc
  BY <1>2, HeldFrom, HeldThere DEF ShelvesKept, DeadPc
<1>5. CASE /\ freeRQB = <<>> /\ UNCHANGED rqVars
           /\ job' = [job EXCEPT ![j] = [pc |-> "asked", h |-> None, key |-> None]]
  <2>1. job'[j].pc = "asked" /\ \A l \in Job \ {j} : job'[l] = job[l]
    BY <1>1, <1>5 DEF JobsOK
  <2>2. BlocksKept /\ Drafts'
    BY <1>5, <2>1 DEF BlocksKept, rqVars, KInv, Drafts
  <2> QED
    BY <1>2, <1>3, <1>4, <2>1, <2>2, JobKeeps
<1>6. ASSUME NEW code \in {"poll", "read"}, NewRQB(code, j, j, None),
             job' = [job EXCEPT ![j] = [pc |-> "send", h |-> Head(freeRQB), key |-> None]]
      PROVE  KInv'
  <2>1. PICK h : h = Head(freeRQB)
    OBVIOUS
  <2>2. h \in RQB /\ InList(freeRQB, h)
    BY <1>1, <1>6, <2>1, ListTail DEF RqbsOK, NewRQB, TakeRQB
  <2>3. Holds("free", h) /\ "free" \in Holder /\ Hand \subseteq Holder /\ "free" \notin Hand
    BY <2>2 DEF Holds, Holder, Hand, Shelf
  <2>4. ~Held(h) /\ \A l \in Job : ~Makes(l, h)
    BY <1>1, <2>2, <2>3 DEF OneHolder, Held
  <2>5. /\ job'[j].pc = "send" /\ job'[j].h = h /\ \A l \in Job \ {j} : job'[l] = job[l]
        /\ rqb'[h] = [ServiceCode |-> code, RespExch |-> j, RqOwnerJob |-> j, dData0 |-> None]
        /\ \A g \in RQB : g # h => rqb'[g] = rqb[g]
    BY <1>1, <1>6, <2>1, <2>2 DEF JobsOK, RqbsOK, NewRQB, TakeRQB
  <2>6. BlocksKept
    BY <1>4, <2>4, <2>5 DEF BlocksKept, HeldOnly
  <2>7. Drafts'
    <3> SUFFICES ASSUME NEW l \in Job, job'[l].pc = "send"
                 PROVE  /\ rqb'[job'[l].h].ServiceCode \in {"read", "poll"}
                        /\ rqb'[job'[l].h].RqOwnerJob = l /\ rqb'[job'[l].h].RespExch = l
      BY DEF Drafts
    <3>1. CASE l = j
      BY <2>5, <3>1
    <3>2. CASE l # j
      <4>1. job[l].pc = "send" /\ job[l].h \in RQB /\ job'[l].h = job[l].h
        BY <1>1, <2>5, <3>2 DEF JobsOK
      <4>2. job[l].h # h
        BY <2>4, <4>1 DEF Makes
      <4> QED
        BY <2>5, <4>1, <4>2 DEF KInv, Drafts
    <3> QED
      BY <3>1, <3>2
  <2> QED
    BY <1>2, <1>3, <1>4, <2>5, <2>6, <2>7, JobKeeps
<1> QED
  BY <1>5, <1>6 DEF ReadKBD

LEMMA LastTaken ==
    ASSUME NEW S, NEW s \in Seq(S), s # <<>>, Len(s) <= 1
    PROVE  Tail(s) = <<>>
<1>1. Len(s) \in Nat /\ Len(s) # 0
  OBVIOUS
<1>2. Tail(s) \in Seq(S) /\ Len(Tail(s)) = Len(s) - 1
  OBVIOUS
<1>3. Len(Tail(s)) = 0
  BY <1>1, <1>2
<1> QED
  BY <1>2, <1>3, EmptySeq

LEMMA ReadEndKInv == ASSUME IInv, KInv, NEW j \in Job, ReadKBDEnd(j) \/ LoadJob(j) PROVE KInv'
<1>1. QueuesOK /\ JobsOK /\ j \in Exch /\ DOMAIN queue = Exch
  BY Names DEF IInv, Types, QueuesOK
<1>2. UNCHANGED <<rqb, svc, mgr>> /\ job' = [job EXCEPT ![j] = IdleJob]
  BY DEF ReadKBDEnd, LoadJob, Take, AllocExch
<1>3. job'[j].pc = "idle" /\ \A l \in Job \ {j} : job'[l] = job[l]
  BY <1>1, <1>2 DEF JobsOK, IdleJob
<1>4. /\ queue'[j] = <<>> /\ Asks(j) = {} /\ \A x \in Exch \ {j} : queue'[x] = queue[x]
      /\ job[j].pc \notin DeadPc
  <2>1. CASE ReadKBDEnd(j)
    <3>1. job[j].pc = "asked" /\ queue[j] # <<>> /\ queue' = [queue EXCEPT ![j] = Tail(@)]
      BY <2>1 DEF ReadKBDEnd, Take
    <3>2. Len(queue[j]) <= 1 /\ Asks(j) = {}
      BY <3>1, KeyboardAssumption DEF KInv, Answered, Expects, Asker
    <3>3. queue[j] \in Seq(MsgAt(j))
      BY <1>1 DEF QueuesOK
    <3>4. Tail(queue[j]) = <<>>
      BY <3>1, <3>2, <3>3, LastTaken
    <3> QED
      BY <1>1, <3>1, <3>2, <3>4 DEF DeadPc
  <2>2. CASE LoadJob(j)
    <3>1. job[j].pc = "gone" /\ queue' = [queue EXCEPT ![j] = <<>>]
      BY <2>2 DEF LoadJob, AllocExch
    <3> QED
      BY <1>1, <3>1 DEF KInv, Removed, DeadPc
  <2> QED
    BY <2>1, <2>2
<1>5. ShelvesKept /\ \A x \in Asker \ {j} : queue'[x] = queue[x]
  BY <1>4, Names DEF ShelvesKept, Asker
<1>6. HeldOnly
  BY <1>2, <1>5, HeldFrom, HeldThere DEF ShelvesKept
<1>7. BlocksKept /\ Drafts'
  BY <1>2, <1>3 DEF BlocksKept, KInv, Drafts
<1> QED
  BY <1>2, <1>3, <1>4, <1>5, <1>6, <1>7, JobKeeps

\* A block that the service had not gets to its exchange.
LEMMA NewHeld ==
    ASSUME IInv, KInv, UNCHANGED svc, NEW h \in RQB, ~Held(h),
           \A x \in Shelf : \A g : InQueue(queue'[x], g) => InQueue(queue[x], g) \/ (x = "main" /\ g = h),
           \A g \in RQB : g # h => rqb'[g] = rqb[g]
    PROVE  /\ \A g \in RQB : Held(g)' /\ g # h => Held(g) /\ rqb'[g] = rqb[g]
           /\ \A x, g : g \in Asks(x)' /\ g # h => g \in Asks(x)
           /\ Parked' /\ Serves'
<1>1. ASSUME NEW g \in RQB, Held(g)', g # h PROVE Held(g) /\ rqb'[g] = rqb[g]
  <2>1. PICK k \in Hand : Holds(k, g)'
    BY <1>1 DEF Held
  <2>2. Holds(k, g)
    BY <1>1, <2>1 DEF Holds, Hand, Shelf
  <2> QED
    BY <1>1, <2>2 DEF Held
<1>2. \A x, g : g \in Asks(x)' /\ g # h => g \in Asks(x)
  BY <1>1 DEF Asks
<1>3. \A g : Held(g) => g # h
  OBVIOUS
<1>4. Parked'
  BY <1>3, HeldThere DEF KInv, Parked, Shelf
<1>5. Serves'
  BY <1>3, HeldThere, SvcAt DEF KInv, Serves, Aliased
<1> QED
  BY <1>1, <1>2, <1>4, <1>5

LEMMA SendMain ==
    ASSUME QueuesOK, NEW h, NEW erc, Send("main", h, erc)
    PROVE  \A x \in Asker : queue'[x] = queue[x]
<1>1. "main" \notin Asker /\ Asker \subseteq Exch /\ DOMAIN queue = Exch
  BY Names DEF Asker, QueuesOK
<1> QED
  BY <1>1 DEF Send

LEMMA ReadSendKInv == ASSUME IInv, KInv, NEW j \in Job, ReadKBDSend(j) PROVE KInv'
<1>1. QueuesOK /\ JobsOK /\ ListedOnce /\ OneHolder
  BY DEF IInv, Types
<1>2. /\ UNCHANGED <<rqb, svc, mgr>> /\ job[j].pc = "send" /\ job[j].h \in RQB
      /\ job' = [job EXCEPT ![j].pc = "asked"]
  BY <1>1 DEF ReadKBDSend, Request, JobsOK
<1>3. PICK h \in RQB : h = job[j].h
  BY <1>2
<1>4. Send("main", h, "request") /\ "main" \in Shelf /\ "request" \in Erc
  BY <1>3 DEF ReadKBDSend, Request, Shelf, Erc
<1>5. ~Held(h) /\ \A l \in Job : Makes(l, h) => l = j
  BY <1>1, <1>2, <1>3 DEF OneHolder, Makes, Held, Hand, Holder
<1>6. \A x \in Shelf : \A g : InQueue(queue'[x], g) => InQueue(queue[x], g) \/ (x = "main" /\ g = h)
  <2>1. ~InQueue(queue["main"], h)
    BY <1>4, <1>5, HeldThere
  <2> QED
    BY <1>1, <1>4, <2>1, SendShelf
<1>7. \A x \in Asker : queue'[x] = queue[x]
  BY <1>1, <1>4, SendMain
<1>8. /\ \A g \in RQB : Held(g)' /\ g # h => Held(g)
      /\ \A x, g : g \in Asks(x)' /\ g # h => g \in Asks(x)
      /\ Parked' /\ Serves'
  BY <1>2, <1>5, <1>6, NewHeld
<1>9. /\ rqb[h].ServiceCode \in {"read", "poll"}
      /\ rqb[h].RqOwnerJob = j /\ rqb[h].RespExch = j
  BY <1>2, <1>3 DEF KInv, Drafts
<1>10. job'[j].pc = "asked" /\ \A l \in Job \ {j} : job'[l] = job[l]
  BY <1>1, <1>2 DEF JobsOK
<1>11. Asks(j) = {} /\ queue[j] = <<>> /\ j \in Asker /\ j # "mgr"
  BY <1>2, KeyboardAssumption DEF KInv, Answered, Resting, Asker
<1>12. \A x : x # j => \A g \in Asks(x)' : g # h /\ g \in Asks(x)
  BY <1>2, <1>8, <1>9 DEF Asks
<1>13. \A g \in Asks(j)' : g = h
  BY <1>8, <1>11
<1>14. Kinds'
  BY <1>2, <1>8, <1>9 DEF KInv, Kinds
<1>15. Drafts'
  BY <1>2, <1>10 DEF KInv, Drafts
<1>16. Single'
  <2> SUFFICES ASSUME NEW x \in Asker PROVE \A g, f \in Asks(x)' : g = f
    BY DEF Single
  <2>1. CASE x = j
    BY <1>13, <2>1
  <2>2. CASE x # j
    BY <1>12, <2>2 DEF KInv, Single
  <2> QED
    BY <2>1, <2>2
<1>17. \A x : x # j /\ Asks(x) = {} => Asks(x)' = {}
  BY <1>12
<1>18. Answered'
  <2> SUFFICES ASSUME NEW x \in Asker
               PROVE  /\ Resting(x)' => Asks(x)' = {} /\ queue'[x] = <<>>
                      /\ Expects(x)' => (Asks(x)' = {} \/ queue'[x] = <<>>) /\ Len(queue'[x]) <= 1
    BY DEF Answered
  <2>1. CASE x = j
    <3>1. ~Resting(x)' /\ queue'[x] = <<>> /\ Len(<<>>) = 0
      BY <1>7, <1>10, <1>11, <2>1 DEF Resting
    <3> QED
      BY <3>1
  <2>2. CASE x # j
    <3>1. (Resting(x)' <=> Resting(x)) /\ (Expects(x)' <=> Expects(x)) /\ queue'[x] = queue[x]
      BY <1>2, <1>7, <1>10, <2>2 DEF Resting, Expects, Asker
    <3>2. /\ Resting(x) => Asks(x) = {} /\ queue[x] = <<>>
          /\ Expects(x) => (Asks(x) = {} \/ queue[x] = <<>>) /\ Len(queue[x]) <= 1
      BY DEF KInv, Answered
    <3> QED
      BY <1>17, <2>2, <3>1, <3>2
  <2> QED
    BY <2>1, <2>2
<1>19. mgr.pc \in KillPc => mgr.on \in Job \ {Monitor} /\ mgr.on # j /\ job[mgr.on].pc \in DeadPc
  BY <1>2 DEF KInv, Killed, DeadPc
<1>20. Killed'
  <2>1. \A l \in Job : l = j \/ job'[l] = job[l]
    BY <1>10
  <2> QED
    BY <1>2, <1>10, <1>19, <2>1, KeyboardAssumption DEF KInv, Killed, DeadPc, KillPc
<1>21. Removed'
  <2>1. \A l \in Job : job'[l].pc = "gone" => Asks(l)' = {}
    BY <1>10, <1>17 DEF KInv, Removed
  <2>2. mgr.pc \in {"killing", "aborting"} /\ queue'[mgr.on] # <<>> => Asks(mgr.on)' = {}
    <3> SUFFICES ASSUME mgr.pc \in {"killing", "aborting"}, queue'[mgr.on] # <<>>
                 PROVE  Asks(mgr.on)' = {}
      OBVIOUS
    <3>1. PICK x \in Asker : x = mgr.on /\ x # j
      BY <1>19 DEF KillPc, Asker
    <3>2. Asks(x)' = {}
      BY <1>7, <1>17, <3>1 DEF KInv, Removed
    <3> QED
      BY <1>2, <3>1, <3>2
  <2>3. svc.rq2 \in RQB /\ rqb[svc.rq2].ServiceCode = "abort" => Asks(mgr.on)' = {}
    <3> SUFFICES ASSUME svc.rq2 \in RQB, rqb[svc.rq2].ServiceCode = "abort"
                 PROVE  Asks(mgr.on)' = {}
      OBVIOUS
    <3>1. Asks(mgr.on) = {} /\ mgr.pc = "aborting"
      BY HeldThere, AbortHeld DEF KInv, Removed
    <3>2. PICK x : x = mgr.on /\ x # j
      BY <1>19, <3>1 DEF KillPc
    <3>3. Asks(x)' = {}
      BY <1>17, <3>1, <3>2
    <3> QED
      BY <1>2, <3>2, <3>3
  <2> QED
    BY <1>2, <2>1, <2>2, <2>3 DEF Removed
<1> QED
  BY <1>8, <1>14, <1>15, <1>16, <1>18, <1>20, <1>21 DEF KInv

\* What a task asks for: a block that nobody had is now with the service, or lost.
LEMMA RequestedBlock ==
    ASSUME IInv, KInv, NEW code \in Code, NEW resp \in Job \cup {"mgr"}, NEW data \in Job \cup {None},
           TakeRQB(code, resp, None, data), Send("main", Head(freeRQB), "request"),
           UNCHANGED <<svc, job>>
    PROVE  \E h \in RQB :
            /\ ~Held(h)
            /\ rqb'[h] = [ServiceCode |-> code, RespExch |-> resp, RqOwnerJob |-> None, dData0 |-> data]
            /\ \A g \in RQB : Held(g)' /\ g # h => Held(g) /\ rqb'[g] = rqb[g]
            /\ \A x, g : g \in Asks(x)' /\ g # h => g \in Asks(x)
            /\ \A x \in Asker : queue'[x] = queue[x]
            /\ \A g : InQueue(queue'["main"], g) => InQueue(queue["main"], g) \/ g = h
            /\ Parked' /\ Serves' /\ Drafts'
<1>1. QueuesOK /\ RqbsOK /\ JobsOK /\ ListedOnce /\ OneHolder
  BY DEF IInv, Types
<1>2. PICK h : h = Head(freeRQB)
  OBVIOUS
<1>3. h \in RQB /\ InList(freeRQB, h)
  BY <1>1, <1>2, ListTail DEF RqbsOK, TakeRQB
<1>4. Holds("free", h) /\ "free" \in Holder /\ Hand \subseteq Holder /\ "free" \notin Hand
  BY <1>3 DEF Holds, Holder, Hand, Shelf
<1>5. ~Held(h) /\ \A l \in Job : ~Makes(l, h)
  BY <1>1, <1>3, <1>4 DEF OneHolder, Held
<1>6. /\ rqb'[h] = [ServiceCode |-> code, RespExch |-> resp, RqOwnerJob |-> None, dData0 |-> data]
      /\ \A g \in RQB : g # h => rqb'[g] = rqb[g]
  BY <1>1, <1>2, <1>3 DEF RqbsOK, TakeRQB
<1>7. Send("main", h, "request") /\ "main" \in Shelf /\ "request" \in Erc
  BY <1>2 DEF Shelf, Erc
<1>8. \A x \in Shelf : \A g : InQueue(queue'[x], g) => InQueue(queue[x], g) \/ (x = "main" /\ g = h)
  <2>1. ~InQueue(queue["main"], h)
    BY <1>5, <1>7, HeldThere
  <2> QED
    BY <1>1, <1>3, <1>7, <2>1, SendShelf
<1>9. \A x \in Asker : queue'[x] = queue[x]
  BY <1>1, <1>7, SendMain
<1>10. /\ \A g \in RQB : Held(g)' /\ g # h => Held(g) /\ rqb'[g] = rqb[g]
       /\ \A x, g : g \in Asks(x)' /\ g # h => g \in Asks(x)
       /\ Parked' /\ Serves'
  BY <1>3, <1>5, <1>6, <1>8, NewHeld
<1>11. Drafts'
  <2>1. \A l \in Job : job[l].pc = "send" => job[l].h \in RQB /\ job[l].h # h
    BY <1>1, <1>5 DEF JobsOK, Makes
  <2> QED
    BY <1>6, <2>1 DEF KInv, Drafts
<1> QED
  BY <1>3, <1>5, <1>6, <1>7, <1>8, <1>9, <1>10, <1>11

\* When the manager does not wait for an abort, the service has none.
LEMMA NoAbort ==
    ASSUME KInv, mgr.pc # "aborting"
    PROVE  \A h \in RQB : Held(h) => rqb[h].ServiceCode # "abort"
BY AbortHeld

\* The manager kills nobody.
LEMMA MgrKeeps ==
    ASSUME IInv, KInv, UNCHANGED <<svc, job>>, mgr.pc \notin KillPc, mgr'.pc \notin KillPc,
           \A x \in Job : queue'[x] = queue[x] /\ \A g \in RQB : g \in Asks(x)' => g \in Asks(x),
           Resting("mgr")' => Asks("mgr")' = {} /\ queue'["mgr"] = <<>>,
           Expects("mgr")' => (Asks("mgr")' = {} \/ queue'["mgr"] = <<>>) /\ Len(queue'["mgr"]) <= 1,
           Kinds', Drafts', Parked', Serves', Single'
    PROVE  KInv'
<1>1. \A x \in Job : Asks(x) = {} => Asks(x)' = {}
  BY DEF Asks
<1>2. Answered'
  <2> SUFFICES ASSUME NEW x \in Asker
               PROVE  /\ Resting(x)' => Asks(x)' = {} /\ queue'[x] = <<>>
                      /\ Expects(x)' => (Asks(x)' = {} \/ queue'[x] = <<>>) /\ Len(queue'[x]) <= 1
    BY DEF Answered
  <2>1. CASE x = "mgr"
    BY <2>1
  <2>2. CASE x # "mgr"
    <3>1. (Resting(x)' <=> Resting(x)) /\ (Expects(x)' <=> Expects(x)) /\ x \in Job
      BY <2>2 DEF Resting, Expects, Asker
    <3>2. /\ Resting(x) => Asks(x) = {} /\ queue[x] = <<>>
          /\ Expects(x) => (Asks(x) = {} \/ queue[x] = <<>>) /\ Len(queue[x]) <= 1
      BY DEF KInv, Answered
    <3> QED
      BY <1>1, <3>1, <3>2
  <2> QED
    BY <2>1, <2>2
<1>3. \A j \in Job : job[j].pc \notin DeadPc
  BY DEF KInv, Killed
<1>4. Killed'
  BY <1>3 DEF KInv, Killed, KillPc, DeadPc
<1>5. Removed'
  <2>1. \A j \in Job : job'[j].pc = "gone" => Asks(j)' = {}
    BY <1>1 DEF KInv, Removed
  <2>2. mgr'.pc \notin {"killing", "aborting"}
    BY DEF KillPc
  <2>3. svc'.rq2 \in RQB => rqb'[svc'.rq2].ServiceCode # "abort"
    <3>1. Held(svc.rq2)'
      BY DEF Held, Hand, Holds, Shelf
    <3> QED
      BY <2>2, <3>1 DEF Kinds
  <2> QED
    BY <2>1, <2>2, <2>3 DEF Removed
<1> QED
  BY <1>2, <1>4, <1>5 DEF KInv

\* The requests of the manager for itself.
LEMMA MgrAsksKInv ==
    ASSUME IInv, KInv, mgr.pc \in {"idle", "awake"}, NEW code \in {"global", "assign"},
           NEW data \in Job \cup {None}, RequestFor(code, "mgr", data),
           NEW pc \in {"global", "assigning"}, mgr' = IdleTask(pc), UNCHANGED <<svc, job>>
    PROVE  KInv'
<1>1. mgr'.pc = pc /\ mgr.pc \notin KillPc /\ mgr'.pc \notin KillPc
  BY DEF IdleTask, KillPc
<1>2. ~Resting("mgr")' /\ "mgr" \in Asker /\ "mgr" \notin Job
  BY <1>1, KeyboardAssumption DEF Resting, Asker
<1>3. Asks("mgr") = {} /\ queue["mgr"] = <<>>
  BY <1>2 DEF KInv, Answered, Resting
<1>4. \A h \in RQB : Held(h) => rqb[h].ServiceCode # "abort"
  BY NoAbort
<1>5. Len(<<>>) <= 1
  OBVIOUS
<1>6. CASE UNCHANGED rqVars
  <2>1. HeldOnly /\ BlocksKept /\ ShelvesKept
    BY <1>6, HeldFrom, HeldThere DEF BlocksKept, ShelvesKept, rqVars
  <2>2. Kinds' /\ Parked' /\ Serves' /\ Single' /\ AsksFewer
    BY <1>4, <2>1, OthersKeep
  <2>3. Drafts' /\ queue' = queue
    BY <1>6 DEF KInv, Drafts, rqVars
  <2>4. \A x \in Job : \A g \in RQB : g \in Asks(x)' => g \in Asks(x)
    BY <2>2 DEF AsksFewer, Asker
  <2> QED
    BY <1>1, <1>2, <1>3, <1>5, <2>2, <2>3, <2>4, MgrKeeps
<1>7. CASE TakeRQB(code, "mgr", None, data) /\ Send("main", Head(freeRQB), "request")
  <2>1. PICK h \in RQB :
            /\ ~Held(h)
            /\ rqb'[h] = [ServiceCode |-> code, RespExch |-> "mgr", RqOwnerJob |-> None, dData0 |-> data]
            /\ \A g \in RQB : Held(g)' /\ g # h => Held(g) /\ rqb'[g] = rqb[g]
            /\ \A x, g : g \in Asks(x)' /\ g # h => g \in Asks(x)
            /\ \A x \in Asker : queue'[x] = queue[x]
            /\ Parked' /\ Serves' /\ Drafts'
    <3>1. code \in Code
      BY DEF Code
    <3> QED
      BY <1>7, <3>1, RequestedBlock
  <2>2. \A x \in Job : \A g \in Asks(x)' : g # h /\ g \in Asks(x)
    BY <1>2, <2>1 DEF Asks
  <2>3. \A g \in Asks("mgr")' : g = h
    BY <1>3, <2>1
  <2>4. Kinds'
    BY <1>4, <2>1 DEF KInv, Kinds
  <2>5. Single'
    <3> SUFFICES ASSUME NEW x \in Asker PROVE \A g, f \in Asks(x)' : g = f
      BY DEF Single
    <3>1. CASE x = "mgr"
      BY <2>3, <3>1
    <3>2. CASE x # "mgr"
      BY <2>2, <3>2 DEF KInv, Single, Asker
    <3> QED
      BY <3>1, <3>2
  <2>6. queue'["mgr"] = <<>> /\ \A x \in Job : queue'[x] = queue[x]
    BY <1>2, <1>3, <2>1 DEF Asker
  <2> QED
    BY <1>1, <1>2, <1>5, <2>1, <2>2, <2>4, <2>5, <2>6, MgrKeeps
<1> QED
  BY <1>6, <1>7 DEF RequestFor

LEMMA MngrWokenKInv == ASSUME IInv, KInv, MngrWoken PROVE KInv'
<1>1. /\ mgr.pc \in {"global", "assigning"} /\ UNCHANGED <<rqb, svc, job>> /\ queue["mgr"] # <<>>
      /\ queue' = [queue EXCEPT !["mgr"] = Tail(@)]
      /\ mgr'.pc \in {"awake", "idle"}
  BY DEF MngrWoken, Take, IdleTask
<1>2. "mgr" \in Asker /\ "mgr" \notin Job
  BY KeyboardAssumption DEF Asker
<1>3. Asks("mgr") = {} /\ Len(queue["mgr"]) <= 1
  BY <1>1, <1>2 DEF KInv, Answered, Expects
<1>4. queue["mgr"] \in Seq(MsgAt("mgr")) /\ DOMAIN queue = Exch
  BY Names DEF IInv, Types, QueuesOK
<1>5. Tail(queue["mgr"]) = <<>>
  BY <1>1, <1>3, <1>4, LastTaken
<1>6. queue'["mgr"] = <<>> /\ \A x \in Exch : x # "mgr" => queue'[x] = queue[x]
  BY <1>1, <1>4, <1>5, Names
<1>7. ShelvesKept
  BY <1>6, Names DEF ShelvesKept
<1>8. HeldOnly /\ BlocksKept
  BY <1>1, <1>7, HeldFrom, HeldThere DEF BlocksKept, ShelvesKept
<1>9. Kinds' /\ Parked' /\ Serves' /\ Single' /\ AsksFewer
  BY <1>1, <1>7, <1>8, NoAbort, OthersKeep
<1>10. Drafts'
  BY <1>1 DEF KInv, Drafts
<1>11. \A x \in Job : queue'[x] = queue[x] /\ \A g \in RQB : g \in Asks(x)' => g \in Asks(x)
  BY <1>2, <1>6, <1>9, Names DEF AsksFewer, Asker
<1>12. Asks("mgr")' = {} /\ ~Expects("mgr")'
  BY <1>1, <1>2, <1>3, <1>9 DEF AsksFewer, Asks, Expects
<1>13. mgr.pc \notin KillPc /\ mgr'.pc \notin KillPc
  BY <1>1 DEF KillPc
<1> QED
  BY <1>1, <1>6, <1>9, <1>10, <1>11, <1>12, <1>13, MgrKeeps

LEMMA KillJobKInv ==
    ASSUME IInv, KInv, NEW j \in Job, KillJob(j)
    PROVE  KInv'
<1>1. /\ mgr.pc = "awake" /\ j \in Job \ {Monitor} /\ job[j].pc \notin {"gone", "dying", "asker"}
      /\ queue' = [queue EXCEPT ![j] = <<>>] /\ UNCHANGED <<rqb, svc>>
      /\ job' = [job EXCEPT ![j].pc = IF @ = "idle" THEN "dying" ELSE "asker"]
      /\ mgr'.pc = "freed" /\ mgr'.on = j
  BY DEF KillJob, DeAllocExch, Present, IdleTask
<1>2. DOMAIN queue = Exch /\ JobsOK /\ OneHolder
  BY DEF IInv, Types, QueuesOK
<1>3. queue'[j] = <<>> /\ \A x \in Exch \ {j} : queue'[x] = queue[x]
  BY <1>1, <1>2, Names
<1>4. ShelvesKept /\ \A x \in Asker \ {j} : queue'[x] = queue[x]
  BY <1>3, Names DEF ShelvesKept, Asker
<1>5. HeldOnly /\ BlocksKept
  BY <1>1, <1>4, HeldFrom, HeldThere DEF BlocksKept, ShelvesKept
<1>6. Kinds' /\ Parked' /\ Serves' /\ Single' /\ AbortLast' /\ AsksFewer
  BY <1>1, <1>4, <1>5, NoAbort, OthersKeep
<1>7. \A x \in Asker : Asks(x) = {} => Asks(x)' = {}
  BY <1>6 DEF AsksFewer, Asks
<1>8. /\ job'[j].pc \in DeadPc /\ job'[j].pc \notin {"idle", "send", "asked", "gone"}
      /\ \A l \in Job \ {j} : job'[l] = job[l]
  BY <1>1, <1>2 DEF JobsOK, DeadPc
<1>9. Drafts'
  BY <1>1, <1>8 DEF KInv, Drafts
<1>10. j # "mgr" /\ mgr.pc \notin KillPc /\ mgr'.pc \in KillPc
  BY <1>1, KeyboardAssumption DEF KillPc
<1>11. Answered'
  <2> SUFFICES ASSUME NEW x \in Asker
               PROVE  /\ Resting(x)' => Asks(x)' = {} /\ queue'[x] = <<>>
                      /\ Expects(x)' => (Asks(x)' = {} \/ queue'[x] = <<>>) /\ Len(queue'[x]) <= 1
    BY DEF Answered
  <2>1. CASE x = j
    BY <1>8, <1>10, <2>1 DEF Resting, Expects
  <2>2. CASE x # j
    <3>1. (Resting(x)' => Resting(x)) /\ (Expects(x)' => Expects(x)) /\ queue'[x] = queue[x]
      BY <1>1, <1>4, <1>8, <2>2 DEF Resting, Expects, Asker
    <3>2. /\ Resting(x) => Asks(x) = {} /\ queue[x] = <<>>
          /\ Expects(x) => (Asks(x) = {} \/ queue[x] = <<>>) /\ Len(queue[x]) <= 1
      BY DEF KInv, Answered
    <3> QED
      BY <1>7, <3>1, <3>2
  <2> QED
    BY <2>1, <2>2
<1>12. \A l \in Job : l # j => job[l].pc \notin DeadPc
  BY <1>10 DEF KInv, Killed
<1>13. Killed'
  <2>1. \A l \in Job : l = j \/ job'[l] = job[l]
    BY <1>8
  <2>2. \A l \in Job : job'[l].pc \in {"idle", "send", "asked", "asker", "dying", "gone"}
    BY <1>8, <2>1 DEF KInv, Killed, DeadPc
  <2>3. \A l \in Job : job'[l].pc \in DeadPc => l = j
    BY <1>8, <1>12
  <2>4. job'[Monitor].pc # "gone"
    BY <1>1, <1>8, KeyboardAssumption DEF KInv, Killed
  <2> QED
    BY <1>1, <1>8, <1>10, <2>2, <2>3, <2>4 DEF Killed, DeadPc, KillPc
<1>14. Removed'
  <2>1. \A l \in Job : job'[l].pc = "gone" => Asks(l)' = {}
    BY <1>7, <1>8 DEF KInv, Removed, Asker
  <2> QED
    BY <1>1, <1>6, <2>1 DEF Removed, AbortLast
<1> QED
  BY <1>6, <1>9, <1>11, <1>13, <1>14 DEF KInv

\* While a job dies, its exchange does not matter to those who ask.
LEMMA DyingKeeps ==
    ASSUME KInv, mgr.pc \in KillPc, mgr'.pc \in KillPc, mgr'.on = mgr.on, UNCHANGED job,
           \A x \in Asker \ {mgr.on} : queue'[x] = queue[x], AsksFewer,
           mgr'.pc \in {"killing", "aborting"} /\ queue'[mgr.on] # <<>> => Asks(mgr.on) = {}
    PROVE  /\ Answered' /\ Killed' /\ (AbortLast' => Removed')
<1>1. mgr.on \in Job \ {Monitor} /\ job[mgr.on].pc \in DeadPc /\ mgr.on # "mgr"
  BY KeyboardAssumption DEF KInv, Killed
<1>2. \A x \in Asker : Asks(x) = {} => Asks(x)' = {}
  BY DEF AsksFewer, Asks
<1>3. Answered'
  <2> SUFFICES ASSUME NEW x \in Asker
               PROVE  /\ Resting(x)' => Asks(x)' = {} /\ queue'[x] = <<>>
                      /\ Expects(x)' => (Asks(x)' = {} \/ queue'[x] = <<>>) /\ Len(queue'[x]) <= 1
    BY DEF Answered
  <2>1. CASE x = mgr.on
    BY <1>1, <2>1 DEF Resting, Expects, DeadPc
  <2>2. CASE x # mgr.on
    <3>1. (Resting(x)' <=> Resting(x)) /\ (Expects(x)' <=> Expects(x)) /\ queue'[x] = queue[x]
      BY <2>2 DEF Resting, Expects, Asker, KillPc
    <3>2. /\ Resting(x) => Asks(x) = {} /\ queue[x] = <<>>
          /\ Expects(x) => (Asks(x) = {} \/ queue[x] = <<>>) /\ Len(queue[x]) <= 1
      BY DEF KInv, Answered
    <3> QED
      BY <1>2, <3>1, <3>2
  <2> QED
    BY <2>1, <2>2
<1>4. Killed'
  BY <1>1 DEF KInv, Killed, DeadPc, KillPc
<1>5. ASSUME AbortLast' PROVE Removed'
  <2>1. \A l \in Job : job'[l].pc = "gone" => Asks(l)' = {}
    BY <1>2 DEF KInv, Removed, Asker
  <2>2. PICK x \in Asker : x = mgr.on
    BY <1>1 DEF Asker
  <2>3. mgr'.pc \in {"killing", "aborting"} /\ queue'[mgr'.on] # <<>> => Asks(x)' = {}
    BY <1>2, <2>2
  <2> QED
    BY <1>5, <2>1, <2>2, <2>3 DEF Removed, AbortLast
<1> QED
  BY <1>3, <1>4, <1>5

LEMMA KillExchKInv == ASSUME IInv, KInv, KillExch PROVE KInv'
<1>1. /\ mgr.pc = "freed" /\ queue' = [queue EXCEPT ![mgr.on] = <<>>] /\ UNCHANGED <<rqb, svc, job>>
      /\ mgr' = [mgr EXCEPT !.pc = "killing"] /\ mgr \in MgrType
  BY DEF KillExch, AllocExch, IInv, Types
<1>2. mgr'.pc = "killing" /\ mgr'.on = mgr.on /\ mgr.pc \in KillPc /\ mgr'.pc \in KillPc
  BY <1>1 DEF MgrType, KillPc
<1>3. mgr.on \in Job /\ DOMAIN queue = Exch
  BY <1>2 DEF KInv, Killed, IInv, Types, QueuesOK
<1>4. queue'[mgr.on] = <<>> /\ \A x \in Exch \ {mgr.on} : queue'[x] = queue[x]
  BY <1>1, <1>3, Names
<1>5. ShelvesKept /\ \A x \in Asker \ {mgr.on} : queue'[x] = queue[x]
  BY <1>3, <1>4, Names DEF ShelvesKept, Asker
<1>6. HeldOnly /\ BlocksKept
  BY <1>1, <1>5, HeldFrom, HeldThere DEF BlocksKept, ShelvesKept
<1>7. Kinds' /\ Parked' /\ Serves' /\ Single' /\ AbortLast' /\ AsksFewer
  BY <1>1, <1>5, <1>6, NoAbort, OthersKeep
<1>8. Drafts'
  BY <1>1 DEF KInv, Drafts
<1>9. Answered' /\ Killed' /\ Removed'
  BY <1>1, <1>2, <1>4, <1>5, <1>7, DyingKeeps
<1> QED
  BY <1>7, <1>8, <1>9 DEF KInv

LEMMA SendAbortKInv == ASSUME IInv, KInv, SendAbort PROVE KInv'
<1>1. /\ mgr.pc = "killing" /\ RequestFor("abort", mgr.on, mgr.on) /\ UNCHANGED <<svc, job>>
      /\ mgr \in MgrType
  BY DEF SendAbort, IInv, Types
<1>2. mgr'.pc = "aborting" /\ mgr'.on = mgr.on /\ mgr.pc \in KillPc /\ mgr'.pc \in KillPc
  BY <1>1 DEF SendAbort, MgrType, KillPc
<1>3. PICK j \in Job : j = mgr.on
  BY <1>2 DEF KInv, Killed
<1>4. queue[j] # <<>> => Asks(j) = {}
  BY <1>1, <1>3 DEF KInv, Removed
<1>5. CASE UNCHANGED rqVars
  <2>1. HeldOnly /\ BlocksKept /\ ShelvesKept /\ queue' = queue
    BY <1>1, <1>5, HeldFrom, HeldThere DEF BlocksKept, ShelvesKept, rqVars
  <2>2. Kinds' /\ Parked' /\ Serves' /\ Single' /\ AbortLast' /\ AsksFewer
    BY <1>1, <2>1, NoAbort, OthersKeep
  <2>3. Drafts'
    BY <1>1, <1>5 DEF KInv, Drafts, rqVars
  <2>4. Answered' /\ Killed' /\ Removed'
    BY <1>1, <1>2, <1>3, <1>4, <2>1, <2>2, DyingKeeps
  <2> QED
    BY <2>2, <2>3, <2>4 DEF KInv
<1>6. CASE TakeRQB("abort", j, None, j) /\ Send("main", Head(freeRQB), "request")
  <2>1. PICK h \in RQB :
            /\ ~Held(h)
            /\ rqb'[h] = [ServiceCode |-> "abort", RespExch |-> j, RqOwnerJob |-> None, dData0 |-> j]
            /\ \A g \in RQB : Held(g)' /\ g # h => Held(g) /\ rqb'[g] = rqb[g]
            /\ \A x, g : g \in Asks(x)' /\ g # h => g \in Asks(x)
            /\ \A x \in Asker : queue'[x] = queue[x]
            /\ \A g : InQueue(queue'["main"], g) => InQueue(queue["main"], g) \/ g = h
            /\ Parked' /\ Serves' /\ Drafts'
    <3>1. "abort" \in Code
      BY DEF Code
    <3> QED
      BY <1>1, <1>6, <3>1, RequestedBlock
  <2>2. \A x : \A g \in Asks(x)' : g \in Asks(x)
    BY <2>1 DEF Asks
  <2>3. AsksFewer /\ Single'
    BY <2>2 DEF AsksFewer, KInv, Single
  <2>4. Kinds'
    BY <1>1, <1>2, <1>3, <2>1, NoAbort DEF KInv, Kinds
  <2>5. AbortLast'
    <3>1. svc.rq2 \in RQB => svc.rq2 # h /\ Held(svc.rq2) /\ Held(svc.rq2)'
      BY <1>1, <2>1, HeldThere DEF Held, Hand, Holds, Shelf
    <3> QED
      BY <1>1, <2>1, <3>1, NoAbort DEF AbortLast
  <2>6. queue'[j] = queue[j]
    BY <2>1 DEF Asker
  <2>7. Answered' /\ Killed' /\ Removed'
    BY <1>1, <1>2, <1>3, <1>4, <2>1, <2>3, <2>5, <2>6, DyingKeeps
  <2> QED
    BY <2>1, <2>3, <2>4, <2>7 DEF KInv
<1> QED
  BY <1>1, <1>3, <1>5, <1>6 DEF RequestFor

\* A message is in the queue that is made of two when it is in one of them.
LEMMA InConcat ==
    ASSUME NEW S, NEW s \in Seq(S), NEW t \in Seq(S), NEW h, InQueue(s, h) \/ InQueue(t, h)
    PROVE  InQueue(s \o t, h)
<1>1. Len(s) \in Nat /\ Len(t) \in Nat /\ Len(s \o t) = Len(s) + Len(t)
  OBVIOUS
<1>2. CASE InQueue(s, h)
  <2>1. PICK i \in DOMAIN s : s[i].h = h
    BY <1>2 DEF InQueue
  <2>2. i \in DOMAIN (s \o t) /\ (s \o t)[i] = s[i]
    BY <1>1
  <2> QED
    BY <2>1, <2>2 DEF InQueue
<1>3. CASE InQueue(t, h)
  <2>1. PICK i \in DOMAIN t : t[i].h = h
    BY <1>3 DEF InQueue
  <2>2. Len(s) + i \in DOMAIN (s \o t) /\ (s \o t)[Len(s) + i] = t[i]
    BY <1>1
  <2> QED
    BY <2>1, <2>2 DEF InQueue
<1> QED
  BY <1>2, <1>3

\* An abort that the service has is not answered.
LEMMA HeldUnanswered ==
    ASSUME IInv, ~Unanswered
    PROVE  \A h \in RQB : Held(h) => rqb[h].ServiceCode # "abort"
<1> DEFINE mw == queue["main"] \o queue["wait"]
           mh == mw \o queue["hold"]
<1> SUFFICES ASSUME NEW h \in RQB, Held(h), rqb[h].ServiceCode = "abort" PROVE FALSE
  OBVIOUS
<1>1. PICK k \in Hand : Holds(k, h)
  BY DEF Held
<1>2. h \notin {svc.rq, svc.rq2} /\ ~InQueue(Queued, h)
  BY DEF Unanswered, InQueue
<1>3. k \in Shelf /\ InQueue(queue[k], h)
  BY <1>1, <1>2 DEF Holds, Hand, Shelf
<1>4. \A e \in Shelf : queue[e] \in Seq(Msg)
  <2>1. \A e \in Shelf : queue[e] \in Seq(MsgAt(e)) /\ MsgAt(e) \subseteq Msg
    BY Names DEF IInv, Types, QueuesOK
  <2>2. \A S \in SUBSET Msg : \A s \in Seq(S) : s \in Seq(Msg)
    OBVIOUS
  <2> QED
    BY <2>1, <2>2
<1>5. mw \in Seq(Msg) /\ (k \in {"main", "wait"} => InQueue(mw, h))
  BY <1>3, <1>4, InConcat DEF Shelf
<1> HIDE DEF mw
<1>6. mh \in Seq(Msg) /\ (k \in {"main", "wait", "hold"} => InQueue(mh, h))
  BY <1>3, <1>4, <1>5, InConcat DEF Shelf
<1>7. Queued = mh \o queue["glob"]
  BY DEF Queued, mh, mw
<1> HIDE DEF mh
<1>8. InQueue(Queued, h)
  BY <1>3, <1>4, <1>6, <1>7, InConcat DEF Shelf
<1> QED
  BY <1>2, <1>8

LEMMA SendAbortEndKInv ==
    ASSUME IInv, KInv, SendAbortEnd, mgr'.pc = "idle" => ~Unanswered
    PROVE  KInv'
<1>1. mgr.pc = "aborting" /\ queue[mgr.on] # <<>> /\ UNCHANGED <<rqb, svc>> /\ mgr.pc \in KillPc
  BY DEF SendAbortEnd, DeAllocExch, Take, KillPc
<1>2. PICK j \in Job \ {Monitor} : j = mgr.on
  BY <1>1 DEF KInv, Killed
<1>3. Asks(j) = {} /\ job[j].pc \in DeadPc /\ j # "mgr"
  BY <1>1, <1>2, KeyboardAssumption DEF KInv, Killed, Removed
<1>4. mgr'.pc = "idle" => \A h \in RQB : Held(h) => rqb[h].ServiceCode # "abort"
  BY HeldUnanswered
<1>5. UNCHANGED mgr \/ mgr'.pc = "idle"
  BY DEF SendAbortEnd, IdleTask
<1>6. DOMAIN queue = Exch /\ JobsOK
  BY DEF IInv, Types, QueuesOK
<1>7. ASSUME NEW s, queue' = [queue EXCEPT ![j] = s]
      PROVE  /\ queue'[j] = s /\ ShelvesKept /\ \A x \in Asker \ {j} : queue'[x] = queue[x]
             /\ Kinds' /\ Parked' /\ Serves' /\ Single' /\ AbortLast' /\ AsksFewer
  <2>1. queue'[j] = s /\ \A x \in Exch \ {j} : queue'[x] = queue[x]
    BY <1>6, <1>7, Names
  <2>2. ShelvesKept /\ \A x \in Asker \ {j} : queue'[x] = queue[x]
    BY <2>1, Names DEF ShelvesKept, Asker
  <2>3. HeldOnly /\ BlocksKept
    BY <1>1, <2>2, HeldFrom, HeldThere DEF BlocksKept, ShelvesKept
  <2> QED
    BY <1>1, <1>4, <1>5, <2>1, <2>2, <2>3, OthersKeep
<1>8. CASE Take(j) /\ UNCHANGED <<job, mgr>>
  <2>1. queue' = [queue EXCEPT ![j] = Tail(queue[j])]
    BY <1>8 DEF Take
  <2>2. /\ ShelvesKept /\ \A x \in Asker \ {j} : queue'[x] = queue[x]
        /\ Kinds' /\ Parked' /\ Serves' /\ Single' /\ AbortLast' /\ AsksFewer
    BY <1>7, <2>1
  <2>3. Drafts'
    BY <1>1, <1>8 DEF KInv, Drafts
  <2>4. Answered' /\ Killed' /\ Removed'
    BY <1>1, <1>2, <1>3, <1>8, <2>2, DyingKeeps
  <2> QED
    BY <2>2, <2>3, <2>4 DEF KInv
<1>9. CASE /\ DeAllocExch(j) /\ mgr' = IdleTask("idle")
           /\ job' = [job EXCEPT ![j] = [IdleJob EXCEPT !.pc = "gone"]]
  <2>1. queue' = [queue EXCEPT ![j] = <<>>] /\ mgr'.pc = "idle"
    BY <1>9 DEF DeAllocExch, IdleTask
  <2>2. /\ \A x \in Asker \ {j} : queue'[x] = queue[x]
        /\ Kinds' /\ Parked' /\ Serves' /\ Single' /\ AbortLast' /\ AsksFewer
    BY <1>7, <2>1
  <2>3. job'[j].pc = "gone" /\ \A l \in Job \ {j} : job'[l] = job[l]
    BY <1>6, <1>9 DEF JobsOK, IdleJob
  <2>4. Drafts'
    BY <1>1, <2>3 DEF KInv, Drafts
  <2>5. \A x \in Asker : Asks(x) = {} => Asks(x)' = {}
    BY <2>2 DEF AsksFewer, Asks
  <2>6. Answered'
    <3> SUFFICES ASSUME NEW x \in Asker
                 PROVE  /\ Resting(x)' => Asks(x)' = {} /\ queue'[x] = <<>>
                        /\ Expects(x)' => (Asks(x)' = {} \/ queue'[x] = <<>>) /\ Len(queue'[x]) <= 1
      BY DEF Answered
    <3>1. CASE x = j
      BY <1>3, <2>3, <3>1 DEF Resting, Expects
    <3>2. CASE x # j
      <4>1. (Resting(x)' <=> Resting(x)) /\ (Expects(x)' <=> Expects(x)) /\ queue'[x] = queue[x]
        BY <1>1, <2>1, <2>2, <2>3, <3>2 DEF Resting, Expects, Asker
      <4>2. /\ Resting(x) => Asks(x) = {} /\ queue[x] = <<>>
            /\ Expects(x) => (Asks(x) = {} \/ queue[x] = <<>>) /\ Len(queue[x]) <= 1
        BY DEF KInv, Answered
      <4> QED
        BY <2>5, <4>1, <4>2
    <3> QED
      BY <3>1, <3>2
  <2>7. \A l \in Job : job'[l].pc \notin DeadPc
    <3>1. job'[j].pc \notin DeadPc
      BY <2>3 DEF DeadPc
    <3>2. \A l \in Job \ {j} : job[l].pc \notin DeadPc
      BY <1>2 DEF KInv, Killed
    <3> QED
      BY <2>3, <3>1, <3>2
  <2>8. Killed'
    <3>1. \A l \in Job : l = j \/ job'[l] = job[l]
      BY <2>3
    <3>2. \A l \in Job : job'[l].pc \in {"idle", "send", "asked", "asker", "dying", "gone"}
      BY <2>3, <3>1 DEF KInv, Killed
    <3>3. job'[Monitor].pc # "gone"
      BY <1>2, <2>3, KeyboardAssumption DEF KInv, Killed
    <3> QED
      BY <2>1, <2>7, <3>2, <3>3 DEF Killed, DeadPc, KillPc
  <2>9. Removed'
    <3>1. \A l \in Job : job'[l].pc = "gone" => Asks(l)' = {}
      <4> SUFFICES ASSUME NEW l \in Job, job'[l].pc = "gone" PROVE Asks(l)' = {}
        OBVIOUS
      <4>1. Asks(l) = {} /\ l \in Asker
        BY <1>3, <2>3 DEF KInv, Removed, Asker
      <4> QED
        BY <2>5, <4>1
    <3> QED
      BY <2>1, <2>2, <2>7, <3>1 DEF Removed, AbortLast, DeadPc
  <2> QED
    BY <2>2, <2>4, <2>6, <2>8, <2>9 DEF KInv
<1> QED
  BY <1>2, <1>8, <1>9 DEF SendAbortEnd

-----------------------------------------------------------------------------
(* The abort comes after the requests of the job that dies. *)

LEMMA AheadNone ==
    ASSUME KInv', mgr'.pc # "aborting"
    PROVE  Ahead'
<1>1. \A h \in RQB : Held(h)' => rqb'[h].ServiceCode # "abort"
  BY DEF KInv, Kinds
<1>2. /\ \A i \in DOMAIN queue'["main"] : \A h \in RQB : h = queue'["main"][i].h => Held(h)'
      /\ \A h \in RQB : h = svc'.rq \/ h = svc'.rq2 => Held(h)'
  BY DEF Held, Hand, Holds, Shelf, InQueue
<1> QED
  BY <1>1, <1>2 DEF Ahead, IsAbort

\* No request of that job comes to the exchange, and no abort to the service.
LEMMA AheadKept ==
    ASSUME IInv, Ahead, mgr'.on = mgr.on,
           \/ queue'["main"] = queue["main"]
           \/ \E m \in Msg : queue'["main"] = Append(queue["main"], m) /\ ~OfDead(m.h)',
           \A h \in RQB : InQueue(queue["main"], h) => rqb'[h] = rqb[h],
           IsAbort(svc.rq)' \/ IsAbort(svc.rq2)' => IsAbort(svc.rq) \/ IsAbort(svc.rq2)
    PROVE  Ahead'
<1>1. PICK q \in Seq(Msg) : q = queue["main"]
  BY Names DEF IInv, Types, QueuesOK
<1>2. \A i \in DOMAIN q : (IsAbort(q[i].h)' <=> IsAbort(q[i].h)) /\ (OfDead(q[i].h)' <=> OfDead(q[i].h))
  BY <1>1 DEF IsAbort, OfDead, InQueue
<1>3. /\ \A i, k \in DOMAIN q : IsAbort(q[i].h) /\ OfDead(q[k].h) => k < i
      /\ IsAbort(svc.rq) \/ IsAbort(svc.rq2) => \A k \in DOMAIN q : ~OfDead(q[k].h)
  BY <1>1 DEF Ahead
<1>4. CASE queue'["main"] = q
  <2>1. \A i, k \in DOMAIN q : IsAbort(q[i].h)' /\ OfDead(q[k].h)' => k < i
    BY <1>2, <1>3
  <2>2. IsAbort(svc.rq)' \/ IsAbort(svc.rq2)' => \A k \in DOMAIN q : ~OfDead(q[k].h)'
    BY <1>2, <1>3
  <2> QED
    BY <1>4, <2>1, <2>2 DEF Ahead
<1>5. ASSUME NEW m \in Msg, queue'["main"] = Append(q, m), ~OfDead(m.h)' PROVE Ahead'
  <2>1. PICK n \in Nat : n = Len(q) /\ DOMAIN q = 1 .. n
    OBVIOUS
  <2>2. PICK s : s = queue'["main"]
    OBVIOUS
  <2>3. DOMAIN s = 1 .. n + 1 /\ s[n + 1] = m /\ \A i \in 1 .. n : s[i] = q[i]
    BY <1>5, <2>1, <2>2
  <2>4. \A k \in DOMAIN s : OfDead(s[k].h)' => k \in 1 .. n /\ OfDead(q[k].h)
    <3> SUFFICES ASSUME NEW k \in DOMAIN s, OfDead(s[k].h)' PROVE k \in 1 .. n /\ OfDead(q[k].h)
      OBVIOUS
    <3>1. k # n + 1
      BY <1>5, <2>3
    <3>2. k \in 1 .. n /\ s[k] = q[k]
      BY <2>3, <3>1
    <3> QED
      BY <1>2, <2>1, <3>2
  <2>5. \A i, k \in DOMAIN s : IsAbort(s[i].h)' /\ OfDead(s[k].h)' => k < i
    <3> SUFFICES ASSUME NEW i \in DOMAIN s, NEW k \in DOMAIN s, IsAbort(s[i].h)', OfDead(s[k].h)'
                 PROVE  k < i
      OBVIOUS
    <3>1. k \in 1 .. n /\ OfDead(q[k].h)
      BY <2>4
    <3>2. CASE i = n + 1
      BY <3>1, <3>2
    <3>3. CASE i # n + 1
      <4>1. i \in 1 .. n /\ s[i] = q[i]
        BY <2>3, <3>3
      <4>2. IsAbort(q[i].h)
        BY <1>2, <2>1, <4>1
      <4> QED
        BY <1>3, <2>1, <3>1, <4>1, <4>2
    <3> QED
      BY <3>2, <3>3
  <2>6. IsAbort(svc.rq)' \/ IsAbort(svc.rq2)' => \A k \in DOMAIN s : ~OfDead(s[k].h)'
    BY <1>3, <2>1, <2>4
  <2> QED
    BY <2>2, <2>5, <2>6 DEF Ahead
<1> QED
  BY <1>1, <1>4, <1>5

\* What Send does at the exchange of the service.
LEMMA SendMainEnd ==
    ASSUME QueuesOK, NEW h \in RQB \cup {ISR}, NEW erc \in Erc, Send("main", h, erc)
    PROVE  \/ queue'["main"] = queue["main"]
           \/ \E m \in Msg : m.h = h /\ queue'["main"] = Append(queue["main"], m)
<1> DEFINE m == [h |-> h, erc |-> erc]
<1>1. m \in Msg /\ m.h = h
  BY DEF Msg
<1>2. "main" \in DOMAIN queue
  BY Names DEF QueuesOK
<1>3. queue' = queue \/ queue'["main"] = Append(queue["main"], m)
  BY <1>2 DEF Send
<1> QED
  BY <1>1, <1>3

\* While SendAbort waits, no assignment is being served.
LEMMA NoAssign ==
    ASSUME IInv, KInv, mgr.pc = "aborting", NEW h \in RQB, Held(h)
    PROVE  rqb[h].ServiceCode # "assign"
<1> SUFFICES ASSUME rqb[h].ServiceCode = "assign" PROVE FALSE
  OBVIOUS
<1>1. h \in Asks("mgr")
  BY DEF KInv, Kinds, Asks
<1>2. ~Resting("mgr")
  BY <1>1, AskerWaits DEF Asker
<1> QED
  BY <1>2 DEF Resting

LEMMA WaitMainAhead == ASSUME IInv, Ahead, WaitMain PROVE Ahead'
<1>1. UNCHANGED <<mgr, rqb>> /\ queue["main"] # <<>> /\ queue' = [queue EXCEPT !["main"] = Tail(@)]
  BY DEF WaitMain, Take
<1>2. PICK q \in Seq(Msg) : q = queue["main"]
  BY Names DEF IInv, Types, QueuesOK
<1>3. PICK n \in Nat : n + 1 = Len(q) /\ DOMAIN q = 1 .. n + 1
  <2>1. q # <<>> /\ Len(q) \in Nat /\ DOMAIN q = 1 .. Len(q)
    BY <1>1, <1>2
  <2>2. Len(q) # 0
    BY <2>1
  <2>3. Len(q) - 1 \in Nat /\ (Len(q) - 1) + 1 = Len(q)
    BY <2>1, <2>2
  <2> QED
    BY <2>1, <2>3
<1>4. PICK s : s = queue'["main"]
  OBVIOUS
<1>5. s = Tail(q)
  BY <1>1, <1>2, <1>4, Names DEF IInv, Types, QueuesOK
<1>6. DOMAIN s = 1 .. n /\ \A i \in 1 .. n : i + 1 \in DOMAIN q /\ s[i] = q[i + 1]
  BY <1>2, <1>3, <1>5
<1>7. svc'.rq2 = None /\ (svc'.rq = None \/ svc'.rq = q[1].h)
  <2>1. Head(q) = q[1]
    BY <1>3
  <2> QED
    BY <1>2, <2>1 DEF WaitMain, First, Goto, Service
<1>8. /\ \A h : (IsAbort(h)' <=> IsAbort(h)) /\ (OfDead(h)' <=> OfDead(h))
      /\ \A i, k \in DOMAIN q : IsAbort(q[i].h) /\ OfDead(q[k].h) => k < i
  BY <1>1, <1>2 DEF Ahead, IsAbort, OfDead
<1>9. \A i, k \in DOMAIN s : IsAbort(s[i].h)' /\ OfDead(s[k].h)' => k < i
  <2> SUFFICES ASSUME NEW i \in 1 .. n, NEW k \in 1 .. n, IsAbort(q[i + 1].h), OfDead(q[k + 1].h)
               PROVE  k < i
    BY <1>6, <1>8
  <2>1. k + 1 < i + 1
    BY <1>6, <1>8
  <2> QED
    BY <2>1
<1>10. IsAbort(q[1].h) => \A k \in DOMAIN s : ~OfDead(s[k].h)
  <2> SUFFICES ASSUME IsAbort(q[1].h), NEW k \in 1 .. n, OfDead(q[k + 1].h) PROVE FALSE
    BY <1>6
  <2>1. 1 \in DOMAIN q
    BY <1>3
  <2>2. k + 1 < 1
    BY <1>6, <1>8, <2>1
  <2> QED
    BY <2>2
<1>11. IsAbort(svc.rq)' \/ IsAbort(svc.rq2)' => \A k \in DOMAIN s : ~OfDead(s[k].h)'
  <2>1. ~IsAbort(None)
    BY Names DEF IsAbort
  <2> QED
    BY <1>7, <1>8, <1>10, <2>1
<1> QED
  BY <1>4, <1>9, <1>11 DEF Ahead

\* What an abort moves back is not of the job that it is for.
LEMMA SiftMoveAhead == ASSUME IInv, KInv, Ahead, mgr.pc = "aborting", SiftMove PROVE Ahead'
<1>1. svc.pc = "sifted" /\ svc' = [Service(svc.then) EXCEPT !.rq = svc.rq] /\ UNCHANGED mgr
  BY DEF SiftMove
<1>2. svc'.rq = svc.rq /\ svc'.rq2 = None
  BY <1>1 DEF Service
<1>3. PICK r \in RQB, h \in RQB : r = svc.rq /\ h = svc.rq2
  BY <1>1, SvcAt
<1>4. Held(r) /\ Held(h) /\ rqb[r].ServiceCode = svc.then /\ svc.then \in {"assign", "abort"}
  BY <1>1, <1>3, HeldThere, SvcAt DEF KInv, Serves
<1>5. rqb[r].ServiceCode = "abort" /\ rqb[r].dData0 = mgr.on
  BY <1>4, NoAssign, AbortHeld
<1>6. IsAbort(svc.rq)
  BY <1>3, <1>5 DEF IsAbort
<1>7. CASE rqb[h].RqOwnerJob = mgr.on
  <2>1. DisposeRQB(h) /\ UNCHANGED queue
    BY <1>3, <1>4, <1>5, <1>7 DEF SiftMove, RespondAbort
  <2>2. \A g \in RQB : InQueue(queue["main"], g) => g # h
    BY <1>3 DEF IInv, OneHolder, Holds, Holder, Shelf
  <2>3. \A g \in RQB : InQueue(queue["main"], g) => rqb'[g] = rqb[g]
    BY <2>1, <2>2 DEF DisposeRQB, IInv, Types, RqbsOK
  <2> QED
    BY <1>1, <1>6, <2>1, <2>3, AheadKept
<1>8. CASE rqb[h].RqOwnerJob # mgr.on
  <2>1. MoveRequest(h, "main")
    BY <1>3, <1>4, <1>5, <1>8 DEF SiftMove
  <2>2. UNCHANGED rqb /\ Send("main", h, "moved") /\ "moved" \in Erc /\ QueuesOK
    BY <2>1 DEF MoveRequest, Erc, IInv, Types
  <2>3. ~OfDead(h)'
    BY <1>1, <1>8, <2>2 DEF OfDead
  <2>4. \/ queue'["main"] = queue["main"]
        \/ \E m \in Msg : m.h = h /\ queue'["main"] = Append(queue["main"], m)
    BY <2>2, SendMainEnd
  <2> QED
    BY <1>1, <1>6, <2>2, <2>3, <2>4, AheadKept
<1> QED
  BY <1>7, <1>8

\* What the service takes from the other exchanges is no abort.
LEMMA TakenAway ==
    ASSUME IInv, KInv, NEW e \in {"wait", "hold", "glob"}, Take(e)
    PROVE  queue'["main"] = queue["main"] /\ UNCHANGED rqb /\ ~IsAbort(Head(queue[e]).h)
<1>1. QueuesOK /\ ListedOnce /\ e \in Shelf /\ UNCHANGED rqb
  BY DEF IInv, Types, Take, Shelf
<1>2. PICK m : m = Head(queue[e])
  OBVIOUS
<1>3. InQueue(queue[e], m.h)
  BY <1>1, <1>2, TakeShelf
<1>4. ~IsAbort(m.h)
  BY <1>3 DEF KInv, Parked, IsAbort
<1>5. queue'["main"] = queue["main"]
  BY <1>1, Names DEF Take, QueuesOK
<1> QED
  BY <1>1, <1>2, <1>4, <1>5

LEMMA ServiceAhead ==
    ASSUME IInv, KInv, Ahead, mgr.pc = "aborting", KBDServiceTask
    PROVE  Ahead'
<1>1. QueuesOK /\ RqbsOK /\ ListedOnce /\ OneHolder /\ svc \in SvcType /\ None \notin RQB
  BY SvcAt, Names DEF IInv, Types
<1>2. ~IsAbort(None)'
  BY <1>1 DEF IsAbort
<1>3. ASSUME UNCHANGED <<queue, rqb, mgr>>, svc'.rq \in {svc.rq, None}, svc'.rq2 \in {svc.rq, svc.rq2, None}
      PROVE  Ahead'
  <2>1. IsAbort(svc.rq)' \/ IsAbort(svc.rq2)' => IsAbort(svc.rq) \/ IsAbort(svc.rq2)
    BY <1>1, <1>3 DEF IsAbort
  <2> QED
    BY <1>3, <2>1, AheadKept
<1>4. ASSUME NEW e \in {"wait", "hold", "glob"}, Take(e), UNCHANGED mgr,
             svc'.rq \in {svc.rq, None, Head(queue[e]).h}, svc'.rq2 \in {None, Head(queue[e]).h}
      PROVE  Ahead'
  <2>1. queue'["main"] = queue["main"] /\ UNCHANGED rqb /\ ~IsAbort(Head(queue[e]).h)
    BY <1>4, TakenAway
  <2>2. IsAbort(svc.rq)' \/ IsAbort(svc.rq2)' => IsAbort(svc.rq) \/ IsAbort(svc.rq2)
    BY <1>1, <1>4, <2>1 DEF IsAbort
  <2> QED
    BY <1>4, <2>1, <2>2, AheadKept
<1>5. CASE Top \/ ReadKey \/ ReadNone
  <2>1. UNCHANGED <<queue, rqb, mgr>>
    BY <1>5 DEF Top, ReadKey, ReadNone, rqVars
  <2>2. CASE Top
    BY <1>3, <2>1, <2>2 DEF Top, Goto, Service
  <2>3. CASE ReadKey
    BY <1>3, <2>1, <2>3 DEF ReadKey, Answer, Service
  <2>4. CASE ReadNone
    BY <1>3, <2>1, <2>4 DEF ReadNone, Answer, Service
  <2> QED
    BY <1>5, <2>2, <2>3, <2>4
<1>6. CASE AliasMem \/ AbortJob
  <2>1. UNCHANGED <<queue, rqb, mgr>> /\ \E pc : svc' = [svc EXCEPT !.pc = pc]
    BY <1>6 DEF AliasMem, AbortJob, rqVars
  <2> QED
    BY <1>1, <1>3, <2>1 DEF SvcType
<1>7. CASE AssignKBD
  <2>1. CASE Answer(svc.rq, "ok", "top")
    BY <1>3, <1>7, <2>1 DEF AssignKBD, Answer, Service, rqVars
  <2>2. CASE svc' = [svc EXCEPT !.pc = "assign"]
    BY <1>1, <1>3, <1>7, <2>2 DEF AssignKBD, SvcType, rqVars
  <2> QED
    BY <1>7, <2>1, <2>2 DEF AssignKBD
<1>8. CASE CheckResp
  <2>1. CASE Goto(svc.then)
    BY <1>3, <1>8, <2>1 DEF CheckResp, Goto, Service, rqVars
  <2>2. CASE \E pc : svc' = [svc EXCEPT !.pc = pc]
    BY <1>1, <1>3, <1>8, <2>2 DEF CheckResp, SvcType, rqVars
  <2> QED
    BY <1>8, <2>1, <2>2 DEF CheckResp
<1>9. CASE Global1
  <2>1. CASE Take("glob") /\ Answer(Head(queue["glob"]).h, "ok", "glob")
    BY <1>4, <1>9, <2>1 DEF Global1, Answer, Service
  <2>2. CASE Goto("top") /\ UNCHANGED rqVars
    BY <1>3, <1>9, <2>2 DEF Global1, Goto, Service, rqVars
  <2> QED
    BY <1>9, <2>1, <2>2 DEF Global1
<1>10. CASE CheckWait
  <2>1. CASE Take("wait") /\ svc' = [Service("rq") EXCEPT !.rq = Head(queue["wait"]).h]
    <3>1. svc'.rq = Head(queue["wait"]).h /\ svc'.rq2 = None
      BY <2>1 DEF Service
    <3> QED
      BY <1>4, <1>10, <2>1, <3>1 DEF CheckWait
  <2>2. CASE Goto("top") /\ UNCHANGED rqVars
    BY <1>3, <1>10, <2>2 DEF CheckWait, Goto, Service, rqVars
  <2> QED
    BY <1>10, <2>1, <2>2 DEF CheckWait
<1>11. CASE Park
  <2>1. PICK e \in {"hold", "wait", "glob"} : MoveRequest(svc.rq, e)
    BY <1>11 DEF Park
  <2>2. UNCHANGED <<mgr, rqb>> /\ svc'.rq = None /\ svc'.rq2 = None /\ queue'["main"] = queue["main"]
    BY <1>1, <1>11, <2>1, Names DEF Park, MoveRequest, Send, Goto, Service, QueuesOK
  <2> QED
    BY <1>2, <2>2, AheadKept
<1>12. CASE Sift
  <2>1. PICK at : at = Sifted[svc.pc]
    OBVIOUS
  <2>2. at = <<"wait", "hold">> \/ at = <<"wait", "hold", "glob">>
    <3>1. svc.pc \in {"assign", "abort"}
      BY <1>12 DEF Sift
    <3> QED
      BY <2>1, <3>1 DEF Sifted
  <2>3. CASE Answer(svc.rq, "ok", "top") /\ UNCHANGED rqVars
    <3>1. UNCHANGED <<queue, rqb, mgr>>
      BY <1>12, <2>3 DEF Sift, rqVars
    <3>2. svc'.rq = None /\ svc'.rq2 = svc.rq
      BY <2>3 DEF Answer, Service
    <3> QED
      BY <1>3, <3>1, <3>2
  <2>4. ASSUME NEW i \in DOMAIN at, Take(at[i]),
               svc' = [svc EXCEPT !.then = svc.pc, !.pc = "sifted", !.rq2 = Head(queue[at[i]]).h]
        PROVE  Ahead'
    <3>1. at[i] \in {"wait", "hold", "glob"}
      BY <2>2
    <3>2. svc'.rq = svc.rq /\ svc'.rq2 = Head(queue[at[i]]).h
      BY <1>1, <2>4 DEF SvcType
    <3> QED
      BY <1>4, <1>12, <2>4, <3>1, <3>2 DEF Sift
  <2> QED
    BY <1>12, <2>1, <2>3, <2>4 DEF Sift
<1>13. CASE SendResp
  <2>1. PICK h \in RQB : h = svc.rq2
    BY <1>13, SvcAt DEF SendResp
  <2>2. svc'.rq = None /\ svc'.rq2 = None /\ UNCHANGED mgr /\ Respond(h, svc.erc)
    BY <1>13, <2>1 DEF SendResp, Goto, Service
  <2>3. rqb[h].RespExch \in Job \cup {"mgr", None} /\ svc.erc \in Erc
    BY <1>1, <2>1 DEF RqbsOK, SvcType
  <2>4. ShelvesKept
    BY <1>1, <2>2, <2>3, SendOther DEF Respond
  <2>5. \A g \in RQB : InQueue(queue["main"], g) => g # h
    BY <1>1, <2>1 DEF OneHolder, Holds, Holder, Shelf
  <2>6. \A g \in RQB : InQueue(queue["main"], g) => rqb'[g] = rqb[g]
    BY <1>1, <2>2, <2>5 DEF Respond, DisposeRQB, RqbsOK
  <2> QED
    BY <1>2, <2>2, <2>4, <2>6, AheadKept DEF ShelvesKept, Shelf
<1> QED
  BY <1>5, <1>6, <1>7, <1>8, <1>9, <1>10, <1>11, <1>12, <1>13, WaitMainAhead, SiftMoveAhead
  DEF KBDServiceTask

\* A job that is not being killed asks; and the ISR sends.
LEMMA OtherAhead ==
    ASSUME IInv, KInv, Ahead, mgr.pc = "aborting", UNCHANGED mgr,
           Jobs \/ SendAbortEnd \/ \E b : IntKeyBrd(b)
    PROVE  Ahead'
<1>1. QueuesOK /\ RqbsOK /\ JobsOK /\ ListedOnce /\ OneHolder /\ UNCHANGED svc
  BY DEF IInv, Types, Jobs, ReadKBD, ReadKBDSend, ReadKBDEnd, LoadJob, SendAbortEnd, IntKeyBrd
<1>2. mgr.on \in Job /\ job[mgr.on].pc \in DeadPc
  BY DEF KInv, Killed, KillPc
<1>3. ASSUME UNCHANGED rqb,
             \/ queue'["main"] = queue["main"]
             \/ \E m \in Msg : queue'["main"] = Append(queue["main"], m) /\ ~OfDead(m.h)
      PROVE  Ahead'
  <2>1. \A h : (IsAbort(h)' <=> IsAbort(h)) /\ (OfDead(h)' <=> OfDead(h))
    BY <1>3 DEF IsAbort, OfDead
  <2> QED
    BY <1>1, <1>3, <2>1, AheadKept
<1>4. ASSUME NEW e \in Job, NEW s, queue' = [queue EXCEPT ![e] = s], UNCHANGED rqb PROVE Ahead'
  BY <1>1, <1>3, <1>4, Names DEF QueuesOK
<1>5. ASSUME NEW j \in Job, ReadKBD(j) PROVE Ahead'
  <2>1. CASE UNCHANGED rqVars
    BY <1>3, <2>1 DEF rqVars
  <2>2. ASSUME NEW code, NewRQB(code, j, j, None) PROVE Ahead'
    <3>1. PICK h : h = Head(freeRQB)
      OBVIOUS
    <3>2. h \in RQB /\ InList(freeRQB, h)
      BY <1>1, <2>2, <3>1, ListTail DEF RqbsOK, NewRQB, TakeRQB
    <3>3. ~InQueue(queue["main"], h) /\ svc.rq # h /\ svc.rq2 # h
      BY <1>1, <3>2 DEF OneHolder, Holds, Holder, Shelf
    <3>4. UNCHANGED queue /\ \A g \in RQB : g # h => rqb'[g] = rqb[g]
      BY <1>1, <2>2, <3>1, <3>2 DEF RqbsOK, NewRQB, TakeRQB
    <3>5. IsAbort(svc.rq)' \/ IsAbort(svc.rq2)' => IsAbort(svc.rq) \/ IsAbort(svc.rq2)
      BY <1>1, <3>3, <3>4 DEF IsAbort
    <3> QED
      BY <3>3, <3>4, <3>5, AheadKept
  <2> QED
    BY <1>5, <2>1, <2>2 DEF ReadKBD
<1>6. ASSUME NEW j \in Job, ReadKBDSend(j) PROVE Ahead'
  <2>1. job[j].pc = "send" /\ j # mgr.on
    BY <1>2, <1>6 DEF ReadKBDSend, DeadPc
  <2>2. PICK h \in RQB : h = job[j].h
    BY <1>1, <2>1 DEF JobsOK
  <2>3. Send("main", h, "request") /\ "request" \in Erc /\ UNCHANGED rqb
    BY <1>6, <2>2 DEF ReadKBDSend, Request, Erc
  <2>4. ~OfDead(h)
    BY <2>1, <2>2 DEF KInv, Drafts, OfDead
  <2>5. \/ queue'["main"] = queue["main"]
        \/ \E m \in Msg : m.h = h /\ queue'["main"] = Append(queue["main"], m)
    BY <1>1, <2>3, SendMainEnd
  <2> QED
    BY <1>3, <2>3, <2>4, <2>5
<1>7. ASSUME NEW j \in Job, ReadKBDEnd(j) \/ LoadJob(j) PROVE Ahead'
  BY <1>4, <1>7 DEF ReadKBDEnd, LoadJob, Take, AllocExch
<1>8. CASE SendAbortEnd
  BY <1>2, <1>4, <1>8 DEF SendAbortEnd, DeAllocExch, Take
<1>9. ASSUME NEW b, IntKeyBrd(b) PROVE Ahead'
  <2>1. Send("main", ISR, "int") /\ "int" \in Erc /\ UNCHANGED rqb
    BY <1>9 DEF IntKeyBrd, Erc
  <2>2. ~OfDead(ISR)
    BY Names DEF OfDead
  <2>3. \/ queue'["main"] = queue["main"]
        \/ \E m \in Msg : m.h = ISR /\ queue'["main"] = Append(queue["main"], m)
    BY <1>1, <2>1, SendMainEnd
  <2> QED
    BY <1>3, <2>1, <2>2, <2>3
<1> QED
  BY <1>5, <1>6, <1>7, <1>8, <1>9 DEF Jobs

\* The abort itself comes last.
LEMMA SendAbortAhead == ASSUME IInv, KInv, Ahead, SendAbort PROVE Ahead'
<1>1. /\ mgr.pc = "killing" /\ mgr'.on = mgr.on /\ UNCHANGED svc /\ RequestFor("abort", mgr.on, mgr.on)
      /\ QueuesOK /\ RqbsOK /\ ListedOnce /\ OneHolder
  BY DEF SendAbort, IInv, Types, MgrType
<1>2. mgr.on \in Job /\ mgr.on # None
  BY <1>1, KeyboardAssumption DEF KInv, Killed, KillPc
<1>3. CASE UNCHANGED rqVars
  <2>1. UNCHANGED <<queue, rqb>>
    BY <1>3 DEF rqVars
  <2>2. IsAbort(svc.rq)' \/ IsAbort(svc.rq2)' => IsAbort(svc.rq) \/ IsAbort(svc.rq2)
    BY <1>1, <2>1 DEF IsAbort
  <2> QED
    BY <1>1, <2>1, <2>2, AheadKept
<1>4. CASE TakeRQB("abort", mgr.on, None, mgr.on) /\ Send("main", Head(freeRQB), "request")
  <2>1. PICK h : h = Head(freeRQB)
    OBVIOUS
  <2>2. h \in RQB /\ InList(freeRQB, h)
    BY <1>1, <1>4, <2>1, ListTail DEF RqbsOK, TakeRQB
  <2>3. ~InQueue(queue["main"], h) /\ svc.rq # h /\ svc.rq2 # h
    BY <1>1, <2>2 DEF OneHolder, Holds, Holder, Shelf
  <2>4. rqb'[h].RqOwnerJob = None /\ \A g \in RQB : g # h => rqb'[g] = rqb[g]
    BY <1>1, <1>4, <2>1, <2>2 DEF RqbsOK, TakeRQB
  <2>5. ~OfDead(h)'
    BY <1>1, <1>2, <2>4 DEF OfDead
  <2>6. Send("main", h, "request") /\ "request" \in Erc
    BY <1>4, <2>1 DEF Erc
  <2>7. \/ queue'["main"] = queue["main"]
        \/ \E m \in Msg : m.h = h /\ queue'["main"] = Append(queue["main"], m)
    BY <1>1, <2>2, <2>6, SendMainEnd
  <2>8. IsAbort(svc.rq)' \/ IsAbort(svc.rq2)' => IsAbort(svc.rq) \/ IsAbort(svc.rq2)
    BY <1>1, <2>3, <2>4 DEF IsAbort
  <2> QED
    BY <1>1, <2>3, <2>4, <2>5, <2>7, <2>8, AheadKept
<1> QED
  BY <1>1, <1>3, <1>4 DEF RequestFor

LEMMA NextAhead == ASSUME IInv, KInv, Ahead, KInv', [Next]_vars PROVE Ahead'
<1>1. CASE mgr'.pc # "aborting"
  BY <1>1, AheadNone
<1>2. CASE mgr'.pc = "aborting" /\ UNCHANGED vars
  <2>1. UNCHANGED <<queue, rqb, svc, mgr>>
    BY <1>2 DEF vars, rqVars
  <2>2. IsAbort(svc.rq)' \/ IsAbort(svc.rq2)' => IsAbort(svc.rq) \/ IsAbort(svc.rq2)
    BY <2>1 DEF IsAbort
  <2> QED
    BY <2>1, <2>2, AheadKept
<1>3. CASE mgr'.pc = "aborting" /\ KBDServiceTask
  <2>1. UNCHANGED mgr
    BY <1>3 DEF KBDServiceTask, Top, Global1, WaitMain, AliasMem, CheckWait, ReadKey, ReadNone, Park,
                AssignKBD, AbortJob, Sift, SiftMove, CheckResp, SendResp
  <2> QED
    BY <1>3, <2>1, ServiceAhead
<1>4. CASE mgr'.pc = "aborting" /\ (Jobs \/ \E b : IntKeyBrd(b))
  <2>1. UNCHANGED mgr
    BY <1>4 DEF Jobs, ReadKBD, ReadKBDSend, ReadKBDEnd, LoadJob, IntKeyBrd
  <2> QED
    BY <1>4, <2>1, OtherAhead
<1>5. CASE mgr'.pc = "aborting" /\ Tasks
  <2>1. SendAbort \/ (SendAbortEnd /\ UNCHANGED mgr)
    <3>1. mgr \in MgrType
      BY DEF IInv, Types
    <3> QED
      BY <1>5, <3>1 DEF Tasks, AskGlobal, MngrWoken, KillExch, SendAbortEnd, MngrAssign, KillJob,
                        IdleTask, MgrType
  <2>2. SendAbortEnd => mgr.pc = "aborting"
    BY DEF SendAbortEnd
  <2> QED
    BY <2>1, <2>2, SendAbortAhead, OtherAhead
<1> QED
  BY <1>1, <1>2, <1>3, <1>4, <1>5 DEF Next

-----------------------------------------------------------------------------
(* No request of a job that is gone. *)

LEMMA InitKInv == Init => KInv /\ Ahead
<1> SUFFICES ASSUME Init PROVE KInv /\ Ahead
  OBVIOUS
<1>1. queue = [e \in Exch |-> <<>>] /\ svc = Service("top") /\ mgr = IdleTask("idle")
  BY DEF Init, RequestsInit
<1>2. svc.rq = None /\ svc.rq2 = None /\ svc.pc = "top" /\ mgr.pc = "idle"
  BY <1>1 DEF Service, IdleTask
<1>3. \A j \in Job : job[j].pc = "idle"
  BY DEF Init, IdleJob
<1>4. \A x \in Exch : queue[x] = <<>>
  BY <1>1
<1>5. \A h \in RQB : ~Held(h)
  BY <1>2, <1>4, Names DEF Held, Hand, Holds, InQueue, Shelf
<1>6. \A x : Asks(x) = {}
  BY <1>5 DEF Asks
<1>7. \A x \in Asker : queue[x] = <<>> /\ Len(queue[x]) <= 1
  <2>1. Len(<<>>) = 0
    OBVIOUS
  <2> QED
    BY <1>4, <2>1, Names DEF Asker
<1>8. Kinds /\ Drafts /\ Serves /\ Single /\ Answered
  BY <1>2, <1>3, <1>5, <1>6, <1>7 DEF Kinds, Drafts, Serves, Single, Answered
<1>9. Parked
  BY <1>5, HeldThere DEF Parked, Shelf
<1>10. Killed /\ Removed
  BY <1>2, <1>3, <1>6, KeyboardAssumption DEF Killed, Removed, KillPc, DeadPc
<1>11. Ahead
  BY <1>2, <1>4, Names DEF Ahead, IsAbort
<1> QED
  BY <1>8, <1>9, <1>10, <1>11 DEF KInv

LEMMA NextKInv == ASSUME IInv, KInv, Ahead, [Next]_vars, ~fooled' PROVE KInv'
<1>1. CASE UNCHANGED vars
  <2>1. UNCHANGED <<queue, rqb, svc, job, mgr>>
    BY <1>1 DEF vars, rqVars
  <2>2. HeldOnly /\ BlocksKept /\ ShelvesKept
    BY <2>1, HeldFrom, HeldThere DEF BlocksKept, ShelvesKept
  <2>3. Kinds' /\ Parked' /\ Serves' /\ Single' /\ AbortLast' /\ AsksFewer
    BY <2>1, <2>2, OthersKeep
  <2>4. DraftsKept /\ JobsStay /\ AnswersSent
    BY <2>1 DEF DraftsKept, JobsStay, AnswersSent
  <2> QED
    BY <2>1, <2>2, <2>3, <2>4, ServiceKeeps
<1>2. CASE Waiting /\ Jobs
  BY <1>2, ReadKBDKInv, ReadSendKInv, ReadEndKInv DEF Jobs
<1>3. CASE AskGlobal
  BY <1>3, MgrAsksKInv DEF AskGlobal
<1>4. ASSUME NEW j \in Job, MngrAssign(j) PROVE KInv'
  BY <1>4, MgrAsksKInv DEF MngrAssign
<1>5. ASSUME Next, SendAbortEnd PROVE KInv'
  <2>1. mgr'.pc = "idle" => ~Unanswered
    BY <1>5 DEF Next, SendAbortEnd
  <2> QED
    BY <1>5, <2>1, SendAbortEndKInv
<1>6. CASE Next /\ Tasks
  BY <1>3, <1>4, <1>5, <1>6, MngrWokenKInv, KillExchKInv, SendAbortKInv, KillJobKInv
  DEF Tasks
<1> QED
  BY <1>1, <1>2, <1>6, IntKeyBrdKInv, ServiceKInv DEF Next

\* A SendAbort that was fooled stays so.
LEMMA FooledStays == ASSUME [Next]_vars, ~fooled' PROVE ~fooled
BY DEF Next, vars

LEMMA NoneAsks == IInv /\ KInv => NoneOfTheDead
<1> SUFFICES ASSUME IInv, KInv, NEW j \in Job, job[j].pc = "gone",
                    NEW i \in DOMAIN Queued, Queued[i].h # ISR
             PROVE  rqb[Queued[i].h].RqOwnerJob # j
  BY DEF NoneOfTheDead
<1> DEFINE mw == queue["main"] \o queue["wait"]
           mh == mw \o queue["hold"]
<1>1. PICK h : h = Queued[i].h
  OBVIOUS
<1>2. /\ \A e \in Shelf : queue[e] \in Seq(Msg)
      /\ "main" \in Shelf /\ "wait" \in Shelf /\ "hold" \in Shelf /\ "glob" \in Shelf
  <2>1. \A e \in Shelf : queue[e] \in Seq(MsgAt(e)) /\ MsgAt(e) \subseteq Msg
    BY Names DEF IInv, Types, QueuesOK
  <2>2. \A S \in SUBSET Msg : \A s \in Seq(S) : s \in Seq(Msg)
    OBVIOUS
  <2>3. \A e \in Shelf : queue[e] \in Seq(Msg)
    BY <2>1, <2>2
  <2> QED
    BY <2>3 DEF Shelf
<1>3. mw \in Seq(Msg) /\ (InQueue(mw, h) => InQueue(queue["main"], h) \/ InQueue(queue["wait"], h))
  BY <1>2, QueueConcat
<1> HIDE DEF mw
<1>4. mh \in Seq(Msg) /\ (InQueue(mh, h) => InQueue(mw, h) \/ InQueue(queue["hold"], h))
  BY <1>2, <1>3, QueueConcat
<1>5. Queued = mh \o queue["glob"]
  BY DEF Queued, mh, mw
<1> HIDE DEF mh
<1>6. Queued \in Seq(Msg) /\ (InQueue(Queued, h) => InQueue(mh, h) \/ InQueue(queue["glob"], h))
  BY <1>2, <1>4, <1>5, QueueConcat
<1>7. \E e \in Shelf : InQueue(queue[e], h)
  BY <1>1, <1>2, <1>3, <1>4, <1>6 DEF InQueue
<1>8. h \in RQB
  <2>1. Queued[i] \in Msg
    BY <1>6
  <2> QED
    BY <1>1, <2>1 DEF Msg
<1>9. Held(h)
  BY <1>7, HeldThere
<1>10. Asks(j) = {} /\ j # None
  BY KeyboardAssumption DEF KInv, Removed
<1>11. rqb[h].RqOwnerJob # j
  BY <1>8, <1>9, <1>10 DEF KInv, Kinds, Asks
<1> QED
  BY <1>1, <1>11

\* Until a SendAbort took another answer for its own, the service has no request of
\* a job that died: it can take no key that is meant for a job with the same number
\* (KSTAbort, SendAbort).
THEOREM DeadAreForgotten == Spec => []NoneOfTheDead
<1> DEFINE DInv == IInv /\ (~fooled => KInv /\ Ahead)
<1>1. Init => DInv
  BY InitIInv, InitKInv
<1>2. DInv /\ [Next]_vars => DInv'
  BY NextIInv, NextKInv, NextAhead, FooledStays
<1>3. DInv => NoneOfTheDead
  BY NoneAsks DEF NoneOfTheDead
<1> QED
  BY <1>1, <1>2, <1>3, PTL DEF Spec

-----------------------------------------------------------------------------
(* The keys among the bytes of a buffer. *)

\* A set of places that has with each those before it.
LEMMA Prefix ==
    ASSUME NEW n \in Nat, NEW P \in SUBSET (1 .. n), \A i \in P : 1 .. i \subseteq P
    PROVE  Cardinality(P) \in 0 .. n /\ P = 1 .. Cardinality(P)
<1>1. IsFiniteSet(1 .. n) /\ Cardinality(1 .. n) = n
  BY FS_Interval
<1>2. IsFiniteSet(P) /\ Cardinality(P) \in Nat /\ Cardinality(P) <= n
  BY <1>1, FS_Subset, FS_CardinalityType
<1>3. PICK c \in Nat : c = Cardinality(P)
  BY <1>2
<1>4. \A i \in P : i <= c
  <2> SUFFICES ASSUME NEW i \in P PROVE i <= c
    OBVIOUS
  <2>1. i \in 1 .. n /\ 1 .. i \in SUBSET P
    OBVIOUS
  <2>2. Cardinality(1 .. i) = i
    BY <2>1, FS_Interval
  <2>3. Cardinality(1 .. i) <= Cardinality(P)
    BY <1>2, <2>1, FS_Subset
  <2> QED
    BY <1>3, <2>2, <2>3
<1>5. P \in SUBSET (1 .. c)
  BY <1>4
<1>6. IsFiniteSet(1 .. c) /\ Cardinality(1 .. c) = c
  BY FS_Interval
<1>7. P = 1 .. c
  BY <1>3, <1>5, <1>6, FS_Subset
<1> QED
  BY <1>2, <1>3, <1>7

\* The place of i among the places P.
Rank(P, i) == Cardinality({m \in P : m <= i})

LEMMA RankType ==
    ASSUME NEW P \in SUBSET Nat, IsFiniteSet(P), NEW i \in P
    PROVE  /\ Rank(P, i) \in 1 .. Cardinality(P) /\ Cardinality(P) \in Nat
           /\ \A k \in P : i < k => Rank(P, i) < Rank(P, k)
<1> DEFINE U(k) == {m \in P : m <= k}
<1>1. \A k \in P : U(k) \in SUBSET P /\ IsFiniteSet(U(k)) /\ Cardinality(U(k)) \in Nat
  <2> TAKE k \in P
  <2>1. U(k) \in SUBSET P
    OBVIOUS
  <2> HIDE DEF U
  <2> QED
    BY <2>1, FS_Subset, FS_CardinalityType
<1>2. Cardinality(U(i)) <= Cardinality(P) /\ Cardinality(P) \in Nat
  BY <1>1, FS_Subset, FS_CardinalityType
<1>3. Cardinality(U(i)) # 0
  <2>1. i \in U(i)
    OBVIOUS
  <2> HIDE DEF U
  <2> QED
    BY <1>1, <2>1, FS_EmptySet
<1>4. ASSUME NEW k \in P, i < k PROVE Cardinality(U(i)) < Cardinality(U(k))
  <2>1. U(i) \in SUBSET U(k) /\ k \in U(k) /\ k \notin U(i)
    <3>1. i \in Nat /\ k \in Nat /\ \A m \in P : m \in Nat
      OBVIOUS
    <3>2. \A m \in P : m <= i => m <= k
      BY <1>4, <3>1
    <3>3. k <= k /\ ~(k <= i)
      BY <1>4, <3>1
    <3> QED
      BY <3>2, <3>3
  <2> HIDE DEF U
  <2>2. Cardinality(U(i)) <= Cardinality(U(k)) /\ Cardinality(U(i)) # Cardinality(U(k))
    BY <1>1, <2>1, FS_Subset
  <2> QED
    BY <1>1, <2>2
<1> QED
  BY <1>1, <1>2, <1>3, <1>4 DEF Rank

LEMMA RankOnce ==
    ASSUME NEW P \in SUBSET Nat, IsFiniteSet(P)
    PROVE  /\ \A i, k \in P : Rank(P, i) = Rank(P, k) => i = k
           /\ \A r \in 1 .. Cardinality(P) : \E i \in P : Rank(P, i) = r
<1>1. \A i \in P : Rank(P, i) \in 1 .. Cardinality(P)
  BY RankType
<1>2. Cardinality(P) \in Nat
  BY FS_CardinalityType
<1>3. \A i, k \in P : Rank(P, i) = Rank(P, k) => i = k
  <2> TAKE i, k \in P
  <2>1. i < k => Rank(P, i) < Rank(P, k)
    BY RankType
  <2>2. k < i => Rank(P, k) < Rank(P, i)
    BY RankType
  <2>3. i \in Nat /\ k \in Nat /\ Rank(P, i) \in Nat /\ Rank(P, k) \in Nat
    BY <1>1, <1>2
  <2> QED
    BY <2>1, <2>2, <2>3
<1> DEFINE f == [i \in P |-> Rank(P, i)]
           R == 1 .. Cardinality(P)
<1>4. f \in [P -> R] /\ \A i \in P : f[i] = Rank(P, i)
  BY <1>1
<1>5. IsFiniteSet(R) /\ Cardinality(R) = Cardinality(P)
  BY <1>2, FS_Interval
<1> HIDE DEF f, R
<1>6. f \in Injection(P, R)
  BY <1>3, <1>4 DEF Injection, IsInjective
<1>7. f \in Surjection(P, R)
  BY <1>5, <1>6, FS_Injection
<1>8. \A r \in R : \E i \in P : f[i] = r
  BY <1>7 DEF Surjection
<1> QED
  BY <1>3, <1>4, <1>8 DEF R

\* The places of the keys, and the one with the rank r.
Places(s) == {i \in DOMAIN s : s[i] \in Key}
Nth(P, r) == CHOOSE i \in P : Rank(P, i) = r

LEMMA NthIs ==
    ASSUME NEW P \in SUBSET Nat, IsFiniteSet(P), NEW r \in 1 .. Cardinality(P)
    PROVE  /\ Nth(P, r) \in P /\ Rank(P, Nth(P, r)) = r
           /\ \A i \in P : Rank(P, i) = r => i = Nth(P, r)
<1>1. \E i \in P : Rank(P, i) = r
  BY RankOnce
<1>2. Nth(P, r) \in P /\ Rank(P, Nth(P, r)) = r
  BY <1>1 DEF Nth
<1>3. \A i, k \in P : Rank(P, i) = Rank(P, k) => i = k
  BY RankOnce
<1>4. ASSUME NEW i \in P, Rank(P, i) = r PROVE i = Nth(P, r)
  BY <1>2, <1>3, <1>4, Zenon
<1> QED
  BY <1>2, <1>4

Byte == Key \cup {Other, Global}

LEMMA PlacesAre ==
    ASSUME NEW S, NEW s \in Seq(S)
    PROVE  /\ Places(s) \in SUBSET (1 .. Len(s)) /\ Places(s) \in SUBSET Nat
           /\ IsFiniteSet(Places(s)) /\ Cardinality(Places(s)) \in 0 .. Len(s)
<1>1. Len(s) \in Nat /\ DOMAIN s = 1 .. Len(s)
  OBVIOUS
<1>2. Places(s) \in SUBSET (1 .. Len(s))
  BY <1>1 DEF Places
<1>3. IsFiniteSet(1 .. Len(s)) /\ Cardinality(1 .. Len(s)) = Len(s)
  BY <1>1, FS_Interval
<1>4. IsFiniteSet(Places(s)) /\ Cardinality(Places(s)) <= Len(s) /\ Cardinality(Places(s)) \in Nat
  BY <1>2, <1>3, FS_Subset, FS_CardinalityType
<1> QED
  BY <1>1, <1>2, <1>4

LEMMA KeysAre ==
    ASSUME NEW S, NEW s \in Seq(S)
    PROVE  /\ KeysIn(s) \in Seq(Key) /\ Len(KeysIn(s)) = Cardinality(Places(s))
           /\ \A r \in 1 .. Cardinality(Places(s)) : KeysIn(s)[r] = s[Nth(Places(s), r)]
<1>1. Places(s) \in SUBSET Nat /\ IsFiniteSet(Places(s)) /\ Cardinality(Places(s)) \in Nat
  BY PlacesAre
<1>2. KeysIn(s) = [r \in 1 .. Cardinality(Places(s)) |-> s[Nth(Places(s), r)]]
  BY DEF KeysIn, Nth, Rank, Places
<1>3. \A r \in 1 .. Cardinality(Places(s)) : s[Nth(Places(s), r)] \in Key
  <2> TAKE r \in 1 .. Cardinality(Places(s))
  <2>1. Nth(Places(s), r) \in Places(s)
    BY <1>1, NthIs
  <2> QED
    BY <2>1 DEF Places
<1> HIDE DEF Places, Nth
<1> QED
  BY <1>1, <1>2, <1>3

\* The places of a sequence that comes after n others.
Shift(n, T) == {n + i : i \in T}

LEMMA ShiftUnion ==
    ASSUME NEW n \in Nat, NEW A \in SUBSET (1 .. n), NEW T \in SUBSET (Nat \ {0}), IsFiniteSet(T)
    PROVE  /\ IsFiniteSet(A \cup Shift(n, T))
           /\ Cardinality(A \cup Shift(n, T)) = Cardinality(A) + Cardinality(T)
<1>1. IsFiniteSet(A) /\ Cardinality(A) \in Nat
  <2>1. IsFiniteSet(1 .. n)
    BY FS_Interval
  <2> QED
    BY <2>1, FS_Subset, FS_CardinalityType
<1> DEFINE f == [i \in T |-> n + i]
<1>2. f \in Bijection(T, Shift(n, T))
  <2>1. f \in [T -> Shift(n, T)] /\ \A i \in T : f[i] = n + i
    BY DEF Shift
  <2>2. \A i, k \in T : n + i = n + k => i = k
    <3> TAKE i, k \in T
    <3>1. i \in Nat /\ k \in Nat
      OBVIOUS
    <3> QED
      BY <3>1
  <2>3. \A y \in Shift(n, T) : \E i \in T : f[i] = y
    BY <2>1 DEF Shift
  <2> HIDE DEF f
  <2> QED
    BY <2>1, <2>2, <2>3 DEF Bijection, Injection, Surjection, IsInjective
<1>3. IsFiniteSet(Shift(n, T)) /\ Cardinality(Shift(n, T)) = Cardinality(T) /\ Cardinality(T) \in Nat
  BY <1>2, FS_Bijection, FS_CardinalityType DEF ExistsBijection
<1>4. A \cap Shift(n, T) = {}
  <2> SUFFICES ASSUME NEW x \in A, x \in Shift(n, T) PROVE FALSE
    OBVIOUS
  <2>1. PICK i \in T : x = n + i
    BY DEF Shift
  <2>2. x \in 1 .. n /\ i \in Nat /\ i # 0
    OBVIOUS
  <2> QED
    BY <2>1, <2>2
<1>5. Cardinality({}) = 0
  BY FS_EmptySet
<1> QED
  BY <1>1, <1>3, <1>4, <1>5, FS_Union

LEMMA PlacesConcat ==
    ASSUME NEW S, NEW s \in Seq(S), NEW t \in Seq(S)
    PROVE  Places(s \o t) = Places(s) \cup Shift(Len(s), Places(t))
<1> DEFINE u == s \o t
<1>1. /\ u \in Seq(S) /\ Len(u) = Len(s) + Len(t) /\ DOMAIN u = 1 .. Len(u)
      /\ Len(s) \in Nat /\ Len(t) \in Nat /\ DOMAIN s = 1 .. Len(s) /\ DOMAIN t = 1 .. Len(t)
      /\ \A i \in 1 .. Len(s) : u[i] = s[i]
      /\ \A i \in 1 .. Len(t) : u[Len(s) + i] = t[i]
  OBVIOUS
<1> HIDE DEF u
<1>2. \A i \in 1 .. Len(u) : i \in 1 .. Len(s) \/ (i - Len(s) \in 1 .. Len(t) /\ i = Len(s) + (i - Len(s)))
  BY <1>1
<1>3. \A i \in 1 .. Len(t) : Len(s) + i \in 1 .. Len(u)
  BY <1>1
<1>4. \A i \in 1 .. Len(s) : i \in 1 .. Len(u)
  BY <1>1
<1>5. ASSUME NEW x \in Places(u) PROVE x \in Places(s) \cup Shift(Len(s), Places(t))
  <2>1. x \in 1 .. Len(u) /\ u[x] \in Key
    BY <1>1 DEF Places
  <2>2. CASE x \in 1 .. Len(s)
    BY <1>1, <2>1, <2>2 DEF Places
  <2>3. CASE x - Len(s) \in 1 .. Len(t) /\ x = Len(s) + (x - Len(s))
    <3>1. PICK i \in 1 .. Len(t) : x = Len(s) + i
      BY <2>3
    <3>2. i \in Places(t)
      BY <1>1, <2>1, <3>1 DEF Places
    <3> QED
      BY <3>1, <3>2 DEF Shift
  <2> QED
    BY <1>2, <2>1, <2>2, <2>3
<1>6. ASSUME NEW x \in Places(s) PROVE x \in Places(u)
  BY <1>1, <1>4 DEF Places
<1>7. ASSUME NEW x \in Shift(Len(s), Places(t)) PROVE x \in Places(u)
  <2>1. PICK i \in Places(t) : x = Len(s) + i
    BY DEF Shift
  <2> QED
    BY <1>1, <1>3, <2>1 DEF Places
<1> QED
  BY <1>5, <1>6, <1>7 DEF u

LEMMA KeysConcat ==
    ASSUME NEW S, NEW s \in Seq(S), NEW t \in Seq(S)
    PROVE  KeysIn(s \o t) = KeysIn(s) \o KeysIn(t)
<1> DEFINE u == s \o t
           n == Len(s)
           A == Places(s)
           B == Places(t)
           U == Places(u)
           a == Cardinality(A)
           b == Cardinality(B)
<1>1. /\ u \in Seq(S) /\ n \in Nat /\ U = A \cup Shift(n, B)
      /\ \A i \in 1 .. n : u[i] = s[i]
      /\ \A i \in 1 .. Len(t) : u[n + i] = t[i]
  BY PlacesConcat
<1>2. /\ A \in SUBSET (1 .. n) /\ A \in SUBSET Nat /\ IsFiniteSet(A) /\ a \in Nat
      /\ B \in SUBSET (1 .. Len(t)) /\ B \in SUBSET Nat /\ IsFiniteSet(B) /\ b \in Nat
      /\ U \in SUBSET Nat /\ IsFiniteSet(U) /\ Len(t) \in Nat
  <2>1. /\ A \in SUBSET (1 .. n) /\ A \in SUBSET Nat /\ IsFiniteSet(A) /\ a \in 0 .. n
    BY PlacesAre
  <2>2. /\ B \in SUBSET (1 .. Len(t)) /\ B \in SUBSET Nat /\ IsFiniteSet(B) /\ b \in 0 .. Len(t)
    BY PlacesAre
  <2>3. U \in SUBSET Nat /\ IsFiniteSet(U)
    BY <1>1, PlacesAre
  <2>4. n \in Nat /\ Len(t) \in Nat
    OBVIOUS
  <2> QED
    BY <2>1, <2>2, <2>3, <2>4
<1>3. /\ KeysIn(u) \in Seq(Key) /\ Len(KeysIn(u)) = Cardinality(U)
      /\ \A r \in 1 .. Cardinality(U) : KeysIn(u)[r] = u[Nth(U, r)]
  BY <1>1, KeysAre
<1>4. /\ KeysIn(s) \in Seq(Key) /\ Len(KeysIn(s)) = a
      /\ \A r \in 1 .. a : KeysIn(s)[r] = s[Nth(A, r)]
  BY KeysAre
<1>5. /\ KeysIn(t) \in Seq(Key) /\ Len(KeysIn(t)) = b
      /\ \A r \in 1 .. b : KeysIn(t)[r] = t[Nth(B, r)]
  BY KeysAre
<1> HIDE DEF u, n, A, B, U, a, b
<1>6. B \in SUBSET (Nat \ {0})
  BY <1>2
<1>7. Cardinality(U) = a + b
  BY <1>1, <1>2, <1>6, ShiftUnion DEF a, b
<1>8. ASSUME NEW r \in 1 .. a PROVE KeysIn(u)[r] = KeysIn(s)[r]
  <2>1. PICK i \in A : i = Nth(A, r) /\ Rank(A, i) = r
    <3>1. r \in 1 .. Cardinality(A)
      BY DEF a
    <3>2. Nth(A, r) \in A /\ Rank(A, Nth(A, r)) = r
      BY <1>2, <3>1, NthIs
    <3> QED
      BY <3>2
  <2>2. i \in 1 .. n
    BY <1>2
  <2>3. {m \in U : m <= i} = {m \in A : m <= i}
    <3>1. \A m \in Shift(n, B) : ~(m <= i)
      <4> TAKE m \in Shift(n, B)
      <4>1. PICK k \in B : m = n + k
        BY DEF Shift
      <4>2. k \in Nat /\ k # 0
        BY <1>6
      <4> QED
        BY <1>1, <2>2, <4>1, <4>2
    <3> QED
      BY <1>1, <3>1
  <2>4. i \in U /\ Rank(U, i) = r
    BY <1>1, <2>1, <2>3 DEF Rank
  <2>5. r \in 1 .. Cardinality(U)
    BY <1>2, <1>7
  <2>6. i = Nth(U, r)
    BY <1>2, <2>4, <2>5, NthIs
  <2>7. KeysIn(u)[r] = u[i] /\ KeysIn(s)[r] = s[i] /\ u[i] = s[i]
    BY <1>1, <1>3, <1>4, <2>1, <2>2, <2>5, <2>6
  <2> QED
    BY <2>7
<1>9. ASSUME NEW r \in 1 .. b PROVE KeysIn(u)[a + r] = KeysIn(t)[r]
  <2>1. PICK i \in B : i = Nth(B, r) /\ Rank(B, i) = r
    <3>1. r \in 1 .. Cardinality(B)
      BY DEF b
    <3>2. Nth(B, r) \in B /\ Rank(B, Nth(B, r)) = r
      BY <1>2, <3>1, NthIs
    <3> QED
      BY <3>2
  <2>2. i \in 1 .. Len(t) /\ i \in Nat
    BY <1>2
  <2> DEFINE T == {m \in B : m <= i}
  <2>3. {m \in U : m <= n + i} = A \cup Shift(n, T)
    <3>1. \A m \in A : m <= n + i
      BY <1>1, <1>2, <2>2
    <3>2. \A k \in B : n + k <= n + i <=> k <= i
      BY <1>1, <1>2, <2>2
    <3> QED
      BY <1>1, <3>1, <3>2 DEF Shift
  <2>4. T \in SUBSET B
    OBVIOUS
  <2>5. Cardinality(T) = r
    BY <2>1 DEF Rank
  <2> HIDE DEF T
  <2>6. IsFiniteSet(T) /\ T \in SUBSET (Nat \ {0})
    BY <1>2, <1>6, <2>4, FS_Subset
  <2>7. Cardinality({m \in U : m <= n + i}) = a + r
    <3>1. Cardinality(A \cup Shift(n, T)) = Cardinality(A) + Cardinality(T)
      BY <1>1, <1>2, <2>6, ShiftUnion
    <3> QED
      BY <2>3, <2>5, <3>1 DEF a
  <2>8. n + i \in U /\ Rank(U, n + i) = a + r
    BY <1>1, <2>1, <2>7 DEF Rank, Shift
  <2>9. a + r \in 1 .. Cardinality(U)
    BY <1>2, <1>7
  <2>10. n + i = Nth(U, a + r)
    <3>1. \A k \in U : Rank(U, k) = a + r => k = Nth(U, a + r)
      BY <1>2, <2>9, NthIs
    <3> QED
      BY <2>8, <3>1
  <2>11. KeysIn(u)[a + r] = u[n + i] /\ KeysIn(t)[r] = t[i] /\ u[n + i] = t[i]
    BY <1>1, <1>3, <1>5, <2>1, <2>2, <2>9, <2>10
  <2> QED
    BY <2>11
<1>10. KeysIn(u) = KeysIn(s) \o KeysIn(t)
  <2> DEFINE x == KeysIn(u)
             y == KeysIn(s)
             z == KeysIn(t)
  <2>1. /\ x \in Seq(Key) /\ y \in Seq(Key) /\ z \in Seq(Key)
        /\ Len(x) = Len(y) + Len(z) /\ Len(y) = a /\ Len(z) = b
        /\ \A r \in 1 .. a : x[r] = y[r]
        /\ \A r \in 1 .. b : x[a + r] = z[r]
    BY <1>3, <1>4, <1>5, <1>7, <1>8, <1>9
  <2> HIDE DEF x, y, z
  <2>2. x = y \o z
    <3>1. /\ y \o z \in Seq(Key) /\ Len(y \o z) = Len(y) + Len(z)
          /\ \A r \in 1 .. Len(y) : (y \o z)[r] = y[r]
          /\ \A r \in 1 .. Len(z) : (y \o z)[Len(y) + r] = z[r]
      <4>1. y \in Seq(Key) /\ z \in Seq(Key)
        BY <2>1
      <4>2. y \o z \in Seq(Key) /\ Len(y \o z) = Len(y) + Len(z)
        BY <4>1
      <4>3. \A r \in 1 .. Len(y) : (y \o z)[r] = y[r]
        BY <4>1
      <4>4. \A r \in 1 .. Len(z) : (y \o z)[Len(y) + r] = z[r]
        BY <4>1
      <4> QED
        BY <4>2, <4>3, <4>4
    <3>2. \A r \in 1 .. Len(x) : r \in 1 .. a \/ (r - a \in 1 .. b /\ r = a + (r - a))
      BY <1>2, <2>1
    <3>3. \A r \in 1 .. Len(x) : x[r] = (y \o z)[r]
      <4> TAKE r \in 1 .. Len(x)
      <4>1. CASE r \in 1 .. a
        BY <2>1, <3>1, <4>1
      <4>2. CASE r - a \in 1 .. b /\ r = a + (r - a)
        <5>1. PICK k \in 1 .. b : r = a + k
          BY <4>2
        <5> QED
          BY <2>1, <3>1, <5>1
      <4> QED
        BY <3>2, <4>1, <4>2
    <3> QED
      BY <2>1, <3>1, <3>3, SeqEqual
  <2> QED
    BY <2>2 DEF x, y, z
<1> QED
  BY <1>10 DEF u

LEMMA KeysNone ==
    ASSUME NEW S, NEW s \in Seq(S), Places(s) = {}
    PROVE  KeysIn(s) = <<>>
<1>1. KeysIn(s) \in Seq(Key) /\ Len(KeysIn(s)) = 0
  BY KeysAre, FS_EmptySet
<1> QED
  BY <1>1, EmptySeq

LEMMA KeysEmpty == KeysIn(<<>>) = <<>>
<1>1. <<>> \in Seq(Key) /\ Places(<<>>) = {}
  BY DEF Places
<1> QED
  BY <1>1, KeysNone

LEMMA KeysOne == ASSUME NEW b \in Key PROVE KeysIn(<<b>>) = <<b>>
<1> DEFINE s == <<b>>
<1>1. s \in Seq(Key) /\ Len(s) = 1 /\ s[1] = b /\ DOMAIN s = {1}
  OBVIOUS
<1> HIDE DEF s
<1>2. Places(s) = {1}
  BY <1>1 DEF Places
<1>3. Cardinality({1}) = 1 /\ IsFiniteSet({1})
  BY FS_Singleton
<1>4. KeysIn(s) \in Seq(Key) /\ Len(KeysIn(s)) = 1 /\ KeysIn(s)[1] = s[Nth({1}, 1)]
  <2>1. /\ KeysIn(s) \in Seq(Key) /\ Len(KeysIn(s)) = Cardinality(Places(s))
        /\ \A r \in 1 .. Cardinality(Places(s)) : KeysIn(s)[r] = s[Nth(Places(s), r)]
    BY <1>1, KeysAre
  <2>2. Cardinality(Places(s)) = 1
    BY <1>2, <1>3
  <2> QED
    BY <1>2, <2>1, <2>2
<1>5. Nth({1}, 1) = 1
  <2>1. Nth({1}, 1) \in {1}
    BY <1>3, NthIs
  <2> QED
    BY <2>1
<1>6. KeysIn(s) = s
  <2>1. \A i \in 1 .. 1 : KeysIn(s)[i] = s[i]
    BY <1>4, <1>5
  <2> QED
    BY <1>1, <1>4, <2>1, SeqEqual
<1> QED
  BY <1>6 DEF s

-----------------------------------------------------------------------------
(* XLateRawKBD. *)

BufOK ==
    /\ rgbKbdBuf \in Seq(Byte) /\ rgdKBBuf \in Seq(Key) /\ Len(rgdKBBuf) <= sKB
    /\ dGlobalKey \in BOOLEAN

KeyCount(i) == Cardinality({k \in 1 .. i : rgbKbdBuf[k] \in Key})

LEMMA TakenIs ==
    ASSUME BufOK
    PROVE  /\ Taken \in 0 .. Len(rgbKbdBuf) /\ (Len(rgbKbdBuf) # 0 => Taken >= 1)
           /\ Taken >= 1 => KeyCount(Taken - 1) <= sKB - Len(rgdKBBuf)
<1> DEFINE n == Len(rgbKbdBuf)
           room == sKB - Len(rgdKBBuf)
           stops == {i \in DOMAIN rgbKbdBuf :
                        \/ rgbKbdBuf[i] = Other
                        \/ KeyCount(i) > room}
           P == {i \in DOMAIN rgbKbdBuf : \A k \in stops : i <= k}
<1>1. n \in Nat /\ DOMAIN rgbKbdBuf = 1 .. n /\ room \in Nat
  <2>1. Len(rgdKBBuf) \in Nat /\ sKB \in Nat /\ Len(rgdKBBuf) <= sKB
    BY KeyboardAssumption DEF BufOK
  <2>2. n \in Nat /\ DOMAIN rgbKbdBuf = 1 .. n
    BY DEF BufOK
  <2> QED
    BY <2>1, <2>2
<1>2. Taken = Cardinality(P)
  BY DEF Taken, KeyCount
<1>3. /\ \A i \in P : i \in 1 .. n /\ \A k \in stops : i <= k
      /\ \A i \in 1 .. n : (\A k \in stops : i <= k) => i \in P
      /\ \A i \in 1 .. n : KeyCount(i) > room => i \in stops
      /\ stops \in SUBSET (1 .. n)
  BY <1>1
<1> HIDE DEF n, room, stops, P
<1>4. P \in SUBSET (1 .. n) /\ \A i \in P : 1 .. i \subseteq P
  <2>1. ASSUME NEW i \in P, NEW m \in 1 .. i PROVE m \in P
    <3>1. i \in 1 .. n /\ m \in 1 .. n /\ m <= i
      BY <1>1, <1>3
    <3>2. \A k \in stops : m <= k
      <4> TAKE k \in stops
      <4>1. i <= k /\ k \in 1 .. n
        BY <1>3
      <4> QED
        BY <3>1, <4>1
    <3> QED
      BY <1>3, <3>1, <3>2
  <2> QED
    BY <1>3, <2>1
<1>5. Taken \in 0 .. n /\ P = 1 .. Taken
  BY <1>1, <1>2, <1>4, Prefix
<1>6. ASSUME n # 0 PROVE Taken >= 1
  <2>1. 1 \in 1 .. n /\ \A k \in stops : 1 <= k
    BY <1>1, <1>3, <1>6
  <2>2. 1 \in P
    BY <1>3, <2>1
  <2> QED
    BY <1>5, <2>2
<1>7. ASSUME Taken >= 1 PROVE KeyCount(Taken - 1) <= room
  <2>1. Taken \in P /\ Taken \in 1 .. n
    BY <1>5, <1>7
  <2>2. CASE Taken = 1
    <3>1. {k \in 1 .. Taken - 1 : rgbKbdBuf[k] \in Key} = {}
      BY <2>2
    <3>2. KeyCount(Taken - 1) = 0
      BY <3>1, FS_EmptySet DEF KeyCount
    <3> QED
      BY <1>1, <3>2
  <2>3. CASE Taken # 1
    <3>1. Taken - 1 \in 1 .. n /\ ~(Taken <= Taken - 1)
      BY <1>1, <2>1, <2>3
    <3>2. Taken - 1 \notin stops
      BY <1>3, <2>1, <3>1
    <3>3. ~(KeyCount(Taken - 1) > room)
      BY <1>3, <3>1, <3>2
    <3>4. KeyCount(Taken - 1) \in Nat
      <4>1. IsFiniteSet(1 .. Taken - 1)
        BY <3>1, FS_Interval
      <4>2. {k \in 1 .. Taken - 1 : rgbKbdBuf[k] \in Key} \in SUBSET (1 .. Taken - 1)
        OBVIOUS
      <4> QED
        BY <4>1, <4>2, FS_Subset, FS_CardinalityType DEF KeyCount
    <3> QED
      BY <1>1, <3>3, <3>4
  <2> QED
    BY <2>2, <2>3
<1> QED
  BY <1>5, <1>6, <1>7 DEF n, room

\* What XLateRawKBD takes and what it leaves.
LEMMA Split ==
    ASSUME NEW S, NEW s \in Seq(S), NEW t \in 0 .. Len(s)
    PROVE  /\ SubSeq(s, 1, t) \in Seq(S) /\ SubSeq(s, t + 1, Len(s)) \in Seq(S)
           /\ Len(SubSeq(s, 1, t)) = t /\ Len(SubSeq(s, t + 1, Len(s))) = Len(s) - t
           /\ \A i \in 1 .. t : SubSeq(s, 1, t)[i] = s[i]
           /\ s = SubSeq(s, 1, t) \o SubSeq(s, t + 1, Len(s))
<1> DEFINE x == SubSeq(s, 1, t)
           y == SubSeq(s, t + 1, Len(s))
<1>1. Len(s) \in Nat /\ t \in Nat /\ t <= Len(s)
  OBVIOUS
<1>2. x \in Seq(S) /\ Len(x) = t /\ \A i \in 1 .. t : x[i] = s[i]
  BY <1>1
<1>3. y \in Seq(S) /\ Len(y) = Len(s) - t
  BY <1>1
<1>4. \A i \in 1 .. Len(s) - t : y[i] = s[t + i]
  BY <1>1
<1> HIDE DEF x, y
<1>5. /\ x \o y \in Seq(S) /\ Len(x \o y) = Len(s)
      /\ \A i \in 1 .. t : (x \o y)[i] = x[i]
      /\ \A i \in 1 .. Len(s) - t : (x \o y)[t + i] = y[i]
  <2>1. x \o y \in Seq(S) /\ Len(x \o y) = Len(s)
    <3>1. x \o y \in Seq(S) /\ Len(x \o y) = Len(x) + Len(y)
      BY <1>2, <1>3
    <3> QED
      BY <1>1, <1>2, <1>3, <3>1
  <2>2. \A i \in 1 .. Len(x) : (x \o y)[i] = x[i]
    BY <1>2, <1>3
  <2>3. \A i \in 1 .. Len(y) : (x \o y)[Len(x) + i] = y[i]
    BY <1>2, <1>3
  <2> QED
    BY <1>2, <1>3, <2>1, <2>2, <2>3
<1>6. \A i \in 1 .. Len(s) : s[i] = (x \o y)[i]
  <2> TAKE i \in 1 .. Len(s)
  <2>1. CASE i \in 1 .. t
    BY <1>2, <1>5, <2>1
  <2>2. CASE i \notin 1 .. t
    <3>1. i - t \in 1 .. Len(s) - t /\ i = t + (i - t)
      BY <1>1, <2>2
    <3>2. PICK k \in 1 .. Len(s) - t : i = t + k
      BY <3>1
    <3> QED
      BY <1>4, <1>5, <3>2
  <2> QED
    BY <2>1, <2>2
<1>7. s = x \o y
  BY <1>5, <1>6, SeqEqual
<1> QED
  BY <1>2, <1>3, <1>7 DEF x, y

\* At most one of the keys that are translated finds no room.
LEMMA KeysTaken ==
    ASSUME BufOK
    PROVE  Len(KeysIn(SubSeq(rgbKbdBuf, 1, Taken))) <= sKB - Len(rgdKBBuf) + 1
<1> DEFINE b == SubSeq(rgbKbdBuf, 1, Taken)
           A == {k \in 1 .. Taken - 1 : rgbKbdBuf[k] \in Key}
<1>1. rgbKbdBuf \in Seq(Byte) /\ Taken \in 0 .. Len(rgbKbdBuf)
  BY TakenIs DEF BufOK
<1>2. b \in Seq(Byte) /\ Len(b) = Taken /\ \A i \in 1 .. Taken : b[i] = rgbKbdBuf[i]
  BY <1>1, Split
<1>3. Len(rgdKBBuf) \in Nat /\ sKB \in Nat /\ Len(rgdKBBuf) <= sKB /\ Taken \in Nat
  <2>1. Len(rgbKbdBuf) \in Nat
    BY <1>1
  <2> QED
    BY <1>1, <2>1, KeyboardAssumption DEF BufOK
<1> HIDE DEF b
<1>4. Len(KeysIn(b)) = Cardinality(Places(b)) /\ Places(b) \in SUBSET (1 .. Taken)
  BY <1>2, KeysAre, PlacesAre
<1>5. CASE Taken = 0
  <2>1. Places(b) = {}
    BY <1>4, <1>5
  <2>2. Len(KeysIn(b)) = 0
    BY <1>4, <2>1, FS_EmptySet
  <2> QED
    BY <1>3, <2>2 DEF b
<1>6. CASE Taken # 0
  <2>1. IsFiniteSet(A) /\ Cardinality(A) = KeyCount(Taken - 1) /\ Cardinality(A) \in Nat
    <3>1. IsFiniteSet(1 .. Taken - 1)
      BY <1>3, FS_Interval
    <3>2. A \in SUBSET (1 .. Taken - 1)
      OBVIOUS
    <3> QED
      BY <3>1, <3>2, FS_Subset, FS_CardinalityType DEF KeyCount
  <2>2. Cardinality(A) <= sKB - Len(rgdKBBuf)
    BY <1>3, <1>6, <2>1, TakenIs
  <2>3. Places(b) \in SUBSET (A \cup {Taken})
    <3> SUFFICES ASSUME NEW i \in Places(b), i # Taken PROVE i \in A
      OBVIOUS
    <3>1. i \in 1 .. Taken /\ b[i] \in Key
      BY <1>4 DEF Places
    <3>2. i \in 1 .. Taken - 1
      BY <1>3, <3>1
    <3> QED
      BY <1>2, <3>1, <3>2
  <2> HIDE DEF A
  <2>4. IsFiniteSet(A \cup {Taken}) /\ Cardinality(A \cup {Taken}) <= Cardinality(A) + 1
    BY <2>1, FS_AddElement
  <2>5. Cardinality(Places(b)) <= Cardinality(A \cup {Taken})
    BY <2>3, <2>4, FS_Subset
  <2>6. Cardinality(Places(b)) \in Nat /\ Cardinality(A \cup {Taken}) \in Nat
    BY <2>3, <2>4, FS_Subset, FS_CardinalityType
  <2> QED
    BY <1>3, <1>4, <2>1, <2>2, <2>4, <2>5, <2>6 DEF b
<1> QED
  BY <1>5, <1>6 DEF b

LEMMA Cut ==
    ASSUME NEW S, NEW s \in Seq(S), NEW t \in Seq(S), NEW n \in Nat, Len(s) = n + 1
    PROVE  /\ n + 1 \in DOMAIN (s \o t) /\ SubSeq(s \o t, 1, n) = SubSeq(s, 1, n)
           /\ SubSeq(s \o t, n + 2, Len(s \o t)) = t
<1> DEFINE u == s \o t
<1>1. /\ u \in Seq(S) /\ Len(u) = n + 1 + Len(t) /\ Len(t) \in Nat
  OBVIOUS
<1>2. /\ \A i \in 1 .. Len(s) : u[i] = s[i]
      /\ \A i \in 1 .. Len(t) : u[Len(s) + i] = t[i]
  OBVIOUS
<1> HIDE DEF u
<1>3. n + 1 \in DOMAIN u
  BY <1>1
<1>4. SubSeq(u, 1, n) = SubSeq(s, 1, n)
  <2>1. n \in 0 .. Len(u) /\ n \in 0 .. Len(s)
    BY <1>1
  <2>2. /\ SubSeq(u, 1, n) \in Seq(S) /\ Len(SubSeq(u, 1, n)) = n
        /\ \A i \in 1 .. n : SubSeq(u, 1, n)[i] = u[i]
    BY <1>1, <2>1, Split
  <2>3. /\ SubSeq(s, 1, n) \in Seq(S) /\ Len(SubSeq(s, 1, n)) = n
        /\ \A i \in 1 .. n : SubSeq(s, 1, n)[i] = s[i]
    BY <2>1, Split
  <2>4. \A i \in 1 .. n : SubSeq(u, 1, n)[i] = SubSeq(s, 1, n)[i]
    BY <1>2, <2>2, <2>3
  <2> QED
    BY <2>2, <2>3, <2>4, SeqEqual
<1>5. SubSeq(u, n + 2, Len(u)) = t
  <2> DEFINE y == SubSeq(u, n + 2, Len(u))
  <2>1. y \in Seq(S) /\ Len(y) = Len(t) /\ \A i \in 1 .. Len(t) : y[i] = u[n + 1 + i]
    <3>1. y \in Seq(S) /\ Len(y) = Len(t)
      BY <1>1
    <3>2. \A i \in 1 .. Len(t) : y[i] = u[n + 1 + i]
      <4> TAKE i \in 1 .. Len(t)
      <4>1. i \in 1 .. Len(u) - (n + 2) + 1 /\ (n + 2) + i - 1 = n + 1 + i
        BY <1>1
      <4>2. y[i] = u[(n + 2) + i - 1]
        BY <1>1, <4>1
      <4> QED
        BY <4>1, <4>2
    <3> QED
      BY <3>1, <3>2
  <2> HIDE DEF y
  <2>2. \A i \in 1 .. Len(y) : y[i] = t[i]
    BY <1>2, <2>1
  <2>3. y = t
    BY <2>1, <2>2, SeqEqual
  <2> QED
    BY <2>3 DEF y
<1> QED
  BY <1>3, <1>4, <1>5 DEF u

\* What it does to the buffers.
LEMMA XLateDoes ==
    ASSUME BufOK, XLateRawKBD
    PROVE  /\ BufOK'
           /\ Len(rgbKbdBuf') <= Len(rgbKbdBuf)
           /\ Len(rgbKbdBuf) # 0 => Len(rgbKbdBuf') + 1 <= Len(rgbKbdBuf)
           /\ Len(rgbKbdBuf) = 0 => rgdKBBuf' = rgdKBBuf /\ dGlobalKey' = dGlobalKey
           /\ rgdKBBuf = <<>> /\ rgdKBBuf' # <<>> /\ dGlobalKey' /\ ~dGlobalKey
                => Len(rgbKbdBuf') + 2 <= Len(rgbKbdBuf)
           /\ Keys' = Keys \/ (/\ sKB + 1 \in DOMAIN Keys
                               /\ Keys' = SubSeq(Keys, 1, sKB) \o SubSeq(Keys, sKB + 2, Len(Keys)))
<1> DEFINE n == Len(rgbKbdBuf)
           T == Taken
           bytes == SubSeq(rgbKbdBuf, 1, T)
           rest == SubSeq(rgbKbdBuf, T + 1, n)
           R == rgdKBBuf
           K == KeysIn(bytes)
           L == KeysIn(rest)
           keys == R \o K
           cut == IF Len(keys) < sKB THEN Len(keys) ELSE sKB
<1>1. /\ rgbKbdBuf' = rest /\ rgdKBBuf' = SubSeq(keys, 1, cut)
      /\ dGlobalKey' = (dGlobalKey \/ \E i \in DOMAIN bytes : bytes[i] = Global)
  BY DEF XLateRawKBD
<1>2. /\ T \in 0 .. n /\ n \in Nat /\ (n # 0 => T >= 1)
  BY TakenIs DEF BufOK
<1>3. /\ bytes \in Seq(Byte) /\ rest \in Seq(Byte) /\ Len(bytes) = T /\ Len(rest) = n - T
      /\ rgbKbdBuf = bytes \o rest
  BY <1>2, Split DEF BufOK
<1>4. /\ R \in Seq(Key) /\ K \in Seq(Key) /\ L \in Seq(Key) /\ Len(R) \in Nat /\ Len(K) \in Nat
      /\ sKB \in Nat /\ Len(R) <= sKB /\ Len(K) <= sKB - Len(R) + 1 /\ dGlobalKey \in BOOLEAN
  <2>1. K \in Seq(Key) /\ L \in Seq(Key)
    BY <1>3, KeysAre
  <2>2. Len(K) \in Nat
    BY <2>1
  <2> QED
    BY <2>1, <2>2, KeysTaken, KeyboardAssumption DEF BufOK
<1>5. KeysIn(rgbKbdBuf) = K \o L
  BY <1>3, KeysConcat
<1> HIDE DEF T, bytes, rest, K, L
<1>6. keys \in Seq(Key) /\ Len(keys) = Len(R) + Len(K)
  BY <1>4
<1>7. Keys = keys \o L
  <2>1. Keys = R \o (K \o L)
    BY <1>5 DEF Keys
  <2>2. (R \o K) \o L = R \o (K \o L)
    BY <1>4, ConcatAssociative
  <2> QED
    BY <2>1, <2>2
<1>8. Keys' = SubSeq(keys, 1, cut) \o L
  BY <1>1 DEF Keys, L
<1> HIDE DEF R, keys
<1>9. /\ cut \in 0 .. Len(keys) /\ cut \in Nat /\ cut <= sKB /\ Len(keys) \in Nat
      /\ Len(keys) <= sKB => cut = Len(keys)
  <2>1. Len(keys) \in Nat /\ sKB \in Nat
    BY <1>4, <1>6
  <2>2. CASE Len(keys) < sKB
    BY <2>1, <2>2
  <2>3. CASE ~(Len(keys) < sKB)
    <3>1. cut = sKB /\ sKB <= Len(keys)
      BY <2>1, <2>3
    <3> HIDE DEF cut
    <3> QED
      BY <2>1, <3>1
  <2> QED
    BY <2>2, <2>3
<1> HIDE DEF cut
<1>10. BufOK'
  <2>1. SubSeq(keys, 1, cut) \in Seq(Key) /\ Len(SubSeq(keys, 1, cut)) = cut
    BY <1>6, <1>9, Split
  <2> QED
    BY <1>1, <1>3, <1>4, <1>9, <2>1 DEF BufOK
<1>11. /\ Len(rgbKbdBuf') <= n /\ (n # 0 => Len(rgbKbdBuf') + 1 <= n)
       /\ T >= 2 => Len(rgbKbdBuf') + 2 <= n
  <2>1. Len(rgbKbdBuf') = n - T
    BY <1>1, <1>3
  <2> QED
    BY <1>2, <2>1
<1>12. ASSUME Places(bytes) = {} PROVE rgdKBBuf' = rgdKBBuf
  <2>1. K = <<>>
    BY <1>3, <1>12, KeysNone DEF K
  <2>2. keys = R
    BY <1>4, <2>1 DEF keys
  <2>3. SubSeq(keys, 1, Len(keys)) = keys
    BY <1>6
  <2>4. cut = Len(keys)
    BY <1>4, <1>9, <2>2
  <2> QED
    BY <1>1, <2>2, <2>3, <2>4 DEF R
<1>13. ASSUME n = 0 PROVE rgdKBBuf' = rgdKBBuf /\ dGlobalKey' = dGlobalKey
  <2>1. T = 0 /\ DOMAIN bytes = {}
    BY <1>2, <1>3, <1>13
  <2> QED
    BY <1>1, <1>4, <1>12, <2>1 DEF Places
<1>14. ASSUME rgdKBBuf = <<>>, rgdKBBuf' # <<>>, dGlobalKey', ~dGlobalKey PROVE T >= 2
  <2>1. PICK i \in DOMAIN bytes : bytes[i] = Global
    BY <1>1, <1>14
  <2>2. PICK k \in DOMAIN bytes : bytes[k] \in Key
    BY <1>12, <1>14 DEF Places
  <2>3. i # k
    BY <2>1, <2>2, KeyboardAssumption DEF Global
  <2>4. i \in 1 .. T /\ k \in 1 .. T
    BY <1>3
  <2> QED
    BY <1>2, <2>3, <2>4
<1>15. CASE Len(keys) <= sKB
  <2>1. SubSeq(keys, 1, cut) = keys
    BY <1>6, <1>9, <1>15
  <2> QED
    BY <1>7, <1>8, <1>10, <1>11, <1>13, <1>14, <2>1 DEF n
<1>16. CASE ~(Len(keys) <= sKB)
  <2>1. Len(keys) = sKB + 1 /\ cut = sKB
    BY <1>4, <1>6, <1>9, <1>16 DEF cut
  <2>2. /\ sKB + 1 \in DOMAIN Keys /\ SubSeq(Keys, 1, sKB) = SubSeq(keys, 1, sKB)
        /\ SubSeq(Keys, sKB + 2, Len(Keys)) = L
    BY <1>4, <1>6, <1>7, <2>1, Cut
  <2> QED
    BY <1>8, <1>10, <1>11, <1>13, <1>14, <2>1, <2>2 DEF n
<1> QED
  BY <1>15, <1>16

-----------------------------------------------------------------------------
(* What a step does to the queues. *)

Takes(e)   == queue[e] # <<>> /\ queue' = [queue EXCEPT ![e] = Tail(@)]
Adds(e, m) == queue' = [queue EXCEPT ![e] = Append(@, m)]
Empties(e) == queue' = [queue EXCEPT ![e] = <<>>]

LEMMA SendAdds ==
    ASSUME NEW e, NEW h, NEW erc, Send(e, h, erc)
    PROVE  queue' = queue \/ \E m : Adds(e, m) /\ m.h = h
<1>1. [h |-> h, erc |-> erc].h = h
  OBVIOUS
<1> QED
  BY <1>1 DEF Send, Adds

\* What the service does: only WaitMain takes from the main exchange, and only Park
\* puts a request where it waits.
ServiceQueues ==
    \/ queue' = queue
    \/ \E e \in {"wait", "hold", "glob"} : Takes(e)
    \/ Takes("main") /\ WaitMain
    \/ \E e \in Asker \cup {"main"} : \E m : Adds(e, m) /\ m.h = svc.rq2 /\ svc.rq2 \in RQB
    \/ \E e \in {"wait", "hold", "glob"} : \E m : Adds(e, m) /\ m.h = svc.rq /\ svc.rq \in RQB /\ Park

LEMMA ServiceSteps == ASSUME IInv, KInv, KBDServiceTask PROVE ServiceQueues
<1>1. CASE UNCHANGED queue
  BY <1>1 DEF ServiceQueues
<1>2. ASSUME NEW e \in {"wait", "hold", "glob"}, Take(e) PROVE ServiceQueues
  BY <1>2 DEF ServiceQueues, Take, Takes
<1>3. ASSUME NEW e \in Asker \cup {"main"}, NEW h \in RQB, h = svc.rq2, NEW erc, Send(e, h, erc) PROVE ServiceQueues
  BY <1>3, SendAdds DEF ServiceQueues
<1>4. CASE Top \/ AliasMem \/ ReadKey \/ ReadNone \/ AssignKBD \/ AbortJob \/ CheckResp
  BY <1>1, <1>4 DEF Top, AliasMem, ReadKey, ReadNone, AssignKBD, AbortJob, CheckResp, rqVars
<1>5. CASE Global1 \/ CheckWait
  BY <1>1, <1>2, <1>5 DEF Global1, CheckWait, rqVars
<1>6. CASE WaitMain
  BY <1>6 DEF WaitMain, Take, Takes, ServiceQueues
<1>7. CASE Park
  <2>1. PICK e \in {"wait", "hold", "glob"} : MoveRequest(svc.rq, e)
    BY <1>7 DEF Park
  <2>2. Send(e, svc.rq, "moved")
    BY <2>1 DEF MoveRequest
  <2>3. svc.rq \in RQB
    BY <1>7, SvcAt DEF Park, Serving
  <2> QED
    BY <1>7, <2>2, <2>3, SendAdds DEF ServiceQueues
<1>8. CASE Sift
  <2>1. svc.pc \in {"assign", "abort"}
    BY <1>8 DEF Sift
  <2>2. UNCHANGED queue \/ \E i \in DOMAIN Sifted[svc.pc] : Take(Sifted[svc.pc][i])
    BY <1>8 DEF Sift, rqVars
  <2>3. \A i \in DOMAIN Sifted[svc.pc] : Sifted[svc.pc][i] \in {"wait", "hold", "glob"}
    <3>1. Sifted[svc.pc] = <<"wait", "hold">> \/ Sifted[svc.pc] = <<"wait", "hold", "glob">>
      BY <2>1 DEF Sifted
    <3> QED
      BY <3>1
  <2> QED
    BY <1>1, <1>2, <2>2, <2>3
<1>9. CASE SiftMove
  <2>1. svc.rq2 \in RQB /\ "main" \in Asker \cup {"main"}
    BY <1>9, SvcAt DEF SiftMove
  <2>2. UNCHANGED queue \/ Send("main", svc.rq2, "moved")
    BY <1>9 DEF SiftMove, RespondAbort, MoveRequest
  <2> QED
    BY <1>1, <1>3, <2>1, <2>2
<1>10. CASE SendResp
  <2>1. svc.rq2 \in RQB
    BY <1>10, SvcAt DEF SendResp
  <2>2. PICK h \in RQB : h = svc.rq2
    BY <2>1
  <2>3. Held(h)
    BY <2>2, HeldThere
  <2>4. rqb[h].RespExch \in Asker \cup {"main"}
    BY <2>3 DEF KInv, Kinds, Killed, Asker, KillPc
  <2>5. Send(rqb[h].RespExch, h, svc.erc)
    BY <1>10, <2>2 DEF SendResp, Respond
  <2> QED
    BY <1>3, <2>2, <2>4, <2>5
<1> QED
  BY <1>4, <1>5, <1>6, <1>7, <1>8, <1>9, <1>10 DEF KBDServiceTask

\* What the others do.
OtherQueues ==
    \/ queue' = queue
    \/ \E e \in Asker : Takes(e) \/ Empties(e)
    \/ \E m : Adds("main", m) /\ m.h \in RQB

LEMMA OtherSteps == ASSUME IInv, KInv, Jobs \/ Tasks PROVE OtherQueues
<1>1. CASE UNCHANGED queue
  BY <1>1 DEF OtherQueues
<1>2. ASSUME NEW h \in RQB, NEW erc, Send("main", h, erc) PROVE OtherQueues
  BY <1>2, SendAdds DEF OtherQueues
<1>3. ASSUME NEW e \in Asker, Take(e) \/ Empties(e) PROVE OtherQueues
  BY <1>3 DEF OtherQueues, Take, Takes
<1>4. freeRQB # <<>> => Head(freeRQB) \in RQB
  BY ListTail DEF IInv, Types, RqbsOK
<1>5. ASSUME NEW code, NEW resp, NEW data, RequestFor(code, resp, data) PROVE OtherQueues
  BY <1>1, <1>2, <1>4, <1>5 DEF RequestFor, TakeRQB, rqVars
<1>6. ASSUME NEW j \in Job, ReadKBD(j) PROVE OtherQueues
  BY <1>1, <1>6 DEF ReadKBD, NewRQB, rqVars
<1>7. ASSUME NEW j \in Job, ReadKBDSend(j) PROVE OtherQueues
  <2>1. job[j].h \in RQB
    BY <1>7 DEF ReadKBDSend, IInv, Types, JobsOK
  <2> QED
    BY <1>2, <1>7, <2>1 DEF ReadKBDSend, Request
<1>8. ASSUME NEW j \in Job, ReadKBDEnd(j) \/ LoadJob(j) \/ KillJob(j) PROVE OtherQueues
  BY <1>3, <1>8 DEF ReadKBDEnd, LoadJob, KillJob, AllocExch, DeAllocExch, Empties, Asker
<1>9. CASE AskGlobal \/ SendAbort \/ \E j \in Job : MngrAssign(j)
  BY <1>5, <1>9 DEF AskGlobal, SendAbort, MngrAssign
<1>10. CASE MngrWoken
  BY <1>3, <1>10 DEF MngrWoken, Asker
<1>11. CASE KillExch \/ SendAbortEnd
  <2>1. mgr.on \in Asker
    BY <1>11 DEF KillExch, SendAbortEnd, KInv, Killed, KillPc, Asker
  <2> QED
    BY <1>3, <1>11, <2>1 DEF KillExch, SendAbortEnd, AllocExch, DeAllocExch, Empties
<1> QED
  BY <1>6, <1>7, <1>8, <1>9, <1>10, <1>11 DEF Jobs, Tasks

-----------------------------------------------------------------------------
(* The messages of the ISR that the service has not taken. *)

IntsIn(q) == {i \in DOMAIN q : q[i].h = ISR}
Ints == Cardinality(IntsIn(queue["main"]))

LEMMA IntsFinite ==
    ASSUME NEW S, NEW q \in Seq(S)
    PROVE  IntsIn(q) \in SUBSET (1 .. Len(q)) /\ IsFiniteSet(IntsIn(q)) /\ Cardinality(IntsIn(q)) \in Nat
<1>1. IsFiniteSet(1 .. Len(q)) /\ IntsIn(q) \in SUBSET (1 .. Len(q))
  BY FS_Interval DEF IntsIn
<1> QED
  BY <1>1, FS_Subset, FS_CardinalityType

LEMMA IntsAppend ==
    ASSUME NEW S, NEW q \in Seq(S), NEW m
    PROVE  Cardinality(IntsIn(Append(q, m))) = Cardinality(IntsIn(q)) + (IF m.h = ISR THEN 1 ELSE 0)
<1> DEFINE t == Append(q, m)
           n == Len(q)
<1>1. /\ n \in Nat /\ DOMAIN t = 1 .. n + 1 /\ DOMAIN q = 1 .. n
      /\ t[n + 1] = m /\ \A i \in 1 .. n : t[i] = q[i]
  OBVIOUS
<1>2. IntsIn(q) \in SUBSET (1 .. n) /\ IsFiniteSet(IntsIn(q)) /\ Cardinality(IntsIn(q)) \in Nat
  BY IntsFinite
<1> HIDE DEF t, n
<1>3. n + 1 \notin IntsIn(q)
  BY <1>1, <1>2
<1>4. \A i : i \in 1 .. n + 1 <=> i \in 1 .. n \/ i = n + 1
  BY <1>1
<1>5. CASE m.h = ISR
  <2>1. IntsIn(t) = IntsIn(q) \cup {n + 1}
    BY <1>1, <1>4, <1>5 DEF IntsIn
  <2>2. Cardinality(IntsIn(t)) = Cardinality(IntsIn(q)) + 1
    BY <1>2, <1>3, <2>1, FS_AddElement
  <2> QED
    BY <1>5, <2>2 DEF t
<1>6. CASE m.h # ISR
  <2>1. IntsIn(t) = IntsIn(q)
    BY <1>1, <1>4, <1>6 DEF IntsIn
  <2> QED
    BY <1>2, <1>6, <2>1 DEF t
<1> QED
  BY <1>5, <1>6

LEMMA IntsTail ==
    ASSUME NEW S, NEW q \in Seq(S), q # <<>>
    PROVE  Cardinality(IntsIn(q)) = Cardinality(IntsIn(Tail(q))) + (IF Head(q).h = ISR THEN 1 ELSE 0)
<1> DEFINE t == Tail(q)
           n == Len(t)
           A == IF Head(q).h = ISR THEN {1} ELSE {}
<1>1. /\ t \in Seq(S) /\ n \in Nat /\ DOMAIN t = 1 .. n /\ DOMAIN q = 1 .. n + 1
      /\ q[1] = Head(q) /\ \A i \in 1 .. n : t[i] = q[1 + i]
  OBVIOUS
<1>2. IntsIn(t) \in SUBSET (1 .. n) /\ IsFiniteSet(IntsIn(t)) /\ Cardinality(IntsIn(t)) \in Nat
  BY <1>1, IntsFinite
<1> HIDE DEF t, n
<1>3. A \in SUBSET (1 .. 1) /\ IntsIn(t) \in SUBSET (Nat \ {0})
  BY <1>2
<1>4. IntsIn(q) = A \cup Shift(1, IntsIn(t))
  <2>1. \A i : i \in 1 .. n + 1 <=> i = 1 \/ \E k \in 1 .. n : i = 1 + k
    <3> SUFFICES ASSUME NEW i PROVE i \in 1 .. n + 1 <=> i = 1 \/ \E k \in 1 .. n : i = 1 + k
      OBVIOUS
    <3>1. ASSUME i \in 1 .. n + 1, i # 1 PROVE \E k \in 1 .. n : i = 1 + k
      <4>1. i - 1 \in 1 .. n /\ i = 1 + (i - 1)
        BY <1>1, <3>1
      <4> QED
        BY <4>1
    <3>2. \A k \in 1 .. n : 1 + k \in 1 .. n + 1
      BY <1>1
    <3>3. 1 \in 1 .. n + 1
      BY <1>1
    <3> QED
      BY <3>1, <3>2, <3>3
  <2>2. \A i : i \in IntsIn(q) <=> i \in 1 .. n + 1 /\ q[i].h = ISR
    BY <1>1 DEF IntsIn
  <2>3. \A k : k \in IntsIn(t) <=> k \in 1 .. n /\ q[1 + k].h = ISR
    BY <1>1 DEF IntsIn
  <2>4. \A i : i \in A <=> i = 1 /\ q[1].h = ISR
    BY <1>1
  <2> HIDE DEF A
  <2>5. \A i : i \in Shift(1, IntsIn(t)) <=> \E k \in IntsIn(t) : i = 1 + k
    BY DEF Shift
  <2>6. \A i : i \in IntsIn(q) <=> i \in A \/ i \in Shift(1, IntsIn(t))
    BY <2>1, <2>2, <2>3, <2>4, <2>5
  <2> QED
    BY <2>6
<1>5. Cardinality(IntsIn(q)) = Cardinality(A) + Cardinality(IntsIn(t))
  <2>1. A \in SUBSET (1 .. 1) /\ 1 \in Nat /\ IntsIn(t) \in SUBSET (Nat \ {0}) /\ IsFiniteSet(IntsIn(t))
    BY <1>2, <1>3
  <2> HIDE DEF A, t
  <2>2. Cardinality(A \cup Shift(1, IntsIn(t))) = Cardinality(A) + Cardinality(IntsIn(t))
    BY <2>1, ShiftUnion
  <2> QED
    BY <1>4, <2>2
<1>6. Cardinality(A) = IF Head(q).h = ISR THEN 1 ELSE 0
  BY FS_Singleton, FS_EmptySet
<1> QED
  BY <1>2, <1>5, <1>6 DEF t

LEMMA IntsMain ==
    ASSUME QueuesOK
    PROVE  /\ Ints \in Nat /\ (queue["main"] = <<>> => Ints = 0)
           /\ queue'["main"] = queue["main"] => Ints' = Ints
           /\ Takes("main") => Ints = Ints' + (IF First.h = ISR THEN 1 ELSE 0)
           /\ \A m : Adds("main", m) => Ints' = Ints + (IF m.h = ISR THEN 1 ELSE 0)
<1>1. queue["main"] \in Seq(MsgAt("main")) /\ "main" \in DOMAIN queue
  BY Names DEF QueuesOK
<1>2. Ints \in Nat
  BY <1>1, IntsFinite DEF Ints
<1>3. ASSUME queue["main"] = <<>> PROVE Ints = 0
  <2>1. IntsIn(<<>>) = {}
    BY DEF IntsIn
  <2> QED
    BY <1>3, <2>1, FS_EmptySet DEF Ints
<1>4. ASSUME Takes("main") PROVE Ints = Ints' + (IF First.h = ISR THEN 1 ELSE 0)
  <2>1. queue'["main"] = Tail(queue["main"]) /\ queue["main"] # <<>>
    BY <1>1, <1>4 DEF Takes
  <2> QED
    BY <1>1, <2>1, IntsTail DEF Ints, First
<1>5. ASSUME NEW m, Adds("main", m) PROVE Ints' = Ints + (IF m.h = ISR THEN 1 ELSE 0)
  <2>1. queue'["main"] = Append(queue["main"], m)
    BY <1>1, <1>5 DEF Adds
  <2> QED
    BY <1>1, <2>1, IntsAppend DEF Ints
<1> QED
  BY <1>2, <1>3, <1>4, <1>5 DEF Ints

-----------------------------------------------------------------------------
(* What a step leaves: the blocks that the service has, and their contents. *)

\* With no message lost, a message that is sent is queued.
LEMMA SendSure ==
    ASSUME NEW e, NEW h, NEW erc, Send(e, h, erc), ~lost'
    PROVE  Adds(e, [h |-> h, erc |-> erc])
BY DEF Send, Adds

\* A block that somebody else than the service has.
LEMMA FreeHeld ==
    ASSUME IInv, freeRQB # <<>>
    PROVE  Head(freeRQB) \in RQB /\ ~Held(Head(freeRQB))
<1>1. RqbsOK /\ OneHolder
  BY DEF IInv, Types
<1>2. PICK h : h = Head(freeRQB)
  OBVIOUS
<1>3. h \in RQB /\ InList(freeRQB, h)
  BY <1>1, <1>2, ListTail DEF RqbsOK
<1>4. Holds("free", h) /\ "free" \in Holder /\ Hand \subseteq Holder /\ "free" \notin Hand
  BY <1>3 DEF Holds, Holder, Hand, Shelf
<1> QED
  BY <1>1, <1>2, <1>3, <1>4 DEF OneHolder, Held

\* The service changes no block but the one that it gives back.
LEMMA ServiceDisposes ==
    ASSUME IInv, KBDServiceTask
    PROVE  \/ UNCHANGED rqb
           \/ /\ svc.pc \in {"sifted", "dealias", "send"} /\ svc.rq2 \in RQB
              /\ DisposeRQB(svc.rq2)
<1>1. CASE SiftMove
  BY <1>1, SvcAt DEF SiftMove, RespondAbort, MoveRequest
<1>2. CASE SendResp
  BY <1>2, SvcAt DEF SendResp, Respond
<1>3. CASE Top \/ AliasMem \/ ReadKey \/ ReadNone \/ AssignKBD \/ AbortJob \/ CheckResp
  BY <1>3 DEF Top, AliasMem, ReadKey, ReadNone, AssignKBD, AbortJob, CheckResp, rqVars
<1>4. CASE Global1 \/ CheckWait \/ WaitMain \/ Sift
  BY <1>4 DEF Global1, CheckWait, WaitMain, Sift, rqVars, Take
<1>5. CASE Park
  BY <1>5 DEF Park, MoveRequest
<1> QED
  BY <1>1, <1>2, <1>3, <1>4, <1>5 DEF KBDServiceTask

\* The others say what they said.
LEMMA ServiceBlocks ==
    ASSUME IInv, KBDServiceTask
    PROVE  \/ UNCHANGED rqb
           \/ /\ svc.pc \in {"sifted", "dealias", "send"} /\ svc.rq2 \in RQB
              /\ \A h \in RQB : h # svc.rq2 => rqb'[h] = rqb[h]
<1>1. DisposeRQB(svc.rq2) => \A h \in RQB : h # svc.rq2 => rqb'[h] = rqb[h]
  BY DEF DisposeRQB, IInv, Types, RqbsOK
<1> QED
  BY <1>1, ServiceDisposes

LEMMA OtherBlocks ==
    ASSUME IInv, Jobs \/ Tasks
    PROVE  \A h \in RQB : Held(h) => rqb'[h] = rqb[h]
<1>1. CASE UNCHANGED rqb
  BY <1>1
<1>2. RqbsOK
  BY DEF IInv, Types
<1>3. ASSUME NEW code, NEW resp, NEW owner, NEW data, TakeRQB(code, resp, owner, data)
      PROVE  \A h \in RQB : Held(h) => rqb'[h] = rqb[h]
  <2>1. freeRQB # <<>>
    BY <1>3 DEF TakeRQB
  <2>2. \A h \in RQB : h # Head(freeRQB) => rqb'[h] = rqb[h]
    BY <1>2, <1>3 DEF TakeRQB, RqbsOK
  <2> QED
    BY <2>1, <2>2, FreeHeld
<1>4. ASSUME NEW code, NEW resp, NEW data, RequestFor(code, resp, data)
      PROVE  \A h \in RQB : Held(h) => rqb'[h] = rqb[h]
  BY <1>1, <1>3, <1>4 DEF RequestFor, rqVars
<1>5. ASSUME NEW j \in Job, ReadKBD(j)
      PROVE  \A h \in RQB : Held(h) => rqb'[h] = rqb[h]
  BY <1>1, <1>3, <1>5 DEF ReadKBD, NewRQB, rqVars
<1>6. ASSUME NEW j \in Job, ReadKBDSend(j) \/ ReadKBDEnd(j) \/ LoadJob(j) \/ KillJob(j)
      PROVE  UNCHANGED rqb
  BY <1>6 DEF ReadKBDSend, Request, ReadKBDEnd, Take, LoadJob, AllocExch, KillJob, DeAllocExch
<1>7. CASE AskGlobal \/ SendAbort \/ \E j \in Job : MngrAssign(j)
  BY <1>4, <1>7 DEF AskGlobal, SendAbort, MngrAssign
<1>8. CASE MngrWoken \/ KillExch \/ SendAbortEnd
  BY <1>1, <1>8 DEF MngrWoken, KillExch, SendAbortEnd, Take, AllocExch, DeAllocExch
<1> QED
  BY <1>1, <1>5, <1>6, <1>7, <1>8 DEF Jobs, Tasks

\* A message at the end leaves those that are there.
LEMMA InAppend ==
    ASSUME NEW S, NEW s \in Seq(S), NEW m
    PROVE  InQueue(Append(s, m), m.h) /\ \A g : InQueue(s, g) => InQueue(Append(s, m), g)
<1> DEFINE t == Append(s, m)
<1>1. /\ Len(s) \in Nat /\ DOMAIN s = 1 .. Len(s) /\ DOMAIN t = 1 .. Len(s) + 1
      /\ t[Len(s) + 1] = m /\ \A i \in 1 .. Len(s) : t[i] = s[i]
  OBVIOUS
<1>2. Len(s) + 1 \in DOMAIN t /\ DOMAIN s \subseteq DOMAIN t
  BY <1>1
<1> HIDE DEF t
<1>3. InQueue(t, m.h)
  BY <1>1, <1>2 DEF InQueue
<1>4. ASSUME NEW g, InQueue(s, g) PROVE InQueue(t, g)
  <2>1. PICK i \in DOMAIN s : s[i].h = g
    BY <1>4 DEF InQueue
  <2>2. i \in DOMAIN t /\ t[i].h = g
    BY <1>1, <1>2, <2>1
  <2> QED
    BY <2>2 DEF InQueue
<1> QED
  BY <1>3, <1>4 DEF t

\* Of those that are there, the first leaves.
LEMMA InTail ==
    ASSUME NEW S, NEW s \in Seq(S), s # <<>>
    PROVE  \A g : InQueue(s, g) => InQueue(Tail(s), g) \/ g = Head(s).h
<1> DEFINE t == Tail(s)
<1>1. /\ Len(t) \in Nat /\ DOMAIN t = 1 .. Len(t) /\ DOMAIN s = 1 .. Len(t) + 1
      /\ s[1] = Head(s) /\ \A i \in 1 .. Len(t) : t[i] = s[1 + i]
  OBVIOUS
<1> HIDE DEF t
<1>2. ASSUME NEW g, InQueue(s, g), g # Head(s).h PROVE InQueue(t, g)
  <2>1. PICK i \in DOMAIN s : s[i].h = g
    BY <1>2 DEF InQueue
  <2>2. i # 1 /\ i \in 1 .. Len(t) + 1
    BY <1>1, <1>2, <2>1
  <2>3. i - 1 \in 1 .. Len(t) /\ 1 + (i - 1) = i
    BY <1>1, <2>2
  <2>4. t[i - 1].h = g /\ i - 1 \in DOMAIN t
    BY <1>1, <2>1, <2>3
  <2> QED
    BY <2>4 DEF InQueue
<1> QED
  BY <1>2 DEF t

LEMMA AddsKeep ==
    ASSUME QueuesOK, NEW e \in Exch, NEW m, Adds(e, m)
    PROVE  /\ InQueue(queue'[e], m.h) /\ queue'[e] = Append(queue[e], m)
           /\ \A x \in Exch : x # e => queue'[x] = queue[x]
           /\ \A x \in Exch : \A g : InQueue(queue[x], g) => InQueue(queue'[x], g)
<1>1. queue[e] \in Seq(MsgAt(e)) /\ DOMAIN queue = Exch
  BY DEF QueuesOK
<1>2. queue'[e] = Append(queue[e], m) /\ \A x \in Exch : x # e => queue'[x] = queue[x]
  BY <1>1 DEF Adds
<1>3. InQueue(queue'[e], m.h) /\ \A g : InQueue(queue[e], g) => InQueue(queue'[e], g)
  BY <1>1, <1>2, InAppend
<1> QED
  BY <1>2, <1>3

LEMMA TakesKeep ==
    ASSUME QueuesOK, NEW e \in Exch, Takes(e)
    PROVE  /\ \A x \in Exch : x # e => queue'[x] = queue[x]
           /\ \A g : InQueue(queue[e], g) => InQueue(queue'[e], g) \/ g = Head(queue[e]).h
<1>1. queue[e] \in Seq(MsgAt(e)) /\ DOMAIN queue = Exch /\ queue[e] # <<>>
  BY DEF QueuesOK, Takes
<1>2. queue'[e] = Tail(queue[e]) /\ \A x \in Exch : x # e => queue'[x] = queue[x]
  BY <1>1 DEF Takes
<1>3. \A g : InQueue(queue[e], g) => InQueue(queue'[e], g) \/ g = Head(queue[e]).h
  BY <1>1, <1>2, InTail
<1> QED
  BY <1>2, <1>3

\* The buffers and the service stay, and so does what it has.
LEMMA OtherLeaves ==
    ASSUME IInv, Jobs \/ Tasks
    PROVE  UNCHANGED <<rgbKbdBuf, rgdKBBuf, dGlobalKey, KbdOwner, svc>>
<1>1. ASSUME NEW j \in Job, ReadKBD(j) \/ ReadKBDSend(j) \/ ReadKBDEnd(j) \/ LoadJob(j) \/ MngrAssign(j) \/ KillJob(j)
      PROVE  UNCHANGED <<rgbKbdBuf, rgdKBBuf, dGlobalKey, KbdOwner, svc>>
  BY <1>1 DEF ReadKBD, ReadKBDSend, ReadKBDEnd, LoadJob, MngrAssign, KillJob, kbd
<1>2. CASE AskGlobal \/ MngrWoken \/ KillExch \/ SendAbort \/ SendAbortEnd
  BY <1>2 DEF AskGlobal, MngrWoken, KillExch, SendAbort, SendAbortEnd, kbd
<1> QED
  BY <1>1, <1>2 DEF Jobs, Tasks

LEMMA OtherStays ==
    ASSUME IInv, KInv, Jobs \/ Tasks
    PROVE  /\ \A e \in {"wait", "hold", "glob"} : queue'[e] = queue[e]
           /\ \A h \in RQB : Held(h) => Held(h)' /\ rqb'[h] = rqb[h]
           /\ Ints' = Ints
<1>1. QueuesOK /\ OtherQueues /\ UNCHANGED svc
  BY OtherSteps, OtherLeaves DEF IInv, Types
<1>2. /\ DOMAIN queue = Exch /\ Shelf \subseteq Exch /\ Asker \subseteq Exch \ Shelf
      /\ {"wait", "hold", "glob"} \subseteq Shelf /\ "main" \in Shelf
  BY <1>1, Names DEF Asker, QueuesOK, Shelf
<1>3. /\ \A e \in Shelf \ {"main"} : queue'[e] = queue[e]
      /\ \A g : InQueue(queue["main"], g) => InQueue(queue'["main"], g)
      /\ Ints' = Ints
  <2>1. CASE queue' = queue
    BY <2>1 DEF Ints
  <2>2. ASSUME NEW e \in Asker, Takes(e) \/ Empties(e)
        PROVE  \A x \in Shelf : queue'[x] = queue[x]
    BY <1>2, <2>2 DEF Takes, Empties
  <2>3. ASSUME NEW m, Adds("main", m), m.h \in RQB
        PROVE  /\ \A e \in Shelf \ {"main"} : queue'[e] = queue[e]
               /\ \A g : InQueue(queue["main"], g) => InQueue(queue'["main"], g)
               /\ Ints' = Ints
    <3>1. Ints' = Ints + (IF m.h = ISR THEN 1 ELSE 0) /\ Ints \in Nat
      BY <1>1, <2>3, IntsMain
    <3>2. Ints' = Ints
      BY <2>3, <3>1, Names
    <3> QED
      BY <1>1, <1>2, <2>3, <3>2, AddsKeep
  <2>4. CASE \E e \in Asker : Takes(e) \/ Empties(e)
    BY <1>2, <2>2, <2>4 DEF Ints
  <2> QED
    BY <1>1, <2>1, <2>3, <2>4 DEF OtherQueues
<1>4. ASSUME NEW h \in RQB, Held(h) PROVE Held(h)'
  <2>1. PICK k \in Hand : Holds(k, h)
    BY <1>4 DEF Held
  <2>2. Holds(k, h)'
    BY <1>1, <1>3, <2>1 DEF Holds, Hand, Shelf
  <2> QED
    BY <2>2 DEF Held
<1> QED
  BY <1>2, <1>3, <1>4, OtherBlocks DEF Shelf

\* The ISR queues its message.
LEMMA IntStays ==
    ASSUME IInv, NEW b, IntKeyBrd(b), ~lost'
    PROVE  /\ \A e \in Exch \ {"main"} : queue'[e] = queue[e]
           /\ \A h \in RQB : Held(h) => Held(h)'
           /\ Ints' = Ints + 1
<1>1. QueuesOK /\ UNCHANGED svc /\ Send("main", ISR, "int")
  BY DEF IInv, Types, IntKeyBrd
<1>2. Adds("main", [h |-> ISR, erc |-> "int"]) /\ "main" \in Exch /\ Shelf \subseteq Exch
  BY <1>1, SendSure, Names
<1>3. PICK m : m = [h |-> ISR, erc |-> "int"]
  OBVIOUS
<1>4. Adds("main", m) /\ m.h = ISR
  BY <1>2, <1>3
<1>5. /\ \A x \in Exch : x # "main" => queue'[x] = queue[x]
      /\ \A x \in Exch : \A g : InQueue(queue[x], g) => InQueue(queue'[x], g)
  BY <1>1, <1>2, <1>4, AddsKeep
<1>6. Ints' = Ints + 1
  BY <1>1, <1>4, IntsMain
<1>7. ASSUME NEW h \in RQB, Held(h) PROVE Held(h)'
  <2>1. PICK k \in Hand : Holds(k, h)
    BY <1>7 DEF Held
  <2>2. Holds(k, h)'
    <3>1. CASE k \in Shelf
      <4>1. InQueue(queue[k], h) /\ k \in Exch
        BY <1>2, <2>1, <3>1 DEF Holds, Shelf
      <4>2. InQueue(queue'[k], h)
        BY <1>5, <4>1
      <4> QED
        BY <3>1, <4>2 DEF Holds
    <3>2. CASE k \notin Shelf
      BY <1>1, <2>1, <3>2 DEF Holds, Hand
    <3> QED
      BY <3>1, <3>2
  <2> QED
    BY <2>2 DEF Held
<1> QED
  BY <1>5, <1>6, <1>7

-----------------------------------------------------------------------------
(* What the service has, it keeps or gives back. *)

LEMMA HeldIf ==
    ASSUME NEW h, Held(h),
           \A e \in Shelf : InQueue(queue[e], h) => Held(h)',
           svc.rq = h \/ svc.rq2 = h => Held(h)'
    PROVE  Held(h)'
BY DEF Held, Hand, Holds, Shelf

LEMMA HeldNow ==
    /\ \A e \in Shelf : \A h : InQueue(queue'[e], h) => Held(h)'
    /\ \A h : h = svc'.rq \/ h = svc'.rq2 => Held(h)'
BY DEF Held, Hand, Holds, Shelf

LEMMA HeldStill ==
    ASSUME UNCHANGED queue, NEW h, Held(h), h \in {svc.rq, svc.rq2} => h \in {svc'.rq, svc'.rq2}
    PROVE  Held(h)'
<1>1. \A e \in Shelf : InQueue(queue[e], h) => Held(h)'
  BY HeldNow
<1>2. svc.rq = h \/ svc.rq2 = h => Held(h)'
  BY HeldNow
<1> QED
  BY <1>1, <1>2, HeldIf

LEMMA HeldTaken ==
    ASSUME QueuesOK, NEW e \in Shelf, Takes(e), NEW h, Held(h),
           h \in {svc.rq, svc.rq2} \/ h = Head(queue[e]).h => h \in {svc'.rq, svc'.rq2}
    PROVE  Held(h)'
<1>1. e \in Exch /\ Shelf \subseteq Exch
  BY Names
<1>2. /\ \A x \in Exch : x # e => queue'[x] = queue[x]
      /\ \A g : InQueue(queue[e], g) => InQueue(queue'[e], g) \/ g = Head(queue[e]).h
  BY <1>1, TakesKeep
<1>3. \A x \in Shelf : InQueue(queue[x], h) => Held(h)'
  BY <1>1, <1>2, HeldNow
<1>4. svc.rq = h \/ svc.rq2 = h => Held(h)'
  BY HeldNow
<1> QED
  BY <1>3, <1>4, HeldIf

LEMMA HeldMoved ==
    ASSUME QueuesOK, NEW e \in Exch, NEW m, Adds(e, m), NEW h, Held(h),
           h \in {svc.rq, svc.rq2} => h \in {svc'.rq, svc'.rq2} \/ (e \in Shelf /\ h = m.h)
    PROVE  Held(h)'
<1>1. Shelf \subseteq Exch
  BY Names
<1>2. /\ InQueue(queue'[e], m.h)
      /\ \A x \in Exch : \A g : InQueue(queue[x], g) => InQueue(queue'[x], g)
  BY AddsKeep
<1>3. \A x \in Shelf : InQueue(queue[x], h) => Held(h)'
  BY <1>1, <1>2, HeldNow
<1>4. svc.rq = h \/ svc.rq2 = h => Held(h)'
  BY <1>2, HeldNow
<1> QED
  BY <1>3, <1>4, HeldIf

\* The service has done with h: nobody is there to be answered, or it is dead, or
\* it is answered.
GivesBack(h) ==
    /\ h = svc.rq2
    /\ \/ svc.pc = "resp" /\ ~IsOwned(rqb[h].RespExch)
       \/ svc.pc = "sifted" /\ svc.then = "abort" /\ rqb[h].RqOwnerJob = rqb[svc.rq].dData0
       \/ svc.pc \in {"dealias", "send"} /\ \E m : Adds(rqb[h].RespExch, m)

Keeps == \A h \in RQB : Held(h) => (Held(h)' /\ rqb'[h] = rqb[h]) \/ GivesBack(h)

LEMMA ServiceHolds == ASSUME IInv, KInv, KBDServiceTask, ~lost' PROVE Keeps
<1>1. QueuesOK /\ Shelf \subseteq Exch
  BY Names DEF IInv, Types
<1>2. /\ svc.pc \in {"top", "glob", "main", "wait"} => svc.rq \notin RQB /\ svc.rq2 \notin RQB
      /\ svc.pc \in {"alias", "rq", "assign", "abort"} => svc.rq2 \notin RQB
      /\ svc.pc \in {"resp", "dealias", "send"} => svc.rq \notin RQB
      /\ svc \in SvcType
  BY SvcAt
<1>3. ASSUME UNCHANGED <<queue, rqb>>,
             \A h \in RQB : h \in {svc.rq, svc.rq2} => h \in {svc'.rq, svc'.rq2} \/ GivesBack(h)
      PROVE  Keeps
  BY <1>3, HeldStill DEF Keeps
<1>4. ASSUME NEW e \in Shelf, Take(e),
             \A h \in RQB : h \in {svc.rq, svc.rq2} \/ h = Head(queue[e]).h => h \in {svc'.rq, svc'.rq2}
      PROVE  Keeps
  <2>1. Takes(e) /\ UNCHANGED rqb
    BY <1>4 DEF Take, Takes
  <2> QED
    BY <1>1, <1>4, <2>1, HeldTaken DEF Keeps
<1>5. ASSUME NEW e \in Shelf, NEW r \in {svc.rq, svc.rq2}, MoveRequest(r, e),
             \A h \in RQB : h \in {svc.rq, svc.rq2} => h = r \/ h \in {svc'.rq, svc'.rq2}
      PROVE  Keeps
  <2>1. PICK m : m = [h |-> r, erc |-> "moved"]
    OBVIOUS
  <2>2. Adds(e, m) /\ m.h = r /\ UNCHANGED rqb
    BY <1>5, <2>1, SendSure DEF MoveRequest
  <2>3. \A h \in RQB : Held(h) => Held(h)'
    BY <1>1, <1>5, <2>2, HeldMoved
  <2> QED
    BY <2>2, <2>3 DEF Keeps
<1>6. CASE Top
  BY <1>2, <1>3, <1>6 DEF Top, rqVars
<1>7. CASE Global1
  <2>1. CASE Take("glob") /\ Answer(Head(queue["glob"]).h, "ok", "glob")
    <3>1. svc'.rq2 = Head(queue["glob"]).h /\ "glob" \in Shelf
      BY <2>1 DEF Answer, Service, Shelf
    <3> QED
      BY <1>2, <1>4, <1>7, <2>1, <3>1 DEF Global1
  <2> QED
    BY <1>2, <1>3, <1>7, <2>1 DEF Global1, rqVars
<1>8. CASE WaitMain
  <2>1. Take("main") /\ "main" \in Shelf /\ svc.pc = "main"
    BY <1>8 DEF WaitMain, Shelf
  <2>2. First.h = ISR \/ svc'.rq = First.h
    BY <1>8 DEF WaitMain, Service
  <2> QED
    BY <1>2, <1>4, <2>1, <2>2, Names DEF First
<1>9. CASE AliasMem
  <2>1. svc'.rq = svc.rq /\ svc.pc = "alias" /\ UNCHANGED <<queue, rqb>>
    BY <1>2, <1>9 DEF AliasMem, SvcType, rqVars
  <2> QED
    BY <1>2, <1>3, <2>1
<1>10. CASE CheckWait
  <2>1. CASE Take("wait") /\ svc' = [Service("rq") EXCEPT !.rq = Head(queue["wait"]).h]
    <3>1. svc'.rq = Head(queue["wait"]).h /\ "wait" \in Shelf
      BY <2>1 DEF Service, Shelf
    <3> QED
      BY <1>2, <1>4, <1>10, <2>1, <3>1 DEF CheckWait
  <2> QED
    BY <1>2, <1>3, <1>10, <2>1 DEF CheckWait, rqVars
<1>11. CASE ReadKey \/ ReadNone \/ AssignKBD \/ AbortJob
  <2>1. svc.pc = "rq" /\ UNCHANGED <<queue, rqb>>
    BY <1>11 DEF ReadKey, ReadNone, AssignKBD, AbortJob, Serving, rqVars
  <2>2. svc'.rq = svc.rq \/ svc'.rq2 = svc.rq
    BY <1>2, <1>11 DEF ReadKey, ReadNone, AssignKBD, AbortJob, Answer, Service, SvcType
  <2> QED
    BY <1>2, <1>3, <2>1, <2>2
<1>12. CASE Park
  <2>1. svc.pc = "rq" /\ \E e \in Shelf : MoveRequest(svc.rq, e)
    BY <1>12 DEF Park, Serving, Shelf
  <2> QED
    BY <1>2, <1>5, <2>1
<1>13. CASE Sift
  <2>1. svc.pc \in {"assign", "abort"}
    BY <1>13 DEF Sift
  <2>2. PICK at : at = Sifted[svc.pc]
    OBVIOUS
  <2>3. \A i \in DOMAIN at : at[i] \in Shelf
    <3>1. at = <<"wait", "hold">> \/ at = <<"wait", "hold", "glob">>
      BY <2>1, <2>2 DEF Sifted
    <3> QED
      BY <3>1 DEF Shelf
  <2>4. CASE Answer(svc.rq, "ok", "top") /\ UNCHANGED rqVars
    <3>1. svc'.rq2 = svc.rq /\ UNCHANGED <<queue, rqb>>
      BY <2>4 DEF Answer, Service, rqVars
    <3> QED
      BY <1>2, <1>3, <2>1, <3>1
  <2>5. ASSUME NEW i \in DOMAIN at, Take(at[i]),
               svc' = [svc EXCEPT !.then = svc.pc, !.pc = "sifted", !.rq2 = Head(queue[at[i]]).h]
        PROVE  Keeps
    <3>1. svc'.rq = svc.rq /\ svc'.rq2 = Head(queue[at[i]]).h
      BY <1>2, <2>5 DEF SvcType
    <3> QED
      BY <1>2, <1>4, <2>1, <2>3, <2>5, <3>1
  <2> QED
    BY <1>13, <2>2, <2>4, <2>5 DEF Sift
<1>14. CASE SiftMove
  <2>1. /\ svc'.rq = svc.rq /\ svc.pc = "sifted"
    BY <1>14 DEF SiftMove, Service
  <2>2. CASE MoveRequest(svc.rq2, "main")
    BY <1>5, <2>1, <2>2, Names
  <2>3. CASE svc.then = "abort" /\ rqb[svc.rq2].RqOwnerJob = rqb[svc.rq].dData0 /\ RespondAbort(svc.rq2)
    <3>1. UNCHANGED queue /\ \A h \in RQB : h # svc.rq2 => rqb'[h] = rqb[h]
      BY <2>3 DEF RespondAbort, DisposeRQB, IInv, Types, RqbsOK
    <3>2. \A h \in RQB : Held(h) /\ h # svc.rq2 => Held(h)'
      BY <2>1, <3>1, HeldStill
    <3>3. \A h \in RQB : h = svc.rq2 => GivesBack(h)
      BY <2>1, <2>3 DEF GivesBack
    <3> QED
      BY <3>1, <3>2, <3>3 DEF Keeps
  <2> QED
    BY <1>14, <2>2, <2>3 DEF SiftMove
<1>15. CASE CheckResp
  <2>1. svc.pc = "resp" /\ UNCHANGED <<queue, rqb>>
    BY <1>15 DEF CheckResp, rqVars
  <2>2. ~IsOwned(rqb[svc.rq2].RespExch) \/ svc'.rq2 = svc.rq2
    BY <1>2, <1>15 DEF CheckResp, SvcType
  <2>3. \A h \in RQB : h \in {svc.rq, svc.rq2} => h \in {svc'.rq, svc'.rq2} \/ GivesBack(h)
    BY <1>2, <2>1, <2>2 DEF GivesBack
  <2> QED
    BY <1>3, <2>1, <2>3
<1>16. CASE SendResp
  <2>1. svc.pc \in {"dealias", "send"} /\ Respond(svc.rq2, svc.erc)
    BY <1>16 DEF SendResp
  <2>2. PICK h \in RQB : h = svc.rq2 /\ Held(h)
    BY <2>1, SvcAt, HeldThere
  <2>3. PICK e : e = rqb[h].RespExch
    OBVIOUS
  <2>4. e \in Exch
    <3>1. e \in Asker
      BY <2>2, <2>3 DEF KInv, Kinds, Killed, KillPc, Asker
    <3> QED
      BY <3>1, Names DEF Asker
  <2>5. DisposeRQB(h) /\ Send(e, h, svc.erc)
    BY <2>1, <2>2, <2>3 DEF Respond
  <2>6. PICK m : Adds(e, m)
    BY <2>5, SendSure
  <2>7. \A g \in RQB : g # h => rqb'[g] = rqb[g]
    BY <2>5 DEF DisposeRQB, IInv, Types, RqbsOK
  <2>8. \A g \in RQB : Held(g) /\ g # h => Held(g)'
    BY <1>1, <1>2, <2>1, <2>2, <2>4, <2>6, HeldMoved
  <2>9. GivesBack(h)
    BY <2>1, <2>2, <2>3, <2>6 DEF GivesBack
  <2> QED
    BY <2>7, <2>8, <2>9 DEF Keeps
<1> QED
  BY <1>6, <1>7, <1>8, <1>9, <1>10, <1>11, <1>12, <1>13, <1>14, <1>15, <1>16 DEF KBDServiceTask

-----------------------------------------------------------------------------
(* Where requests are put away. *)

\* A request that is put away: at the exchange k, for the reason that is given there.
PutAway(k, h) ==
    /\ Park /\ h = svc.rq
    /\ \/ k = "hold" /\ rqb[h].RqOwnerJob # KbdOwner
       \/ k = "wait" /\ rqb[h].RqOwnerJob = KbdOwner /\ rgdKBBuf = <<>>
       \/ k = "glob" /\ rqb[h].ServiceCode = "global"

LEMMA ParkPuts ==
    ASSUME IInv, Park, NEW k \in {"wait", "hold", "glob"}, NEW h \in RQB, InQueue(queue'[k], h)
    PROVE  InQueue(queue[k], h) \/ PutAway(k, h)
<1>1. QueuesOK /\ ListedOnce /\ svc.pc = "rq" /\ k \in Shelf
  BY DEF IInv, Types, Park, Serving, Shelf
<1>2. PICK r \in RQB : r = svc.rq
  BY <1>1, SvcAt
<1>3. \A e \in Shelf : ~InQueue(queue[e], r)
  BY <1>2 DEF IInv, OneHolder, Holds, Holder, Shelf
<1>4. ASSUME NEW e \in Shelf, MoveRequest(r, e), ~InQueue(queue[k], h) PROVE k = e /\ h = r
  <2>1. Send(e, r, "moved") /\ "moved" \in Erc
    BY <1>4 DEF MoveRequest, Erc
  <2>2. \A x \in Shelf : \A g : InQueue(queue'[x], g) => InQueue(queue[x], g) \/ (x = e /\ g = r)
    BY <1>1, <1>3, <2>1, SendShelf
  <2> QED
    BY <1>1, <1>4, <2>2
<1>5. \/ rqb[r].RqOwnerJob # KbdOwner /\ MoveRequest(r, "hold")
      \/ rqb[r].RqOwnerJob = KbdOwner /\ rgdKBBuf = <<>> /\ MoveRequest(r, "wait")
      \/ rqb[r].ServiceCode = "global" /\ MoveRequest(r, "glob")
  BY <1>2 DEF Park, Serving
<1>6. "hold" \in Shelf /\ "wait" \in Shelf /\ "glob" \in Shelf
  BY DEF Shelf
<1> QED
  BY <1>2, <1>4, <1>5, <1>6 DEF PutAway

\* Only so does the service put requests away, and those that are say what they said.
LEMMA ParkedFrom ==
    ASSUME IInv, KInv, KBDServiceTask, NEW k \in {"wait", "hold", "glob"}, NEW h \in RQB,
           InQueue(queue'[k], h)
    PROVE  rqb'[h] = rqb[h] /\ (InQueue(queue[k], h) \/ PutAway(k, h))
<1>1. QueuesOK /\ ListedOnce /\ ServiceQueues /\ k \in Shelf /\ k # "main"
  BY ServiceSteps DEF IInv, Types, Shelf
<1>2. Shelf \subseteq Exch /\ Asker \subseteq Exch \ Shelf /\ "main" \in Shelf
  BY Names DEF Asker
<1>3. CASE Park
  BY <1>3, ParkPuts DEF Park, MoveRequest
<1>4. CASE ~Park
  <2>1. ASSUME NEW e \in Exch, Takes(e) PROVE InQueue(queue[k], h)
    <3>1. queue[e] \in Seq(MsgAt(e)) /\ queue[e] # <<>> /\ DOMAIN queue = Exch
      BY <1>1, <2>1 DEF QueuesOK, Takes
    <3>2. \A g : InQueue(Tail(queue[e]), g) => InQueue(queue[e], g)
      BY <3>1, QueueTail
    <3>3. queue'[e] = Tail(queue[e]) /\ \A x \in Exch : x # e => queue'[x] = queue[x]
      BY <2>1, <3>1 DEF Takes
    <3> QED
      BY <1>1, <1>2, <3>2, <3>3
  <2>2. ASSUME NEW e \in Asker \cup {"main"}, NEW m, Adds(e, m) PROVE InQueue(queue[k], h)
    <3>1. e \in Exch /\ k # e
      BY <1>1, <1>2
    <3>2. queue'[k] = queue[k]
      BY <1>1, <1>2, <2>2, <3>1, AddsKeep
    <3> QED
      BY <3>2
  <2>3. InQueue(queue[k], h)
    <3>1. {"wait", "hold", "glob"} \subseteq Exch
      BY <1>2 DEF Shelf
    <3> QED
      BY <1>1, <1>2, <1>4, <2>1, <2>2, <3>1 DEF ServiceQueues
  <2>4. h # svc.rq2
    BY <1>1, <2>3 DEF IInv, OneHolder, Holds, Holder, Shelf
  <2>5. rqb'[h] = rqb[h]
    BY <2>4, ServiceBlocks
  <2> QED
    BY <2>3, <2>5
<1> QED
  BY <1>3, <1>4

\* While the keyboard is assigned, the requests are sorted anew.
Assigning == svc.pc = "assign" \/ (svc.pc = "sifted" /\ svc.then = "assign")

\* The owner's requests wait, and those of others are on hold.
Sorted ==
    ~Assigning => \A h \in RQB : /\ InQueue(queue["wait"], h) => rqb[h].RqOwnerJob = KbdOwner
                                 /\ InQueue(queue["hold"], h) => rqb[h].RqOwnerJob # KbdOwner

\* Who waits for the global key asked for it.
Globals == \A h \in RQB : InQueue(queue["glob"], h) => rqb[h].ServiceCode = "global"

\* The service answers those who wait for it, when one came in.
GlobalSeen ==
    dGlobalKey => svc.pc = "glob" \/ (svc.pc \in {"resp", "dealias", "send"} /\ svc.then = "glob")

\* The keyboard is assigned to a job.
Owned == KbdOwner \in Job /\ \A h \in RQB : rqb[h].ServiceCode = "assign" => rqb[h].dData0 \in Job

QInv == BufOK /\ Sorted /\ Globals /\ GlobalSeen /\ Owned

\* Where the owner does not change and no assignment begins or ends.
LEMMA SortedStays ==
    ASSUME IInv, KInv, QInv, KBDServiceTask, KbdOwner' = KbdOwner, ~Assigning' => ~Assigning
    PROVE  Sorted' /\ Globals'
<1>1. ASSUME NEW h \in RQB, NEW k \in {"wait", "hold", "glob"}, InQueue(queue'[k], h)
      PROVE  rqb'[h] = rqb[h] /\ (InQueue(queue[k], h) \/ PutAway(k, h))
  BY <1>1, ParkedFrom
<1>2. Globals'
  BY <1>1 DEF Globals, QInv, PutAway
<1>3. Sorted'
  BY <1>1 DEF Sorted, QInv, PutAway
<1> QED
  BY <1>2, <1>3

LEMMA ServiceSorted ==
    ASSUME IInv, KInv, QInv, KBDServiceTask
    PROVE  Sorted' /\ Globals'
<1>1. CASE AssignKBD
  <2>1. svc.pc = "rq" /\ UNCHANGED <<queue, rqb>>
    BY <1>1 DEF AssignKBD, Serving, rqVars
  <2>2. Globals'
    BY <2>1 DEF QInv, Globals
  <2>3. KbdOwner' = KbdOwner \/ svc'.pc = "assign"
    <3>1. svc \in SvcType
      BY SvcAt
    <3> QED
      BY <1>1, <3>1 DEF AssignKBD, SvcType
  <2>4. Sorted'
    BY <2>1, <2>3 DEF QInv, Sorted, Assigning
  <2> QED
    BY <2>2, <2>4
<1>2. CASE Sift /\ svc.pc = "assign"
  <2>1. Sifted[svc.pc] = <<"wait", "hold">> /\ KbdOwner' = KbdOwner
    <3>1. Sifted["assign"] = <<"wait", "hold">>
      BY DEF Sifted
    <3>2. KbdOwner' = KbdOwner
      BY <1>2 DEF Sift, kbd
    <3> QED
      BY <1>2, <3>1, <3>2
  <2>2. PICK at : at = Sifted[svc.pc]
    OBVIOUS
  <2>3. CASE (\A i \in DOMAIN at : queue[at[i]] = <<>>) /\ UNCHANGED rqVars
    <3>1. queue["wait"] = <<>> /\ queue["hold"] = <<>> /\ UNCHANGED <<queue, rqb>>
      <4>1. 1 \in DOMAIN at /\ 2 \in DOMAIN at /\ at[1] = "wait" /\ at[2] = "hold"
        BY <2>1, <2>2
      <4> QED
        BY <2>3, <4>1 DEF rqVars
    <3>2. \A h : ~InQueue(<<>>, h)
      BY DEF InQueue
    <3>3. Globals'
      BY <3>1 DEF QInv, Globals
    <3> QED
      BY <3>1, <3>2, <3>3 DEF Sorted
  <2>4. CASE svc' = [svc EXCEPT !.then = svc.pc, !.pc = "sifted", !.rq2 = svc'.rq2]
    <3>1. Assigning'
      <4>1. svc \in SvcType
        BY SvcAt
      <4> QED
        BY <1>2, <2>4, <4>1 DEF Assigning, SvcType
    <3> QED
      BY <2>1, <3>1, SortedStays
  <2>5. ASSUME NEW v, svc' = [svc EXCEPT !.then = svc.pc, !.pc = "sifted", !.rq2 = v]
        PROVE  svc' = [svc EXCEPT !.then = svc.pc, !.pc = "sifted", !.rq2 = svc'.rq2]
    <3>1. svc \in SvcType
      BY SvcAt
    <3>2. svc'.rq2 = v
      BY <2>5, <3>1 DEF SvcType
    <3> QED
      BY <2>5, <3>2
  <2> QED
    BY <1>2, <2>2, <2>3, <2>4, <2>5 DEF Sift
<1>3. CASE ~AssignKBD /\ ~(Sift /\ svc.pc = "assign")
  <2>1. KbdOwner' = KbdOwner
    BY <1>3 DEF KBDServiceTask, Top, Global1, WaitMain, AliasMem, CheckWait, ReadKey, ReadNone,
                Park, AbortJob, Sift, SiftMove, CheckResp, SendResp, kbd
  <2>2. Assigning => Assigning'
    <3> SUFFICES ASSUME Assigning PROVE Assigning'
      OBVIOUS
    <3>1. SiftMove /\ svc.pc = "sifted" /\ svc.then = "assign"
      BY <1>3 DEF KBDServiceTask, Top, Global1, WaitMain, AliasMem, CheckWait, ReadKey, ReadNone,
                Park, AbortJob, Sift, SiftMove, CheckResp, SendResp, Serving, Assigning
    <3>2. svc'.pc = "assign"
      BY <3>1 DEF SiftMove, Service
    <3> QED
      BY <3>2 DEF Assigning
  <2> QED
    BY <2>1, <2>2, SortedStays
<1> QED
  BY <1>1, <1>2, <1>3

LEMMA ServiceBuf ==
    ASSUME IInv, QInv, KBDServiceTask
    PROVE  BufOK' /\ GlobalSeen'
<1>1. svc \in SvcType /\ BufOK /\ GlobalSeen
  BY SvcAt DEF QInv
<1>2. CASE Top
  <2>1. XLateRawKBD /\ (dGlobalKey' => svc'.pc = "glob")
    BY <1>2 DEF Top, Goto, Service
  <2> QED
    BY <1>1, <2>1, XLateDoes DEF GlobalSeen
<1>3. CASE Global1
  <2>1. BufOK'
    BY <1>1, <1>3 DEF Global1, BufOK
  <2>2. dGlobalKey' = FALSE \/ (svc'.pc = "resp" /\ svc'.then = "glob")
    BY <1>3 DEF Global1, Answer, Service
  <2> QED
    BY <2>1, <2>2 DEF GlobalSeen
<1>4. CASE WaitMain
  <2>1. CASE First.h = ISR
    <3>1. XLateRawKBD /\ (dGlobalKey' => svc'.pc = "glob")
      BY <1>4, <2>1 DEF WaitMain, Goto, Service
    <3> QED
      BY <1>1, <3>1, XLateDoes DEF GlobalSeen
  <2>2. CASE First.h # ISR
    <3>1. svc.pc = "main" /\ UNCHANGED <<rgbKbdBuf, rgdKBBuf, dGlobalKey>>
      BY <1>4, <2>2 DEF WaitMain
    <3> QED
      BY <1>1, <3>1 DEF BufOK, GlobalSeen
  <2> QED
    BY <2>1, <2>2
<1>5. CASE UNCHANGED kbd /\ svc.pc \notin {"glob", "resp", "dealias", "send"}
  BY <1>1, <1>5 DEF BufOK, GlobalSeen, kbd
<1>6. CASE AliasMem \/ CheckWait \/ ReadNone \/ Park \/ AbortJob \/ Sift \/ SiftMove
  BY <1>5, <1>6 DEF AliasMem, CheckWait, ReadNone, Park, AbortJob, Sift, SiftMove, Serving
<1>7. CASE AssignKBD
  <2>1. svc.pc = "rq" /\ UNCHANGED <<rgbKbdBuf, rgdKBBuf, dGlobalKey>>
    BY <1>7 DEF AssignKBD, Serving
  <2> QED
    BY <1>1, <2>1 DEF BufOK, GlobalSeen
<1>8. CASE ReadKey
  <2>1. /\ svc.pc = "rq" /\ UNCHANGED <<rgbKbdBuf, dGlobalKey>>
        /\ rgdKBBuf # <<>> /\ rgdKBBuf' = Tail(rgdKBBuf)
    BY <1>8 DEF ReadKey, Serving, ReadKBFinal
  <2>2. rgdKBBuf \in Seq(Key) /\ Len(rgdKBBuf) <= sKB /\ sKB \in Nat
    BY <1>1, KeyboardAssumption DEF BufOK
  <2>3. Len(rgdKBBuf) \in Nat /\ rgdKBBuf' \in Seq(Key) /\ Len(rgdKBBuf') = Len(rgdKBBuf) - 1
    BY <2>1, <2>2
  <2>4. Len(rgdKBBuf') <= sKB
    BY <2>2, <2>3
  <2> QED
    BY <1>1, <2>1, <2>3, <2>4 DEF BufOK, GlobalSeen
<1>9. CASE CheckResp
  <2>1. svc.pc = "resp" /\ UNCHANGED kbd /\ svc.then \in {"top", "glob"}
    BY <1>9, SvcAt DEF CheckResp
  <2>2. svc'.pc = svc.then \/ (svc'.pc \in {"dealias", "send"} /\ svc'.then = svc.then)
    BY <1>1, <1>9 DEF CheckResp, Goto, Service, SvcType
  <2> QED
    BY <1>1, <2>1, <2>2 DEF BufOK, GlobalSeen, kbd
<1>10. CASE SendResp
  <2>1. svc.pc \in {"dealias", "send"} /\ UNCHANGED kbd /\ svc.then \in {"top", "glob"}
    BY <1>10, SvcAt DEF SendResp
  <2>2. svc'.pc = svc.then
    BY <1>10 DEF SendResp, Goto, Service
  <2> QED
    BY <1>1, <2>1, <2>2 DEF BufOK, GlobalSeen, kbd
<1> QED
  BY <1>2, <1>3, <1>4, <1>6, <1>7, <1>8, <1>9, <1>10 DEF KBDServiceTask

LEMMA IntBuf ==
    ASSUME BufOK, NEW b \in Byte, IntKeyBrd(b)
    PROVE  BufOK' /\ Len(rgbKbdBuf) \in Nat /\ Len(rgbKbdBuf') \in {Len(rgbKbdBuf), Len(rgbKbdBuf) + 1}
<1>1. rgbKbdBuf' = rgbKbdBuf \/ rgbKbdBuf' = Append(rgbKbdBuf, b)
  BY DEF IntKeyBrd
<1>2. rgbKbdBuf \in Seq(Byte) /\ UNCHANGED <<rgdKBBuf, dGlobalKey>>
  BY DEF BufOK, IntKeyBrd
<1>3. Len(rgbKbdBuf) \in Nat
  BY <1>2
<1>4. rgbKbdBuf' \in Seq(Byte) /\ Len(rgbKbdBuf') \in {Len(rgbKbdBuf), Len(rgbKbdBuf) + 1}
  BY <1>1, <1>2, <1>3
<1> QED
  BY <1>2, <1>3, <1>4 DEF BufOK

LEMMA InitQInv == Init => QInv
<1> SUFFICES ASSUME Init PROVE QInv
  OBVIOUS
<1>1. /\ rgbKbdBuf = <<>> /\ rgdKBBuf = <<>> /\ dGlobalKey = FALSE
      /\ queue = [e \in Exch |-> <<>>]
  BY DEF Init, RequestsInit
<1>2. BufOK
  <2>1. <<>> \in Seq(Byte) /\ <<>> \in Seq(Key) /\ Len(<<>>) = 0 /\ 0 <= sKB
    BY KeyboardAssumption
  <2> QED
    BY <1>1, <2>1 DEF BufOK
<1>3. \A e \in {"wait", "hold", "glob"} : queue[e] = <<>>
  BY <1>1, Names DEF Shelf
<1>4. \A h : ~InQueue(<<>>, h)
  BY DEF InQueue
<1>5. Owned
  BY DEF Owned, Init, RequestsInit, NoRq
<1> QED
  BY <1>1, <1>2, <1>3, <1>4, <1>5 DEF QInv, Sorted, Globals, GlobalSeen

\* The steps of the others move nothing that was put away.
LEMMA AsideStays ==
    ASSUME QInv, UNCHANGED <<KbdOwner, svc>>,
           \A e \in {"wait", "hold", "glob"} : queue'[e] = queue[e],
           \A h \in RQB : Held(h) => rqb'[h] = rqb[h]
    PROVE  Sorted' /\ Globals'
<1>1. \A h \in RQB, e \in {"wait", "hold", "glob"} : InQueue(queue[e], h) => rqb'[h] = rqb[h]
  BY HeldThere DEF Shelf
<1>2. Globals'
  BY <1>1 DEF QInv, Globals
<1>3. Sorted'
  BY <1>1 DEF QInv, Sorted, Assigning
<1> QED
  BY <1>2, <1>3

LEMMA IntMain ==
    ASSUME IInv, NEW b, IntKeyBrd(b)
    PROVE  \A e \in Exch \ {"main"} : queue'[e] = queue[e]
BY DEF IInv, Types, QueuesOK, IntKeyBrd, Send

LEMMA OwnedStays == ASSUME IInv, Owned, [Next]_vars PROVE Owned'
<1>1. RqbsOK /\ freeRQB \in Seq(RQB)
  BY DEF IInv, Types, RqbsOK
<1>2. ASSUME UNCHANGED rqb, KbdOwner' \in Job PROVE Owned'
  BY <1>2 DEF Owned
<1>3. KbdOwner \in Job
  BY DEF Owned
<1>4. ASSUME NEW h, DisposeRQB(h), UNCHANGED KbdOwner PROVE Owned'
  BY <1>1, <1>4 DEF Owned, DisposeRQB, NoRq, RqbsOK
<1>5. ASSUME NEW code, NEW resp, NEW owner, NEW data, TakeRQB(code, resp, owner, data),
             code = "assign" => data \in Job, UNCHANGED KbdOwner
      PROVE  Owned'
  BY <1>1, <1>5 DEF Owned, TakeRQB, RqbsOK
<1>6. ASSUME NEW code, NEW resp, NEW data, RequestFor(code, resp, data),
             code = "assign" => data \in Job, UNCHANGED KbdOwner
      PROVE  Owned'
  BY <1>2, <1>3, <1>5, <1>6 DEF RequestFor, rqVars
<1>7. CASE UNCHANGED vars
  BY <1>2, <1>3, <1>7 DEF vars, rqVars
<1>8. ASSUME NEW b, IntKeyBrd(b) PROVE Owned'
  BY <1>2, <1>3, <1>8 DEF IntKeyBrd
<1>9. CASE Top \/ AliasMem \/ ReadKey \/ ReadNone \/ AbortJob \/ CheckResp
  BY <1>2, <1>3, <1>9 DEF Top, AliasMem, ReadKey, ReadNone, AbortJob, CheckResp, rqVars, kbd
<1>10. CASE Global1 \/ CheckWait \/ WaitMain \/ Sift
  BY <1>2, <1>3, <1>10 DEF Global1, CheckWait, WaitMain, Sift, rqVars, Take, kbd
<1>11. CASE Park
  BY <1>2, <1>3, <1>11 DEF Park, MoveRequest, kbd
<1>12. CASE AssignKBD
  <2>1. UNCHANGED rqb /\ KbdOwner' = rqb[svc.rq].dData0 /\ rqb[svc.rq].ServiceCode = "assign" /\ svc.pc = "rq"
    BY <1>12 DEF AssignKBD, Serving, rqVars
  <2>2. KbdOwner' \in Job
    BY <2>1, SvcAt DEF Owned
  <2> QED
    BY <1>2, <2>1, <2>2
<1>13. CASE SiftMove
  <2>1. (UNCHANGED rqb \/ DisposeRQB(svc.rq2)) /\ UNCHANGED KbdOwner
    BY <1>13 DEF SiftMove, RespondAbort, MoveRequest, kbd
  <2> QED
    BY <1>2, <1>3, <1>4, <2>1
<1>14. CASE SendResp
  BY <1>4, <1>14 DEF SendResp, Respond, kbd
<1>15. CASE KBDServiceTask
  BY <1>9, <1>10, <1>11, <1>12, <1>13, <1>14, <1>15 DEF KBDServiceTask
<1>16. CASE Jobs \/ Tasks
  <2>1. UNCHANGED KbdOwner
    BY <1>16, OtherLeaves
  <2>2. ASSUME NEW j \in Job, ReadKBD(j) PROVE Owned'
    BY <1>2, <1>3, <1>5, <2>1, <2>2 DEF ReadKBD, NewRQB, rqVars
  <2>3. ASSUME NEW j \in Job, ReadKBDSend(j) \/ ReadKBDEnd(j) \/ LoadJob(j) \/ KillJob(j) PROVE Owned'
    BY <1>2, <1>3, <2>1, <2>3
    DEF ReadKBDSend, Request, ReadKBDEnd, Take, LoadJob, AllocExch, KillJob, DeAllocExch
  <2>4. CASE AskGlobal \/ SendAbort \/ \E j \in Job : MngrAssign(j)
    BY <1>6, <2>1, <2>4 DEF AskGlobal, SendAbort, MngrAssign
  <2>5. CASE MngrWoken \/ KillExch \/ SendAbortEnd
    BY <1>2, <1>3, <2>1, <2>5 DEF MngrWoken, KillExch, SendAbortEnd, Take, AllocExch, DeAllocExch
  <2> QED
    BY <1>16, <2>2, <2>3, <2>4, <2>5 DEF Jobs, Tasks
<1> QED
  BY <1>7, <1>8, <1>15, <1>16 DEF Next

LEMMA NextQInv == ASSUME IInv, KInv, QInv, [Next]_vars PROVE QInv'
<1>0. Owned'
  BY OwnedStays DEF QInv
<1>1. CASE UNCHANGED vars
  BY <1>1, <1>0 DEF vars, rqVars, QInv, BufOK, Sorted, Assigning, Globals, GlobalSeen
<1>2. CASE KBDServiceTask
  BY <1>0, <1>2, ServiceSorted, ServiceBuf DEF QInv
<1>3. CASE Jobs \/ Tasks
  <2>1. UNCHANGED <<rgbKbdBuf, rgdKBBuf, dGlobalKey, KbdOwner, svc>>
    BY <1>3, OtherLeaves
  <2>2. /\ \A e \in {"wait", "hold", "glob"} : queue'[e] = queue[e]
        /\ \A h \in RQB : Held(h) => rqb'[h] = rqb[h]
    BY <1>3, OtherStays
  <2>3. Sorted' /\ Globals'
    BY <2>1, <2>2, AsideStays
  <2> QED
    BY <1>0, <2>1, <2>3 DEF QInv, BufOK, GlobalSeen
<1>4. ASSUME NEW b \in Byte, IntKeyBrd(b) PROVE QInv'
  <2>1. UNCHANGED <<rqb, dGlobalKey, KbdOwner, svc>>
    BY <1>4 DEF IntKeyBrd
  <2>2. \A e \in {"wait", "hold", "glob"} : queue'[e] = queue[e]
    BY <1>4, IntMain, Names DEF Shelf
  <2>3. Sorted' /\ Globals'
    BY <2>1, <2>2, AsideStays
  <2> QED
    BY <1>0, <1>4, <2>1, <2>3, IntBuf DEF QInv, GlobalSeen
<1>5. Next => KBDServiceTask \/ Jobs \/ Tasks \/ \E b \in Byte : IntKeyBrd(b)
  BY DEF Next, Byte
<1> QED
  BY <1>1, <1>2, <1>3, <1>4, <1>5

-----------------------------------------------------------------------------
(* Nobody waits for nothing, as long as no message is lost. *)

LEMMA LostStays == ASSUME [Next]_vars, ~lost' PROVE ~lost
<1>1. CASE UNCHANGED lost
  BY <1>1
<1>2. ASSUME NEW e, NEW h, NEW erc, Send(e, h, erc) PROVE ~lost
  BY <1>2 DEF Send
<1>3. ASSUME NEW e, Take(e) \/ AllocExch(e) \/ DeAllocExch(e) PROVE ~lost
  BY <1>1, <1>3 DEF Take, AllocExch, DeAllocExch
<1>4. ASSUME NEW code, NEW resp, NEW data, RequestFor(code, resp, data) PROVE ~lost
  BY <1>1, <1>2, <1>4 DEF RequestFor, rqVars
<1>5. CASE UNCHANGED vars
  BY <1>1, <1>5 DEF vars, rqVars
<1>6. ASSUME NEW b, IntKeyBrd(b) PROVE ~lost
  BY <1>2, <1>6 DEF IntKeyBrd
<1>7. CASE Top \/ AliasMem \/ ReadKey \/ ReadNone \/ AssignKBD \/ AbortJob \/ CheckResp
  BY <1>1, <1>7 DEF Top, AliasMem, ReadKey, ReadNone, AssignKBD, AbortJob, CheckResp, rqVars
<1>8. CASE Global1 \/ WaitMain \/ CheckWait \/ Sift
  BY <1>1, <1>3, <1>8 DEF Global1, WaitMain, CheckWait, Sift, rqVars
<1>9. CASE Park
  BY <1>2, <1>9 DEF Park, MoveRequest
<1>10. CASE SiftMove
  BY <1>1, <1>2, <1>10 DEF SiftMove, RespondAbort, MoveRequest
<1>11. CASE SendResp
  BY <1>2, <1>11 DEF SendResp, Respond
<1>12. CASE KBDServiceTask
  BY <1>7, <1>8, <1>9, <1>10, <1>11, <1>12 DEF KBDServiceTask
<1>13. ASSUME NEW j, ReadKBD(j) PROVE ~lost
  BY <1>1, <1>13 DEF ReadKBD, NewRQB, rqVars
<1>14. ASSUME NEW j, ReadKBDSend(j) PROVE ~lost
  BY <1>2, <1>14 DEF ReadKBDSend, Request
<1>15. ASSUME NEW j, ReadKBDEnd(j) \/ LoadJob(j) \/ KillJob(j) PROVE ~lost
  BY <1>3, <1>15 DEF ReadKBDEnd, LoadJob, KillJob
<1>16. ASSUME NEW j, MngrAssign(j) PROVE ~lost
  BY <1>4, <1>16 DEF MngrAssign
<1>17. CASE AskGlobal \/ SendAbort
  BY <1>4, <1>17 DEF AskGlobal, SendAbort
<1>18. CASE MngrWoken \/ KillExch \/ SendAbortEnd
  BY <1>3, <1>18 DEF MngrWoken, KillExch, SendAbortEnd
<1> QED
  BY <1>5, <1>6, <1>12, <1>13, <1>14, <1>15, <1>16, <1>17, <1>18 DEF Next, Jobs, Tasks

\* A job that waits has a request with the service, or its answer.
Pending ==
    \A j \in Job : job[j].pc = "asked" /\ job[j].h # None => Asks(j) # {} \/ queue[j] # <<>>

LEMMA ServiceLeaves == ASSUME IInv, KBDServiceTask PROVE JobsStay /\ UNCHANGED mgr
<1>1. CASE ReadKey
  <2>1. JobsOK
    BY DEF IInv, Types
  <2> QED
    BY <1>1, <2>1, KeyWritten DEF ReadKey, ReadKBFinal
<1>2. CASE ~ReadKey
  BY <1>2 DEF KBDServiceTask, Top, Global1, WaitMain, AliasMem, CheckWait, ReadNone,
              Park, AssignKBD, AbortJob, Sift, SiftMove, CheckResp, SendResp, JobsStay
<1> QED
  BY <1>1, <1>2

LEMMA NotEmptied ==
    ASSUME IInv, KInv, KBDServiceTask, NEW x \in Asker, queue[x] # <<>>
    PROVE  queue'[x] # <<>>
<1>1. QueuesOK /\ ServiceQueues
  BY ServiceSteps DEF IInv, Types
<1>2. Shelf \subseteq Exch /\ Asker \subseteq Exch \ Shelf
  BY Names DEF Asker
<1>3. ASSUME NEW e \in Shelf, Takes(e) PROVE queue'[x] = queue[x]
  BY <1>1, <1>2, <1>3, TakesKeep
<1>4. ASSUME NEW e \in Exch, NEW m, Adds(e, m) PROVE queue'[x] # <<>>
  <2>1. /\ queue'[e] = Append(queue[e], m) /\ queue[e] \in Seq(MsgAt(e))
        /\ \A y \in Exch : y # e => queue'[y] = queue[y]
    BY <1>1, <1>4, AddsKeep DEF QueuesOK
  <2>2. Append(queue[e], m) # <<>>
    BY <2>1
  <2> QED
    BY <1>2, <2>1, <2>2
<1>5. {"main", "wait", "hold", "glob"} \subseteq Shelf
  BY DEF Shelf
<1> QED
  BY <1>1, <1>2, <1>3, <1>4, <1>5 DEF ServiceQueues

LEMMA ServicePending ==
    ASSUME IInv, KInv, Pending, KBDServiceTask, ~lost'
    PROVE  Pending'
<1>1. Keeps /\ JobsStay
  BY ServiceHolds, ServiceLeaves
<1> SUFFICES ASSUME NEW j \in Job, job'[j].pc = "asked", job'[j].h # None
             PROVE  Asks(j)' # {} \/ queue'[j] # <<>>
  BY DEF Pending
<1>2. job[j].pc = "asked" /\ (Asks(j) # {} \/ queue[j] # <<>>)
  BY <1>1 DEF JobsStay, Pending
<1>3. j \in Asker /\ j \in Exch /\ j # "mgr"
  BY KeyboardAssumption, Names DEF Asker
<1>4. CASE queue[j] # <<>>
  BY <1>3, <1>4, NotEmptied
<1>5. CASE Asks(j) # {}
  <2>1. PICK h \in RQB : Held(h) /\ rqb[h].ServiceCode # "abort" /\ rqb[h].RespExch = j
    BY <1>5 DEF Asks
  <2>2. CASE Held(h)' /\ rqb'[h] = rqb[h]
    BY <2>1, <2>2 DEF Asks
  <2>3. CASE GivesBack(h)
    <3>1. ~(mgr.pc \in KillPc /\ mgr.on = j)
      BY <1>2 DEF KInv, Killed, DeadPc
    <3>2. CASE svc.pc = "resp" /\ ~IsOwned(j)
      BY <1>2, <3>1, <3>2 DEF IsOwned, KillPc
    <3>3. CASE svc.pc = "sifted" /\ svc.then = "abort" /\ rqb[h].RqOwnerJob = rqb[svc.rq].dData0
      <4>1. PICK r \in RQB : r = svc.rq
        BY <3>3, SvcAt
      <4>2. rqb[r].ServiceCode = "abort" /\ Held(r)
        BY <3>3, <4>1, HeldThere DEF KInv, Serves
      <4>3. mgr.pc = "aborting" /\ rqb[r].dData0 = mgr.on
        BY <4>2, AbortHeld
      <4>4. rqb[h].RqOwnerJob = j
        BY <1>3, <2>1 DEF KInv, Kinds
      <4> QED
        BY <3>1, <3>3, <4>1, <4>3, <4>4 DEF KillPc
    <3>4. ASSUME NEW m, Adds(j, m) PROVE queue'[j] # <<>>
      <4>1. queue'[j] = Append(queue[j], m) /\ queue[j] \in Seq(MsgAt(j))
        BY <1>3, <3>4, AddsKeep DEF IInv, Types, QueuesOK
      <4> QED
        BY <4>1
    <3> QED
      BY <2>1, <2>3, <3>2, <3>3, <3>4 DEF GivesBack
  <2> QED
    BY <1>1, <2>1, <2>2, <2>3 DEF Keeps
<1> QED
  BY <1>2, <1>4, <1>5

\* One of them goes on.
LEMMA PendingRest ==
    ASSUME Pending, \A h \in RQB : Held(h) => Held(h)' /\ rqb'[h] = rqb[h],
           NEW i, \A j \in Job \ {i} : job'[j].pc = "asked" => job'[j] = job[j] /\ queue'[j] = queue[j],
           i \in Job => job'[i].pc # "asked" \/ job'[i].h = None \/ Asks(i)' # {}
    PROVE  Pending'
<1> SUFFICES ASSUME NEW j \in Job, job'[j].pc = "asked", job'[j].h # None
             PROVE  Asks(j)' # {} \/ queue'[j] # <<>>
  BY DEF Pending
<1>1. CASE j = i
  BY <1>1
<1>2. CASE j # i
  <2>1. Asks(j) # {} => Asks(j)' # {}
    BY DEF Asks
  <2>2. job[j].pc = "asked" /\ job[j].h # None /\ queue'[j] = queue[j]
    BY <1>2
  <2> QED
    BY <2>1, <2>2 DEF Pending
<1> QED
  BY <1>1, <1>2

LEMMA JobsPending == ASSUME IInv, KInv, Pending, Jobs, ~lost' PROVE Pending'
<1>1. \A h \in RQB : Held(h) => Held(h)' /\ rqb'[h] = rqb[h]
  BY OtherStays
<1>2. QueuesOK /\ JobsOK /\ DOMAIN queue = Exch /\ Job \subseteq Exch \ {"main"}
  BY Names DEF IInv, Types, QueuesOK, Shelf
<1>3. ASSUME NEW i \in Job, ReadKBD(i) PROVE Pending'
  <2>1. UNCHANGED queue /\ \A j \in Job \ {i} : job'[j] = job[j]
    BY <1>2, <1>3 DEF ReadKBD, NewRQB, rqVars, JobsOK
  <2>2. job'[i].pc # "asked" \/ job'[i].h = None
    BY <1>2, <1>3 DEF ReadKBD, JobsOK
  <2> QED
    BY <1>1, <2>1, <2>2, PendingRest
<1>4. ASSUME NEW i \in Job, ReadKBDEnd(i) \/ LoadJob(i) PROVE Pending'
  <2>1. \A j \in Job \ {i} : job'[j] = job[j] /\ queue'[j] = queue[j]
    BY <1>2, <1>4 DEF ReadKBDEnd, LoadJob, Take, AllocExch, JobsOK
  <2>2. job'[i].pc # "asked"
    BY <1>2, <1>4 DEF ReadKBDEnd, LoadJob, JobsOK, IdleJob
  <2> QED
    BY <1>1, <2>1, <2>2, PendingRest
<1>5. ASSUME NEW i \in Job, ReadKBDSend(i) PROVE Pending'
  <2>1. job[i].pc = "send" /\ job[i].h \in RQB /\ UNCHANGED rqb /\ Send("main", job[i].h, "request")
    BY <1>2, <1>5 DEF ReadKBDSend, JobsOK, Request
  <2>2. PICK h \in RQB : h = job[i].h
    BY <2>1
  <2>3. PICK m : m = [h |-> h, erc |-> "request"]
    OBVIOUS
  <2>4. Adds("main", m) /\ m.h = h /\ "main" \in Exch /\ "main" \in Shelf
    BY <2>1, <2>2, <2>3, SendSure, Names
  <2>5. InQueue(queue'["main"], h) /\ \A x \in Exch : x # "main" => queue'[x] = queue[x]
    BY <1>2, <2>4, AddsKeep
  <2>6. Held(h)'
    BY <2>4, <2>5, HeldNow
  <2>7. rqb[h].ServiceCode \in {"read", "poll"} /\ rqb[h].RespExch = i
    BY <2>1, <2>2 DEF KInv, Drafts
  <2>8. h \in Asks(i)'
    BY <2>1, <2>6, <2>7 DEF Asks
  <2>9. \A j \in Job \ {i} : job'[j] = job[j] /\ queue'[j] = queue[j]
    BY <1>2, <1>5, <2>5 DEF ReadKBDSend, JobsOK
  <2> QED
    BY <1>1, <2>8, <2>9, PendingRest
<1> QED
  BY <1>3, <1>4, <1>5 DEF Jobs

LEMMA TasksPending == ASSUME IInv, KInv, Pending, Tasks PROVE Pending'
<1>1. \A h \in RQB : Held(h) => Held(h)' /\ rqb'[h] = rqb[h]
  BY OtherStays
<1>2. QueuesOK /\ JobsOK /\ DOMAIN queue = Exch /\ Job \subseteq Exch \ {"main"} /\ "mgr" \notin Job
  BY KeyboardAssumption, Names DEF IInv, Types, QueuesOK, Shelf
<1>3. \A j \in Job : job[j].pc = "asked" => ~(mgr.pc \in KillPc /\ mgr.on = j)
  BY DEF KInv, Killed, DeadPc
<1>4. ASSUME NEW code, NEW resp, NEW data, RequestFor(code, resp, data), UNCHANGED job PROVE Pending'
  <2>1. \A x \in Asker : queue'[x] = queue[x]
    <3>1. UNCHANGED queue \/ Send("main", Head(freeRQB), "request")
      BY <1>4 DEF RequestFor, rqVars
    <3> QED
      BY <1>2, <3>1, SendMain
  <2>2. \A j \in Job : job'[j] = job[j] /\ queue'[j] = queue[j]
    BY <1>4, <2>1 DEF Asker
  <2> QED
    BY <1>1, <1>2, <2>2, PendingRest
<1>5. CASE AskGlobal \/ SendAbort \/ \E j \in Job : MngrAssign(j)
  BY <1>4, <1>5 DEF AskGlobal, SendAbort, MngrAssign
<1>6. CASE MngrWoken
  <2>1. \A j \in Job : job'[j] = job[j] /\ queue'[j] = queue[j]
    BY <1>2, <1>6 DEF MngrWoken, Take
  <2> QED
    BY <1>1, <1>2, <2>1, PendingRest
<1>7. ASSUME NEW i \in Job, KillJob(i) PROVE Pending'
  <2>1. \A j \in Job \ {i} : job'[j] = job[j] /\ queue'[j] = queue[j]
    BY <1>2, <1>7 DEF KillJob, DeAllocExch, JobsOK
  <2>2. job'[i].pc # "asked"
    BY <1>2, <1>7 DEF KillJob, JobsOK
  <2> QED
    BY <1>1, <2>1, <2>2, PendingRest
<1>8. CASE KillExch \/ SendAbortEnd
  <2>1. mgr.pc \in KillPc
    BY <1>8 DEF KillExch, SendAbortEnd, KillPc
  <2>2. PICK i \in Job : i = mgr.on
    BY <2>1 DEF KInv, Killed
  <2>3. job[i].pc # "asked"
    BY <1>3, <2>1, <2>2
  <2>4. \A j \in Job \ {i} : job'[j] = job[j] /\ queue'[j] = queue[j]
    BY <1>2, <1>8, <2>2 DEF KillExch, SendAbortEnd, AllocExch, DeAllocExch, Take, JobsOK
  <2>5. job'[i].pc # "asked"
    BY <1>2, <1>8, <2>2, <2>3 DEF KillExch, SendAbortEnd, JobsOK, IdleJob
  <2> QED
    BY <1>1, <2>4, <2>5, PendingRest
<1> QED
  BY <1>5, <1>6, <1>7, <1>8 DEF Tasks

\* The ISR told the service of each byte that is left.
IntsEnough == Len(rgbKbdBuf) <= Ints

\* When there is a key for a request that waits, the service is about to look, or
\* will be told once more than there are bytes.
OwnerWaits == \E h \in RQB : InQueue(queue["wait"], h) /\ rqb[h].RqOwnerJob = KbdOwner
WillLook   == rgdKBBuf # <<>> /\ OwnerWaits => svc.pc = "wait" \/ Len(rgbKbdBuf) < Ints

Looks == IntsEnough /\ WillLook

LInv == ~lost => Pending /\ Looks

LEMMA BufLen == BufOK => Len(rgbKbdBuf) \in Nat
BY DEF BufOK

LEMMA LooksStay ==
    ASSUME BufOK, Looks, Ints \in Nat, Ints' = Ints, UNCHANGED rgbKbdBuf,
           rgdKBBuf' # <<>> => rgdKBBuf # <<>>,
           rgdKBBuf' # <<>> /\ OwnerWaits' => OwnerWaits /\ (svc.pc = "wait" => svc'.pc = "wait")
    PROVE  Looks'
BY BufLen DEF Looks, IntsEnough, WillLook

\* Only the message of the ISR leaves the count.
LEMMA ServiceInts ==
    ASSUME IInv, KInv, KBDServiceTask
    PROVE  /\ ~(WaitMain /\ First.h = ISR) => Ints' = Ints
           /\ WaitMain /\ First.h = ISR => Ints = Ints' + 1
           /\ Ints \in Nat
<1>1. QueuesOK /\ ServiceQueues
  BY ServiceSteps DEF IInv, Types
<1>2. /\ Ints \in Nat
      /\ queue'["main"] = queue["main"] => Ints' = Ints
      /\ Takes("main") => Ints = Ints' + (IF First.h = ISR THEN 1 ELSE 0)
      /\ \A m : Adds("main", m) => Ints' = Ints + (IF m.h = ISR THEN 1 ELSE 0)
  BY <1>1, IntsMain
<1>3. "main" \in Exch /\ DOMAIN queue = Exch /\ "main" \notin Asker /\ Asker \subseteq Exch
  BY <1>1, Names DEF QueuesOK, Asker
<1>4. CASE WaitMain
  <2>1. Takes("main")
    BY <1>4 DEF WaitMain, Take, Takes
  <2>2. Ints = Ints' + (IF First.h = ISR THEN 1 ELSE 0)
    BY <1>2, <2>1
  <2>3. Ints' \in Nat
    <3>1. queue'["main"] = Tail(queue["main"]) /\ queue["main"] \in Seq(MsgAt("main")) /\ queue["main"] # <<>>
      BY <1>1, <1>3, <2>1 DEF Takes, QueuesOK
    <3>2. queue'["main"] \in Seq(MsgAt("main"))
      BY <3>1
    <3> QED
      BY <3>2, IntsFinite DEF Ints
  <2>4. CASE First.h = ISR
    BY <1>2, <1>4, <2>2, <2>4
  <2>5. CASE First.h # ISR
    <3>1. (IF First.h = ISR THEN 1 ELSE 0) = 0
      BY <2>5
    <3>2. PICK n \in Nat : n = Ints'
      BY <2>3
    <3>3. Ints = n + 0
      BY <2>2, <3>1, <3>2
    <3>4. n + 0 = n
      OBVIOUS
    <3>5. Ints' = Ints
      BY <3>2, <3>3, <3>4
    <3> QED
      BY <1>2, <1>4, <2>5, <3>5
  <2> QED
    BY <2>4, <2>5
<1>5. CASE ~WaitMain
  <2>1. CASE queue'["main"] = queue["main"]
    BY <1>2, <1>5, <2>1
  <2>2. ASSUME NEW e \in {"wait", "hold", "glob"}, Takes(e) \/ \E m : Adds(e, m)
        PROVE  queue'["main"] = queue["main"]
    BY <1>3, <2>2 DEF Takes, Adds
  <2>3. ASSUME NEW e \in Asker, NEW m, Adds(e, m) PROVE queue'["main"] = queue["main"]
    BY <1>3, <2>3 DEF Adds
  <2>4. ASSUME NEW m, Adds("main", m), m.h \in RQB PROVE Ints' = Ints
    <3>1. m.h # ISR
      BY <2>4, Names
    <3> QED
      BY <1>2, <2>4, <3>1
  <2> QED
    BY <1>1, <1>2, <1>5, <2>1, <2>2, <2>3, <2>4 DEF ServiceQueues
<1> QED
  BY <1>4, <1>5

\* No other owner's request comes to wait, but one for which there is no key.
LEMMA ServiceWaits ==
    ASSUME IInv, KInv, KBDServiceTask, KbdOwner' = KbdOwner, OwnerWaits'
    PROVE  OwnerWaits \/ (Park /\ rgdKBBuf = <<>>)
<1>1. PICK h \in RQB : InQueue(queue'["wait"], h) /\ rqb'[h].RqOwnerJob = KbdOwner
  BY DEF OwnerWaits
<1>2. rqb'[h] = rqb[h] /\ (InQueue(queue["wait"], h) \/ PutAway("wait", h))
  BY <1>1, ParkedFrom
<1> QED
  BY <1>1, <1>2 DEF OwnerWaits, PutAway

\* The owner has one request: when that is taken, none of its waits.
LEMMA OwnerTaken ==
    ASSUME IInv, KInv, QInv, CheckWait
    PROVE  ~OwnerWaits'
<1>1. QueuesOK /\ ListedOnce /\ "wait" \in Shelf /\ UNCHANGED KbdOwner /\ svc.pc = "wait"
  BY DEF IInv, Types, Shelf, CheckWait, kbd
<1>2. CASE queue["wait"] = <<>> /\ UNCHANGED rqVars
  BY <1>2 DEF OwnerWaits, InQueue, rqVars
<1>3. CASE Take("wait")
  <2>1. PICK m : m = Head(queue["wait"])
    OBVIOUS
  <2>2. m.h \in RQB
    BY <1>3, <2>1, ServedRq
  <2>3. PICK g \in RQB : g = m.h
    BY <2>2
  <2>4. /\ InQueue(queue["wait"], g) /\ ~InQueue(queue'["wait"], g)
        /\ \A h : InQueue(queue'["wait"], h) => InQueue(queue["wait"], h)
    BY <1>1, <1>3, <2>1, <2>2, <2>3, Names, TakeShelf
  <2>5. ~Assigning /\ UNCHANGED rqb
    BY <1>1, <1>3 DEF Assigning, Take
  <2>6. ASSUME NEW h \in RQB, InQueue(queue["wait"], h)
        PROVE  Held(h) /\ rqb[h].ServiceCode # "abort" /\ rqb[h].RqOwnerJob = KbdOwner
    BY <1>1, <2>5, <2>6, HeldThere DEF QInv, Sorted, KInv, Parked
  <2>7. ASSUME NEW h \in RQB, InQueue(queue["wait"], h) PROVE h \in Asks(KbdOwner)
    <3>1. PICK o \in Job : o = KbdOwner /\ o # None
      BY KeyboardAssumption DEF QInv, Owned
    <3>2. rqb[h].RespExch = o
      BY <2>6, <2>7, <3>1 DEF KInv, Kinds
    <3> QED
      BY <2>6, <2>7, <3>1, <3>2 DEF Asks
  <2>8. ASSUME NEW h \in RQB, InQueue(queue'["wait"], h), rqb'[h].RqOwnerJob = KbdOwner PROVE FALSE
    <3>1. KbdOwner \in Asker
      BY DEF QInv, Owned, Asker
    <3>2. h \in Asks(KbdOwner) /\ g \in Asks(KbdOwner)
      BY <2>3, <2>4, <2>7, <2>8
    <3>3. h = g
      BY <3>1, <3>2 DEF KInv, Single
    <3> QED
      BY <2>4, <2>8, <3>3
  <2> QED
    BY <1>1, <2>8 DEF OwnerWaits
<1> QED
  BY <1>2, <1>3 DEF CheckWait

\* The service translates: there are fewer bytes, if there were any.
LEMMA TopLooks == ASSUME IInv, KInv, QInv, Looks, Top PROVE Looks'
<1>1. BufOK /\ XLateRawKBD /\ UNCHANGED <<queue, rqb, KbdOwner>> /\ svc.pc = "top"
  BY DEF QInv, Top, rqVars
<1>2. Ints \in Nat /\ Ints' = Ints /\ (OwnerWaits' <=> OwnerWaits)
  <2>1. Ints \in Nat
    BY IntsMain DEF IInv, Types
  <2> QED
    BY <1>1, <2>1 DEF Ints, OwnerWaits
<1>3. PICK n \in Nat, m \in Nat : n = Len(rgbKbdBuf) /\ m = Len(rgbKbdBuf')
  <2>1. BufOK'
    BY <1>1, XLateDoes
  <2>2. Len(rgbKbdBuf) \in Nat /\ Len(rgbKbdBuf') \in Nat
    BY <1>1, <2>1 DEF BufOK
  <2> QED
    BY <2>2
<1>4. /\ m <= n /\ (n # 0 => m + 1 <= n)
      /\ n = 0 => rgdKBBuf' = rgdKBBuf
  BY <1>1, <1>3, XLateDoes
<1>5. n <= Ints /\ (rgdKBBuf # <<>> /\ OwnerWaits => n < Ints)
  BY <1>1, <1>3 DEF Looks, IntsEnough, WillLook
<1>6. m <= Ints /\ (rgdKBBuf' # <<>> /\ OwnerWaits => m < Ints)
  BY <1>2, <1>3, <1>4, <1>5
<1> QED
  BY <1>2, <1>3, <1>6 DEF Looks, IntsEnough, WillLook

LEMMA WaitMainLooks == ASSUME IInv, KInv, QInv, Looks, WaitMain PROVE Looks'
<1>1. BufOK /\ svc.pc = "main" /\ UNCHANGED KbdOwner /\ KBDServiceTask /\ ~dGlobalKey
  BY DEF QInv, WaitMain, KBDServiceTask, GlobalSeen
<1>2. OwnerWaits' => OwnerWaits
  <2>1. svc.pc # "rq"
    BY <1>1
  <2> QED
    BY <1>1, <2>1, ServiceWaits DEF Park, Serving
<1>3. CASE First.h # ISR
  <2>1. Ints' = Ints /\ Ints \in Nat
    BY <1>1, <1>3, ServiceInts
  <2>2. UNCHANGED <<rgbKbdBuf, rgdKBBuf>>
    BY <1>3 DEF WaitMain
  <2> QED
    BY <1>1, <1>2, <2>1, <2>2, LooksStay
<1>4. CASE First.h = ISR
  <2>1. Ints = Ints' + 1 /\ Ints \in Nat
    BY <1>1, <1>4, ServiceInts
  <2>2. XLateRawKBD /\ (dGlobalKey' \/ svc'.pc = "wait")
    BY <1>4 DEF WaitMain, Goto, Service
  <2>3. PICK n \in Nat, m \in Nat : n = Len(rgbKbdBuf) /\ m = Len(rgbKbdBuf')
    <3>1. BufOK'
      BY <1>1, <2>2, XLateDoes
    <3>2. Len(rgbKbdBuf) \in Nat /\ Len(rgbKbdBuf') \in Nat
      BY <1>1, <3>1 DEF BufOK
    <3> QED
      BY <3>2
  <2>4. /\ m <= n /\ (n # 0 => m + 1 <= n)
        /\ n = 0 => rgdKBBuf' = rgdKBBuf /\ dGlobalKey' = dGlobalKey
        /\ rgdKBBuf = <<>> /\ rgdKBBuf' # <<>> /\ dGlobalKey' => m + 2 <= n
    BY <1>1, <2>2, <2>3, XLateDoes
  <2>5. n <= Ints /\ (rgdKBBuf # <<>> /\ OwnerWaits => n < Ints)
    BY <1>1, <2>3 DEF Looks, IntsEnough, WillLook
  <2>6. PICK i \in Nat : i = Ints'
    <3>1. queue'["main"] \in Seq(MsgAt("main"))
      <4>1. QueuesOK'
        BY <1>1, ServiceIInv DEF IInv, Types
      <4> QED
        BY <4>1, Names DEF QueuesOK
    <3>2. Ints' \in Nat
      BY <3>1, IntsFinite DEF Ints
    <3> QED
      BY <3>2
  <2>7. n <= i + 1 /\ (rgdKBBuf # <<>> /\ OwnerWaits => n <= i)
    <3>1. Ints = i + 1
      BY <2>1, <2>6
    <3>2. n <= i + 1
      BY <2>5, <3>1
    <3>3. ASSUME n < i + 1 PROVE n <= i
      BY <3>3
    <3> QED
      BY <2>5, <3>1, <3>2, <3>3
  <2>8. m <= i
    BY <2>4, <2>7
  <2>9. ASSUME rgdKBBuf' # <<>>, OwnerWaits, dGlobalKey' PROVE m < i
    <3>1. CASE rgdKBBuf = <<>>
      BY <2>4, <2>7, <2>9, <3>1
    <3>2. CASE rgdKBBuf # <<>>
      <4>1. n # 0
        BY <1>1, <2>4, <2>9
      <4> QED
        BY <2>4, <2>7, <2>9, <3>2, <4>1
    <3> QED
      BY <3>1, <3>2
  <2> QED
    BY <1>2, <2>2, <2>3, <2>6, <2>8, <2>9 DEF Looks, IntsEnough, WillLook
<1> QED
  BY <1>3, <1>4

LEMMA ServiceLooks == ASSUME IInv, KInv, QInv, Looks, KBDServiceTask PROVE Looks'
<1>1. BufOK /\ svc \in SvcType
  BY SvcAt DEF QInv
<1>2. CASE CheckWait
  <2>1. ~OwnerWaits' /\ svc.pc = "wait" /\ UNCHANGED <<rgbKbdBuf, rgdKBBuf>>
    BY <1>2, OwnerTaken DEF CheckWait, kbd
  <2>2. ~WaitMain
    BY <2>1 DEF WaitMain
  <2>3. Ints' = Ints /\ Ints \in Nat
    BY <2>2, ServiceInts
  <2> QED
    BY <1>1, <2>1, <2>3, LooksStay
<1>3. ASSUME ~WaitMain, svc.pc # "wait", UNCHANGED <<rgbKbdBuf, KbdOwner>>,
             rgdKBBuf' # <<>> => rgdKBBuf # <<>>
      PROVE  Looks'
  <2>1. Ints' = Ints /\ Ints \in Nat
    BY <1>3, ServiceInts
  <2>2. rgdKBBuf' # <<>> /\ OwnerWaits' => OwnerWaits
    BY <1>3, ServiceWaits
  <2> QED
    BY <1>1, <1>3, <2>1, <2>2, LooksStay
<1>4. CASE Global1 \/ AliasMem \/ ReadNone \/ AbortJob \/ Sift \/ SiftMove \/ CheckResp \/ SendResp \/ Park
  BY <1>3, <1>4 DEF Global1, AliasMem, ReadNone, AbortJob, Sift, SiftMove, CheckResp, SendResp,
                    Park, Serving, kbd, WaitMain
<1>5. CASE ReadKey
  BY <1>3, <1>5 DEF ReadKey, Serving, ReadKBFinal, WaitMain
<1>6. CASE AssignKBD
  <2>1. /\ svc.pc = "rq" /\ UNCHANGED <<queue, rqb, rgbKbdBuf, rgdKBBuf>>
    BY <1>6 DEF AssignKBD, Serving, rqVars
  <2>2. ~WaitMain /\ ~Assigning
    BY <2>1 DEF WaitMain, Assigning
  <2>3. Ints' = Ints /\ Ints \in Nat
    BY <2>2, ServiceInts
  <2>4. OwnerWaits' => OwnerWaits
    BY <2>1, <2>2 DEF OwnerWaits, QInv, Sorted
  <2> QED
    BY <1>1, <2>1, <2>3, <2>4, LooksStay
<1> QED
  BY <1>2, <1>4, <1>5, <1>6, TopLooks, WaitMainLooks DEF KBDServiceTask

\* Those who wait are the same when a step leaves them.
LEMMA WaitsStill ==
    ASSUME UNCHANGED KbdOwner, queue'["wait"] = queue["wait"],
           \A h \in RQB : Held(h) => rqb'[h] = rqb[h]
    PROVE  OwnerWaits' => OwnerWaits
BY HeldThere DEF OwnerWaits, Shelf

LEMMA NextLInv == ASSUME IInv, KInv, QInv, LInv, [Next]_vars PROVE LInv'
<1> SUFFICES ASSUME ~lost' PROVE Pending' /\ Looks'
  BY DEF LInv
<1>1. Pending /\ Looks /\ BufOK
  BY LostStays DEF LInv, QInv
<1>2. CASE UNCHANGED vars
  <2>1. UNCHANGED <<queue, freeRQB, rqb, svc, job, rgbKbdBuf, rgdKBBuf, KbdOwner>>
    BY <1>2 DEF vars, rqVars
  <2>2. Pending'
    <3>1. \A h : Held(h)' <=> Held(h)
      BY <2>1 DEF Held, Holds, InQueue, InList
    <3>2. \A j : Asks(j)' = Asks(j)
      BY <2>1, <3>1 DEF Asks
    <3> QED
      BY <1>1, <2>1, <3>2 DEF Pending
  <2> QED
    BY <1>1, <2>1, <2>2 DEF Looks, IntsEnough, WillLook, OwnerWaits, Ints
<1>3. CASE KBDServiceTask
  BY <1>1, <1>3, ServicePending, ServiceLooks
<1>4. CASE Jobs \/ Tasks
  <2>1. UNCHANGED <<rgbKbdBuf, rgdKBBuf, KbdOwner, svc>>
    BY <1>4, OtherLeaves
  <2>2. /\ queue'["wait"] = queue["wait"] /\ Ints' = Ints
        /\ \A h \in RQB : Held(h) => rqb'[h] = rqb[h]
    BY <1>4, OtherStays
  <2>3. Ints \in Nat
    BY IntsMain DEF IInv, Types
  <2>4. Looks'
    BY <1>1, <2>1, <2>2, <2>3, WaitsStill, LooksStay
  <2> QED
    BY <1>1, <1>4, <2>4, JobsPending, TasksPending
<1>5. ASSUME NEW b \in Byte, IntKeyBrd(b) PROVE Pending' /\ Looks'
  <2>1. UNCHANGED <<rqb, rgdKBBuf, KbdOwner, svc, job>>
    BY <1>5 DEF IntKeyBrd
  <2>2. /\ \A e \in Exch \ {"main"} : queue'[e] = queue[e]
        /\ \A h \in RQB : Held(h) => Held(h)'
        /\ Ints' = Ints + 1
    BY <1>5, IntStays
  <2>3. Pending'
    <3>1. \A j \in Job : queue'[j] = queue[j]
      BY <2>2, Names
    <3>2. Monitor \in Job /\ \A j \in Job : Asks(j) # {} => Asks(j)' # {}
      BY <2>1, <2>2, KeyboardAssumption DEF Asks
    <3> QED
      BY <1>1, <2>1, <3>1, <3>2 DEF Pending
  <2>4. OwnerWaits' => OwnerWaits
    BY <2>1, <2>2, Names, WaitsStill DEF Shelf
  <2>5. PICK n \in Nat : n = Len(rgbKbdBuf) /\ Len(rgbKbdBuf') \in {n, n + 1}
    BY <1>1, <1>5, IntBuf
  <2>6. Ints \in Nat
    BY IntsMain DEF IInv, Types
  <2>7. Looks'
    BY <1>1, <2>1, <2>2, <2>4, <2>5, <2>6 DEF Looks, IntsEnough, WillLook
  <2> QED
    BY <2>3, <2>7
<1>6. Next => KBDServiceTask \/ Jobs \/ Tasks \/ \E b \in Byte : IntKeyBrd(b)
  BY DEF Next, Byte
<1> QED
  BY <1>2, <1>3, <1>4, <1>5, <1>6

LEMMA InitLInv == Init => LInv
<1> SUFFICES ASSUME Init PROVE Pending /\ Looks
  BY DEF LInv
<1>1. rgbKbdBuf = <<>> /\ rgdKBBuf = <<>> /\ queue = [e \in Exch |-> <<>>] /\ job = [j \in Job |-> IdleJob]
  BY DEF Init, RequestsInit
<1>2. Pending
  BY <1>1 DEF Pending, IdleJob
<1>3. Len(<<>>) = 0 /\ queue["main"] = <<>>
  BY <1>1, Names
<1>4. Ints \in Nat
  BY InitIInv, IntsMain DEF IInv, Types
<1> QED
  BY <1>1, <1>2, <1>3, <1>4 DEF Looks, IntsEnough, WillLook

LEMMA NoneWaits == ASSUME IInv, KInv, QInv, LInv PROVE NoneWaitsForNothing
<1> SUFFICES ASSUME svc.pc = "main", queue["main"] = <<>>, ~lost,
                    job[KbdOwner].pc = "asked", job[KbdOwner].h # None, queue[KbdOwner] = <<>>,
                    Keys # <<>>
             PROVE  FALSE
  BY DEF NoneWaitsForNothing
<1>1. Pending /\ IntsEnough /\ WillLook /\ BufOK /\ Sorted /\ Globals
  BY DEF LInv, Looks, QInv
<1>2. PICK o \in Job : o = KbdOwner /\ o # "mgr" /\ o # None
  BY KeyboardAssumption DEF QInv, Owned
<1>3. Ints = 0
  BY IntsMain DEF IInv, Types
<1>4. rgbKbdBuf = <<>>
  <2>1. rgbKbdBuf \in Seq(Byte) /\ Len(rgbKbdBuf) <= 0
    BY <1>1, <1>3 DEF IntsEnough, BufOK
  <2> QED
    BY <2>1, EmptySeq
<1>5. rgdKBBuf # <<>>
  <2>1. rgdKBBuf = <<>> => rgdKBBuf \o <<>> = <<>>
    OBVIOUS
  <2> QED
    BY <1>4, <2>1, KeysEmpty DEF Keys
<1>6. ~OwnerWaits
  <2>1. ~(Len(<<>>) < 0)
    OBVIOUS
  <2> QED
    BY <1>1, <1>3, <1>4, <1>5, <2>1 DEF WillLook
<1>7. PICK h \in RQB : Held(h) /\ rqb[h].ServiceCode # "abort" /\ rqb[h].RespExch = o
  BY <1>1, <1>2 DEF Pending, Asks
<1>8. rqb[h].RqOwnerJob = o /\ rqb[h].ServiceCode \in {"read", "poll"}
  BY <1>2, <1>7 DEF KInv, Kinds
<1>9. h # svc.rq /\ h # svc.rq2
  BY SvcAt
<1>10. ~InQueue(queue["main"], h)
  BY DEF InQueue
<1>11. PICK k \in {"wait", "hold", "glob"} : InQueue(queue[k], h)
  BY <1>7, <1>9, <1>10 DEF Held, Hand, Holds, Shelf
<1>12. k # "wait"
  BY <1>2, <1>6, <1>8, <1>11 DEF OwnerWaits
<1>13. k # "hold"
  BY <1>1, <1>2, <1>8, <1>11 DEF Sorted, Assigning
<1>14. k # "glob"
  BY <1>1, <1>8, <1>11 DEF Globals
<1> QED
  BY <1>11, <1>12, <1>13, <1>14

\* When the service waits for a message, the job that owns the keyboard does not
\* wait for a key that was typed, unless a message was lost or a SendAbort was fooled
\* (XLateRawKBD, CheckWait, KSTAssignKBD).
THEOREM OwnerIsServed == Spec => []NoneWaitsForNothing
<1> DEFINE DInv == IInv /\ (~fooled => KInv /\ Ahead /\ QInv /\ LInv)
<1>1. Init => DInv
  BY InitIInv, InitKInv, InitQInv, InitLInv
<1>2. DInv /\ [Next]_vars => DInv'
  BY NextIInv, NextKInv, NextAhead, NextQInv, NextLInv, FooledStays
<1>3. DInv => NoneWaitsForNothing
  BY NoneWaits DEF NoneWaitsForNothing
<1> QED
  BY <1>1, <1>2, <1>3, PTL DEF Spec

-----------------------------------------------------------------------------
(* Who has a request with the service. *)

\* What the service takes in its hands it had.
LEMMA ServiceHands ==
    ASSUME IInv, KInv, KBDServiceTask
    PROVE  (svc'.rq \in RQB => Held(svc'.rq)) /\ (svc'.rq2 \in RQB => Held(svc'.rq2))
<1>1. QueuesOK /\ ListedOnce /\ svc \in SvcType /\ None \notin RQB /\ ISR \notin RQB
  BY SvcAt, Names DEF IInv, Types
<1>2. ASSUME NEW e \in Shelf, Take(e) PROVE Held(Head(queue[e]).h)
  <2>1. PICK m : m = Head(queue[e])
    OBVIOUS
  <2>2. InQueue(queue[e], m.h)
    BY <1>1, <1>2, <2>1, TakeShelf
  <2> QED
    BY <2>1, <2>2, HeldThere
<1>3. Held(svc.rq) /\ Held(svc.rq2)
  BY HeldThere
<1>4. CASE svc'.rq \in {None, svc.rq} /\ svc'.rq2 \in {None, svc.rq, svc.rq2}
  BY <1>1, <1>3, <1>4
<1>5. CASE Top \/ Park \/ SendResp
  BY <1>4, <1>5 DEF Top, Park, SendResp, Goto, Service
<1>6. CASE Global1
  <2>1. CASE Take("glob") /\ Answer(Head(queue["glob"]).h, "ok", "glob")
    <3>1. svc'.rq = None /\ svc'.rq2 = Head(queue["glob"]).h /\ "glob" \in Shelf
      BY <2>1 DEF Answer, Service, Shelf
    <3> QED
      BY <1>1, <1>2, <2>1, <3>1
  <2> QED
    BY <1>4, <1>6, <2>1 DEF Global1, Goto, Service
<1>7. CASE WaitMain
  <2>1. svc'.rq2 = None /\ svc'.rq \in {None, First.h} /\ Take("main") /\ "main" \in Shelf
    BY <1>7 DEF WaitMain, Goto, Service, Shelf
  <2> QED
    BY <1>1, <1>2, <2>1 DEF First
<1>8. CASE CheckWait
  <2>1. CASE Take("wait") /\ svc' = [Service("rq") EXCEPT !.rq = Head(queue["wait"]).h]
    <3>1. svc'.rq2 = None /\ svc'.rq = Head(queue["wait"]).h /\ "wait" \in Shelf
      BY <2>1 DEF Service, Shelf
    <3> QED
      BY <1>1, <1>2, <2>1, <3>1
  <2> QED
    BY <1>4, <1>8, <2>1 DEF CheckWait, Goto, Service
<1>9. CASE AliasMem \/ AssignKBD \/ AbortJob \/ CheckResp
  <2>1. ASSUME NEW pc, svc' = [svc EXCEPT !.pc = pc] PROVE svc'.rq = svc.rq /\ svc'.rq2 = svc.rq2
    BY <1>1, <2>1 DEF SvcType
  <2>2. ASSUME NEW pc, Goto(pc) PROVE svc'.rq = None /\ svc'.rq2 = None
    BY <2>2 DEF Goto, Service
  <2>3. ASSUME NEW erc, NEW then, Answer(svc.rq, erc, then) PROVE svc'.rq = None /\ svc'.rq2 = svc.rq
    BY <2>3 DEF Answer, Service
  <2>4. \/ \E pc : svc' = [svc EXCEPT !.pc = pc]
        \/ \E pc : Goto(pc)
        \/ \E erc, then : Answer(svc.rq, erc, then)
    BY <1>9 DEF AliasMem, AssignKBD, AbortJob, CheckResp
  <2> QED
    BY <1>4, <2>1, <2>2, <2>3, <2>4
<1>10. CASE ReadKey \/ ReadNone
  BY <1>4, <1>10 DEF ReadKey, ReadNone, Answer, Service
<1>11. CASE Sift
  <2>1. svc.pc \in {"assign", "abort"}
    BY <1>11 DEF Sift
  <2>2. PICK at : at = Sifted[svc.pc]
    OBVIOUS
  <2>3. \A i \in DOMAIN at : at[i] \in Shelf
    <3>1. at = <<"wait", "hold">> \/ at = <<"wait", "hold", "glob">>
      BY <2>1, <2>2 DEF Sifted
    <3> QED
      BY <3>1 DEF Shelf
  <2>4. CASE Answer(svc.rq, "ok", "top")
    BY <1>4, <2>4 DEF Answer, Service
  <2>5. ASSUME NEW i \in DOMAIN at, Take(at[i]),
               svc' = [svc EXCEPT !.then = svc.pc, !.pc = "sifted", !.rq2 = Head(queue[at[i]]).h]
        PROVE  (svc'.rq \in RQB => Held(svc'.rq)) /\ (svc'.rq2 \in RQB => Held(svc'.rq2))
    <3>1. svc'.rq = svc.rq /\ svc'.rq2 = Head(queue[at[i]]).h
      BY <1>1, <2>5 DEF SvcType
    <3> QED
      BY <1>2, <1>3, <2>3, <2>5, <3>1
  <2> QED
    BY <1>11, <2>2, <2>4, <2>5 DEF Sift
<1>12. CASE SiftMove
  BY <1>4, <1>12 DEF SiftMove, Service
<1> QED
  BY <1>5, <1>6, <1>7, <1>8, <1>9, <1>10, <1>11, <1>12 DEF KBDServiceTask

\* A message at the end is the only one that is new; none is when one is taken.
LEMMA NewInQueue ==
    ASSUME QueuesOK, NEW e \in Exch, Takes(e) \/ \E m : Adds(e, m),
           NEW x \in Exch, NEW g, InQueue(queue'[x], g)
    PROVE  InQueue(queue[x], g) \/ (x = e /\ \E m : Adds(e, m) /\ m.h = g)
<1>1. queue[e] \in Seq(MsgAt(e)) /\ DOMAIN queue = Exch
  BY DEF QueuesOK
<1>2. CASE Takes(e)
  <2>1. queue[e] # <<>> /\ queue'[e] = Tail(queue[e]) /\ (x # e => queue'[x] = queue[x])
    BY <1>1, <1>2 DEF Takes
  <2>2. \A h : InQueue(Tail(queue[e]), h) => InQueue(queue[e], h)
    BY <1>1, <2>1, QueueTail
  <2> QED
    BY <2>1, <2>2
<1>3. ASSUME NEW m, Adds(e, m) PROVE InQueue(queue[x], g) \/ (x = e /\ m.h = g)
  <2>1. queue'[e] = Append(queue[e], m) /\ (x # e => queue'[x] = queue[x])
    BY <1>1, <1>3 DEF Adds
  <2>2. CASE x # e
    BY <2>1, <2>2
  <2>3. CASE x = e
    <3> DEFINE s == queue[e]
    <3>1. PICK i \in DOMAIN Append(s, m) : Append(s, m)[i].h = g
      BY <2>1, <2>3 DEF InQueue
    <3>2. i \in 1 .. Len(s) \/ i = Len(s) + 1
      BY <1>1, <3>1
    <3>3. CASE i \in 1 .. Len(s)
      <4>1. s[i].h = g /\ i \in DOMAIN s
        BY <1>1, <3>1, <3>3
      <4> QED
        BY <2>3, <4>1 DEF InQueue
    <3>4. CASE i = Len(s) + 1
      <4>1. m.h = g
        BY <1>1, <3>1, <3>4
      <4> QED
        BY <2>3, <4>1
    <3> QED
      BY <3>2, <3>3, <3>4
  <2> QED
    BY <2>2, <2>3
<1> QED
  BY <1>2, <1>3

LEMMA ServiceHas == ASSUME IInv, KInv, KBDServiceTask PROVE HeldOnly /\ BlocksKept /\ AsksFewer
<1>1. QueuesOK /\ ServiceQueues
  BY ServiceSteps DEF IInv, Types
<1>2. Shelf \subseteq Exch /\ Asker \subseteq Exch \ Shelf /\ Shelf = {"main", "wait", "hold", "glob"}
  BY Names DEF Asker, Shelf
<1>3. ASSUME NEW x \in Shelf, NEW g \in RQB, InQueue(queue'[x], g) PROVE Held(g)
  <2>1. CASE queue' = queue
    BY <1>3, <2>1, HeldThere
  <2>2. ASSUME NEW e \in Shelf, Takes(e) PROVE Held(g)
    <3>1. ~ \E m : Adds(e, m)
      <4>1. ASSUME NEW m, Adds(e, m) PROVE FALSE
        <5>1. queue[e] \in Seq(MsgAt(e)) /\ DOMAIN queue = Exch /\ queue[e] # <<>>
          BY <1>1, <1>2, <2>2 DEF QueuesOK, Takes
        <5>2. Tail(queue[e]) = Append(queue[e], m)
          BY <1>2, <2>2, <4>1, <5>1 DEF Takes, Adds
        <5>3. Len(Tail(queue[e])) = Len(queue[e]) - 1 /\ Len(Append(queue[e], m)) = Len(queue[e]) + 1
              /\ Len(queue[e]) \in Nat
          BY <5>1
        <5> QED
          BY <5>2, <5>3
      <4> QED
        BY <4>1
    <3> QED
      BY <1>1, <1>2, <1>3, <2>2, <3>1, NewInQueue, HeldThere
  <2>3. ASSUME NEW e \in Exch, NEW m, Adds(e, m), m.h = svc.rq \/ m.h = svc.rq2 PROVE Held(g)
    <3>1. CASE InQueue(queue[x], g)
      BY <3>1, HeldThere
    <3>2. CASE ~InQueue(queue[x], g)
      <4>1. PICK n : Adds(e, n) /\ n.h = g /\ x = e
        BY <1>1, <1>2, <1>3, <2>3, <3>2, NewInQueue
      <4>2. Append(queue[e], n) = Append(queue[e], m) /\ queue[e] \in Seq(MsgAt(e))
        BY <1>1, <2>3, <4>1 DEF Adds, QueuesOK
      <4>3. n = m
        BY <4>2
      <4> QED
        BY <2>3, <4>1, <4>3, HeldThere
    <3> QED
      BY <3>1, <3>2
  <2> QED
    BY <1>1, <1>2, <2>1, <2>2, <2>3 DEF ServiceQueues
<1>4. HeldOnly
  BY <1>3, ServiceHands, HeldFrom
<1>5. BlocksKept
  <2> SUFFICES ASSUME NEW h \in RQB, Held(h)' PROVE rqb'[h] = rqb[h]
    BY DEF BlocksKept
  <2>1. ASSUME DisposeRQB(svc.rq2), svc.rq2 \in RQB PROVE h # svc.rq2
    <3>1. InList(freeRQB', svc.rq2)
      <4>1. freeRQB \in Seq(RQB) /\ freeRQB' = <<svc.rq2>> \o freeRQB
        BY <2>1 DEF DisposeRQB, IInv, Types, RqbsOK
      <4>2. 1 \in DOMAIN freeRQB' /\ freeRQB'[1] = svc.rq2
        BY <2>1, <4>1
      <4> QED
        BY <4>2 DEF InList
    <3>2. PICK k \in Hand : Holds(k, h)'
      BY DEF Held
    <3>3. "free" \in Holder /\ k \in Holder /\ k # "free" /\ OneHolder'
      BY ServiceIInv DEF Holder, Hand, Shelf, IInv
    <3>4. h = svc.rq2 => Holds("free", h)'
      BY <3>1 DEF Holds
    <3> QED
      BY <3>2, <3>3, <3>4 DEF OneHolder
  <2>2. UNCHANGED rqb \/ (DisposeRQB(svc.rq2) /\ svc.rq2 \in RQB)
    BY ServiceDisposes
  <2>3. CASE DisposeRQB(svc.rq2) /\ svc.rq2 \in RQB
    BY <2>1, <2>3 DEF DisposeRQB, IInv, Types, RqbsOK
  <2> QED
    BY <2>2, <2>3
<1> QED
  BY <1>4, <1>5, FewerAsks

-----------------------------------------------------------------------------
(* Each job gets the key for which it asked. *)

\* The service is about to answer the request of the block h.
Answering(h) == svc.rq2 = h /\ svc.pc \in {"resp", "dealias", "send"}

\* What it waits for: a job that polls may return without a key.
Content(j) == j \in Pollers \/ job[j].key # None

\* The key is with the job when the request is answered, and not before.
JobFed(j) ==
    /\ job[j].pc \in {"idle", "send", "dying", "gone"} => job[j].key = None
    /\ job[j].pc = "dying" => Asks(j) = {}
    /\ \A h \in Asks(j) : IF Answering(h) THEN job[j].pc = "asked" => Content(j) ELSE job[j].key = None
    /\ job[j].pc = "asked" /\ queue[j] # <<>> => Content(j)

\* Only a poll is answered without a key.
Polls == \A h \in RQB : rqb[h].ServiceCode = "poll" => rqb[h].RespExch \in Pollers

FInv == Polls /\ \A j \in Job : JobFed(j)

LEMMA PollsStay == ASSUME IInv, Polls, [Next]_vars PROVE Polls'
<1>1. RqbsOK
  BY DEF IInv, Types
<1>2. CASE UNCHANGED rqb
  BY <1>2 DEF Polls
<1>3. ASSUME NEW code, NEW resp, NEW owner, NEW data, TakeRQB(code, resp, owner, data),
             code = "poll" => resp \in Pollers
      PROVE  Polls'
  <2>1. PICK h : h = Head(freeRQB)
    OBVIOUS
  <2>2. h \in RQB
    BY <1>1, <1>3, <2>1, ListTail DEF RqbsOK, TakeRQB
  <2>3. /\ rqb'[h] = [ServiceCode |-> code, RespExch |-> resp, RqOwnerJob |-> owner, dData0 |-> data]
        /\ \A g \in RQB : g # h => rqb'[g] = rqb[g]
    BY <1>1, <1>3, <2>1, <2>2 DEF TakeRQB, RqbsOK
  <2> QED
    BY <1>3, <2>3 DEF Polls
<1>4. ASSUME NEW h \in RQB, DisposeRQB(h) PROVE Polls'
  <2>1. rqb'[h] = NoRq /\ \A g \in RQB : g # h => rqb'[g] = rqb[g]
    BY <1>1, <1>4 DEF DisposeRQB, RqbsOK
  <2> QED
    BY <2>1 DEF Polls, NoRq
<1>5. ASSUME NEW code, NEW resp, NEW data, RequestFor(code, resp, data), code # "poll" PROVE Polls'
  BY <1>2, <1>3, <1>5 DEF RequestFor, rqVars
<1>6. CASE UNCHANGED vars
  BY <1>2, <1>6 DEF vars, rqVars
<1>7. ASSUME NEW b, IntKeyBrd(b) PROVE Polls'
  BY <1>2, <1>7 DEF IntKeyBrd
<1>8. CASE KBDServiceTask
  <2>1. UNCHANGED rqb \/ (svc.rq2 \in RQB /\ DisposeRQB(svc.rq2))
    BY <1>8, ServiceDisposes
  <2> QED
    BY <1>2, <1>4, <2>1
<1>9. ASSUME NEW j \in Job, ReadKBD(j) PROVE Polls'
  <2>1. CASE NewRQB(IF j \in Pollers THEN "poll" ELSE "read", j, j, None)
    <3>1. PICK code : code = (IF j \in Pollers THEN "poll" ELSE "read")
      OBVIOUS
    <3>2. TakeRQB(code, j, j, None) /\ (code = "poll" => j \in Pollers)
      BY <2>1, <3>1 DEF NewRQB
    <3> QED
      BY <1>3, <3>2
  <2> QED
    BY <1>2, <1>9, <2>1 DEF ReadKBD, rqVars
<1>10. ASSUME NEW j \in Job, ReadKBDSend(j) \/ ReadKBDEnd(j) \/ LoadJob(j) \/ KillJob(j) PROVE Polls'
  BY <1>2, <1>10 DEF ReadKBDSend, Request, ReadKBDEnd, Take, LoadJob, AllocExch, KillJob, DeAllocExch
<1>11. CASE AskGlobal \/ SendAbort \/ \E j \in Job : MngrAssign(j)
  BY <1>5, <1>11 DEF AskGlobal, SendAbort, MngrAssign
<1>12. CASE MngrWoken \/ KillExch \/ SendAbortEnd
  BY <1>2, <1>12 DEF MngrWoken, KillExch, SendAbortEnd, Take, AllocExch, DeAllocExch
<1> QED
  BY <1>6, <1>7, <1>8, <1>9, <1>10, <1>11, <1>12 DEF Next, Jobs, Tasks

LEMMA SvcGoes ==
    /\ \A pc : Goto(pc) => svc'.rq = None /\ svc'.rq2 = None /\ svc'.pc = pc
    /\ \A h, erc, then : Answer(h, erc, then) => svc'.rq = None /\ svc'.rq2 = h /\ svc'.pc = "resp"
<1>1. ASSUME NEW pc, Goto(pc) PROVE svc'.rq = None /\ svc'.rq2 = None /\ svc'.pc = pc
  BY <1>1 DEF Goto, Service
<1>2. ASSUME NEW h, NEW erc, NEW then, Answer(h, erc, then)
      PROVE  svc'.rq = None /\ svc'.rq2 = h /\ svc'.pc = "resp"
  BY <1>2 DEF Answer, Service
<1> QED
  BY <1>1, <1>2

\* Only the answer is sent to a job.
LEMMA ServiceSends ==
    ASSUME IInv, KBDServiceTask, NEW x \in Asker, queue'[x] # queue[x]
    PROVE  SendResp /\ rqb[svc.rq2].RespExch = x
<1>1. DOMAIN queue = Exch /\ x \notin Shelf /\ x \in Exch /\ Shelf = {"main", "wait", "hold", "glob"}
  BY Names DEF IInv, Types, QueuesOK, Asker, Shelf
<1>2. ASSUME NEW e \in Shelf, NEW h, Take(e) \/ MoveRequest(h, e) PROVE FALSE
  BY <1>1, <1>2 DEF Take, MoveRequest, Send
<1>3. CASE Top \/ AliasMem \/ ReadKey \/ ReadNone \/ AssignKBD \/ AbortJob \/ CheckResp
  BY <1>3 DEF Top, AliasMem, ReadKey, ReadNone, AssignKBD, AbortJob, CheckResp, rqVars
<1>4. CASE Global1 \/ CheckWait \/ WaitMain
  BY <1>1, <1>2, <1>4 DEF Global1, CheckWait, WaitMain, rqVars
<1>5. CASE Park
  BY <1>1, <1>2, <1>5 DEF Park
<1>6. CASE SiftMove
  BY <1>1, <1>2, <1>6 DEF SiftMove, RespondAbort
<1>7. CASE Sift
  <2>1. svc.pc \in {"assign", "abort"}
    BY <1>7 DEF Sift
  <2>2. PICK at : at = Sifted[svc.pc]
    OBVIOUS
  <2>3. \A i \in DOMAIN at : at[i] \in Shelf
    <3>1. at = <<"wait", "hold">> \/ at = <<"wait", "hold", "glob">>
      BY <2>1, <2>2 DEF Sifted
    <3> QED
      BY <1>1, <3>1
  <2>4. UNCHANGED queue \/ \E i \in DOMAIN at : Take(at[i])
    BY <1>7, <2>2 DEF Sift, rqVars
  <2> QED
    BY <1>2, <2>3, <2>4
<1>8. CASE SendResp
  BY <1>1, <1>8 DEF SendResp, Respond, Send
<1> QED
  BY <1>3, <1>4, <1>5, <1>6, <1>7, <1>8 DEF KBDServiceTask

LEMMA RespShelves == ASSUME IInv, SendResp PROVE ShelvesKept
<1>1. PICK h \in RQB : h = svc.rq2
  BY SvcAt DEF SendResp
<1>2. PICK e : e = rqb[h].RespExch
  OBVIOUS
<1>3. QueuesOK /\ e \in Job \cup {"mgr", None}
  BY <1>1, <1>2 DEF IInv, Types, RqbsOK
<1>4. Send(e, h, svc.erc) /\ svc.erc \in Erc
  BY <1>1, <1>2, SvcAt DEF SendResp, Respond, SvcType
<1> QED
  BY <1>3, <1>4, SendOther

\* The block that is answered stays with the service until it is answered.
LEMMA AnswerGoes ==
    ASSUME IInv, NEW h \in RQB, Answering(h), KBDServiceTask, Held(h)'
    PROVE  Answering(h)' /\ CheckResp
<1>1. CheckResp \/ SendResp
  BY DEF Answering, KBDServiceTask, Top, Global1, WaitMain, AliasMem, CheckWait, ReadKey, ReadNone, Park,
         AssignKBD, AbortJob, Sift, SiftMove, Serving
<1>2. CASE Goto(svc.then) /\ ShelvesKept
  <2>1. svc'.rq = None /\ svc'.rq2 = None /\ h # None
    BY <1>2, Names DEF Goto, Service
  <2>2. PICK k \in Hand : Holds(k, h)'
    BY DEF Held
  <2>3. k \in Shelf /\ Holds(k, h)
    BY <1>2, <2>1, <2>2 DEF Holds, Hand, ShelvesKept, Shelf
  <2>4. Holds("rq2", h) /\ "rq2" \in Holder /\ k \in Holder /\ k # "rq2"
    BY <2>3 DEF Answering, Holds, Holder, Shelf
  <2> QED
    BY <2>3, <2>4 DEF IInv, OneHolder
<1>3. CASE SendResp
  BY <1>2, <1>3, RespShelves DEF SendResp
<1>4. CASE CheckResp
  <2>1. svc \in SvcType
    BY SvcAt
  <2>2. CASE Goto(svc.then)
    BY <1>2, <1>4, <2>2 DEF CheckResp, rqVars, ShelvesKept
  <2>3. CASE svc' = [svc EXCEPT !.pc = IF Aliased(svc.rq2) THEN "dealias" ELSE "send"]
    <3>1. svc'.rq2 = svc.rq2 /\ svc'.pc \in {"dealias", "send"}
      BY <2>1, <2>3 DEF SvcType
    <3> QED
      BY <1>4, <3>1 DEF Answering
  <2> QED
    BY <1>4, <2>2, <2>3 DEF CheckResp
<1> QED
  BY <1>1, <1>3, <1>4

\* What is answered to a job is a key, or that there is none.
LEMMA WillAnswer ==
    ASSUME IInv, KInv, Globals, KBDServiceTask, NEW j \in Job, NEW h \in Asks(j),
           Answering(h)', ~Answering(h)
    PROVE  (ReadKey \/ ReadNone) /\ svc.rq = h
<1>1. h \in RQB /\ Held(h) /\ rqb[h].ServiceCode # "abort" /\ rqb[h].RespExch = j /\ j # "mgr" /\ svc \in SvcType
  BY KeyboardAssumption, SvcAt DEF Asks
<1>2. rqb[h].ServiceCode \in {"read", "poll"}
  BY <1>1 DEF KInv, Kinds
<1>3. svc'.rq2 = h /\ svc'.pc \in {"resp", "dealias", "send"} /\ h # None
  BY <1>1, Names DEF Answering
<1>4. CASE Top \/ WaitMain \/ CheckWait \/ Park \/ SiftMove
  BY <1>3, <1>4 DEF Top, WaitMain, CheckWait, Park, SiftMove, Goto, Service
<1>5. CASE AliasMem \/ AbortJob \/ CheckResp
  <2>1. ASSUME NEW pc, svc' = [svc EXCEPT !.pc = pc] PROVE svc'.pc = pc /\ svc'.rq2 = svc.rq2
    BY <1>1, <2>1 DEF SvcType
  <2>2. svc.pc = "resp" => svc.rq2 # h
    BY DEF Answering
  <2> QED
    BY <1>3, <1>5, <2>1, <2>2, SvcGoes DEF AliasMem, AbortJob, CheckResp
<1>6. CASE SendResp
  BY <1>3, <1>6, SvcGoes DEF SendResp
<1>7. CASE Global1
  <2>1. CASE Take("glob") /\ Answer(Head(queue["glob"]).h, "ok", "glob")
    <3>1. PICK m : m = Head(queue["glob"])
      OBVIOUS
    <3>2. m.h = h
      BY <1>3, <2>1, <3>1, SvcGoes
    <3>3. InQueue(queue["glob"], h)
      BY <2>1, <3>1, <3>2, TakeShelf DEF IInv, Types, Shelf
    <3> QED
      BY <1>1, <1>2, <3>3 DEF Globals
  <2> QED
    BY <1>3, <1>7, <2>1, SvcGoes DEF Global1
<1>8. CASE AssignKBD
  <2>1. rqb[svc.rq].ServiceCode = "assign"
    BY <1>8 DEF AssignKBD, Serving
  <2>2. CASE Answer(svc.rq, "ok", "top")
    BY <1>2, <1>3, <2>1, <2>2, SvcGoes
  <2>3. CASE svc' = [svc EXCEPT !.pc = "assign"]
    BY <1>1, <1>3, <2>3 DEF SvcType
  <2> QED
    BY <1>8, <2>2, <2>3 DEF AssignKBD
<1>9. CASE Sift
  <2>1. rqb[svc.rq].ServiceCode \in {"assign", "abort"}
    BY <1>9 DEF Sift, KInv, Serves
  <2>2. CASE Answer(svc.rq, "ok", "top")
    BY <1>2, <1>3, <2>1, <2>2, SvcGoes
  <2>3. ASSUME NEW g, svc' = [svc EXCEPT !.then = svc.pc, !.pc = "sifted", !.rq2 = g] PROVE svc'.pc = "sifted"
    BY <1>1, <2>3 DEF SvcType
  <2> QED
    BY <1>3, <1>9, <2>2, <2>3 DEF Sift
<1>10. CASE ReadKey \/ ReadNone
  BY <1>3, <1>10, SvcGoes DEF ReadKey, ReadNone
<1> QED
  BY <1>4, <1>5, <1>6, <1>7, <1>8, <1>9, <1>10 DEF KBDServiceTask

\* What is sent to a job that waits is the answer to its request.
LEMMA SentToJob ==
    ASSUME IInv, KInv, NEW j \in Job, SendResp, rqb[svc.rq2].RespExch = j, job[j].pc = "asked"
    PROVE  svc.rq2 \in Asks(j) /\ Answering(svc.rq2)
<1>1. svc.rq2 \in RQB /\ svc.pc \in {"dealias", "send"} /\ Held(svc.rq2) /\ j # "mgr"
  BY SvcAt, HeldThere, KeyboardAssumption DEF SendResp
<1>2. rqb[svc.rq2].ServiceCode # "abort"
  BY <1>1, AbortHeld DEF DeadPc
<1> QED
  BY <1>1, <1>2 DEF Asks, Answering

\* The key that ReadKBFinal gives.
LEMMA KeyGiven ==
    ASSUME IInv, KInv, QInv, FInv, ReadKey
    PROVE  \E j \in Job :
            /\ svc.rq \in Asks(j) /\ rqb[svc.rq].RqOwnerJob = j /\ KbdOwner = j
            /\ job[j].pc \in {"asked", "asker"} /\ job[j].key = None
            /\ rgdKBBuf # <<>> /\ rgdKBBuf' = Tail(rgdKBBuf) /\ Head(rgdKBBuf) \in Key
            /\ job' = [job EXCEPT ![j].key = Head(rgdKBBuf)]
<1>1. PICK h \in RQB : h = svc.rq
  BY SvcAt DEF ReadKey, Serving
<1>2. Held(h) /\ rqb[h].ServiceCode \in {"read", "poll"} /\ svc.pc = "rq" /\ rqb[h].RqOwnerJob = KbdOwner
  BY <1>1, HeldThere DEF ReadKey, Serving
<1>3. PICK j \in Job : j = rqb[h].RqOwnerJob /\ h \in Asks(j)
  BY <1>2, JobRq
<1>4. ~Resting(j) /\ j # "mgr"
  BY <1>3, AskerWaits, KeyboardAssumption DEF Asker
<1>5. job[j].pc \in {"asked", "asker"}
  BY <1>3, <1>4 DEF KInv, Killed, Removed, Resting, FInv, JobFed
<1>6. ~Answering(h)
  BY <1>2 DEF Answering
<1>7. job[j].key = None
  BY <1>3, <1>6 DEF FInv, JobFed
<1>8. rgdKBBuf \in Seq(Key) /\ rgdKBBuf # <<>> /\ rgdKBBuf' = Tail(rgdKBBuf)
      /\ job' = [job EXCEPT ![j].key = Head(rgdKBBuf)]
  BY <1>1, <1>3 DEF QInv, BufOK, ReadKey, ReadKBFinal
<1>9. Head(rgdKBBuf) \in Key
  BY <1>8
<1>10. svc.rq \in Asks(j) /\ rqb[svc.rq].RqOwnerJob = j /\ KbdOwner = j
  BY <1>1, <1>2, <1>3
<1> QED
  BY <1>5, <1>7, <1>8, <1>9, <1>10

LEMMA ServiceFed == ASSUME IInv, KInv, QInv, FInv, KBDServiceTask, NEW j \in Job PROVE JobFed(j)'
<1>1. JobFed(j) /\ JobsOK /\ j \in Asker /\ job'[j].pc = job[j].pc /\ Asks(j)' \subseteq RQB
  BY ServiceLeaves DEF FInv, IInv, Types, Asker, JobsStay, Asks
<1>2. \A h \in Asks(j)' : h \in Asks(j) /\ Held(h)' /\ h \in RQB
  BY <1>1, ServiceHas DEF AsksFewer, Asks
<1>3. CASE ReadKey /\ rqb[svc.rq].RqOwnerJob = j
  <2>1. /\ svc.rq \in Asks(j) /\ job[j].pc \in {"asked", "asker"} /\ Head(rgdKBBuf) \in Key
        /\ job' = [job EXCEPT ![j].key = Head(rgdKBBuf)]
    BY <1>3, KeyGiven
  <2>2. job'[j].key # None
    BY <1>1, <2>1, KeyboardAssumption DEF JobsOK
  <2>3. \A h \in Asks(j)' : h = svc.rq
    BY <1>1, <1>2, <2>1 DEF KInv, Single
  <2>4. svc'.rq2 = svc.rq /\ svc'.pc = "resp"
    BY <1>3, SvcGoes DEF ReadKey
  <2>5. \A h \in Asks(j)' : Answering(h)'
    BY <2>3, <2>4 DEF Answering
  <2>6. Content(j)'
    BY <2>2 DEF Content
  <2>7. job'[j].pc \notin {"idle", "send", "dying", "gone"}
    BY <1>1, <2>1
  <2> QED
    BY <2>5, <2>6, <2>7 DEF JobFed
<1>4. CASE ~(ReadKey /\ rqb[svc.rq].RqOwnerJob = j)
  <2>1. job'[j] = job[j] /\ (Content(j)' <=> Content(j))
    <3>1. job'[j] = job[j]
      <4>1. CASE ReadKey
        BY <1>1, <1>4, <4>1 DEF ReadKey, ReadKBFinal, JobsOK
      <4>2. CASE ~ReadKey
        BY <4>2 DEF KBDServiceTask, Top, Global1, WaitMain, AliasMem, CheckWait, ReadNone, Park,
                    AssignKBD, AbortJob, Sift, SiftMove, CheckResp, SendResp
      <4> QED
        BY <4>1, <4>2
    <3> QED
      BY <3>1 DEF Content
  <2>2. ASSUME NEW h \in Asks(j)'
        PROVE  IF Answering(h)' THEN job[j].pc = "asked" => Content(j) ELSE job[j].key = None
    <3>1. h \in Asks(j) /\ Held(h)' /\ h \in RQB /\ Held(h) /\ rqb[h].RespExch = j
      BY <1>2, <2>2 DEF Asks
    <3>2. CASE Answering(h)
      BY <1>1, <3>1, <3>2, AnswerGoes DEF JobFed
    <3>3. CASE ~Answering(h) /\ ~Answering(h)'
      BY <1>1, <3>1, <3>3 DEF JobFed
    <3>4. CASE ~Answering(h) /\ Answering(h)'
      <4>1. (ReadKey \/ ReadNone) /\ svc.rq = h
        BY <3>1, <3>4, WillAnswer DEF QInv
      <4>2. ~ReadKey
        <5>1. rqb[h].RqOwnerJob = j
          BY <3>1, KeyboardAssumption DEF KInv, Kinds, Asks
        <5> QED
          BY <1>4, <4>1, <5>1
      <4>3. rqb[h].ServiceCode = "poll"
        BY <4>1, <4>2 DEF ReadNone, Serving
      <4> QED
        BY <3>1, <3>4, <4>3 DEF FInv, Polls, Content
    <3> QED
      BY <3>2, <3>3, <3>4
  <2>3. ASSUME job[j].pc = "asked", queue'[j] # <<>> PROVE Content(j)
    <3>1. CASE queue'[j] = queue[j]
      BY <1>1, <2>3, <3>1 DEF JobFed
    <3>2. CASE queue'[j] # queue[j]
      <4>1. SendResp /\ rqb[svc.rq2].RespExch = j
        BY <1>1, <3>2, ServiceSends
      <4> QED
        BY <1>1, <2>3, <4>1, SentToJob DEF JobFed
    <3> QED
      BY <3>1, <3>2
  <2>4. job'[j].pc = "dying" => Asks(j)' = {}
    BY <1>1, <1>2 DEF JobFed
  <2> QED
    BY <1>1, <2>1, <2>2, <2>3, <2>4 DEF JobFed
<1> QED
  BY <1>3, <1>4

-----------------------------------------------------------------------------
(* What the others do. *)

LEMMA SameFed ==
    ASSUME NEW j \in Job, JobFed(j), UNCHANGED svc, job'[j] = job[j],
           \A h \in Asks(j)' : h \in Asks(j), queue'[j] # <<>> => queue[j] # <<>>
    PROVE  JobFed(j)'
<1>1. \A h : Answering(h)' <=> Answering(h)
  BY DEF Answering
<1>2. Content(j)' <=> Content(j)
  BY DEF Content
<1> QED
  BY <1>1, <1>2 DEF JobFed

LEMMA KeepsShelves ==
    ASSUME IInv, NEW e, e \notin Shelf, Take(e) \/ AllocExch(e) \/ DeAllocExch(e)
    PROVE  ShelvesKept
<1>1. DOMAIN queue = Exch /\ Shelf \subseteq Exch
  BY Names DEF IInv, Types, QueuesOK
<1> QED
  BY <1>1 DEF Take, AllocExch, DeAllocExch, ShelvesKept

\* A job has no more requests with the service than it had, but the one it sends.
LEMMA OtherFewer ==
    ASSUME IInv, KInv, Jobs \/ Tasks, NEW j \in Job, NEW h \in Asks(j)'
    PROVE  h \in Asks(j) \/ (ReadKBDSend(j) /\ h = job[j].h)
<1>1. h \in RQB /\ j # "mgr"
  BY KeyboardAssumption DEF Asks
<1>2. CASE ShelvesKept
  <2>1. UNCHANGED svc /\ \A g \in RQB : Held(g) => rqb'[g] = rqb[g]
    BY OtherLeaves, OtherBlocks
  <2>2. HeldOnly
    BY <1>2, <2>1, HeldFrom, HeldThere DEF ShelvesKept
  <2> QED
    BY <1>1, <2>1, <2>2 DEF HeldOnly, Asks
<1>3. ASSUME NEW code \in {"global", "assign", "abort"}, NEW resp \in Job \cup {"mgr"}, NEW data \in Job \cup {None},
             RequestFor(code, resp, data), code = "abort" \/ resp = "mgr", UNCHANGED <<svc, job>>
      PROVE  h \in Asks(j)
  <2>1. CASE TakeRQB(code, resp, None, data) /\ Send("main", Head(freeRQB), "request")
    <3>1. PICK g \in RQB :
              /\ rqb'[g] = [ServiceCode |-> code, RespExch |-> resp, RqOwnerJob |-> None, dData0 |-> data]
              /\ \A x, f : f \in Asks(x)' /\ f # g => f \in Asks(x)
      BY <1>3, <2>1, RequestedBlock DEF Code
    <3>2. g # h
      BY <1>1, <1>3, <3>1 DEF Asks
    <3> QED
      BY <3>1, <3>2
  <2>2. CASE UNCHANGED rqVars
    BY <1>3, <2>2 DEF rqVars, Asks, Held, Holds, Hand
  <2> QED
    BY <1>3, <2>1, <2>2 DEF RequestFor
<1>4. ASSUME NEW x \in Job, ReadKBDSend(x) PROVE h \in Asks(j) \/ (x = j /\ h = job[j].h)
  <2>1. PICK g \in RQB : g = job[x].h /\ job[x].pc = "send"
    BY <1>4 DEF ReadKBDSend, IInv, Types, JobsOK
  <2>2. /\ QueuesOK /\ ListedOnce /\ UNCHANGED <<svc, rqb>> /\ Send("main", g, "request")
        /\ "main" \in Shelf /\ "request" \in Erc
    BY <1>4, <2>1 DEF ReadKBDSend, Request, IInv, Types, Shelf, Erc
  <2>3. ~Held(g)
    BY <2>1 DEF IInv, OneHolder, Makes, Held, Hand, Holder
  <2>4. \A e \in Shelf : \A f : InQueue(queue'[e], f) => InQueue(queue[e], f) \/ (e = "main" /\ f = g)
    <3>1. ~InQueue(queue["main"], g)
      BY <2>2, <2>3, HeldThere
    <3> QED
      BY <2>1, <2>2, <3>1, SendShelf
  <2>5. \A y, f : f \in Asks(y)' /\ f # g => f \in Asks(y)
    BY <2>2, <2>3, <2>4, NewHeld
  <2>6. rqb[g].RespExch = x /\ rqb'[g] = rqb[g]
    BY <2>1, <2>2 DEF KInv, Drafts
  <2> QED
    BY <2>1, <2>5, <2>6 DEF Asks
<1>5. ASSUME NEW x \in Job, ReadKBD(x) \/ ReadKBDEnd(x) \/ LoadJob(x) \/ KillJob(x) PROVE ShelvesKept
  <2>1. UNCHANGED queue \/ Take(x) \/ AllocExch(x) \/ DeAllocExch(x)
    BY <1>5 DEF ReadKBD, NewRQB, rqVars, ReadKBDEnd, LoadJob, KillJob
  <2> QED
    BY <2>1, KeepsShelves, Names DEF ShelvesKept
<1>6. CASE MngrWoken \/ KillExch \/ SendAbortEnd
  <2>1. "mgr" \notin Shelf /\ (mgr.pc \in KillPc => mgr.on \notin Shelf)
    BY Names DEF KInv, Killed
  <2>2. CASE MngrWoken
    BY <1>2, <2>1, <2>2, KeepsShelves DEF MngrWoken
  <2>3. CASE KillExch
    BY <1>2, <2>1, <2>3, KeepsShelves DEF KillExch, KillPc
  <2>4. CASE SendAbortEnd
    BY <1>2, <2>1, <2>4, KeepsShelves DEF SendAbortEnd, KillPc
  <2> QED
    BY <1>6, <2>2, <2>3, <2>4
<1>7. CASE AskGlobal
  BY <1>3, <1>7 DEF AskGlobal
<1>8. ASSUME NEW x \in Job, MngrAssign(x) PROVE h \in Asks(j)
  BY <1>3, <1>8 DEF MngrAssign
<1>9. CASE SendAbort
  <2>1. mgr.on \in Job
    BY <1>9 DEF SendAbort, KInv, Killed, KillPc
  <2> QED
    BY <1>3, <1>9, <2>1 DEF SendAbort
<1> QED
  BY <1>2, <1>4, <1>5, <1>6, <1>7, <1>8, <1>9 DEF Jobs, Tasks

LEMMA NewFed ==
    ASSUME NEW j \in Job, Asks(j)' = {}, queue'[j] = <<>>, job'[j].key = None
    PROVE  JobFed(j)'
BY DEF JobFed

\* The exchanges of the jobs: nobody but the service sends there.
LEMMA OtherSends ==
    ASSUME IInv, Jobs \/ Tasks, NEW j \in Job, queue'[j] # <<>>
    PROVE  queue[j] # <<>>
<1>1. DOMAIN queue = Exch /\ j \in Exch /\ j # "main" /\ j # "mgr"
  BY Names, KeyboardAssumption DEF IInv, Types, QueuesOK
<1>2. ASSUME NEW h, NEW erc, Send("main", h, erc) PROVE queue[j] # <<>>
  BY <1>1, <1>2 DEF Send
<1>3. CASE UNCHANGED queue
  BY <1>3
<1>4. ASSUME NEW e, AllocExch(e) \/ DeAllocExch(e) PROVE queue[j] # <<>>
  BY <1>1, <1>4 DEF AllocExch, DeAllocExch
<1>5. ASSUME NEW e, Take(e) PROVE queue[j] # <<>>
  <2>1. e # j => queue'[j] = queue[j]
    BY <1>1, <1>5 DEF Take
  <2> QED
    BY <1>5, <2>1 DEF Take
<1>6. ASSUME NEW code, NEW resp, NEW data, RequestFor(code, resp, data) PROVE queue[j] # <<>>
  BY <1>2, <1>3, <1>6 DEF RequestFor, rqVars
<1>7. ASSUME NEW x \in Job, ReadKBD(x) \/ ReadKBDSend(x) \/ ReadKBDEnd(x) \/ LoadJob(x) \/ KillJob(x)
      PROVE  queue[j] # <<>>
  BY <1>2, <1>3, <1>4, <1>5, <1>7 DEF ReadKBD, NewRQB, rqVars, ReadKBDSend, Request, ReadKBDEnd, LoadJob, KillJob
<1>8. CASE AskGlobal \/ SendAbort \/ \E x \in Job : MngrAssign(x)
  BY <1>6, <1>8 DEF AskGlobal, SendAbort, MngrAssign
<1>9. CASE MngrWoken \/ KillExch \/ SendAbortEnd
  BY <1>4, <1>5, <1>9 DEF MngrWoken, KillExch, SendAbortEnd
<1> QED
  BY <1>7, <1>8, <1>9 DEF Jobs, Tasks

\* A job that asks, or has its answer, or is loaded.
LEMMA JobStepFed ==
    ASSUME IInv, KInv, FInv, NEW j \in Job, ReadKBD(j) \/ ReadKBDSend(j) \/ ReadKBDEnd(j) \/ LoadJob(j)
    PROVE  JobFed(j)' /\ \A l \in Job \ {j} : job'[l] = job[l]
<1>1. JobsOK /\ QueuesOK /\ DOMAIN queue = Exch /\ j \in Asker /\ j \in Exch /\ j # "mgr" /\ j # "main" /\ Jobs
      /\ JobFed(j)
  BY Names, KeyboardAssumption DEF IInv, Types, QueuesOK, Asker, Jobs, FInv
<1>2. /\ Resting(j) => Asks(j) = {} /\ queue[j] = <<>>
      /\ Expects(j) => (Asks(j) = {} \/ queue[j] = <<>>) /\ Len(queue[j]) <= 1
  BY <1>1 DEF KInv, Answered
<1>3. \A h \in Asks(j)' : h \in Asks(j) \/ (ReadKBDSend(j) /\ h = job[j].h)
  BY <1>1, OtherFewer
<1>4. CASE ReadKBD(j)
  <2>1. job[j].pc = "idle" /\ UNCHANGED queue
    BY <1>4 DEF ReadKBD, NewRQB, rqVars
  <2>2. job'[j].key = None /\ \A l \in Job \ {j} : job'[l] = job[l]
    BY <1>1, <1>4 DEF ReadKBD, JobsOK
  <2>3. ~ReadKBDSend(j)
    BY <2>1 DEF ReadKBDSend
  <2>4. Asks(j) = {} /\ queue[j] = <<>>
    BY <1>1, <1>2, <2>1 DEF Resting
  <2>5. Asks(j)' = {} /\ queue'[j] = <<>>
    BY <1>3, <2>1, <2>3, <2>4
  <2> QED
    BY <2>2, <2>5, NewFed
<1>5. CASE ReadKBDSend(j)
  <2>1. job[j].pc = "send" /\ job' = [job EXCEPT ![j].pc = "asked"] /\ UNCHANGED svc
        /\ queue'[j] = queue[j]
    BY <1>1, <1>5 DEF ReadKBDSend, Request, Send
  <2>2. job'[j].key = job[j].key /\ \A l \in Job \ {j} : job'[l] = job[l]
    BY <1>1, <2>1 DEF JobsOK
  <2>3. Asks(j) = {} /\ queue'[j] = <<>> /\ job'[j].key = None
    BY <1>1, <1>2, <2>1, <2>2 DEF Resting, JobFed
  <2>4. job'[j].pc = "asked"
    BY <1>1, <2>1 DEF JobsOK
  <2>5. ASSUME NEW h \in Asks(j)' PROVE ~Answering(h)'
    <3>1. h = job[j].h /\ h \in RQB
      BY <1>3, <2>3, <2>5 DEF Asks
    <3>2. Makes(j, h) /\ "rq2" \in Holder
      BY <2>1, <3>1 DEF Makes, Holder
    <3>3. ~Holds("rq2", h)
      BY <3>1, <3>2 DEF IInv, OneHolder
    <3> QED
      BY <2>1, <3>3 DEF Holds, Answering
  <2> QED
    BY <2>2, <2>3, <2>4, <2>5 DEF JobFed
<1>6. CASE ReadKBDEnd(j) \/ LoadJob(j)
  <2>1. job' = [job EXCEPT ![j] = IdleJob]
    BY <1>6 DEF ReadKBDEnd, LoadJob
  <2>2. job'[j].key = None /\ \A l \in Job \ {j} : job'[l] = job[l]
    BY <1>1, <2>1 DEF JobsOK, IdleJob
  <2>3. Asks(j) = {} /\ queue'[j] = <<>> /\ ~ReadKBDSend(j)
    <3>1. CASE ReadKBDEnd(j)
      <4>1. job[j].pc = "asked" /\ queue[j] # <<>> /\ queue'[j] = Tail(queue[j])
        BY <1>1, <3>1 DEF ReadKBDEnd, Take
      <4>2. Asks(j) = {} /\ Len(queue[j]) <= 1
        BY <1>1, <1>2, <4>1 DEF Expects
      <4>3. queue[j] \in Seq(MsgAt(j))
        BY <1>1 DEF QueuesOK
      <4>4. Tail(queue[j]) = <<>>
        BY <4>1, <4>2, <4>3, LastTaken
      <4> QED
        BY <4>1, <4>2, <4>4 DEF ReadKBDSend
    <3>2. CASE LoadJob(j)
      BY <1>1, <3>2 DEF LoadJob, AllocExch, KInv, Removed, ReadKBDSend
    <3> QED
      BY <1>6, <3>1, <3>2
  <2>4. Asks(j)' = {}
    BY <1>3, <2>3
  <2> QED
    BY <2>2, <2>3, <2>4, NewFed
<1> QED
  BY <1>4, <1>5, <1>6

LEMMA KillJobFed ==
    ASSUME IInv, KInv, FInv, NEW j \in Job, KillJob(j)
    PROVE  JobFed(j)' /\ \A l \in Job \ {j} : job'[l] = job[l]
<1>1. JobsOK /\ DOMAIN queue = Exch /\ j \in Asker /\ j \in Exch /\ j # "mgr" /\ Tasks /\ JobFed(j)
  BY Names, KeyboardAssumption DEF IInv, Types, QueuesOK, Asker, Tasks, FInv
<1>2. Resting(j) => Asks(j) = {}
  BY <1>1 DEF KInv, Answered
<1>3. /\ job' = [job EXCEPT ![j].pc = IF @ = "idle" THEN "dying" ELSE "asker"]
      /\ queue'[j] = <<>> /\ UNCHANGED svc /\ mgr.pc = "awake"
  BY <1>1 DEF KillJob, DeAllocExch
<1>4. /\ job'[j].pc = (IF job[j].pc = "idle" THEN "dying" ELSE "asker")
      /\ job'[j].key = job[j].key /\ \A l \in Job \ {j} : job'[l] = job[l]
  BY <1>1, <1>3 DEF JobsOK
<1>5. \A h \in Asks(j)' : h \in Asks(j)
  <2>1. ~ReadKBDSend(j)
    BY <1>1, <1>4 DEF ReadKBDSend, JobsOK
  <2> QED
    BY <1>1, <2>1, OtherFewer
<1>6. CASE job[j].pc = "idle"
  <2>1. Asks(j)' = {} /\ job'[j].key = None
    BY <1>1, <1>2, <1>4, <1>5, <1>6 DEF Resting, JobFed
  <2> QED
    BY <1>3, <1>4, <2>1, NewFed
<1>7. CASE job[j].pc # "idle"
  <2>1. job'[j].pc = "asker"
    BY <1>4, <1>7
  <2>2. \A h : Answering(h)' <=> Answering(h)
    BY <1>3 DEF Answering
  <2>3. \A h \in Asks(j)' : Answering(h)' \/ job'[j].key = None
    BY <1>1, <1>4, <1>5, <2>2 DEF JobFed
  <2> QED
    BY <1>4, <2>1, <2>3 DEF JobFed
<1> QED
  BY <1>6, <1>7

LEMMA SendAbortEndFed ==
    ASSUME IInv, KInv, FInv, SendAbortEnd
    PROVE  \/ UNCHANGED job
           \/ \E j \in Job : /\ j = mgr.on /\ job[j].pc \in DeadPc /\ job' = [job EXCEPT ![j] = [IdleJob EXCEPT !.pc = "gone"]]
                             /\ JobFed(j)' /\ \A l \in Job \ {j} : job'[l] = job[l]
<1>1. PICK j \in Job : j = mgr.on /\ job[j].pc \in DeadPc /\ Asks(j) = {}
  BY DEF SendAbortEnd, KInv, Killed, Removed, KillPc
<1>2. JobsOK /\ DOMAIN queue = Exch /\ j \in Exch /\ Tasks
  BY Names DEF IInv, Types, QueuesOK, Tasks
<1>3. CASE DeAllocExch(mgr.on) /\ job' = [job EXCEPT ![mgr.on] = [IdleJob EXCEPT !.pc = "gone"]]
  <2>1. DeAllocExch(j) /\ job' = [job EXCEPT ![j] = [IdleJob EXCEPT !.pc = "gone"]]
    BY <1>1, <1>3
  <2>2. queue'[j] = <<>> /\ job'[j].key = None /\ \A l \in Job \ {j} : job'[l] = job[l]
    BY <1>2, <2>1 DEF DeAllocExch, JobsOK, IdleJob
  <2>3. ~ReadKBDSend(j)
    BY <1>1 DEF ReadKBDSend, DeadPc
  <2>4. Asks(j)' = {}
    BY <1>1, <1>2, <2>3, OtherFewer
  <2> QED
    BY <1>1, <2>1, <2>2, <2>4, NewFed
<1> QED
  BY <1>3 DEF SendAbortEnd

LEMMA OtherFed == ASSUME IInv, KInv, FInv, Jobs \/ Tasks, NEW j \in Job PROVE JobFed(j)'
<1>1. JobFed(j) /\ UNCHANGED svc
  BY OtherLeaves DEF FInv
<1>2. CASE job'[j] = job[j] /\ ~ReadKBDSend(j)
  BY <1>1, <1>2, OtherFewer, OtherSends, SameFed
<1>3. ASSUME NEW x \in Job, ReadKBD(x) \/ ReadKBDSend(x) \/ ReadKBDEnd(x) \/ LoadJob(x) PROVE JobFed(j)'
  <2>1. CASE x = j
    BY <1>3, <2>1, JobStepFed
  <2>2. CASE x # j
    <3>1. job'[j] = job[j]
      BY <1>3, <2>2, JobStepFed
    <3>2. ~ReadKBDSend(j)
      <4>1. ASSUME ReadKBDSend(j) PROVE job'[j] # job[j]
        BY <4>1 DEF ReadKBDSend, IInv, Types, JobsOK
      <4> QED
        BY <3>1, <4>1
    <3> QED
      BY <1>2, <3>1, <3>2
  <2> QED
    BY <2>1, <2>2
<1>4. ASSUME NEW x \in Job, KillJob(x) PROVE JobFed(j)'
  <2>1. CASE x = j
    BY <1>4, <2>1, KillJobFed
  <2>2. CASE x # j
    <3>1. job'[j] = job[j]
      BY <1>4, <2>2, KillJobFed
    <3>2. ~ReadKBDSend(j)
      BY <3>1 DEF ReadKBDSend, IInv, Types, JobsOK
    <3> QED
      BY <1>2, <3>1, <3>2
  <2> QED
    BY <2>1, <2>2
<1>5. CASE UNCHANGED job
  <2>1. ~ReadKBDSend(j)
    BY <1>5 DEF ReadKBDSend, IInv, Types, JobsOK
  <2> QED
    BY <1>2, <1>5, <2>1
<1>6. CASE SendAbortEnd
  <2>1. ASSUME NEW x \in Job, JobFed(x)', \A l \in Job \ {x} : job'[l] = job[l] PROVE JobFed(j)'
    <3>1. CASE x = j
      BY <2>1, <3>1
    <3>2. CASE x # j
      <4>1. ~ReadKBDSend(j)
        BY <2>1, <3>2 DEF ReadKBDSend, IInv, Types, JobsOK
      <4> QED
        BY <1>2, <2>1, <3>2, <4>1
    <3> QED
      BY <3>1, <3>2
  <2> QED
    BY <1>5, <1>6, <2>1, SendAbortEndFed
<1>7. AskGlobal \/ MngrWoken \/ KillExch \/ SendAbort \/ (\E x \in Job : MngrAssign(x)) => UNCHANGED job
  BY DEF AskGlobal, MngrWoken, KillExch, SendAbort, MngrAssign
<1> QED
  BY <1>3, <1>4, <1>5, <1>6, <1>7 DEF Jobs, Tasks

LEMMA IntFed == ASSUME IInv, KInv, FInv, NEW b, IntKeyBrd(b), NEW j \in Job PROVE JobFed(j)'
<1>1. /\ QueuesOK /\ ListedOnce /\ UNCHANGED <<svc, job, rqb>> /\ JobFed(j)
      /\ Send("main", ISR, "int") /\ "int" \in Erc /\ "main" \in Shelf
  BY DEF IInv, Types, IntKeyBrd, Erc, Shelf, FInv
<1>2. queue'[j] = queue[j]
  BY IntMain, Names
<1>3. \A x \in Shelf : \A g : InQueue(queue'[x], g) => InQueue(queue[x], g) \/ (x = "main" /\ g = ISR)
  BY <1>1, SendShelf
<1>4. HeldOnly
  BY <1>1, <1>3, HeldFrom, HeldThere, Names
<1>5. \A h \in Asks(j)' : h \in Asks(j)
  BY <1>1, <1>4 DEF HeldOnly, Asks
<1> QED
  BY <1>1, <1>2, <1>5, SameFed

LEMMA NextFInv == ASSUME IInv, KInv, QInv, FInv, [Next]_vars PROVE FInv'
<1>1. Polls'
  BY PollsStay DEF FInv
<1> SUFFICES ASSUME NEW j \in Job PROVE JobFed(j)'
  BY <1>1 DEF FInv
<1>2. CASE UNCHANGED vars
  <2>1. UNCHANGED <<svc, job, rqb, queue, freeRQB>> /\ JobFed(j)
    BY <1>2 DEF vars, rqVars, FInv
  <2>2. \A h \in Asks(j)' : h \in Asks(j)
    BY <2>1 DEF Asks, Held, Holds, Hand
  <2> QED
    BY <2>1, <2>2, SameFed
<1>3. CASE KBDServiceTask
  BY <1>3, ServiceFed
<1>4. CASE Jobs \/ Tasks
  BY <1>4, OtherFed
<1>5. ASSUME NEW b, IntKeyBrd(b) PROVE JobFed(j)'
  BY <1>5, IntFed
<1> QED
  BY <1>2, <1>3, <1>4, <1>5 DEF Next

LEMMA InitFInv == Init => FInv
<1> SUFFICES ASSUME Init PROVE FInv
  OBVIOUS
<1>1. /\ job = [j \in Job |-> IdleJob] /\ rqb = [h \in RQB |-> NoRq] /\ svc = Service("top")
      /\ queue = [e \in Exch |-> <<>>]
  BY DEF Init, RequestsInit
<1>2. Polls
  BY <1>1 DEF Polls, NoRq
<1>3. ASSUME NEW j \in Job PROVE JobFed(j)
  <2>1. job[j].pc = "idle" /\ job[j].key = None /\ j \in Asker
    BY <1>1 DEF IdleJob, Asker
  <2>2. Asks(j) = {}
    BY <2>1, InitKInv, KeyboardAssumption DEF KInv, Answered, Resting
  <2> QED
    BY <2>1, <2>2 DEF JobFed
<1> QED
  BY <1>2, <1>3 DEF FInv

-----------------------------------------------------------------------------
(* The keyboard implements KeyFeed. *)

LEMMA KeysSame == UNCHANGED <<rgdKBBuf, rgbKbdBuf>> => Keys' = Keys
BY DEF Keys

LEMMA JobSame ==
    ASSUME NEW j, job'[j].pc = job[j].pc
    PROVE  JobState(j)' = JobState(j)
BY DEF JobState

LEMMA Stutters ==
    ASSUME Keys' = Keys, KbdOwner' = KbdOwner,
           \A j \in Job : JobState(j)' = JobState(j) /\ job'[j].key = job[j].key
    PROVE  UNCHANGED KF!vars
BY DEF KF!vars

\* One job goes on.
LEMMA OneBecomes ==
    ASSUME NEW j \in Job, Keys' = Keys, KbdOwner' = KbdOwner, \A l \in Job \ {j} : job'[l] = job[l],
           NEW to, to = JobState(j)', NEW k, k = job'[j].key
    PROVE  KF!Becomes(j, to, k)
<1>1. \A l \in Job \ {j} : JobState(l)' = JobState(l) /\ job'[l].key = job[l].key
  BY JobSame
<1> QED
  BY <1>1 DEF KF!Becomes

LEMMA IntFeeds ==
    ASSUME QInv, NEW b \in Byte, IntKeyBrd(b)
    PROVE  UNCHANGED KF!vars \/ (b \in Key /\ KF!Typed(b))
<1>1. UNCHANGED <<rgdKBBuf, KbdOwner, job>> /\ rgbKbdBuf \in Seq(Byte) /\ rgdKBBuf \in Seq(Key)
  BY DEF IntKeyBrd, QInv, BufOK
<1>2. \A j \in Job : JobState(j)' = JobState(j) /\ job'[j].key = job[j].key
  BY <1>1, JobSame
<1>3. CASE UNCHANGED rgbKbdBuf
  BY <1>1, <1>2, <1>3, KeysSame, Stutters
<1>4. CASE rgbKbdBuf' = Append(rgbKbdBuf, b)
  <2> DEFINE K == KeysIn(rgbKbdBuf)
             R == rgdKBBuf
  <2>1. rgbKbdBuf' = rgbKbdBuf \o <<b>> /\ <<b>> \in Seq(Byte)
    BY <1>1, <1>4
  <2>2. K \in Seq(Key) /\ KeysIn(rgbKbdBuf \o <<b>>) = K \o KeysIn(<<b>>)
    BY <1>1, <2>1, KeysAre, KeysConcat
  <2>3. Keys' = R \o (K \o KeysIn(<<b>>)) /\ Keys = R \o K
    BY <1>1, <2>1, <2>2 DEF Keys
  <2> HIDE DEF K
  <2>4. CASE b \in Key
    <3>1. Keys' = R \o (K \o <<b>>)
      BY <2>3, <2>4, KeysOne
    <3>2. R \o (K \o <<b>>) = Append(R \o K, b)
      BY <1>1, <2>2, <2>4
    <3> QED
      BY <1>1, <1>2, <2>3, <2>4, <3>1, <3>2 DEF KF!Typed
  <2>5. CASE b \notin Key
    <3>1. Places(<<b>>) = {}
      BY <2>5 DEF Places
    <3>2. KeysIn(<<b>>) = <<>>
      BY <2>1, <3>1, KeysNone
    <3>3. K \o <<>> = K
      BY <2>2
    <3>4. Keys' = Keys
      BY <2>3, <3>2, <3>3
    <3> QED
      BY <1>1, <1>2, <3>4, Stutters
  <2> QED
    BY <2>4, <2>5
<1> QED
  BY <1>3, <1>4 DEF IntKeyBrd

LEMMA XLateFeeds ==
    ASSUME QInv, XLateRawKBD, UNCHANGED <<KbdOwner, job>>
    PROVE  UNCHANGED KF!vars \/ \E i \in DOMAIN Keys : KF!Lost(i)
<1>1. \A j \in Job : JobState(j)' = JobState(j) /\ job'[j].key = job[j].key
  BY JobSame
<1>2. CASE Keys' = Keys
  BY <1>1, <1>2, Stutters
<1>3. CASE /\ sKB + 1 \in DOMAIN Keys
           /\ Keys' = SubSeq(Keys, 1, sKB) \o SubSeq(Keys, sKB + 2, Len(Keys))
  <2>1. PICK i \in DOMAIN Keys : i = sKB + 1
    BY <1>3
  <2>2. i > sKB /\ i - 1 = sKB /\ i + 1 = sKB + 2
    BY <2>1, KeyboardAssumption
  <2>3. KF!Lost(i)
    BY <1>1, <1>3, <2>2 DEF KF!Lost
  <2> QED
    BY <2>3
<1> QED
  BY <1>2, <1>3, XLateDoes DEF QInv

LEMMA ReadFeeds ==
    ASSUME IInv, KInv, QInv, FInv, ReadKey
    PROVE  \E j \in Job : KF!Give(j)
<1>1. PICK j \in Job :
            /\ KbdOwner = j
            /\ job[j].pc \in {"asked", "asker"} /\ job[j].key = None
            /\ rgdKBBuf # <<>> /\ rgdKBBuf' = Tail(rgdKBBuf)
            /\ job' = [job EXCEPT ![j].key = Head(rgdKBBuf)]
  BY KeyGiven
<1>2. JobsOK /\ rgdKBBuf \in Seq(Key) /\ rgbKbdBuf \in Seq(Byte) /\ UNCHANGED <<rgbKbdBuf, KbdOwner>>
  BY DEF IInv, Types, QInv, BufOK, ReadKey
<1>3. JobsStay
  BY <1>1, <1>2, KeyWritten
<1>4. /\ job'[j].key = Head(rgdKBBuf) /\ \A l \in Job \ {j} : job'[l] = job[l]
      /\ \A l \in Job : JobState(l)' = JobState(l)
  BY <1>1, <1>2, <1>3, JobSame DEF JobsOK, JobsStay
<1> DEFINE K == KeysIn(rgbKbdBuf)
           R == rgdKBBuf
<1>5. K \in Seq(Key) /\ Keys = R \o K /\ Keys' = Tail(R) \o K
  BY <1>1, <1>2, KeysAre DEF Keys
<1> HIDE DEF K
<1>6. R \o K # <<>> /\ Head(R \o K) = Head(R) /\ Tail(R \o K) = Tail(R) \o K
  BY <1>1, <1>2, <1>5
<1>7. JobState(j) \in {"asked", "polled", "asker"}
  BY <1>1 DEF JobState
<1>8. Keys # <<>> /\ Keys' = Tail(Keys) /\ job'[j].key = Head(Keys)
  BY <1>4, <1>5, <1>6
<1>9. KbdOwner = j /\ KbdOwner' = KbdOwner /\ job[j].key = None
  BY <1>1, <1>2
<1>10. KF!Give(j)
  BY <1>4, <1>7, <1>8, <1>9 DEF KF!Give
<1> QED
  BY <1>10

LEMMA ServiceFeeds == ASSUME IInv, KInv, QInv, FInv, KBDServiceTask PROVE [KF!Next]_(KF!vars)
<1>1. CASE ReadKey
  BY <1>1, ReadFeeds DEF KF!Next
<1>2. CASE AssignKBD
  <2>1. PICK h \in RQB : h = svc.rq /\ rqb[h].ServiceCode = "assign"
    BY <1>2, SvcAt DEF AssignKBD, Serving
  <2>2. PICK j \in Job : j = rqb[h].dData0
    BY <2>1 DEF QInv, Owned
  <2>3. KbdOwner' = j /\ UNCHANGED <<rgbKbdBuf, rgdKBBuf, job>>
    BY <1>2, <2>1, <2>2 DEF AssignKBD
  <2>4. \A l \in Job : JobState(l)' = JobState(l) /\ job'[l].key = job[l].key
    BY <2>3, JobSame
  <2>5. KF!Assign(j)
    BY <2>3, <2>4, KeysSame DEF KF!Assign
  <2> QED
    BY <2>5 DEF KF!Next
<1>3. CASE Top \/ (WaitMain /\ First.h = ISR)
  <2>1. XLateRawKBD /\ UNCHANGED <<KbdOwner, job>>
    BY <1>3 DEF Top, WaitMain
  <2> QED
    BY <2>1, XLateFeeds DEF KF!Next
<1>4. CASE UNCHANGED <<rgbKbdBuf, rgdKBBuf, KbdOwner, job>>
  <2>1. \A l \in Job : JobState(l)' = JobState(l) /\ job'[l].key = job[l].key
    BY <1>4, JobSame
  <2> QED
    BY <1>4, <2>1, KeysSame, Stutters
<1>5. CASE WaitMain /\ First.h # ISR
  BY <1>4, <1>5 DEF WaitMain
<1>6. CASE Global1 \/ AliasMem \/ CheckWait \/ ReadNone \/ Park \/ AbortJob
  BY <1>4, <1>6 DEF Global1, AliasMem, CheckWait, ReadNone, Park, AbortJob, kbd
<1>7. CASE Sift \/ SiftMove \/ CheckResp \/ SendResp
  BY <1>4, <1>7 DEF Sift, SiftMove, CheckResp, SendResp, kbd
<1> QED
  BY <1>1, <1>2, <1>3, <1>5, <1>6, <1>7 DEF KBDServiceTask

LEMMA JobFeeds ==
    ASSUME IInv, KInv, FInv, NEW j \in Job, ReadKBD(j) \/ ReadKBDSend(j) \/ ReadKBDEnd(j) \/ LoadJob(j)
    PROVE  UNCHANGED KF!vars \/ KF!Ask(j) \/ KF!Return(j) \/ KF!Load(j)
<1>1. Keys' = Keys /\ KbdOwner' = KbdOwner /\ JobsOK /\ JobFed(j)
  BY OtherLeaves, KeysSame DEF Jobs, IInv, Types, FInv
<1>2. \A l \in Job \ {j} : job'[l] = job[l]
  BY JobStepFed
<1>3. CASE ReadKBD(j)
  <2>1. JobState(j) = "idle" /\ job'[j].pc \in {"send", "asked"} /\ job'[j].key = None
    BY <1>1, <1>3 DEF ReadKBD, JobsOK, JobState
  <2>2. PICK to : to = JobState(j)'
    OBVIOUS
  <2>3. to \in {"asked", "polled"}
    BY <2>1, <2>2 DEF JobState
  <2>4. KF!Becomes(j, to, None)
    BY <1>1, <1>2, <2>1, <2>2, OneBecomes
  <2> QED
    BY <2>1, <2>3, <2>4 DEF KF!Ask
<1>4. CASE ReadKBDSend(j)
  <2>1. job[j].pc = "send" /\ job'[j].pc = "asked" /\ job'[j].key = job[j].key
    BY <1>1, <1>4 DEF ReadKBDSend, JobsOK
  <2>2. JobState(j)' = JobState(j)
    BY <2>1 DEF JobState
  <2>3. \A l \in Job : JobState(l)' = JobState(l) /\ job'[l].key = job[l].key
    BY <1>2, <2>1, <2>2, JobSame
  <2> QED
    BY <1>1, <2>3, Stutters
<1>5. CASE ReadKBDEnd(j) \/ LoadJob(j)
  <2>1. job'[j].pc = "idle" /\ job'[j].key = None
    BY <1>1, <1>5 DEF ReadKBDEnd, LoadJob, JobsOK, IdleJob
  <2>2. JobState(j)' = "idle"
    BY <2>1 DEF JobState
  <2>3. KF!Becomes(j, "idle", None)
    BY <1>1, <1>2, <2>1, <2>2, OneBecomes
  <2>4. CASE ReadKBDEnd(j)
    <3>1. job[j].pc = "asked" /\ queue[j] # <<>>
      BY <2>4 DEF ReadKBDEnd, Take
    <3>2. JobState(j) = "polled" \/ (JobState(j) = "asked" /\ job[j].key # None)
      BY <1>1, <3>1 DEF JobFed, Content, JobState
    <3> QED
      BY <2>3, <3>2 DEF KF!Return
  <2>5. CASE LoadJob(j)
    <3>1. JobState(j) = "gone"
      BY <2>5 DEF LoadJob, JobState
    <3> QED
      BY <2>3, <3>1 DEF KF!Load
  <2> QED
    BY <1>5, <2>4, <2>5
<1> QED
  BY <1>3, <1>4, <1>5

LEMMA KillFeeds ==
    ASSUME IInv, KInv, FInv, NEW j \in Job, KillJob(j)
    PROVE  KF!Kill(j)
<1>1. Keys' = Keys /\ KbdOwner' = KbdOwner /\ JobsOK /\ JobFed(j)
  BY OtherLeaves, KeysSame DEF Tasks, IInv, Types, FInv
<1>2. \A l \in Job \ {j} : job'[l] = job[l]
  BY KillJobFed
<1>3. /\ job'[j].pc = (IF job[j].pc = "idle" THEN "dying" ELSE "asker")
      /\ job'[j].key = job[j].key /\ job[j].pc \notin {"gone", "dying", "asker"}
  BY <1>1 DEF KillJob, JobsOK, Present
<1>4. CASE job[j].pc = "idle"
  <2>1. JobState(j) = "idle" /\ JobState(j)' = "dying" /\ job'[j].key = None
    BY <1>1, <1>3, <1>4 DEF JobState, JobFed
  <2>2. KF!Becomes(j, "dying", None)
    BY <1>1, <1>2, <2>1, OneBecomes
  <2> QED
    BY <2>1, <2>2 DEF KF!Kill
<1>5. CASE job[j].pc # "idle"
  <2>1. job[j].pc \in {"send", "asked"}
    BY <1>3, <1>5 DEF KInv, Killed
  <2>2. JobState(j) \in {"asked", "polled"} /\ JobState(j)' = "asker"
    BY <1>3, <1>5, <2>1 DEF JobState
  <2>3. PICK k : k = job[j].key /\ k = job'[j].key
    BY <1>3
  <2>4. KF!Becomes(j, "asker", k)
    BY <1>1, <1>2, <2>2, <2>3, OneBecomes
  <2>5. /\ [l \in Job |-> JobState(l)][j] \in {"asked", "polled"}
        /\ [l \in Job |-> job[l].key][j] = k
    BY <2>2, <2>3
  <2> QED
    BY <2>4, <2>5 DEF KF!Kill, KF!Becomes
<1> QED
  BY <1>4, <1>5

LEMMA OtherFeeds == ASSUME IInv, KInv, FInv, Jobs \/ Tasks PROVE [KF!Next]_(KF!vars)
<1>1. Keys' = Keys /\ KbdOwner' = KbdOwner
  BY OtherLeaves, KeysSame
<1>2. ASSUME UNCHANGED job PROVE UNCHANGED KF!vars
  <2>1. \A l \in Job : JobState(l)' = JobState(l) /\ job'[l].key = job[l].key
    BY <1>2, JobSame
  <2> QED
    BY <1>1, <2>1, Stutters
<1>3. CASE Jobs
  BY <1>3, JobFeeds DEF Jobs, KF!Next
<1>4. ASSUME NEW j \in Job, KillJob(j) PROVE KF!Next
  BY <1>4, KillFeeds DEF KF!Next
<1>5. CASE SendAbortEnd
  <2>1. ASSUME NEW j \in Job, job[j].pc \in DeadPc, job' = [job EXCEPT ![j] = [IdleJob EXCEPT !.pc = "gone"]],
               \A l \in Job \ {j} : job'[l] = job[l]
        PROVE  KF!Killed(j)
    <3>1. job'[j].pc = "gone" /\ job'[j].key = None
      BY <2>1 DEF IInv, Types, JobsOK, IdleJob
    <3>2. JobState(j) \in {"dying", "asker"} /\ JobState(j)' = "gone"
      BY <2>1, <3>1 DEF JobState, DeadPc
    <3>3. KF!Becomes(j, "gone", None)
      BY <1>1, <2>1, <3>1, <3>2, OneBecomes
    <3> QED
      BY <3>2, <3>3 DEF KF!Killed
  <2> QED
    BY <1>2, <1>5, <2>1, SendAbortEndFed DEF KF!Next
<1>6. AskGlobal \/ MngrWoken \/ KillExch \/ SendAbort \/ (\E x \in Job : MngrAssign(x)) => UNCHANGED job
  BY DEF AskGlobal, MngrWoken, KillExch, SendAbort, MngrAssign
<1> QED
  BY <1>2, <1>3, <1>4, <1>5, <1>6 DEF Tasks

LEMMA NextFeeds == ASSUME IInv, KInv, QInv, FInv, [Next]_vars PROVE [KF!Next]_(KF!vars)
<1>1. CASE UNCHANGED vars
  <2>1. UNCHANGED <<rgbKbdBuf, rgdKBBuf, KbdOwner, job>>
    BY <1>1 DEF vars
  <2>2. \A l \in Job : JobState(l)' = JobState(l) /\ job'[l].key = job[l].key
    BY <2>1, JobSame
  <2> QED
    BY <2>1, <2>2, KeysSame, Stutters
<1>2. CASE KBDServiceTask
  BY <1>2, ServiceFeeds
<1>3. CASE Jobs \/ Tasks
  BY <1>3, OtherFeeds
<1>4. ASSUME NEW b \in Key \cup {Other, Global}, IntKeyBrd(b) PROVE [KF!Next]_(KF!vars)
  BY <1>4, IntFeeds DEF Byte, KF!Next
<1> QED
  BY <1>1, <1>2, <1>3, <1>4 DEF Next

LEMMA InitFeeds == Init => KF!Init
<1> SUFFICES ASSUME Init PROVE KF!Init
  OBVIOUS
<1>1. rgbKbdBuf = <<>> /\ rgdKBBuf = <<>> /\ KbdOwner \in Job /\ job = [j \in Job |-> IdleJob]
  BY DEF Init
<1>2. <<>> \o <<>> = <<>>
  OBVIOUS
<1>3. Keys = <<>>
  BY <1>1, <1>2, KeysEmpty DEF Keys
<1>4. \A j \in Job : JobState(j) = "idle" /\ job[j].key = None
  BY <1>1 DEF JobState, IdleJob
<1> QED
  BY <1>1, <1>3, <1>4 DEF KF!Init

\* The keyboard is what the jobs expect: each key is given once, in the order of
\* typing, to the job that the keyboard is assigned to then, which has asked for it;
\* keys are lost only when rgdKBBuf is full; and no job returns from ReadKBD without a
\* key but one that polls (XLateRawKBD, KSTRead, KSTAssignKBD, KSTAbort, KillJob).
\* That is so until a SendAbort is fooled.
THEOREM KeyboardFeeds == Spec => ImplementsKeyFeed
<1> DEFINE DInv == IInv /\ (~fooled => KInv /\ Ahead /\ QInv /\ FInv)
<1>1. Init => DInv
  BY InitIInv, InitKInv, InitQInv, InitFInv
<1>2. DInv /\ [Next]_vars => DInv'
  BY NextIInv, NextKInv, NextAhead, NextQInv, NextFInv, FooledStays
<1>3. Init => KF!Init
  BY InitFeeds
<1>4. DInv /\ [Next]_vars => [~fooled' => KF!Next]_(KF!vars)
  BY NextFeeds, FooledStays
<1> QED
  BY <1>1, <1>2, <1>3, <1>4, PTL DEF Spec, ImplementsKeyFeed
=============================================================================
