----------------------------- MODULE SerialProofs -----------------------------
(***************************************************************************)
(* Proofs about Serial, for buffers of any sizes, when programs close a    *)
(* channel only when nothing waits and the constant SRECVBUF is the size   *)
(* of the receive buffer, as the driver sets it.                           *)
(***************************************************************************)
EXTENDS Serial, SequenceTheorems, TLAPS

\* The driver allocates SRECVBUF bytes, and every program drains its channel.
AsDriven == ~ClosesBusy /\ SRECVBUF = sRecvBuf

-----------------------------------------------------------------------------
(* The circular buffers. *)

BufRec(n) == [buf : [0 .. n - 1 -> Byte], head : 0 .. n - 1, tail : 0 .. n - 1, c : 0 .. n]

\* x modulo n, for x below 2 * n.
Wrap(x, n) == IF x < n THEN x ELSE x - n

\* The head is c bytes after the tail.
BufOK(q, n) == q \in BufRec(n) /\ q.head = Wrap(q.tail + q.c, n)

\* The driver's wrap of an index (one subtraction) is the remainder.
LEMMA WrapMod ==
    ASSUME NEW n \in Nat \ {0}, NEW x \in Nat, x < n + n
    PROVE  x % n = Wrap(x, n) /\ Wrap(x, n) \in 0 .. n - 1
<1>1. CASE x < n
  <2>1. x % n = x
    BY <1>1
  <2> QED
    BY <1>1, <2>1 DEF Wrap
<1>2. CASE ~(x < n)
  <2>1. x % n = x - n
    BY <1>2
  <2> QED
    BY <1>2, <2>1 DEF Wrap
<1> QED
  BY <1>1, <1>2

\* What a buffer holds.
LEMMA HeldSeq ==
    ASSUME NEW n \in Nat \ {0}, NEW q, BufOK(q, n)
    PROVE  /\ Held(q, n) \in Seq(Byte) /\ Len(Held(q, n)) = q.c
           /\ \A i \in 1 .. q.c : /\ Held(q, n)[i] = q.buf[Wrap(q.tail + i - 1, n)]
                                  /\ Wrap(q.tail + i - 1, n) \in 0 .. n - 1
<1>1. q.c \in 0 .. n /\ q.tail \in 0 .. n - 1 /\ q.buf \in [0 .. n - 1 -> Byte]
  BY DEF BufOK, BufRec
<1>2. ASSUME NEW i \in 1 .. q.c
      PROVE  /\ (q.tail + i - 1) % n = Wrap(q.tail + i - 1, n)
             /\ Wrap(q.tail + i - 1, n) \in 0 .. n - 1
  <2>1. q.tail + i - 1 \in Nat /\ q.tail + i - 1 < n + n
    BY <1>1
  <2> QED
    BY <2>1, WrapMod
<1>3. Held(q, n) = [i \in 1 .. q.c |-> q.buf[Wrap(q.tail + i - 1, n)]]
  BY <1>2 DEF Held
<1>4. \A i \in 1 .. q.c : q.buf[Wrap(q.tail + i - 1, n)] \in Byte
  BY <1>1, <1>2
<1>5. Held(q, n) \in [1 .. q.c -> Byte] /\ q.c \in Nat
  BY <1>1, <1>3, <1>4
<1>6. Held(q, n) \in Seq(Byte) /\ Len(Held(q, n)) = q.c
  <2>1. PICK m \in Nat : m = q.c
    BY <1>5
  <2>2. PICK s : s = Held(q, n) /\ s \in [1 .. m -> Byte]
    BY <1>5, <2>1
  <2>3. s \in Seq(Byte)
    BY <2>2, SeqDef
  <2>4. Len(s) = m
    BY <2>2, <2>3, LenProperties
  <2> QED
    BY <2>1, <2>2, <2>3, <2>4
<1> QED
  BY <1>2, <1>3, <1>6

\* A byte put into a buffer that is not full is held last.
LEMMA HeldPut ==
    ASSUME NEW n \in Nat \ {0}, NEW q, BufOK(q, n), q.c < n, NEW b \in Byte
    PROVE  /\ BufOK(PutIn(q, b, n), n)
           /\ PutIn(q, b, n).c = q.c + 1
           /\ Held(PutIn(q, b, n), n) = Append(Held(q, n), b)
<1> DEFINE p == PutIn(q, b, n)
<1>1. /\ q \in BufRec(n) /\ q.c \in 0 .. n - 1 /\ q.tail \in 0 .. n - 1 /\ q.head \in 0 .. n - 1
      /\ q.buf \in [0 .. n - 1 -> Byte] /\ q.head = Wrap(q.tail + q.c, n)
  BY DEF BufOK, BufRec
<1>2. /\ p.buf = [q.buf EXCEPT ![q.head] = b]
      /\ p.head = (IF q.head + 1 = n THEN 0 ELSE q.head + 1)
      /\ p.tail = q.tail /\ p.c = q.c + 1
      /\ p = [buf |-> p.buf, head |-> p.head, tail |-> p.tail, c |-> p.c]
  <2>1. PICK nb, nh, nc : /\ nb = [q.buf EXCEPT ![q.head] = b]
                          /\ nh = (IF q.head + 1 = n THEN 0 ELSE q.head + 1)
                          /\ nc = q.c + 1
    OBVIOUS
  <2>2. p = [q EXCEPT !.buf = nb, !.head = nh, !.c = nc]
    BY <1>1, <2>1 DEF PutIn, BufRec
  <2>3. p = [buf |-> nb, head |-> nh, tail |-> q.tail, c |-> nc]
    BY <1>1, <2>2 DEF BufRec
  <2> QED
    BY <2>1, <2>3
<1> HIDE DEF p
<1>3. /\ p.buf \in [0 .. n - 1 -> Byte] /\ p.head \in 0 .. n - 1 /\ p.tail \in 0 .. n - 1
      /\ p.c \in 0 .. n
  BY <1>1, <1>2
<1>4. p \in BufRec(n)
  BY <1>2, <1>3 DEF BufRec
<1>5. p.head = Wrap(p.tail + p.c, n)
  BY <1>1, <1>2 DEF Wrap
<1>6. BufOK(p, n)
  BY <1>4, <1>5 DEF BufOK
<1>7. /\ Held(q, n) \in Seq(Byte) /\ Len(Held(q, n)) = q.c
      /\ \A i \in 1 .. q.c : /\ Held(q, n)[i] = q.buf[Wrap(q.tail + i - 1, n)]
                             /\ Wrap(q.tail + i - 1, n) \in 0 .. n - 1
  BY HeldSeq
<1>8. /\ Held(p, n) \in Seq(Byte) /\ Len(Held(p, n)) = p.c
      /\ \A i \in 1 .. p.c : /\ Held(p, n)[i] = p.buf[Wrap(p.tail + i - 1, n)]
                             /\ Wrap(p.tail + i - 1, n) \in 0 .. n - 1
  BY <1>6, HeldSeq
<1>9. \A i \in 1 .. q.c : Held(p, n)[i] = Held(q, n)[i]
  <2> SUFFICES ASSUME NEW i \in 1 .. q.c PROVE Held(p, n)[i] = Held(q, n)[i]
    OBVIOUS
  <2>1. i \in 1 .. p.c /\ Wrap(q.tail + i - 1, n) # q.head
    BY <1>1, <1>2 DEF Wrap
  <2>2. p.buf[Wrap(q.tail + i - 1, n)] = q.buf[Wrap(q.tail + i - 1, n)]
    BY <1>1, <1>2, <1>7, <2>1
  <2> QED
    BY <1>2, <1>7, <1>8, <2>1, <2>2
<1>10. Held(p, n)[q.c + 1] = b
  <2>1. q.c + 1 \in 1 .. p.c /\ Wrap(q.tail + (q.c + 1) - 1, n) = q.head
    BY <1>1, <1>2
  <2>2. Held(p, n)[q.c + 1] = p.buf[q.head]
    BY <1>2, <1>8, <2>1
  <2> QED
    BY <1>1, <1>2, <2>2
<1>11. Held(p, n) = Append(Held(q, n), b)
  <2>1. PICK s \in Seq(Byte), t \in Seq(Byte) : s = Held(p, n) /\ t = Held(q, n)
    BY <1>7, <1>8
  <2>2. Len(s) = Len(t) + 1 /\ (\A i \in 1 .. Len(t) : s[i] = t[i]) /\ s[Len(t) + 1] = b
    BY <1>2, <1>7, <1>8, <1>9, <1>10, <2>1
  <2>3. s = Append(t, b)
    BY <2>2
  <2> QED
    BY <2>1, <2>3
<1> QED
  BY <1>2, <1>6, <1>11 DEF p

\* The byte taken from a buffer that is not empty is the one held first.
LEMMA HeldTake ==
    ASSUME NEW n \in Nat \ {0}, NEW q, BufOK(q, n), q.c > 0, Byte # {}
    PROVE  /\ BufOK(TakeOut(q, n), n)
           /\ TakeOut(q, n).c = q.c - 1
           /\ Held(q, n) # <<>> /\ q.buf[q.tail] = Head(Held(q, n)) /\ q.buf[q.tail] \in Byte
           /\ Held(TakeOut(q, n), n) = Tail(Held(q, n))
<1> DEFINE p == TakeOut(q, n)
<1>0. Stale \in Byte
  BY DEF Stale
<1>1. /\ q \in BufRec(n) /\ q.c \in 1 .. n /\ q.tail \in 0 .. n - 1 /\ q.head \in 0 .. n - 1
      /\ q.buf \in [0 .. n - 1 -> Byte] /\ q.head = Wrap(q.tail + q.c, n)
  BY DEF BufOK, BufRec
<1>2. /\ p.buf = [q.buf EXCEPT ![q.tail] = Stale]
      /\ p.tail = (IF q.tail + 1 = n THEN 0 ELSE q.tail + 1)
      /\ p.head = q.head /\ p.c = q.c - 1
      /\ p = [buf |-> p.buf, head |-> p.head, tail |-> p.tail, c |-> p.c]
  <2>1. PICK nb, nt, nc : /\ nb = [q.buf EXCEPT ![q.tail] = Stale]
                          /\ nt = (IF q.tail + 1 = n THEN 0 ELSE q.tail + 1)
                          /\ nc = q.c - 1
    OBVIOUS
  <2>2. p = [q EXCEPT !.buf = nb, !.tail = nt, !.c = nc]
    BY <1>1, <2>1 DEF TakeOut, BufRec
  <2>3. p = [buf |-> nb, head |-> q.head, tail |-> nt, c |-> nc]
    BY <1>1, <2>2 DEF BufRec
  <2> QED
    BY <2>1, <2>3
<1> HIDE DEF p
<1>3. /\ p.buf \in [0 .. n - 1 -> Byte] /\ p.head \in 0 .. n - 1 /\ p.tail \in 0 .. n - 1
      /\ p.c \in 0 .. n
  BY <1>0, <1>1, <1>2
<1>4. p \in BufRec(n)
  BY <1>2, <1>3 DEF BufRec
<1>5. p.head = Wrap(p.tail + p.c, n)
  <2>1. PICK u \in 0 .. n - 1, c \in 1 .. n : u = q.tail /\ c = q.c
    BY <1>1
  <2>2. q.head = (IF u + c < n THEN u + c ELSE u + c - n)
    BY <1>1, <2>1 DEF Wrap
  <2>3. p.tail = (IF u + 1 = n THEN 0 ELSE u + 1) /\ p.c = c - 1
    BY <1>2, <2>1
  <2>4. CASE u + 1 = n
    BY <1>2, <2>2, <2>3, <2>4 DEF Wrap
  <2>5. CASE u + 1 # n
    BY <1>2, <2>2, <2>3, <2>5 DEF Wrap
  <2> QED
    BY <2>4, <2>5
<1>6. BufOK(p, n)
  BY <1>4, <1>5 DEF BufOK
<1>7. /\ Held(q, n) \in Seq(Byte) /\ Len(Held(q, n)) = q.c
      /\ \A i \in 1 .. q.c : /\ Held(q, n)[i] = q.buf[Wrap(q.tail + i - 1, n)]
                             /\ Wrap(q.tail + i - 1, n) \in 0 .. n - 1
  BY HeldSeq
<1>8. /\ Held(p, n) \in Seq(Byte) /\ Len(Held(p, n)) = p.c
      /\ \A i \in 1 .. p.c : /\ Held(p, n)[i] = p.buf[Wrap(p.tail + i - 1, n)]
                             /\ Wrap(p.tail + i - 1, n) \in 0 .. n - 1
  BY <1>6, HeldSeq
<1>9. \A i \in 1 .. p.c : Held(p, n)[i] = Held(q, n)[i + 1]
  <2> SUFFICES ASSUME NEW i \in 1 .. p.c PROVE Held(p, n)[i] = Held(q, n)[i + 1]
    OBVIOUS
  <2>1. /\ i + 1 \in 1 .. q.c /\ Wrap(q.tail + (i + 1) - 1, n) # q.tail
        /\ Wrap(p.tail + i - 1, n) = Wrap(q.tail + (i + 1) - 1, n)
    <3>1. PICK u \in 0 .. n - 1, c \in 1 .. n : u = q.tail /\ c = q.c
      BY <1>1
    <3>2. p.tail = (IF u + 1 = n THEN 0 ELSE u + 1) /\ p.c = c - 1
      BY <1>2, <3>1
    <3>3. i + 1 \in 1 .. q.c /\ i + 1 <= c /\ i \in 1 .. n
      BY <3>1, <3>2
    <3>4. Wrap(u + (i + 1) - 1, n) # u
      BY <3>3 DEF Wrap
    <3>5. CASE u + 1 = n
      <4>1. p.tail = 0
        BY <3>2, <3>5
      <4>2. Wrap(0 + i - 1, n) = Wrap(u + (i + 1) - 1, n)
        BY <3>3, <3>5 DEF Wrap
      <4> QED
        BY <3>1, <3>3, <3>4, <4>1, <4>2
    <3>6. CASE u + 1 # n
      <4>1. p.tail = u + 1 /\ (u + 1) + i - 1 = u + (i + 1) - 1
        BY <3>2, <3>3, <3>6
      <4> QED
        BY <3>1, <3>3, <3>4, <4>1
    <3> QED
      BY <3>5, <3>6
  <2>2. p.buf[Wrap(p.tail + i - 1, n)] = q.buf[Wrap(q.tail + (i + 1) - 1, n)]
    BY <1>1, <1>2, <1>7, <2>1
  <2> QED
    BY <1>7, <1>8, <2>1, <2>2
<1>10. Held(q, n)[1] = q.buf[q.tail]
  <2>1. 1 \in 1 .. q.c /\ Wrap(q.tail + 1 - 1, n) = q.tail
    BY <1>1 DEF Wrap
  <2> QED
    BY <1>7, <2>1
<1>11. PICK s \in Seq(Byte), t \in Seq(Byte) : s = Held(p, n) /\ t = Held(q, n)
  BY <1>7, <1>8
<1>12. /\ Len(t) = Len(s) + 1 /\ (\A i \in 1 .. Len(s) : s[i] = t[i + 1])
       /\ t[1] = q.buf[q.tail] /\ t # <<>>
  BY <1>1, <1>2, <1>7, <1>8, <1>9, <1>10, <1>11
<1>13. s = Tail(t) /\ Head(t) = t[1]
  BY <1>12
<1>14. q.buf[q.tail] \in Byte
  BY <1>1
<1> QED
  BY <1>2, <1>6, <1>11, <1>12, <1>13, <1>14 DEF p

-----------------------------------------------------------------------------
(* Sequences with a register of the chip in front or behind. *)

Reg == {<<>>} \cup {<<b>> : b \in Byte}

\* A register of the chip, as a sequence: no byte or one.
LEMMA RegSeq ==
    ASSUME NEW x \in Reg
    PROVE  x \in Seq(Byte) /\ (x # <<>> => \E b \in Byte : x = <<b>> /\ x[1] = b)
<1>1. CASE x = <<>>
  BY <1>1
<1>2. ASSUME NEW b \in Byte, x = <<b>> PROVE x \in Seq(Byte) /\ x[1] = b
  BY <1>2
<1> QED
  BY <1>1, <1>2 DEF Reg

\* A byte put in front of a sequence or behind it.
LEMMA RegConcat ==
    ASSUME NEW s \in Seq(Byte), NEW b \in Byte
    PROVE  /\ s \o <<>> = s /\ <<>> \o s = s
           /\ s \o <<b>> = Append(s, b)
           /\ <<b>> \o s # <<>> /\ Head(<<b>> \o s) = b /\ Tail(<<b>> \o s) = s
<1>1. s \o <<>> = s /\ <<>> \o s = s
  BY ConcatEmptySeq
<1>2. <<b>> \in Seq(Byte) /\ Len(<<b>>) = 1 /\ <<b>>[1] = b
  OBVIOUS
<1>3. s \o <<b>> = Append(s, b)
  <2>0. s \o <<b>> \in Seq(Byte) /\ Append(s, b) \in Seq(Byte)
    BY <1>2, ConcatProperties
  <2>1. PICK t \in Seq(Byte), u \in Seq(Byte) : t = s \o <<b>> /\ u = Append(s, b)
    BY <2>0
  <2>2. Len(t) = Len(u) /\ \A i \in 1 .. Len(t) : t[i] = u[i]
    <3>1. /\ Len(t) = Len(s) + 1
          /\ \A i \in 1 .. Len(s) + 1 : t[i] = (IF i <= Len(s) THEN s[i] ELSE <<b>>[i - Len(s)])
      BY <1>2, <2>1, ConcatProperties
    <3>2. Len(u) = Len(s) + 1 /\ (\A i \in 1 .. Len(s) : u[i] = s[i]) /\ u[Len(s) + 1] = b
      BY <2>1
    <3>3. \A i \in 1 .. Len(s) : t[i] = s[i]
      BY <3>1
    <3>4. t[Len(s) + 1] = b
      BY <1>2, <3>1
    <3> QED
      BY <3>1, <3>2, <3>3, <3>4
  <2>3. t = u
    BY <2>2, SeqEqual
  <2> QED
    BY <2>1, <2>3
<1>4. PICK t \in Seq(Byte) : t = <<b>> \o s
  BY <1>2, ConcatProperties
<1>5. Len(t) = Len(s) + 1 /\ t[1] = b /\ \A i \in 1 .. Len(s) : t[i + 1] = s[i]
  BY <1>2, <1>4, ConcatProperties
<1>6. t # <<>> /\ Head(t) = b
  BY <1>5
<1>7. Tail(t) = s
  BY <1>5, <1>6
<1> QED
  BY <1>1, <1>3, <1>4, <1>6, <1>7

\* Appending to the last of two sequences joined.
LEMMA ConcatAppend ==
    ASSUME NEW x \in Seq(Byte), NEW s \in Seq(Byte), NEW b \in Byte
    PROVE  x \o Append(s, b) = Append(x \o s, b)
<1>1. <<b>> \in Seq(Byte) /\ x \o s \in Seq(Byte)
  BY ConcatProperties
<1>2. Append(s, b) = s \o <<b>> /\ Append(x \o s, b) = (x \o s) \o <<b>>
  BY <1>1, RegConcat
<1> QED
  BY <1>1, <1>2, ConcatAssociative

\* Sequences with one first byte and one rest are the same.
LEMMA SameHeadTail ==
    ASSUME NEW s \in Seq(Byte), s # <<>>, NEW t \in Seq(Byte), t # <<>>,
           Head(s) = Head(t), Tail(s) = Tail(t)
    PROVE  s = t
<1>1. Len(s) = Len(t)
  BY HeadTailProperties, EmptySeq
<1>2. \A i \in 1 .. Len(s) : s[i] = t[i]
  <2> SUFFICES ASSUME NEW i \in 1 .. Len(s) PROVE s[i] = t[i]
    OBVIOUS
  <2>1. CASE i = 1
    BY <2>1
  <2>2. CASE i # 1
    <3>1. /\ i - 1 \in 1 .. Len(Tail(s)) /\ (i - 1) + 1 = i
          /\ Len(Tail(s)) = Len(s) - 1 /\ Len(Tail(t)) = Len(t) - 1
      BY <2>2, HeadTailProperties
    <3>2. Tail(s)[i - 1] = s[i] /\ Tail(t)[i - 1] = t[i]
      BY <1>1, <3>1, HeadTailProperties
    <3> QED
      BY <3>2
  <2> QED
    BY <2>1, <2>2
<1> QED
  BY <1>1, <1>2, SeqEqual

-----------------------------------------------------------------------------
(* The invariant. *)

Places == {"off", "id", "RVCDATA", "TXEMPTY", "trash", "store", "stored"}

TypeOK ==
    /\ open \in BOOLEAN /\ fExpectInt \in BOOLEAN
    /\ chip \in [thr : Reg, rbr : Reg, txint : BOOLEAN]
    /\ wire \in Byte
    /\ BufOK(S, sSendBuf) /\ BufOK(R, sRecvBuf)
    /\ isr \in Places
    /\ task \in {"idle", "open", "read", "discard"}

\* A closed channel is quiet.
ClosedQuiet ==
    ~open => /\ isr = "off" /\ task = "idle"
             /\ chip.thr = <<>> /\ ~chip.txint /\ ~fExpectInt

\* The interrupt function finds the byte that it was called for, and room for it
\* where it looked for room.
Receiving ==
    /\ isr \in {"RVCDATA", "trash", "store"} => chip.rbr # <<>>
    /\ isr = "store" => R.c < sRecvBuf

\* No byte is in the holding register while the interrupt function is about to send one.
Sending ==
    /\ chip.txint \/ isr = "TXEMPTY" => chip.thr = <<>>
    /\ isr = "TXEMPTY" => ~chip.txint

\* fExpectInt says whether an interrupt will come; while the channel is opened one may
\* come all the same.
Expecting ==
    /\ ~fExpectInt => chip.thr = <<>> /\ S.c = 0
    /\ task # "open" /\ (chip.txint \/ isr = "TXEMPTY") => fExpectInt

SInv == TypeOK /\ ClosedQuiet /\ Receiving /\ Sending /\ Expecting

\* A buffer as OpenComm sets it holds nothing.
LEMMA EmptyOK ==
    ASSUME Byte # {}, NEW n \in Nat \ {0}
    PROVE  BufOK(Empty(n), n) /\ Empty(n).c = 0 /\ Held(Empty(n), n) = <<>>
<1>1. Stale \in Byte
  BY DEF Stale
<1>2. /\ Empty(n) \in BufRec(n) /\ Empty(n).head = 0 /\ Empty(n).tail = 0 /\ Empty(n).c = 0
  BY <1>1 DEF Empty, BufRec
<1>3. BufOK(Empty(n), n)
  BY <1>2 DEF BufOK, Wrap
<1>4. Held(Empty(n), n) \in Seq(Byte) /\ Len(Held(Empty(n), n)) = 0
  BY <1>2, <1>3, HeldSeq
<1>5. Held(Empty(n), n) = <<>>
  BY <1>4, EmptySeq
<1> QED
  BY <1>2, <1>3, <1>5

\* The chip's registers, one by one.
ChipRec == [thr : Reg, rbr : Reg, txint : BOOLEAN]

\* The invariant holds at the start.
LEMMA InitSInv == ASSUME Init PROVE SInv
<1>1. Byte # {} /\ sSendBuf \in Nat \ {0} /\ sRecvBuf \in Nat \ {0}
  BY SerialAssumption DEF Init
<1>2. BufOK(S, sSendBuf) /\ S.c = 0 /\ BufOK(R, sRecvBuf)
  BY <1>1, EmptyOK DEF Init
<1>3. chip \in ChipRec /\ chip.thr = <<>> /\ chip.rbr = <<>> /\ ~chip.txint
  BY DEF Init, ChipRec, Reg
<1>4. TypeOK
  BY <1>2, <1>3 DEF Init, TypeOK, ChipRec, Places
<1> QED
  BY <1>2, <1>3, <1>4 DEF Init, SInv, ClosedQuiet, Receiving, Sending, Expecting

\* Every step keeps the invariant.
LEMMA NextSInv == ASSUME AsDriven, SInv, [Next]_vars PROVE SInv'
<1> USE DEF SInv
<1>1. /\ Byte # {} /\ sSendBuf \in Nat \ {0} /\ sRecvBuf \in Nat \ {0}
      /\ chip \in ChipRec /\ chip.thr \in Reg /\ chip.rbr \in Reg /\ chip.txint \in BOOLEAN
  BY SerialAssumption DEF TypeOK, ChipRec
<1>2. CASE UNCHANGED vars
  BY <1>2 DEF vars, TypeOK, ClosedQuiet, Receiving, Sending, Expecting
<1>3. CASE GoesOut
  <2>1. /\ chip.thr # <<>> /\ wire' = chip.thr[1]
        /\ UNCHANGED <<open, S, R, fExpectInt, recv_error, isr, CLI, task, ret>>
    BY <1>3 DEF GoesOut, Line
  <2>2. chip' \in ChipRec /\ chip'.thr = <<>> /\ chip'.rbr = chip.rbr /\ (chip'.txint <=> open)
    BY <1>1, <1>3 DEF GoesOut, ChipRec, Reg, TypeOK
  <2>3. wire' \in Byte
    BY <1>1, <2>1, RegSeq
  <2>4. TypeOK'
    BY <2>1, <2>2, <2>3 DEF TypeOK, ChipRec
  <2>5. fExpectInt /\ open /\ isr # "TXEMPTY"
    BY <2>1 DEF Expecting, ClosedQuiet, Sending, TypeOK
  <2> QED
    BY <2>1, <2>2, <2>4, <2>5 DEF ClosedQuiet, Receiving, Sending, Expecting
<1>4. ASSUME NEW b \in Byte, ComesIn(b) PROVE SInv'
  <2>1. /\ open
        /\ UNCHANGED <<open, wire, S, R, fExpectInt, recv_error, isr, CLI, task, ret>>
    BY <1>4 DEF ComesIn, Line
  <2>2. chip' \in ChipRec /\ chip'.thr = chip.thr /\ chip'.rbr = <<b>> /\ (chip'.txint <=> chip.txint)
    BY <1>1, <1>4 DEF ComesIn, ChipRec, Reg
  <2>3. TypeOK'
    BY <2>1, <2>2 DEF TypeOK, ChipRec
  <2> QED
    BY <2>1, <2>2, <2>3 DEF ClosedQuiet, Receiving, Sending, Expecting
<1>5. CASE Interrupt
  BY <1>5 DEF Interrupt, TypeOK, Places, ClosedQuiet, Receiving, Sending, Expecting
<1>6. CASE ReadRVCDATA
  BY <1>6 DEF ReadRVCDATA, TypeOK, Places, ClosedQuiet, Receiving, Sending, Expecting
<1>7. CASE ReadTXEMPTY
  <2>1. /\ isr = "id" /\ chip.txint /\ isr' = "TXEMPTY"
        /\ UNCHANGED <<open, wire, S, R, fExpectInt, recv_error, CLI, task, ret>>
    BY <1>7 DEF ReadTXEMPTY
  <2>2. chip' \in ChipRec /\ chip'.thr = chip.thr /\ chip'.rbr = chip.rbr /\ ~chip'.txint
    BY <1>1, <1>7 DEF ReadTXEMPTY, ChipRec
  <2>3. TypeOK'
    BY <2>1, <2>2 DEF TypeOK, ChipRec, Places
  <2> QED
    BY <2>1, <2>2, <2>3 DEF ClosedQuiet, Receiving, Sending, Expecting
<1>8. CASE ReadNOINT
  BY <1>8 DEF ReadNOINT, TypeOK, Places, ClosedQuiet, Receiving, Sending, Expecting
<1>9. CASE RecvFull
  <2>1. /\ isr = "RVCDATA" /\ isr' \in {"trash", "store"}
        /\ isr' = "store" => R.c # sRecvBuf
        /\ UNCHANGED <<open, chip, wire, S, R, fExpectInt, recv_error, CLI, task, ret>>
    BY <1>9 DEF RecvFull
  <2>2. R.c \in 0 .. sRecvBuf
    BY DEF TypeOK, BufOK, BufRec
  <2>3. isr' = "store" => R.c < sRecvBuf
    BY <1>1, <2>1, <2>2
  <2> QED
    BY <2>1, <2>3 DEF TypeOK, Places, ClosedQuiet, Receiving, Sending, Expecting
<1>10. CASE Trash
  <2>1. /\ isr = "trash" /\ isr' = "id"
        /\ UNCHANGED <<open, wire, S, R, fExpectInt, CLI, task, ret>>
    BY <1>10 DEF Trash
  <2>2. chip' \in ChipRec /\ chip'.thr = chip.thr /\ chip'.rbr = <<>> /\ (chip'.txint <=> chip.txint)
    BY <1>1, <1>10 DEF Trash, ChipRec, Reg
  <2>3. TypeOK'
    BY <2>1, <2>2 DEF TypeOK, ChipRec, Places
  <2> QED
    BY <2>1, <2>2, <2>3 DEF ClosedQuiet, Receiving, Sending, Expecting
<1>11. CASE Store
  <2>1. /\ isr = "store" /\ isr' \in {"id", "stored"}
        /\ UNCHANGED <<open, wire, S, fExpectInt, task, ret>>
    BY <1>11 DEF Store
  <2>2. chip' \in ChipRec /\ chip'.thr = chip.thr /\ chip'.rbr = <<>> /\ (chip'.txint <=> chip.txint)
    BY <1>1, <1>11 DEF Store, ChipRec, Reg
  <2>3. PICK b \in Byte : R' = PutIn(R, b, sRecvBuf)
    BY <1>11 DEF Store, AsDriven
  <2>4. BufOK(R', sRecvBuf)
    BY <1>1, <2>1, <2>3, HeldPut DEF TypeOK, Receiving
  <2>5. TypeOK'
    BY <2>1, <2>2, <2>4 DEF TypeOK, ChipRec, Places
  <2> QED
    BY <2>1, <2>2, <2>5 DEF ClosedQuiet, Receiving, Sending, Expecting
<1>12. CASE Stored
  BY <1>12 DEF Stored, TypeOK, Places, ClosedQuiet, Receiving, Sending, Expecting
<1>13. CASE TxEmpty
  <2>1. /\ isr = "TXEMPTY" /\ SendNext /\ isr' = "id"
        /\ UNCHANGED <<open, wire, R, recv_error, task, ret>>
    BY <1>13 DEF TxEmpty
  <2>2. S.c \in 0 .. sSendBuf
    BY DEF TypeOK, BufOK, BufRec
  <2>3. ~chip.txint /\ chip.thr = <<>> /\ open
    BY <2>1 DEF Sending, ClosedQuiet
  <2>4. CASE S.c > 0
    <3>1. /\ chip' = [chip EXCEPT !.thr = <<S.buf[S.tail]>>]
          /\ S' = TakeOut(S, sSendBuf) /\ fExpectInt' = TRUE
      BY <2>1, <2>4 DEF SendNext
    <3>2. BufOK(S', sSendBuf) /\ S.buf[S.tail] \in Byte
      BY <1>1, <2>4, <3>1, HeldTake DEF TypeOK
    <3>3. chip' \in ChipRec /\ chip'.rbr = chip.rbr /\ ~chip'.txint
      BY <1>1, <2>3, <3>1, <3>2 DEF ChipRec, Reg
    <3>4. TypeOK'
      BY <2>1, <3>1, <3>2, <3>3 DEF TypeOK, ChipRec, Places
    <3> QED
      BY <2>1, <2>3, <3>1, <3>3, <3>4 DEF ClosedQuiet, Receiving, Sending, Expecting
  <2>5. CASE ~(S.c > 0)
    <3>1. fExpectInt' = FALSE /\ UNCHANGED <<chip, S>> /\ S.c = 0
      BY <2>1, <2>2, <2>5 DEF SendNext
    <3> QED
      BY <2>1, <2>3, <3>1 DEF TypeOK, Places, ClosedQuiet, Receiving, Sending, Expecting
  <2> QED
    BY <2>4, <2>5
<1>14. CASE OpenCommC
  <2>1. /\ task = "idle" /\ ~open /\ open' = TRUE /\ task' = "open"
        /\ S' = Empty(sSendBuf) /\ R' = Empty(sRecvBuf)
        /\ UNCHANGED <<wire, fExpectInt, isr, CLI>>
    BY <1>14 DEF OpenCommC, Idle
  <2>2. BufOK(S', sSendBuf) /\ S'.c = 0 /\ BufOK(R', sRecvBuf)
    BY <1>1, <2>1, EmptyOK
  <2>3. isr = "off" /\ chip.thr = <<>> /\ ~fExpectInt
    BY <2>1 DEF ClosedQuiet
  <2>4. chip' \in ChipRec /\ chip'.thr = <<>>
    <3>1. CASE chip' = [chip EXCEPT !.rbr = <<>>, !.txint = FALSE]
      BY <1>1, <2>3, <3>1 DEF ChipRec, Reg
    <3>2. ASSUME NEW b \in Byte, chip' = [chip EXCEPT !.rbr = <<b>>, !.txint = chip.thr = <<>>]
          PROVE  chip' \in ChipRec /\ chip'.thr = <<>>
      <4>1. PICK x \in BOOLEAN : x = (chip.thr = <<>>)
        OBVIOUS
      <4>2. chip' = [chip EXCEPT !.rbr = <<b>>, !.txint = x]
        BY <3>2, <4>1
      <4> QED
        BY <1>1, <2>3, <4>2 DEF ChipRec, Reg
    <3> QED
      BY <1>14, <3>1, <3>2 DEF OpenCommC
  <2>5. TypeOK'
    BY <2>1, <2>2, <2>4 DEF TypeOK, ChipRec
  <2> QED
    BY <2>1, <2>2, <2>3, <2>4, <2>5 DEF ClosedQuiet, Receiving, Sending, Expecting
<1>15. CASE Opened
  BY <1>15 DEF Opened, Chip, TypeOK, ClosedQuiet, Receiving, Sending, Expecting
<1>16. CASE CloseCommC
  <2>1. /\ task = "idle" /\ open /\ open' = FALSE
        /\ chip.thr = <<>> /\ ~fExpectInt /\ isr = "off"
        /\ UNCHANGED <<wire, S, R, fExpectInt, recv_error, isr, CLI, task>>
    BY <1>16 DEF CloseCommC, Idle, Quiet, AsDriven
  <2>2. chip' \in ChipRec /\ chip'.thr = chip.thr /\ ~chip'.txint
    BY <1>1, <1>16 DEF CloseCommC, ChipRec, Reg
  <2>3. TypeOK'
    BY <2>1, <2>2 DEF TypeOK, ChipRec
  <2> QED
    BY <2>1, <2>2, <2>3 DEF ClosedQuiet, Receiving, Sending, Expecting
<1>17. CASE NotOpen \/ XmitTimeout
  BY <1>17 DEF NotOpen, XmitTimeout, Chip, TypeOK, ClosedQuiet, Receiving, Sending, Expecting
<1>18. ASSUME NEW b \in Byte, WriteByteC(b) PROVE SInv'
  <2>1. /\ task = "idle" /\ open /\ S.c < sSendBuf
        /\ UNCHANGED <<open, wire, R, recv_error, isr, CLI, task>>
    BY <1>18 DEF WriteByteC, Idle
  <2>2. CASE fExpectInt
    <3>1. S' = PutIn(S, b, sSendBuf) /\ UNCHANGED <<chip, fExpectInt>>
      BY <1>18, <2>2 DEF WriteByteC
    <3>2. BufOK(S', sSendBuf)
      BY <1>1, <2>1, <3>1, HeldPut DEF TypeOK
    <3> QED
      BY <2>1, <2>2, <3>1, <3>2 DEF TypeOK, ClosedQuiet, Receiving, Sending, Expecting
  <2>3. CASE ~fExpectInt
    <3>1. chip' = [chip EXCEPT !.thr = <<b>>] /\ fExpectInt' = TRUE /\ UNCHANGED S
      BY <1>18, <2>3 DEF WriteByteC
    <3>2. chip' \in ChipRec /\ chip'.rbr = chip.rbr /\ (chip'.txint <=> chip.txint)
      BY <1>1, <3>1 DEF ChipRec, Reg
    <3>3. ~chip.txint /\ isr # "TXEMPTY"
      BY <2>1, <2>3 DEF Expecting
    <3>4. TypeOK'
      BY <2>1, <3>1, <3>2 DEF TypeOK, ChipRec
    <3> QED
      BY <2>1, <3>1, <3>2, <3>3, <3>4 DEF ClosedQuiet, Receiving, Sending, Expecting
  <2> QED
    BY <2>2, <2>3
<1>19. ASSUME NEW call \in {"read", "discard"}, ReadByteC(call) PROVE SInv'
  BY <1>19 DEF ReadByteC, Chip, TypeOK, ClosedQuiet, Receiving, Sending, Expecting
<1>20. CASE TakeByte
  <2>1. /\ task \in {"read", "discard"} /\ task' \in {task, "idle"} /\ R.c > 0
        /\ R' = TakeOut(R, sRecvBuf)
        /\ UNCHANGED <<open, chip, wire, isr, CLI, S, fExpectInt, recv_error>>
    BY <1>20 DEF TakeByte, Chip
  <2>2. BufOK(R', sRecvBuf) /\ R'.c = R.c - 1
    BY <1>1, <2>1, HeldTake DEF TypeOK
  <2>3. R.c \in 0 .. sRecvBuf
    BY DEF TypeOK, BufOK, BufRec
  <2>4. TypeOK'
    BY <2>1, <2>2 DEF TypeOK
  <2>5. R.c < sRecvBuf => R'.c < sRecvBuf
    BY <1>1, <2>2, <2>3
  <2> QED
    BY <2>1, <2>4, <2>5 DEF ClosedQuiet, Receiving, Sending, Expecting
<1>21. CASE RecvTimeout
  BY <1>21 DEF RecvTimeout, Chip, TypeOK, ClosedQuiet, Receiving, Sending, Expecting
<1> QED
  BY <1>2, <1>3, <1>4, <1>5, <1>6, <1>7, <1>8, <1>9, <1>10, <1>11, <1>12, <1>13, <1>14, <1>15,
     <1>16, <1>17, <1>18, <1>19, <1>20, <1>21 DEF Next, handleISR

-----------------------------------------------------------------------------
(* The channel implements SerialLine. *)

\* What is written and has not gone out, what came in last and is in the chip, and what
\* has not been read.
Out == chip.thr \o (IF open THEN Held(S, sSendBuf) ELSE <<>>)
Door == IF ~open \/ isr = "trash" THEN <<>> ELSE chip.rbr
In == IF ~open THEN <<>> ELSE Held(R, sRecvBuf)

\* The steps of SerialLine, of Out, Door and In.
Visible ==
    \/ UNCHANGED <<open, Out, wire, Door, In, ret>>
    \/ /\ open' = ~open /\ Out' = <<>> /\ In' = <<>>
       /\ Door' = <<>> \/ (open' /\ \E b \in Byte : Door' = <<b>>)
       /\ ret' = [erc |-> "ok", out |-> <<>>] /\ UNCHANGED wire
    \/ /\ Out # <<>> /\ Out' = Tail(Out) /\ wire' = Head(Out)
       /\ UNCHANGED <<open, Door, In, ret>>
    \/ /\ Door # <<>> /\ Len(In) < sRecvBuf /\ In' = In \o Door /\ Door' = <<>>
       /\ UNCHANGED <<open, Out, wire, ret>>
    \/ /\ Door # <<>> /\ Len(In) = sRecvBuf /\ Door' = <<>>
       /\ UNCHANGED <<open, Out, wire, In, ret>>
    \/ /\ open /\ In # <<>> /\ In' = Tail(In)
       /\ ret' = [erc |-> "ok", out |-> <<Head(In)>>] /\ UNCHANGED <<open, Out, wire, Door>>
    \/ /\ open /\ In # <<>> /\ In' = Tail(In)
       /\ ret' = [erc |-> "ok", out |-> <<>>] \/ UNCHANGED ret
       /\ UNCHANGED <<open, Out, wire, Door>>
    \/ ret'.out = <<>> /\ UNCHANGED <<open, Out, wire, Door, In>>
    \/ \E b \in Byte :
        \/ /\ open /\ Out' = Append(Out, b) /\ ret' = [erc |-> "ok", out |-> <<>>]
           /\ UNCHANGED <<open, wire, Door, In>>
        \/ /\ open /\ Door' = <<b>> /\ UNCHANGED <<open, Out, wire, In, ret>>

\* Every step moves the bytes on the line as SerialLine says, or not at all.
LEMMA NextVisible == ASSUME AsDriven, SInv, [Next]_vars PROVE Visible
<1> USE DEF SInv
<1>1. /\ Byte # {} /\ sSendBuf \in Nat \ {0} /\ sRecvBuf \in Nat \ {0}
      /\ chip \in ChipRec /\ chip.thr \in Reg /\ chip.rbr \in Reg /\ open \in BOOLEAN
      /\ BufOK(S, sSendBuf) /\ BufOK(R, sRecvBuf)
  BY SerialAssumption DEF TypeOK, ChipRec
<1>2. /\ Held(S, sSendBuf) \in Seq(Byte) /\ Held(R, sRecvBuf) \in Seq(Byte)
      /\ chip.thr \in Seq(Byte) /\ chip.rbr \in Seq(Byte)
  BY <1>1, HeldSeq, RegSeq
<1>3. <<>> \in Seq(Byte)
  BY EmptySeq
\* Steps that change no queue.
<1>4. ASSUME UNCHANGED <<open, chip, S, R>>, isr # "trash", isr' # "trash"
      PROVE  Out' = Out /\ Door' = Door /\ In' = In
  BY <1>4 DEF Out, Door, In
<1>5. ASSUME UNCHANGED <<open, chip, S, R, isr>>
      PROVE  Out' = Out /\ Door' = Door /\ In' = In
  BY <1>5 DEF Out, Door, In
<1>6. CASE UNCHANGED vars
  BY <1>5, <1>6 DEF vars, Visible
<1>7. CASE GoesOut
  <2>1. /\ chip.thr # <<>> /\ wire' = chip.thr[1]
        /\ UNCHANGED <<open, S, R, fExpectInt, recv_error, isr, CLI, task, ret>>
    BY <1>7 DEF GoesOut, Line
  <2>2. chip'.thr = <<>> /\ chip'.rbr = chip.rbr
    BY <1>1, <1>7 DEF GoesOut, ChipRec
  <2>3. PICK b \in Byte : chip.thr = <<b>> /\ wire' = b
    BY <1>1, <2>1, RegSeq
  <2>4. PICK s \in Seq(Byte) : s = IF open THEN Held(S, sSendBuf) ELSE <<>>
    BY <1>2, <1>3
  <2>5. Out = <<b>> \o s /\ Out' = <<>> \o s /\ Door' = Door /\ In' = In
    BY <2>1, <2>2, <2>3, <2>4 DEF Out, Door, In
  <2>6. Out # <<>> /\ Head(Out) = b /\ Tail(Out) = s /\ Out' = s
    BY <2>5, RegConcat
  <2> QED
    BY <2>1, <2>3, <2>5, <2>6 DEF Visible
<1>8. ASSUME NEW b \in Byte, ComesIn(b) PROVE Visible
  <2>1. /\ open
        /\ UNCHANGED <<open, wire, S, R, fExpectInt, recv_error, isr, CLI, task, ret>>
    BY <1>8 DEF ComesIn, Line
  <2>2. chip'.thr = chip.thr /\ chip'.rbr = <<b>>
    BY <1>1, <1>8 DEF ComesIn, ChipRec
  <2>3. Out' = Out /\ In' = In /\ (IF isr = "trash" THEN Door' = Door ELSE Door' = <<b>>)
    BY <2>1, <2>2 DEF Out, Door, In
  <2> QED
    BY <2>1, <2>3 DEF Visible
<1>9. CASE Interrupt
  BY <1>4, <1>9 DEF Interrupt, Visible
<1>10. CASE ReadRVCDATA \/ ReadNOINT \/ Stored
  BY <1>4, <1>10 DEF ReadRVCDATA, ReadNOINT, Stored, Visible
<1>11. CASE ReadTXEMPTY
  <2>1. /\ isr = "id" /\ isr' = "TXEMPTY"
        /\ UNCHANGED <<open, wire, S, R, fExpectInt, recv_error, CLI, task, ret>>
    BY <1>11 DEF ReadTXEMPTY
  <2>2. chip'.thr = chip.thr /\ chip'.rbr = chip.rbr
    BY <1>1, <1>11 DEF ReadTXEMPTY, ChipRec
  <2>3. Out' = Out /\ Door' = Door /\ In' = In
    BY <2>1, <2>2 DEF Out, Door, In
  <2> QED
    BY <2>1, <2>3 DEF Visible
<1>12. CASE RecvFull
  <2>1. /\ isr = "RVCDATA" /\ isr' = IF R.c = sRecvBuf THEN "trash" ELSE "store"
        /\ UNCHANGED <<open, chip, wire, S, R, fExpectInt, recv_error, CLI, task, ret>>
    BY <1>12 DEF RecvFull
  <2>2. CASE R.c = sRecvBuf
    <3>1. open /\ chip.rbr # <<>>
      BY <2>1 DEF ClosedQuiet, Receiving
    <3>2. Len(In) = sRecvBuf
      BY <1>1, <2>2, <3>1, HeldSeq DEF In
    <3>3. Door # <<>> /\ Door' = <<>> /\ In' = In /\ Out' = Out
      BY <2>1, <2>2, <3>1 DEF Out, Door, In
    <3> QED
      BY <2>1, <3>2, <3>3 DEF Visible
  <2>3. CASE R.c # sRecvBuf
    BY <1>4, <2>1, <2>3 DEF Visible
  <2> QED
    BY <2>2, <2>3
<1>13. CASE Trash
  <2>1. /\ isr = "trash" /\ isr' = "id"
        /\ UNCHANGED <<open, wire, S, R, fExpectInt, CLI, task, ret>>
    BY <1>13 DEF Trash
  <2>2. chip'.thr = chip.thr /\ chip'.rbr = <<>>
    BY <1>1, <1>13 DEF Trash, ChipRec
  <2>3. Out' = Out /\ Door' = Door /\ In' = In
    BY <2>1, <2>2 DEF Out, Door, In
  <2> QED
    BY <2>1, <2>3 DEF Visible
<1>14. CASE Store
  <2>1. /\ isr = "store" /\ isr' \in {"id", "stored"}
        /\ UNCHANGED <<open, wire, S, fExpectInt, task, ret>>
    BY <1>14 DEF Store
  <2>2. chip'.thr = chip.thr /\ chip'.rbr = <<>>
    BY <1>1, <1>14 DEF Store, ChipRec
  <2>3. open /\ chip.rbr # <<>> /\ R.c < sRecvBuf
    BY <2>1 DEF ClosedQuiet, Receiving
  <2>4. PICK b \in Byte : chip.rbr = <<b>>
    BY <1>1, <2>3, RegSeq
  <2>5. R' = PutIn(R, b, sRecvBuf)
    <3>1. PICK e \in Byte : (chip.rbr # <<>> => e = chip.rbr[1]) /\ R' = PutIn(R, e, SRECVBUF)
      BY <1>14 DEF Store
    <3>2. <<b>>[1] = b
      OBVIOUS
    <3> QED
      BY <2>3, <2>4, <3>1, <3>2 DEF AsDriven
  <2>6. Held(R', sRecvBuf) = Append(Held(R, sRecvBuf), b)
    BY <1>1, <2>3, <2>5, HeldPut
  <2>7. /\ Out' = Out /\ Door = <<b>> /\ Door' = <<>>
        /\ In = Held(R, sRecvBuf) /\ In' = Append(In, b)
    BY <2>1, <2>2, <2>3, <2>4, <2>6 DEF Out, Door, In
  <2>8. In' = In \o Door /\ Door # <<>>
    BY <1>2, <2>7, RegConcat
  <2>9. Len(In) < sRecvBuf
    BY <1>1, <2>3, <2>7, HeldSeq
  <2> QED
    BY <2>1, <2>7, <2>8, <2>9 DEF Visible
<1>15. CASE TxEmpty
  <2>1. /\ isr = "TXEMPTY" /\ SendNext /\ isr' = "id"
        /\ UNCHANGED <<open, wire, R, recv_error, task, ret>>
    BY <1>15 DEF TxEmpty
  <2>2. chip.thr = <<>> /\ open
    BY <2>1 DEF Sending, ClosedQuiet
  <2>3. CASE S.c > 0
    <3>1. chip' = [chip EXCEPT !.thr = <<S.buf[S.tail]>>] /\ S' = TakeOut(S, sSendBuf)
      BY <2>1, <2>3 DEF SendNext
    <3>2. PICK h \in Seq(Byte) : h = Held(S, sSendBuf)
      BY <1>2
    <3>3. PICK b \in Byte : b = S.buf[S.tail]
      BY <1>1, <2>3, HeldTake
    <3>4. h # <<>> /\ b = Head(h) /\ Held(S', sSendBuf) = Tail(h)
      BY <1>1, <2>3, <3>1, <3>2, <3>3, HeldTake
    <3>5. chip'.thr = <<b>> /\ chip'.rbr = chip.rbr
      BY <1>1, <3>1, <3>3 DEF ChipRec
    <3>6. Out = <<>> \o h /\ Out' = <<b>> \o Tail(h) /\ Door' = Door /\ In' = In
      BY <2>1, <2>2, <3>2, <3>4, <3>5 DEF Out, Door, In
    <3>7. Out' = Out
      <4>1. Tail(h) \in Seq(Byte)
        BY <3>4, HeadTailProperties
      <4>2. <<b>> \in Seq(Byte) /\ Len(<<b>>) = 1 /\ <<b>>[1] = b
        OBVIOUS
      <4>3. PICK w \in Seq(Byte) : w = <<b>> \o Tail(h)
        BY <4>1, <4>2, ConcatProperties
      <4>4. w # <<>> /\ Head(w) = b /\ Tail(w) = Tail(h)
        BY <4>1, <4>3, RegConcat
      <4>5. w = h
        BY <3>4, <4>4, SameHeadTail
      <4> QED
        BY <3>6, <4>3, <4>5, RegConcat
    <3> QED
      BY <2>1, <3>6, <3>7 DEF Visible
  <2>4. CASE ~(S.c > 0)
    <3>1. UNCHANGED <<chip, S>>
      BY <2>1, <2>4 DEF SendNext
    <3> QED
      BY <1>4, <2>1, <3>1 DEF Visible
  <2> QED
    BY <2>3, <2>4
<1>16. CASE OpenCommC
  <2>1. /\ ~open /\ open' = TRUE
        /\ S' = Empty(sSendBuf) /\ R' = Empty(sRecvBuf)
        /\ ret' = [erc |-> "ok", out |-> <<>>]
        /\ UNCHANGED <<wire, fExpectInt, isr, CLI>>
    BY <1>16 DEF OpenCommC, Idle, Returns
  <2>2. Held(S', sSendBuf) = <<>> /\ Held(R', sRecvBuf) = <<>>
    BY <1>1, <2>1, EmptyOK
  <2>3. isr = "off" /\ chip.thr = <<>>
    BY <2>1 DEF ClosedQuiet
  <2>4. chip'.thr = <<>> /\ (chip'.rbr = <<>> \/ \E b \in Byte : chip'.rbr = <<b>>)
    <3>1. CASE chip' = [chip EXCEPT !.rbr = <<>>, !.txint = FALSE]
      BY <1>1, <2>3, <3>1 DEF ChipRec
    <3>2. ASSUME NEW b \in Byte, chip' = [chip EXCEPT !.rbr = <<b>>, !.txint = chip.thr = <<>>]
          PROVE  chip'.thr = <<>> /\ chip'.rbr = <<b>>
      <4>1. PICK x \in BOOLEAN : x = (chip.thr = <<>>)
        OBVIOUS
      <4>2. chip' = [chip EXCEPT !.rbr = <<b>>, !.txint = x]
        BY <3>2, <4>1
      <4> QED
        BY <1>1, <2>3, <4>2 DEF ChipRec
    <3> QED
      BY <1>16, <3>1, <3>2 DEF OpenCommC
  <2>5. Out' = <<>> \o <<>> /\ Door' = chip'.rbr /\ In' = <<>>
    BY <2>1, <2>2, <2>3, <2>4 DEF Out, Door, In
  <2>6. Out' = <<>>
    BY <1>3, <2>5, ConcatEmptySeq
  <2>7. open' = ~open
    BY <1>1, <2>1
  <2> QED
    BY <2>1, <2>4, <2>5, <2>6, <2>7 DEF Visible
<1>17. CASE Opened
  BY <1>5, <1>17 DEF Opened, Chip, Visible
<1>18. CASE CloseCommC
  <2>1. /\ open /\ open' = FALSE /\ chip.thr = <<>>
        /\ ret' = [erc |-> "ok", out |-> <<>>]
        /\ UNCHANGED <<wire, S, R, fExpectInt, recv_error, isr, CLI, task>>
    BY <1>18 DEF CloseCommC, Idle, Quiet, AsDriven, Returns
  <2>2. chip'.thr = <<>>
    BY <1>1, <1>18, <2>1 DEF CloseCommC, ChipRec
  <2>3. Out' = <<>> \o <<>> /\ Door' = <<>> /\ In' = <<>>
    BY <2>1, <2>2 DEF Out, Door, In
  <2>4. Out' = <<>>
    BY <1>3, <2>3, ConcatEmptySeq
  <2>5. open' = ~open
    BY <1>1, <2>1
  <2> QED
    BY <2>1, <2>3, <2>4, <2>5 DEF Visible
<1>19. CASE NotOpen \/ XmitTimeout \/ RecvTimeout
  <2>1. UNCHANGED <<open, chip, S, R, isr, wire>> /\ ret'.out = <<>>
    BY <1>19 DEF NotOpen, XmitTimeout, RecvTimeout, Chip, Returns
  <2> QED
    BY <1>5, <2>1 DEF Visible
<1>20. ASSUME NEW b \in Byte, WriteByteC(b) PROVE Visible
  <2>1. /\ open /\ S.c < sSendBuf /\ ret' = [erc |-> "ok", out |-> <<>>]
        /\ UNCHANGED <<open, wire, R, recv_error, isr, CLI, task>>
    BY <1>20 DEF WriteByteC, Idle, Returns
  <2>2. PICK h \in Seq(Byte), x \in Seq(Byte) : h = Held(S, sSendBuf) /\ x = chip.thr
    BY <1>2
  <2>3. CASE fExpectInt
    <3>1. S' = PutIn(S, b, sSendBuf) /\ UNCHANGED <<chip, fExpectInt>>
      BY <1>20, <2>3 DEF WriteByteC
    <3>2. Held(S', sSendBuf) = Append(h, b)
      BY <1>1, <2>1, <2>2, <3>1, HeldPut
    <3>3. Out = x \o h /\ Out' = x \o Append(h, b) /\ Door' = Door /\ In' = In
      BY <2>1, <2>2, <3>1, <3>2 DEF Out, Door, In
    <3>4. Out' = Append(Out, b)
      BY <3>3, ConcatAppend
    <3> QED
      BY <2>1, <3>3, <3>4 DEF Visible
  <2>4. CASE ~fExpectInt
    <3>1. chip' = [chip EXCEPT !.thr = <<b>>] /\ UNCHANGED S
      BY <1>20, <2>4 DEF WriteByteC
    <3>2. chip.thr = <<>> /\ S.c = 0
      BY <2>4 DEF Expecting
    <3>3. Len(h) = 0
      BY <1>1, <2>2, <3>2, HeldSeq
    <3>4. h = <<>>
      BY <3>3, EmptySeq
    <3>5. chip'.thr = <<b>> /\ chip'.rbr = chip.rbr
      BY <1>1, <3>1 DEF ChipRec
    <3>6. Out = <<>> \o <<>> /\ Out' = <<b>> \o <<>> /\ Door' = Door /\ In' = In
      BY <2>1, <2>2, <3>1, <3>2, <3>4, <3>5 DEF Out, Door, In
    <3>7. Out' = Append(Out, b)
      <4>1. <<b>> \in Seq(Byte) /\ Append(<<>>, b) = <<b>>
        OBVIOUS
      <4> QED
        BY <1>3, <3>6, <4>1, ConcatEmptySeq
    <3> QED
      BY <2>1, <3>6, <3>7 DEF Visible
  <2> QED
    BY <2>3, <2>4
<1>21. ASSUME NEW call \in {"read", "discard"}, ReadByteC(call) PROVE Visible
  <2>1. UNCHANGED <<open, chip, S, R, isr, wire>> /\ (ret'.out = <<>> \/ ret' = ret)
    BY <1>21 DEF ReadByteC, Chip, Returns
  <2> QED
    BY <1>5, <2>1 DEF Visible
<1>22. CASE TakeByte
  <2>1. /\ task \in {"read", "discard"} /\ R.c > 0
        /\ R' = TakeOut(R, sRecvBuf)
        /\ UNCHANGED <<open, chip, wire, isr, S>>
        /\ \/ ret' = [erc |-> "ok", out |-> <<R.buf[R.tail]>>]
           \/ ret' = [erc |-> "ok", out |-> <<>>]
           \/ ret' = ret
    BY <1>22 DEF TakeByte, Chip, Returns
  <2>2. open
    BY <2>1 DEF ClosedQuiet
  <2>3. /\ Held(R, sRecvBuf) # <<>> /\ R.buf[R.tail] = Head(Held(R, sRecvBuf))
        /\ Held(R', sRecvBuf) = Tail(Held(R, sRecvBuf))
    BY <1>1, <2>1, HeldTake
  <2>4. /\ Out' = Out /\ Door' = Door
        /\ In # <<>> /\ Head(In) = R.buf[R.tail] /\ In' = Tail(In)
    BY <2>1, <2>2, <2>3 DEF Out, Door, In
  <2> QED
    BY <2>1, <2>2, <2>4 DEF Visible
<1> QED
  BY <1>6, <1>7, <1>8, <1>9, <1>10, <1>11, <1>12, <1>13, <1>14, <1>15, <1>16, <1>17, <1>18,
     <1>19, <1>20, <1>21, <1>22 DEF Next, handleISR

\* Bytes go out and are read in order, each once; they are lost only when the next one
\* came before they were fetched, or the receive buffer was full.  For buffers of any sizes, whatever the interleaving of the calls,
\* the interrupt function and the line (handleISR, ReadByteC, WriteByteC).
THEOREM ChannelIsALine == ASSUME AsDriven PROVE Spec => ImplementsSerialLine
<1>1. ASSUME Init PROVE SInv /\ SL!Init
  <2>1. SInv
    BY <1>1, InitSInv
  <2>2. Out = <<>> /\ Door = <<>> /\ In = <<>>
    <3>1. Out = <<>> \o <<>> /\ Door = <<>> /\ In = <<>>
      BY <1>1 DEF Init, Out, Door, In
    <3>2. <<>> \in Seq(Byte)
      BY EmptySeq
    <3> QED
      BY <3>1, <3>2, ConcatEmptySeq
  <2> QED
    BY <1>1, <2>1, <2>2 DEF Init, SL!Init, Out, Door, In
<1>2. ASSUME SInv, [Next]_vars PROVE SInv' /\ [SL!Next]_SL!vars
  <2>1. SInv' /\ Visible
    BY <1>2, NextSInv, NextVisible
  <2>2. CASE UNCHANGED <<open, Out, wire, Door, In, ret>>
    BY <2>1, <2>2 DEF SL!vars, Out, Door, In
  <2>3. CASE /\ open' = ~open /\ Out' = <<>> /\ In' = <<>>
             /\ Door' = <<>> \/ (open' /\ \E b \in Byte : Door' = <<b>>)
             /\ ret' = [erc |-> "ok", out |-> <<>>] /\ UNCHANGED wire
    BY <2>1, <2>3 DEF SL!Next, SL!OpenOrClose, SL!Returns, Out, Door, In
  <2>4. CASE /\ Out # <<>> /\ Out' = Tail(Out) /\ wire' = Head(Out)
             /\ UNCHANGED <<open, Door, In, ret>>
    BY <2>1, <2>4 DEF SL!Next, SL!GoesOut, Out, Door, In
  <2>5. CASE /\ Door # <<>> /\ Len(In) < sRecvBuf /\ In' = In \o Door /\ Door' = <<>>
             /\ UNCHANGED <<open, Out, wire, ret>>
    BY <2>1, <2>5 DEF SL!Next, SL!LetIn, Out, Door, In
  <2>6. CASE /\ Door # <<>> /\ Len(In) = sRecvBuf /\ Door' = <<>>
             /\ UNCHANGED <<open, Out, wire, In, ret>>
    BY <2>1, <2>6 DEF SL!Next, SL!GetsLost, Out, Door, In
  <2>7. CASE /\ open /\ In # <<>> /\ In' = Tail(In)
             /\ ret' = [erc |-> "ok", out |-> <<Head(In)>>]
             /\ UNCHANGED <<open, Out, wire, Door>>
    BY <2>1, <2>7 DEF SL!Next, SL!ReadByte, SL!Returns, Out, Door, In
  <2>8. CASE /\ open /\ In # <<>> /\ In' = Tail(In)
             /\ ret' = [erc |-> "ok", out |-> <<>>] \/ UNCHANGED ret
             /\ UNCHANGED <<open, Out, wire, Door>>
    BY <2>1, <2>8 DEF SL!Next, SL!Discard, SL!Returns, Out, Door, In
  <2>9. CASE ret'.out = <<>> /\ UNCHANGED <<open, Out, wire, Door, In>>
    BY <2>1, <2>9 DEF SL!Next, SL!Fail, Out, Door, In
  <2>10. ASSUME NEW b \in Byte, open, Out' = Append(Out, b), ret' = [erc |-> "ok", out |-> <<>>],
                UNCHANGED <<open, wire, Door, In>>
         PROVE  SL!Next
    BY <2>10 DEF SL!Next, SL!WriteByte, SL!Returns, Out, Door, In
  <2>11. ASSUME NEW b \in Byte, open, Door' = <<b>>, UNCHANGED <<open, Out, wire, In, ret>>
         PROVE  SL!Next
    BY <2>11 DEF SL!Next, SL!ComesIn, Out, Door, In
  <2> QED
    BY <2>1, <2>2, <2>3, <2>4, <2>5, <2>6, <2>7, <2>8, <2>9, <2>10, <2>11 DEF Visible
<1> QED
  BY <1>1, <1>2, PTL DEF Spec, ImplementsSerialLine, SL!Spec

=============================================================================
