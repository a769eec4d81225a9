---------------------------- MODULE HardDiskProofs ----------------------------
(***************************************************************************)
(* Proofs about HardDisk, for a disk and operations of any size.           *)
(***************************************************************************)
EXTENDS HardDisk, TLAPS

Pc  == {"idle", "setup", "invalid", "empty", "send", "ready", "arm", "wait", "woken", "status",
        "reset"}
Cmd == Reads \cup Simple \cup {"write", "none"}

DevType == [cmd : Cmd, busy : BOOLEAN, drq : BOOLEAN, err : BOOLEAN, at : Nat, left : Nat,
            fresh : BOOLEAN, dead : BOOLEAN]

DrvType == [pc : Pc, op : Ops \cup {None}, nSoFar : Nat, got : Seq(Val),
            msg : {"int", "alarm"}, first : BOOLEAN]

TypeOK ==
    /\ dev \in DevType
    /\ disk \in [LBA -> Val]
    /\ exch \in Seq({"int", "alarm"})
    /\ alarm \in BOOLEAN /\ HDDInt \in BOOLEAN
    /\ hd_Cmd \in [lba : Nat, n : Nat]
    /\ hd_type \in BOOLEAN
    /\ drv \in DrvType
    /\ At("idle") <=> drv.op = None

\* An operation names blocks, and a write brings what goes there.
LEMMA OpsShape ==
    ASSUME NEW o \in Ops
    PROVE  /\ o.cmd \in Reads \cup Simple \cup {"write"}
           /\ o.lba \in Nat /\ o.n \in Nat
           /\ o.cmd \notin {"read", "write"} => o.n = 1
           /\ o.cmd = "write" => /\ o.data \in [1 .. o.n -> Val]
                                 /\ ~WritesAny => o.n \in 1 .. MaxCount
<1>1. CASE o \in [cmd : {"read"}, lba : Asks, n : 0 .. MaxBlks, data : {<<>>}]
  BY <1>1, HardDiskAssumption DEF Asks, Reads
<1>2. CASE o \in [cmd : {"readsect"}, lba : Asks, n : {1}, data : {<<>>}]
  BY <1>2, HardDiskAssumption DEF Asks, Reads
<1>3. CASE o \in [cmd : Simple, lba : {0}, n : {1}, data : {<<>>}]
  BY <1>3 DEF Simple
<1>4. ASSUME NEW n \in {n \in 0 .. MaxBlks : WritesAny \/ n \in 1 .. MaxCount},
             o \in [cmd : {"write"}, lba : Asks, n : {n}, data : [1 .. n -> Val]]
      PROVE  /\ o.cmd = "write" /\ o.lba \in Nat /\ o.n \in Nat
             /\ o.data \in [1 .. o.n -> Val]
             /\ ~WritesAny => o.n \in 1 .. MaxCount
  BY <1>4, HardDiskAssumption DEF Asks
<1> QED
  BY <1>1, <1>2, <1>3, <1>4 DEF Ops

\* An idle driver is a driver.
LEMMA IdleType == Idle \in DrvType
BY DEF Idle, Pc, DrvType

\* The type invariant at the start.
LEMMA InitTypeOK == Init => TypeOK
<1> SUFFICES ASSUME Init PROVE TypeOK
  OBVIOUS
<1>1. drv \in DrvType /\ At("idle") /\ drv.op = None
  BY IdleType DEF Init, At, Idle
<1>2. dev \in DevType
  BY DEF Init, DevType, Cmd
<1>3. hd_Cmd \in [lba : Nat, n : Nat] /\ exch \in Seq({"int", "alarm"})
  BY DEF Init
<1> QED
  BY <1>1, <1>2, <1>3 DEF Init, TypeOK

\* A command and the block after this one.
LEMMA DevTypes ==
    ASSUME TypeOK
    PROVE  /\ \A c \in Cmd, l, n \in Nat : Command(c, l, n) \in DevType
           /\ NextBlock \in DevType
           /\ dev.left > 0 => NextBlock.left = dev.left - 1
           /\ NextBlock.at = dev.at + 1 /\ NextBlock.cmd = dev.cmd
           /\ ~NextBlock.drq /\ NextBlock.err = dev.err
           /\ NextBlock.busy = (dev.cmd = "write" \/ dev.left > 1)
<1>1. \A c \in Cmd, l, n \in Nat : Command(c, l, n) \in DevType
  BY DEF Command, DevType
<1> DEFINE b == dev.cmd = "write" \/ dev.left > 1
           l == IF dev.left > 0 THEN dev.left - 1 ELSE 0
<1>2. dev \in DevType
  BY DEF TypeOK
<1>3. b \in BOOLEAN /\ l \in Nat /\ dev.at + 1 \in Nat
  BY <1>2 DEF DevType
<1>4. NextBlock = [dev EXCEPT !.at = dev.at + 1, !.left = l, !.drq = FALSE, !.busy = b]
  BY DEF NextBlock
<1> HIDE DEF b, l
<1>5. /\ NextBlock \in DevType /\ NextBlock.at = dev.at + 1 /\ NextBlock.left = l
      /\ NextBlock.cmd = dev.cmd /\ NextBlock.drq = FALSE /\ NextBlock.busy = b
      /\ NextBlock.err = dev.err
  BY <1>2, <1>3, <1>4 DEF DevType
<1> QED
  BY <1>1, <1>5 DEF b, l

\* What Return does.
LEMMA ReturnType ==
    ASSUME TypeOK, NEW erc, NEW out, Return(erc, out)
    PROVE  drv' \in DrvType /\ (At("idle") /\ drv.op = None)' /\ hd_type' \in BOOLEAN
<1>1. drv' = Idle /\ hd_type' \in BOOLEAN
  BY DEF Return, TypeOK
<1> QED
  BY <1>1, IdleType DEF At, Idle

\* A driver that goes on.
LEMMA GotoType ==
    ASSUME TypeOK, ~At("idle"), NEW pc \in Pc \ {"idle"}, Goto(pc)
    PROVE  drv' \in DrvType /\ (~At("idle") /\ drv.op # None)'
BY DEF TypeOK, DrvType, Goto, At

\* A controller that is given up.
LEMMA DeadType ==
    ASSUME TypeOK, NotReady
    PROVE  /\ dev' \in DevType /\ dev.busy /\ dev'.busy
           /\ ~AnswersLate => dev'.dead
           /\ dev'.drq = dev.drq /\ dev'.err = dev.err
BY DEF TypeOK, NotReady, DevType

\* A block put out.
LEMMA OutType ==
    ASSUME TypeOK, NEW v \in Val, OutWords(v)
    PROVE  dev' \in DevType /\ disk' \in [LBA -> Val]
BY DevTypes DEF TypeOK, OutWords

\* Every step keeps the type invariant.
LEMMA NextTypeOK == TypeOK /\ [Next]_vars => TypeOK'
<1> SUFFICES ASSUME TypeOK, [Next]_vars PROVE TypeOK'
  OBVIOUS
<1>1. /\ dev \in DevType /\ disk \in [LBA -> Val]
      /\ exch \in Seq({"int", "alarm"}) /\ alarm \in BOOLEAN /\ HDDInt \in BOOLEAN
      /\ hd_Cmd \in [lba : Nat, n : Nat] /\ hd_type \in BOOLEAN
      /\ drv \in DrvType /\ (At("idle") <=> drv.op = None)
  BY DEF TypeOK
<1>2. ASSUME NEW o \in Ops, hddev_op(o) PROVE TypeOK'
  <2>1. drv' \in DrvType /\ drv'.op = o /\ drv'.pc # "idle"
    BY <1>2, IdleType DEF hddev_op, Idle, DrvType, Pc
  <2>2. exch' \in Seq({"int", "alarm"})
    BY <1>1, <1>2 DEF hddev_op, EatOne
  <2> QED
    BY <1>1, <1>2, <2>1, <2>2, NoneAssumption DEF hddev_op, TypeOK, At
<1>3. ASSUME setupseek PROVE TypeOK'
  <2>1. drv.op \in Ops /\ ~At("idle")
    BY <1>1, <1>3 DEF setupseek, At, DrvType
  <2>2. Asked(drv.op) \in [lba : Nat, n : Nat]
    BY <1>1, <2>1, OpsShape DEF Asked
  <2>3. hd_Cmd' \in [lba : Nat, n : Nat]
    BY <1>1, <1>3, <2>2 DEF setupseek
  <2> QED
    BY <1>1, <1>3, <2>1, <2>3, ReturnType, GotoType DEF setupseek, TypeOK, Stays, kernel, Pc
<1>4. ASSUME Invalid PROVE TypeOK'
  BY <1>1, <1>4, ReturnType DEF Invalid, TypeOK, kernel
<1>5. ASSUME Empty PROVE TypeOK'
  BY <1>1, <1>5, GotoType DEF Empty, TypeOK, Stays, Pc, At
<1>6. ASSUME send_command PROVE TypeOK'
  <2> DEFINE then == IF drv.op.cmd = "write" THEN "ready" ELSE "arm"
  <2>1. drv.op \in Ops /\ ~At("idle") /\ then \in Pc \ {"idle"}
    BY <1>1, <1>6 DEF send_command, At, DrvType, Pc
  <2>2. CASE dev' = Command(CmdByte(drv.op), hd_Cmd.lba, hd_Cmd.n) /\ Goto(then) /\ Stays
    <3>1. CmdByte(drv.op) \in Cmd
      BY <2>1, OpsShape DEF CmdByte, Cmd, Reads
    <3>2. dev' \in DevType
      BY <1>1, <2>2, <3>1, DevTypes
    <3> QED
      BY <1>1, <1>6, <2>1, <2>2, <3>2, GotoType DEF send_command, TypeOK, Stays, kernel
  <2>3. CASE NotReady /\ (Return("ErcNotReady", <<>>) \/ (Goto(then) /\ Stays))
    <3>1. dev' \in DevType
      BY <1>1, <2>3, DeadType
    <3> QED
      BY <1>1, <1>6, <2>1, <2>3, <3>1, GotoType, ReturnType
         DEF send_command, TypeOK, Stays, kernel
  <2>4. \/ dev' = Command(CmdByte(drv.op), hd_Cmd.lba, hd_Cmd.n) /\ Goto(then) /\ Stays
        \/ NotReady /\ (Return("ErcNotReady", <<>>) \/ (Goto(then) /\ Stays))
    <3> HIDE DEF then
    <3>1. send_command => \/ dev' = Command(CmdByte(drv.op), hd_Cmd.lba, hd_Cmd.n) /\ Goto(then) /\ Stays
                          \/ NotReady /\ (Return("ErcNotReady", <<>>) \/ (Goto(then) /\ Stays))
      BY Zenon DEF send_command, then
    <3> QED
      BY <1>6, <3>1
  <2> HIDE DEF then
  <2> QED
    BY <2>2, <2>3, <2>4
<1>7. ASSUME WriteReady PROVE TypeOK'
  <2>1. drv.op \in Ops /\ ~At("idle")
    BY <1>1, <1>7 DEF WriteReady, At, DrvType
  <2>2. ASSUME NEW v \in Val, OutWords(v), Stays,
               drv' = [drv EXCEPT !.pc = "arm", !.nSoFar = 1]
        PROVE  TypeOK'
    <3>1. drv' \in DrvType /\ (~At("idle") /\ drv.op # None)'
      BY <1>1, <2>1, <2>2 DEF DrvType, Pc, At
    <3> QED
      BY <1>1, <1>7, <2>2, <3>1, OutType DEF WriteReady, TypeOK, Stays, kernel
  <2>3. CASE Goto("arm") /\ Stays /\ UNCHANGED <<dev, disk>>
    BY <1>1, <1>7, <2>1, <2>3, GotoType DEF WriteReady, TypeOK, Stays, kernel, Pc
  <2>4. CASE NotReady /\ Return("ErcNotReady", <<>>) /\ UNCHANGED disk
    BY <1>1, <1>7, <2>4, ReturnType, DeadType DEF WriteReady, TypeOK, kernel
  <2> QED
    BY <1>7, <2>2, <2>3, <2>4 DEF WriteReady
<1>8. ASSUME Arm PROVE TypeOK'
  <2>1. ~At("idle")
    BY <1>8 DEF Arm, At
  <2> QED
    BY <1>1, <1>8, <2>1, GotoType, ReturnType DEF Arm, TypeOK, Stays, Pc
<1>9. ASSUME WaitMsg PROVE TypeOK'
  <2>1. Head(exch) \in {"int", "alarm"} /\ Tail(exch) \in Seq({"int", "alarm"})
    BY <1>1, <1>9 DEF WaitMsg
  <2>2. drv' \in DrvType /\ (~At("idle") /\ drv.op # None)'
    BY <1>1, <1>9, <2>1 DEF WaitMsg, DrvType, Pc, At
  <2> QED
    BY <1>1, <1>9, <2>1, <2>2 DEF WaitMsg, TypeOK, Stays
<1>10. ASSUME Woken PROVE TypeOK'
  <2>1. CASE drv' = [drv EXCEPT !.pc = "status", !.first = FALSE] /\ Stays
    <3>1. drv' \in DrvType /\ (~At("idle") /\ drv.op # None)'
      BY <1>1, <1>10, <2>1 DEF Woken, DrvType, Pc, At
    <3> QED
      BY <1>1, <1>10, <2>1, <3>1 DEF Woken, TypeOK, Stays
  <2>2. CASE Return(IF HDDInt THEN "ErcMissHDDInt" ELSE "ErcHDCTimeOut", <<>>)
    BY <1>1, <1>10, <2>2, ReturnType DEF Woken, TypeOK
  <2> QED
    BY <1>10, <2>1, <2>2 DEF Woken
<1>11. ASSUME StatusErc PROVE TypeOK'
  <2>1. dev' \in DevType
    BY <1>1, <1>11, DeadType DEF StatusErc
  <2> QED
    BY <1>1, <1>11, <2>1, ReturnType DEF StatusErc, TypeOK, kernel
<1>12. ASSUME StatusRead PROVE TypeOK'
  <2>1. PICK v \in Val : /\ InWords(v)
                         /\ \/ /\ drv' = [drv EXCEPT !.pc = "arm", !.nSoFar = @ + 1, !.got = Append(@, v)]
                               /\ Stays
                            \/ Return("ok", Append(drv.got, v))
    BY <1>12 DEF StatusRead
  <2>2. dev' \in DevType /\ disk' = disk
    BY <1>1, <2>1, DevTypes DEF InWords
  <2>3. CASE /\ drv' = [drv EXCEPT !.pc = "arm", !.nSoFar = @ + 1, !.got = Append(@, v)]
             /\ Stays
    <3>1. drv.nSoFar + 1 \in Nat /\ Append(drv.got, v) \in Seq(Val)
      BY <1>1, <2>1 DEF DrvType
    <3>2. drv' \in DrvType /\ (~At("idle") /\ drv.op # None)'
      BY <1>1, <1>12, <2>3, <3>1 DEF StatusRead, DrvType, Pc, At
    <3> QED
      BY <1>1, <1>12, <2>2, <2>3, <3>2 DEF StatusRead, TypeOK, Stays, kernel
  <2>4. CASE Return("ok", Append(drv.got, v))
    BY <1>1, <1>12, <2>2, <2>4, ReturnType DEF StatusRead, TypeOK, kernel
  <2> QED
    BY <2>1, <2>3, <2>4
<1>13. ASSUME StatusWrite PROVE TypeOK'
  <2>1. ~At("idle")
    BY <1>13 DEF StatusWrite, At
  <2>2. CASE Return("ok", <<>>) /\ UNCHANGED <<dev, disk>>
    BY <1>1, <1>13, <2>2, ReturnType DEF StatusWrite, TypeOK, kernel
  <2>3. ASSUME NEW v \in Val, OutWords(v), Stays,
               drv' = [drv EXCEPT !.pc = "arm", !.nSoFar = @ + 1]
        PROVE  TypeOK'
    <3>1. drv.nSoFar + 1 \in Nat
      BY <1>1 DEF DrvType
    <3>2. drv' \in DrvType /\ (~At("idle") /\ drv.op # None)'
      BY <1>1, <2>1, <2>3, <3>1 DEF DrvType, Pc, At
    <3> QED
      BY <1>1, <1>13, <2>3, <3>2, OutType DEF StatusWrite, TypeOK, Stays, kernel
  <2>4. CASE Goto("arm") /\ Stays /\ UNCHANGED <<dev, disk>>
    BY <1>1, <1>13, <2>1, <2>4, GotoType DEF StatusWrite, TypeOK, Stays, kernel, Pc
  <2> QED
    BY <1>13, <2>2, <2>3, <2>4 DEF StatusWrite
<1>14. ASSUME StatusDone PROVE TypeOK'
  BY <1>1, <1>14, ReturnType DEF StatusDone, TypeOK, kernel
<1>15. ASSUME hd_reset PROVE TypeOK'
  <2>1. dev' \in DevType /\ ~At("idle")
    BY <1>1, <1>15, DevTypes DEF hd_reset, Cmd, Simple, At
  <2> QED
    BY <1>1, <1>15, <2>1, GotoType DEF hd_reset, TypeOK, Stays, kernel, Pc
<1>16. ASSUME ResetEnd PROVE TypeOK'
  <2>1. exch' \in Seq({"int", "alarm"})
    BY <1>1, <1>16 DEF ResetEnd, EatOne
  <2> QED
    BY <1>1, <1>16, <2>1, ReturnType DEF ResetEnd, TypeOK
<1>17. ASSUME DevDone PROVE TypeOK'
  <2>1. dev' \in DevType
    BY <1>1, <1>17 DEF DevDone, DevType
  <2>2. \/ exch' = Append(exch, "int") /\ HDDInt' = TRUE
        \/ exch' = exch /\ HDDInt' = HDDInt
    BY <1>17 DEF DevDone, hdisk_isr
  <2>3. exch' \in Seq({"int", "alarm"}) /\ HDDInt' \in BOOLEAN
    <3>1. Append(exch, "int") \in Seq({"int", "alarm"})
      BY <1>1
    <3> QED
      BY <1>1, <2>2, <3>1
  <2> QED
    BY <1>1, <1>17, <2>1, <2>3 DEF DevDone, TypeOK, At
<1>18. ASSUME AlarmGoesOff PROVE TypeOK'
  <2>1. exch' \in Seq({"int", "alarm"})
    BY <1>1, <1>18 DEF AlarmGoesOff
  <2> QED
    BY <1>1, <1>18, <2>1 DEF AlarmGoesOff, TypeOK, At
<1>19. CASE UNCHANGED vars
  BY <1>1, <1>19 DEF vars, TypeOK, At
<1> QED
  BY <1>2, <1>3, <1>4, <1>5, <1>6, <1>7, <1>8, <1>9, <1>10, <1>11, <1>12, <1>13, <1>14, <1>15,
     <1>16, <1>17, <1>18, <1>19 DEF Next, Driver

\* Every value of the driver, the controller, the disk and the mailbox is one that
\* the code gives it, and the driver has an operation exactly when it is not idle.
THEOREM TypeCorrect == Spec => []TypeOK
<1>1. Init => TypeOK
  BY InitTypeOK
<1>2. TypeOK /\ [Next]_vars => TypeOK'
  BY NextTypeOK
<1> QED
  BY <1>1, <1>2, PTL DEF Spec

-----------------------------------------------------------------------------
(* No alarm of an earlier wait ends the first wait of a command. *)

\* The alarm is set only while the driver waits; from where the mailbox was
\* emptied to the first wait no alarm comes in.
AlarmInv ==
    /\ alarm => drv.pc \in {"wait", "woken"}
    /\ At("status") => ~drv.first
    /\ drv.pc \in {"send", "ready"} => Messages("alarm") = {}
    /\ At("arm") /\ drv.first => Messages("alarm") = {}
    /\ FirstAlarmIsOwn

\* The messages of one kind when another is added.
LEMMA MessagesAppend ==
    ASSUME exch \in Seq({"int", "alarm"}), NEW m \in {"int", "alarm"}, exch' = Append(exch, m)
    PROVE  /\ m = "int" => Messages("alarm")' = Messages("alarm")
           /\ m = "alarm" => Messages("alarm")' = Messages("alarm") \cup {Len(exch) + 1}
<1>1. DOMAIN exch = 1 .. Len(exch) /\ DOMAIN exch' = 1 .. (Len(exch) + 1) /\ Len(exch) \in Nat
  OBVIOUS
<1>2. \A i \in 1 .. Len(exch) : exch'[i] = exch[i]
  OBVIOUS
<1>3. exch'[Len(exch) + 1] = m
  OBVIOUS
<1> QED
  BY <1>1, <1>2, <1>3 DEF Messages

\* At the start no alarm is set and none is in the mailbox.
LEMMA InitAlarmInv == Init => AlarmInv
BY DEF Init, AlarmInv, FirstAlarmIsOwn, Messages, At, Idle

\* An operation that ends leaves no alarm set.
LEMMA ReturnAlarm ==
    ASSUME TypeOK, NEW erc, NEW out, Return(erc, out), ~alarm'
    PROVE  AlarmInv'
BY DEF Return, Idle, AlarmInv, FirstAlarmIsOwn, At

\* Every step keeps AlarmInv.
LEMMA NextAlarmInv == TypeOK /\ AlarmInv /\ [Next]_vars => AlarmInv'
<1> SUFFICES ASSUME TypeOK, AlarmInv, [Next]_vars PROVE AlarmInv'
  OBVIOUS
<1>1. /\ exch \in Seq({"int", "alarm"}) /\ alarm \in BOOLEAN /\ drv \in DrvType
  BY DEF TypeOK
<1>2. ASSUME exch' = exch, alarm' = alarm, drv'.pc = drv.pc, drv'.first = drv.first
      PROVE  AlarmInv'
  BY <1>2 DEF AlarmInv, FirstAlarmIsOwn, Messages, At
<1>3. ASSUME drv'.pc \notin {"send", "ready", "arm", "wait", "woken", "status"}, ~alarm'
      PROVE  AlarmInv'
  BY <1>3 DEF AlarmInv, FirstAlarmIsOwn, At
<1>4. ASSUME NEW pc, Goto(pc)
      PROVE  drv'.pc = pc /\ drv'.first = drv.first
  BY <1>1, <1>4 DEF Goto, DrvType
<1>5. drv.pc \notin {"wait", "woken"} => ~alarm
  BY <1>1 DEF AlarmInv
<1>6. ASSUME NEW o \in Ops, hddev_op(o) PROVE AlarmInv'
  <2>1. drv'.pc \in {"setup", "invalid"} /\ ~alarm'
    BY <1>5, <1>6, IdleType DEF hddev_op, Idle, At
  <2> QED
    BY <2>1, <1>3
<1>7. CASE setupseek
  <2>1. ~alarm'
    BY <1>5, <1>7 DEF setupseek, At, kernel
  <2>2. CASE (\E erc \in {"ErcZeroBlks", "ErcTooManyBlks"} : Return(erc, <<>>))
    BY <2>1, <2>2, ReturnAlarm
  <2>3. CASE Goto("empty")
    BY <2>1, <2>3, <1>3, <1>4
  <2> QED
    BY <1>7, <2>2, <2>3 DEF setupseek
<1>8. CASE Invalid
  BY <1>5, <1>8, ReturnAlarm DEF Invalid, At, kernel
<1>9. CASE Empty
  <2>1. drv'.pc = "send" /\ ~alarm' /\ exch' = <<>>
    BY <1>4, <1>5, <1>9 DEF Empty, At
  <2> QED
    BY <2>1 DEF AlarmInv, FirstAlarmIsOwn, Messages, At
<1>10. CASE send_command
  <2>1. ~alarm' /\ exch' = exch /\ Messages("alarm") = {}
    BY <1>5, <1>10 DEF send_command, At, kernel, AlarmInv
  <2>2. Return("ErcNotReady", <<>>) \/ Goto("ready") \/ Goto("arm")
    BY <1>10 DEF send_command
  <2>3. ASSUME NEW pc \in {"ready", "arm"}, Goto(pc) PROVE AlarmInv'
    BY <2>1, <2>3, <1>4 DEF AlarmInv, FirstAlarmIsOwn, Messages, At
  <2> QED
    BY <2>1, <2>2, <2>3, ReturnAlarm
<1>11. CASE WriteReady
  <2>1. ~alarm' /\ exch' = exch /\ Messages("alarm") = {}
    BY <1>5, <1>11 DEF WriteReady, At, kernel, AlarmInv
  <2>2. Return("ErcNotReady", <<>>) \/ drv'.pc = "arm"
    BY <1>4, <1>1, <1>11 DEF WriteReady, DrvType
  <2>3. CASE drv'.pc = "arm"
    BY <2>1, <2>3 DEF AlarmInv, FirstAlarmIsOwn, Messages, At
  <2> QED
    BY <2>1, <2>2, <2>3, ReturnAlarm
<1>12. CASE Arm
  <2>1. CASE alarm' = TRUE /\ Goto("wait")
    <3>1. drv'.pc = "wait" /\ drv'.first = drv.first /\ At("arm") /\ exch' = exch
      BY <1>4, <1>12, <2>1 DEF Arm
    <3> QED
      BY <2>1, <3>1 DEF AlarmInv, FirstAlarmIsOwn, Messages, At
  <2>2. CASE alarm' = FALSE /\ Return("ErcNoMoreTBs", <<>>)
    BY <2>2, ReturnAlarm
  <2> QED
    BY <1>12, <2>1, <2>2 DEF Arm
<1>13. CASE WaitMsg
  <2>1. drv'.pc = "woken"
    BY <1>1, <1>13 DEF WaitMsg, DrvType
  <2> QED
    BY <2>1 DEF AlarmInv, FirstAlarmIsOwn, At
<1>14. CASE Woken
  <2>1. CASE drv' = [drv EXCEPT !.pc = "status", !.first = FALSE]
    <3>1. drv'.pc = "status" /\ ~drv'.first /\ ~alarm'
      BY <1>1, <1>14, <2>1 DEF Woken, DrvType
    <3> QED
      BY <3>1 DEF AlarmInv, FirstAlarmIsOwn, At
  <2>2. CASE Return(IF HDDInt THEN "ErcMissHDDInt" ELSE "ErcHDCTimeOut", <<>>)
    BY <1>14, <2>2, ReturnAlarm DEF Woken
  <2> QED
    BY <1>14, <2>1, <2>2 DEF Woken
<1>15. CASE StatusErc
  BY <1>5, <1>15, ReturnAlarm DEF StatusErc, At, kernel
<1>16. CASE StatusRead
  <2>1. ~alarm' /\ ~drv.first
    BY <1>5, <1>16 DEF StatusRead, At, kernel, AlarmInv
  <2>2. PICK v \in Val : \/ drv' = [drv EXCEPT !.pc = "arm", !.nSoFar = @ + 1, !.got = Append(@, v)]
                         \/ Return("ok", Append(drv.got, v))
    BY <1>16 DEF StatusRead
  <2>3. CASE drv' = [drv EXCEPT !.pc = "arm", !.nSoFar = @ + 1, !.got = Append(@, v)]
    <3>1. drv'.pc = "arm" /\ ~drv'.first
      BY <1>1, <2>1, <2>3 DEF DrvType
    <3> QED
      BY <2>1, <3>1 DEF AlarmInv, FirstAlarmIsOwn, At
  <2> QED
    BY <2>1, <2>2, <2>3, ReturnAlarm
<1>17. CASE StatusWrite
  <2>1. ~alarm' /\ ~drv.first
    BY <1>5, <1>17 DEF StatusWrite, At, kernel, AlarmInv
  <2>2. \/ Return("ok", <<>>)
        \/ drv'.pc = "arm" /\ drv'.first = drv.first
    BY <1>1, <1>4, <1>17 DEF StatusWrite, DrvType
  <2>3. CASE drv'.pc = "arm" /\ drv'.first = drv.first
    BY <2>1, <2>3 DEF AlarmInv, FirstAlarmIsOwn, At
  <2> QED
    BY <2>1, <2>2, <2>3, ReturnAlarm
<1>18. CASE StatusDone
  BY <1>5, <1>18, ReturnAlarm DEF StatusDone, At, kernel
<1>19. CASE hd_reset
  <2>1. ~alarm' /\ drv'.pc = "reset"
    BY <1>4, <1>5, <1>19 DEF hd_reset, At, kernel
  <2> QED
    BY <2>1, <1>3
<1>20. CASE ResetEnd
  BY <1>5, <1>20, ReturnAlarm DEF ResetEnd, At
<1>21. CASE DevDone
  <2>1. alarm' = alarm /\ drv' = drv
    BY <1>21 DEF DevDone
  <2>2. exch' = Append(exch, "int") \/ exch' = exch
    BY <1>21 DEF DevDone, hdisk_isr
  <2>3. Messages("alarm")' = Messages("alarm")
    BY <1>1, <2>2, MessagesAppend DEF Messages
  <2> QED
    BY <2>1, <2>3 DEF AlarmInv, FirstAlarmIsOwn, At
<1>22. CASE AlarmGoesOff
  <2>1. alarm /\ ~alarm' /\ drv' = drv /\ drv.pc \in {"wait", "woken"}
    BY <1>22 DEF AlarmGoesOff, AlarmInv
  <2>2. Messages("alarm")' = Messages("alarm") \cup {Len(exch) + 1}
    BY <1>1, <1>22, MessagesAppend DEF AlarmGoesOff
  <2>3. At("wait") /\ drv.first => Messages("alarm") = {}
    BY <2>1 DEF AlarmInv, FirstAlarmIsOwn
  <2> QED
    BY <2>1, <2>2, <2>3 DEF AlarmInv, FirstAlarmIsOwn, At
<1>23. CASE UNCHANGED vars
  BY <1>2, <1>23 DEF vars
<1> QED
  BY <1>6, <1>7, <1>8, <1>9, <1>10, <1>11, <1>12, <1>13, <1>14, <1>15, <1>16, <1>17, <1>18,
     <1>19, <1>20, <1>21, <1>22, <1>23 DEF Next, Driver

\* Whatever alarms earlier waits have left behind, only its own alarm can end the
\* first wait of a command (hd_wait, and the loop of send_command that empties the
\* exchange).
THEOREM FirstAlarm == Spec => []FirstAlarmIsOwn
<1>1. Init => TypeOK /\ AlarmInv
  BY InitTypeOK, InitAlarmInv
<1>2. TypeOK /\ AlarmInv /\ [Next]_vars => (TypeOK /\ AlarmInv)'
  BY NextTypeOK, NextAlarmInv
<1>3. AlarmInv => FirstAlarmIsOwn
  BY DEF AlarmInv
<1> QED
  BY <1>1, <1>2, <1>3, PTL DEF Spec

-----------------------------------------------------------------------------
(* A disk whose controller does not answer after it was given up, when     *)
(* nobody writes 0 blocks.                                                 *)

\* The operation moves blocks.
Transfer == drv.op.cmd \in Reads \cup {"write"}

\* The first k blocks of o are moved.
Moved(o, k, got) ==
    /\ k <= o.n /\ (k > 0 => o.lba + k <= nBlocks)
    /\ o.cmd \in Reads => Len(got) = k /\ \A i \in 1 .. k : got[i] = disk[o.lba + i - 1]
    /\ o.cmd = "write" => \A i \in 1 .. k : disk[o.lba + i - 1] = o.data[i]

\* The controller has been given up, or has got to the block after them.
InStep(o, k) ==
    \/ dev.busy /\ dev.dead
    \/ /\ dev.cmd = CmdByte(o) /\ dev.at = o.lba + k /\ dev.left = o.n - k
       /\ o.cmd \in Reads => k < o.n /\ (dev.busy \/ dev.err \/ dev.drq)

\* A controller that offers or wants a block is at a block of the disk.
DevOK == dev.drq => ~dev.busy /\ ~dev.err /\ (dev.left > 0 => dev.at \in LBA)

\* From the command to the end of the operation.
Sent == {"ready", "arm", "wait", "woken", "status"}

\* Driver and controller agree on the blocks moved, and these are the right ones.
DataInv ==
    /\ DevOK
    /\ drv.pc \in {"setup", "empty", "send"} => drv.nSoFar = 0 /\ drv.got = <<>>
    /\ drv.pc \in {"empty", "send"} /\ Transfer =>
          drv.op.n > 0 /\ hd_Cmd = [lba |-> drv.op.lba, n |-> drv.op.n]
    /\ At("ready") => drv.op.cmd = "write" /\ drv.nSoFar = 0 /\ drv.op.n > 0
    /\ At("reset") => drv.op.cmd = "reset"
    /\ drv.pc \in Sent /\ Transfer =>
          Moved(drv.op, drv.nSoFar, drv.got) /\ InStep(drv.op, drv.nSoFar)

\* What a step keeps that moves nothing.
LEMMA KeepsData ==
    ASSUME TypeOK, DataInv, UNCHANGED <<dev, disk, hd_Cmd>>,
           drv'.op = drv.op, drv'.nSoFar = drv.nSoFar, drv'.got = drv.got,
           \/ drv'.pc = drv.pc
           \/ drv.pc \in Sent /\ drv'.pc \in Sent \ {"ready"}
    PROVE  DataInv'
BY DEF DataInv, DevOK, Transfer, Moved, InStep, Sent, At

\* No blocks are under way.
LEMMA EndsData ==
    ASSUME DevOK', \/ drv'.pc \in {"idle", "invalid"}
                   \/ drv'.pc = "reset" /\ drv'.op.cmd = "reset"
    PROVE  DataInv'
BY DEF DataInv, Sent, At

\* An operation that ends.
LEMMA ReturnData ==
    ASSUME DevOK', NEW erc, NEW out, Return(erc, out)
    PROVE  DataInv'
BY EndsData DEF Return, Idle

\* A controller that is given up, and does not answer late.
LEMMA NotReadyData ==
    ASSUME TypeOK, DataInv, NotReady, ~AnswersLate
    PROVE  dev'.busy /\ dev'.dead /\ DevOK' /\ ~dev.drq
BY DeadType DEF DataInv, DevOK, TypeOK, DevType

\* The controller stays.
LEMMA DevKept == ASSUME DataInv, UNCHANGED dev PROVE DevOK'
BY DEF DataInv, DevOK

\* What Goto keeps.
LEMMA GotoFields ==
    ASSUME TypeOK, NEW pc, Goto(pc)
    PROVE  /\ drv'.pc = pc /\ drv'.op = drv.op /\ drv'.nSoFar = drv.nSoFar /\ drv'.got = drv.got
BY DEF TypeOK, DrvType, Goto

\* A driver that is not idle has an operation.
LEMMA NotIdle == ASSUME TypeOK, ~At("idle") PROVE drv.op \in Ops /\ drv.op # None
BY DEF TypeOK, DrvType

\* How DataInv comes about after the command.
LEMMA SentInv ==
    ASSUME DevOK', NEW o, NEW k, NEW got, NEW pc \in Sent,
           drv'.pc = pc, drv'.op = o, drv'.nSoFar = k, drv'.got = got,
           pc = "ready" => o.cmd = "write" /\ k = 0 /\ o.n > 0,
           o.cmd \in Reads \cup {"write"} => Moved(o, k, got)' /\ InStep(o, k)'
    PROVE  DataInv'
<1>1. Transfer' => Moved(o, k, got)' /\ InStep(o, k)'
  BY DEF Transfer
<1>2. Transfer' => (Moved(drv.op, drv.nSoFar, drv.got) /\ InStep(drv.op, drv.nSoFar))'
  BY <1>1
<1> QED
  BY <1>2 DEF DataInv, Sent, At

\* A command that goes out, or does not because the controller is given up.
LEMMA SentData ==
    ASSUME TypeOK, DataInv, ~AnswersLate, send_command
    PROVE  DataInv'
<1>1. /\ At("send") /\ ~At("idle") /\ drv.op \in Ops /\ disk' = disk /\ hd_Cmd' = hd_Cmd
  BY NotIdle DEF send_command, At
<1>2. drv.nSoFar = 0 /\ drv.got = <<>>
  BY <1>1 DEF DataInv, At
<1>3. PICK o \in Ops : o = drv.op
  BY <1>1
<1> DEFINE then == IF o.cmd = "write" THEN "ready" ELSE "arm"
           T == o.cmd \in Reads \cup {"write"}
<1>4. T => o.n > 0 /\ hd_Cmd = [lba |-> o.lba, n |-> o.n]
  BY <1>1, <1>3 DEF DataInv, At, Transfer
<1>5. o.n \in Nat /\ o.lba \in Nat /\ (T => CmdByte(o) \in {"read", "write"})
  BY OpsShape DEF CmdByte, Reads
<1>6. T => Moved(o, 0, <<>>)'
  BY <1>5, HardDiskAssumption DEF Moved
<1>7. \/ dev' = Command(CmdByte(o), hd_Cmd.lba, hd_Cmd.n) /\ Goto(then)
      \/ NotReady /\ (Return("ErcNotReady", <<>>) \/ Goto(then))
  BY <1>3, Zenon DEF send_command
<1>8. then \in {"ready", "arm"} /\ (then = "ready" <=> o.cmd = "write")
  OBVIOUS
<1>9. "write" \in Reads \cup {"write"}
  OBVIOUS
<1> HIDE DEF then
<1>10. ASSUME Goto(then), DevOK', T => InStep(o, 0)'
      PROVE  DataInv'
  <2>1. drv'.pc = then /\ drv'.op = o /\ drv'.nSoFar = 0 /\ drv'.got = <<>>
    BY <1>2, <1>3, <1>10, GotoFields
  <2>2. then \in Sent /\ (then = "ready" => o.cmd = "write" /\ o.n > 0)
    BY <1>4, <1>8, <1>9 DEF Sent
  <2> QED
    BY <1>6, <1>10, <2>1, <2>2, SentInv
<1>11. CASE dev' = Command(CmdByte(o), hd_Cmd.lba, hd_Cmd.n) /\ Goto(then)
  <2>1. ~dev'.drq /\ dev'.busy
    BY <1>11 DEF Command
  <2>2. ASSUME T PROVE InStep(o, 0)'
    <3>1. dev'.cmd = CmdByte(o) /\ dev'.at = o.lba /\ dev'.left = o.n
      BY <1>4, <1>5, <1>11, <2>2 DEF Command
    <3> QED
      BY <1>4, <1>5, <2>1, <2>2, <3>1 DEF InStep
  <2> QED
    BY <1>10, <1>11, <2>1, <2>2 DEF DevOK
<1>12. CASE NotReady /\ (Return("ErcNotReady", <<>>) \/ Goto(then))
  <2>1. dev'.busy /\ dev'.dead /\ DevOK'
    BY <1>12, NotReadyData
  <2>2. InStep(o, 0)'
    BY <2>1 DEF InStep
  <2> QED
    BY <1>10, <1>12, <2>1, <2>2, ReturnData
<1> QED
  BY <1>7, <1>11, <1>12

\* The block that a write puts out is the next of its blocks, and goes there.
LEMMA OutData ==
    ASSUME TypeOK, DataInv, NEW o \in Ops, o = drv.op, o.cmd = "write", drv.pc \in Sent,
           NEW k \in Nat, k = drv.nSoFar, k < o.n, ~dev.busy, dev.drq,
           NEW v \in Val, NextOut(v), OutWords(v)
    PROVE  /\ o.lba + k \in LBA /\ v = o.data[k + 1]
           /\ disk' = [disk EXCEPT ![o.lba + k] = v]
           /\ DevOK' /\ InStep(o, k + 1)'
           /\ \A got : Moved(o, k + 1, got)'
<1>1. o.n \in Nat /\ o.lba \in Nat /\ o.data \in [1 .. o.n -> Val]
  BY OpsShape
<1>2. "write" \notin Reads /\ CmdByte(o) = "write"
  BY DEF Reads, CmdByte
<1>3. Moved(o, k, drv.got) /\ InStep(o, k)
  BY DEF DataInv, Transfer
<1>4. dev.cmd = "write" /\ dev.at = o.lba + k /\ dev.left = o.n - k
  BY <1>2, <1>3 DEF InStep
<1>5. o.lba + k \in LBA
  BY <1>1, <1>4 DEF DataInv, DevOK
<1>6. Len(o.data) = o.n
  BY <1>1
<1>7. v = o.data[k + 1]
  BY <1>1, <1>6 DEF NextOut
<1>8. disk' = [disk EXCEPT ![o.lba + k] = v] /\ dev' = NextBlock
  BY <1>4, <1>5 DEF OutWords
<1>9. /\ dev'.at = o.lba + (k + 1) /\ dev'.left = o.n - (k + 1) /\ dev'.cmd = "write"
      /\ ~dev'.drq
  BY <1>1, <1>4, <1>8, DevTypes
<1>10. InStep(o, k + 1)'
  BY <1>2, <1>9 DEF InStep
<1>11. ASSUME NEW got PROVE Moved(o, k + 1, got)'
  <2>1. o.lba + (k + 1) <= nBlocks
    BY <1>1, <1>5, HardDiskAssumption DEF LBA
  <2>2. ASSUME NEW i \in 1 .. k + 1 PROVE disk'[o.lba + i - 1] = o.data[i]
    <3>1. o.lba + i - 1 \in LBA /\ disk \in [LBA -> Val]
      <4>1. nBlocks \in Nat
        BY HardDiskAssumption
      <4>2. o.lba + i - 1 \in 0 .. nBlocks - 1
        BY <1>1, <2>1, <4>1
      <4> QED
        BY <4>2 DEF LBA, TypeOK
    <3>2. CASE i = k + 1
      BY <1>1, <1>7, <1>8, <3>1, <3>2
    <3>3. CASE i # k + 1
      <4>1. i \in 1 .. k /\ o.lba + i - 1 # o.lba + k
        BY <1>1, <3>3
      <4>2. disk[o.lba + i - 1] = o.data[i]
        BY <1>3, <4>1 DEF Moved
      <4> QED
        BY <1>8, <3>1, <4>1, <4>2
    <3> QED
      BY <3>2, <3>3
  <2> QED
    BY <1>1, <1>2, <2>1, <2>2 DEF Moved
<1> QED
  BY <1>5, <1>7, <1>8, <1>9, <1>10, <1>11 DEF DevOK

\* The block that a read takes is the next of its blocks.
LEMMA InData ==
    ASSUME TypeOK, DataInv, NEW o \in Ops, o = drv.op, o.cmd \in Reads, At("status"),
           NEW k \in Nat, k = drv.nSoFar, ~dev.busy, ~dev.err,
           NEW got \in Seq(Val), got = drv.got, NEW v \in Val, InWords(v)
    PROVE  /\ k < o.n
           /\ DevOK' /\ Moved(o, k + 1, Append(got, v))'
           /\ k + 1 < o.n => InStep(o, k + 1)'
<1>1. o.n \in Nat /\ o.lba \in Nat
  BY OpsShape
<1>2. CmdByte(o) = "read" /\ o.cmd # "write"
  BY DEF Reads, CmdByte
<1>3. Moved(o, k, drv.got) /\ InStep(o, k)
  BY DEF DataInv, Transfer, At, Sent
<1>4. /\ dev.cmd = "read" /\ dev.at = o.lba + k /\ dev.left = o.n - k
      /\ k < o.n /\ dev.drq
  BY <1>2, <1>3 DEF InStep
<1>5. o.lba + k \in LBA
  BY <1>1, <1>4 DEF DataInv, DevOK
<1>6. v = disk[o.lba + k] /\ disk' = disk /\ dev' = NextBlock
  BY <1>4 DEF InWords
<1>7. /\ dev'.at = o.lba + (k + 1) /\ dev'.left = o.n - (k + 1) /\ dev'.cmd = "read"
      /\ ~dev'.drq /\ (k + 1 < o.n => dev'.busy)
  <2>1. dev.left > 0 /\ (k + 1 < o.n => dev.left > 1)
    BY <1>1, <1>4
  <2>2. /\ dev'.at = dev.at + 1 /\ dev'.left = dev.left - 1 /\ dev'.cmd = dev.cmd /\ ~dev'.drq
        /\ dev'.busy = (dev.cmd = "write" \/ dev.left > 1)
    BY <1>6, <2>1, DevTypes
  <2>3. k + 1 < o.n => dev'.busy
    BY <2>1, <2>2
  <2>4. dev'.left = o.n - (k + 1) /\ dev'.at = o.lba + (k + 1)
    BY <1>1, <1>4, <2>2
  <2> QED
    BY <1>4, <2>2, <2>3, <2>4
<1>8. k + 1 < o.n => InStep(o, k + 1)'
  BY <1>2, <1>7 DEF InStep
<1>9. Moved(o, k + 1, Append(got, v))'
  <2> DEFINE s == Append(got, v)
  <2>1. Len(got) = k /\ \A i \in 1 .. k : got[i] = disk[o.lba + i - 1]
    BY <1>2, <1>3 DEF Moved
  <2>2. Len(s) = k + 1 /\ s[k + 1] = v /\ \A i \in 1 .. k : s[i] = got[i]
    BY <2>1
  <2>3. ASSUME NEW i \in 1 .. k + 1 PROVE s[i] = disk[o.lba + i - 1]
    <3>1. CASE i = k + 1
      BY <1>1, <1>6, <2>2, <3>1
    <3>2. CASE i \in 1 .. k
      BY <2>1, <2>2, <3>2
    <3>3. i = k + 1 \/ i \in 1 .. k
      OBVIOUS
    <3> QED
      BY <3>1, <3>2, <3>3
  <2>4. o.lba + (k + 1) <= nBlocks /\ k + 1 <= o.n
    BY <1>1, <1>4, <1>5, HardDiskAssumption DEF LBA
  <2> HIDE DEF s
  <2>5. Moved(o, k + 1, s)'
    BY <1>2, <1>6, <2>2, <2>3, <2>4 DEF Moved
  <2> QED
    BY <2>5 DEF s
<1> QED
  BY <1>4, <1>7, <1>8, <1>9 DEF DevOK

\* At the start no blocks are under way.
LEMMA InitDataInv == Init => DataInv
BY DEF Init, DataInv, DevOK, Idle, Sent, At

\* The controller, alone.
LEMMA DevDoneData ==
    ASSUME TypeOK, DataInv, DevDone
    PROVE  DataInv'
<1>1. PICK err \in BOOLEAN :
        /\ ~err => dev.left = 0 \/ dev.at \in LBA
        /\ dev' = [dev EXCEPT !.busy = FALSE, !.err = err, !.fresh = FALSE,
                              !.drq = ~err /\ (dev.left > 0 \/ dev.cmd = "format")]
  BY DEF DevDone
<1>2. PICK drq \in BOOLEAN : drq = (~err /\ (dev.left > 0 \/ dev.cmd = "format"))
  OBVIOUS
<1>3. dev' = [dev EXCEPT !.busy = FALSE, !.err = err, !.fresh = FALSE, !.drq = drq]
  BY <1>1, <1>2
<1>4. dev \in DevType /\ ~dev.dead /\ UNCHANGED <<disk, hd_Cmd, drv>>
  BY DEF TypeOK, DevDone
<1>5. /\ dev'.busy = FALSE /\ dev'.err = err /\ dev'.drq = drq
      /\ dev'.cmd = dev.cmd /\ dev'.at = dev.at /\ dev'.left = dev.left /\ dev.left \in Nat
  BY <1>3, <1>4 DEF DevType
<1>6. DevOK'
  <2>1. drq => ~err
    BY <1>2, Zenon
  <2>2. ~err /\ dev.left > 0 => dev.at \in LBA
    <3>1. ~err => dev.left = 0 \/ dev.at \in LBA
      BY <1>1
    <3> QED
      BY <1>5, <3>1
  <2> QED
    BY <1>5, <2>1, <2>2 DEF DevOK
<1>7. ASSUME drv.pc \in Sent, Transfer PROVE InStep(drv.op, drv.nSoFar)'
  <2>1. InStep(drv.op, drv.nSoFar)
    BY <1>7 DEF DataInv
  <2>2. drv.op.n \in Nat /\ drv.nSoFar \in Nat
    BY <1>7, NotIdle, OpsShape DEF TypeOK, DrvType, Sent, At
  <2>3. ASSUME drv.op.cmd \in Reads PROVE dev'.err \/ dev'.drq
    <3>1. dev.left = drv.op.n - drv.nSoFar /\ drv.nSoFar < drv.op.n
      BY <1>4, <2>1, <2>3 DEF InStep
    <3>2. dev.left > 0
      BY <2>2, <3>1
    <3>3. err \/ drq
      BY <1>2, <3>2, Zenon
    <3> QED
      BY <1>5, <3>3
  <2> QED
    BY <1>4, <1>5, <2>1, <2>3 DEF InStep
<1> QED
  BY <1>4, <1>6, <1>7 DEF DataInv, Transfer, At, Moved

\* Every step keeps DataInv.
LEMMA NextDataInv ==
    ASSUME ~AnswersLate, ~WritesAny
    PROVE  TypeOK /\ DataInv /\ [Next]_vars => DataInv'
<1> SUFFICES ASSUME TypeOK, DataInv, [Next]_vars PROVE DataInv'
  OBVIOUS
<1>1. drv \in DrvType
  BY DEF TypeOK
<1>2. ASSUME NEW o \in Ops, hddev_op(o) PROVE DataInv'
  <2>1. /\ drv'.pc \in {"setup", "invalid"} /\ drv'.nSoFar = 0 /\ drv'.got = <<>>
        /\ dev' = dev
    BY <1>2 DEF hddev_op, Idle
  <2> QED
    BY <2>1, DevKept DEF DataInv, Sent, At
<1>3. CASE setupseek
  <2>1. dev' = dev /\ At("setup") /\ drv.op \in Ops
    BY <1>3, NotIdle DEF setupseek, At
  <2>2. CASE (\E erc \in {"ErcZeroBlks", "ErcTooManyBlks"} : Return(erc, <<>>))
    BY <2>1, <2>2, DevKept, ReturnData
  <2>3. CASE /\ ~(drv.op.cmd = "read" /\ BadCount(drv.op))
             /\ hd_Cmd' = Asked(drv.op) /\ Goto("empty")
    <3>1. drv'.pc = "empty" /\ drv'.op = drv.op /\ drv'.nSoFar = 0 /\ drv'.got = <<>>
      BY <2>1, <2>3, GotoFields DEF DataInv, At
    <3>2. Transfer => drv.op.n > 0 /\ ~BadCount(drv.op)
      BY <2>1, <2>3, OpsShape, HardDiskAssumption DEF Transfer, Reads, BadCount
    <3>3. Transfer => hd_Cmd' = [lba |-> drv.op.lba, n |-> drv.op.n]
      BY <2>1, <2>3, <3>2 DEF Asked
    <3> QED
      BY <2>1, <3>1, <3>2, <3>3, DevKept DEF DataInv, Sent, At, Transfer
  <2> QED
    BY <1>3, <2>2, <2>3 DEF setupseek
<1>4. CASE Invalid
  BY <1>4, DevKept, ReturnData DEF Invalid
<1>5. CASE Empty
  <2>1. /\ drv'.pc = "send" /\ drv'.op = drv.op /\ drv'.nSoFar = drv.nSoFar /\ drv'.got = drv.got
        /\ dev' = dev /\ hd_Cmd' = hd_Cmd /\ drv.pc = "empty"
    BY <1>5, GotoFields DEF Empty, At
  <2> QED
    BY <2>1, DevKept DEF DataInv, Sent, At, Transfer
<1>6. CASE send_command
  BY <1>6, SentData
<1>7. CASE WriteReady
  <2>1. /\ drv.pc = "ready" /\ drv.pc \in Sent /\ drv.op \in Ops /\ drv.nSoFar = 0
        /\ drv.op.cmd = "write" /\ drv.op.n > 0
    BY <1>7, NotIdle DEF WriteReady, At, Sent, DataInv
  <2>2. PICK o \in Ops : o = drv.op
    BY <2>1
  <2>3. ASSUME NEW v \in Val, ~dev.busy, dev.drq, NextOut(v), OutWords(v),
               drv' = [drv EXCEPT !.pc = "arm", !.nSoFar = 1]
        PROVE  DataInv'
    <3>1. DevOK' /\ InStep(o, 1)' /\ \A got : Moved(o, 1, got)'
      <4>1. 0 + 1 = 1
        OBVIOUS
      <4> QED
        BY <2>1, <2>2, <2>3, <4>1, OutData
    <3>2. PICK got : drv'.pc = "arm" /\ drv'.op = o /\ drv'.nSoFar = 1 /\ drv'.got = got
      BY <1>1, <2>2, <2>3 DEF DrvType
    <3>3. "arm" \in Sent
      BY DEF Sent
    <3> QED
      BY <3>1, <3>2, <3>3, SentInv
  <2>4. CASE Goto("arm") /\ UNCHANGED <<dev, disk>>
    BY <1>7, <2>1, <2>4, GotoFields, KeepsData DEF WriteReady, Sent
  <2>5. CASE NotReady /\ Return("ErcNotReady", <<>>)
    BY <2>5, NotReadyData, ReturnData
  <2> QED
    BY <1>7, <2>3, <2>4, <2>5 DEF WriteReady
<1>8. CASE Arm
  <2>1. CASE Goto("wait")
    BY <1>8, <2>1, GotoFields, KeepsData DEF Arm, Sent, At
  <2>2. CASE Return("ErcNoMoreTBs", <<>>)
    BY <1>8, <2>2, DevKept, ReturnData DEF Arm
  <2> QED
    BY <1>8, <2>1, <2>2 DEF Arm
<1>9. CASE WaitMsg
  <2>1. /\ drv.pc = "wait" /\ drv'.pc = "woken"
        /\ drv'.op = drv.op /\ drv'.nSoFar = drv.nSoFar /\ drv'.got = drv.got
    BY <1>1, <1>9 DEF WaitMsg, DrvType, At
  <2> QED
    BY <1>9, <2>1, KeepsData DEF WaitMsg, Sent
<1>10. CASE Woken
  <2>1. CASE drv' = [drv EXCEPT !.pc = "status", !.first = FALSE]
    <3>1. /\ drv.pc = "woken" /\ drv'.pc = "status"
          /\ drv'.op = drv.op /\ drv'.nSoFar = drv.nSoFar /\ drv'.got = drv.got
      BY <1>1, <1>10, <2>1 DEF Woken, DrvType, At
    <3> QED
      BY <1>10, <3>1, KeepsData DEF Woken, Sent
  <2>2. CASE Return(IF HDDInt THEN "ErcMissHDDInt" ELSE "ErcHDCTimeOut", <<>>)
    BY <1>10, <2>2, DevKept, ReturnData DEF Woken
  <2> QED
    BY <1>10, <2>1, <2>2 DEF Woken
<1>11. CASE StatusErc
  <2>1. CASE NotReady /\ Return("ErcNotReady", <<>>)
    BY <2>1, NotReadyData, ReturnData
  <2>2. CASE Return("ErcBadBlock", <<>>) /\ UNCHANGED dev
    BY <2>2, DevKept, ReturnData
  <2> QED
    BY <1>11, <2>1, <2>2 DEF StatusErc
<1>12. CASE StatusRead
  <2>1. At("status") /\ drv.op \in Ops /\ ~dev.busy /\ ~dev.err /\ "arm" \in Sent
    BY <1>12, NotIdle DEF StatusRead, Ready, At, Sent
  <2>2. PICK v \in Val : /\ InWords(v)
                         /\ \/ /\ drv.op.cmd = "read"
                               /\ drv.nSoFar + 1 < drv.op.n
                               /\ drv' = [drv EXCEPT !.pc = "arm", !.nSoFar = @ + 1, !.got = Append(@, v)]
                            \/ Return("ok", Append(drv.got, v))
    BY <1>12 DEF StatusRead
  <2>3. CASE /\ drv.op.cmd = "read" /\ drv.nSoFar + 1 < drv.op.n
             /\ drv' = [drv EXCEPT !.pc = "arm", !.nSoFar = @ + 1, !.got = Append(@, v)]
    <3>1. PICK o \in Ops, k \in Nat, got \in Seq(Val) :
             o = drv.op /\ k = drv.nSoFar /\ got = drv.got
      BY <1>1, <2>1 DEF DrvType
    <3>2. o.cmd \in Reads /\ k + 1 < o.n
      BY <2>3, <3>1 DEF Reads
    <3>3. DevOK' /\ Moved(o, k + 1, Append(got, v))' /\ InStep(o, k + 1)'
      BY <2>1, <2>2, <3>1, <3>2, InData
    <3>4. drv'.pc = "arm" /\ drv'.op = o /\ drv'.nSoFar = k + 1 /\ drv'.got = Append(got, v)
      BY <1>1, <2>3, <3>1 DEF DrvType
    <3> QED
      BY <2>1, <3>3, <3>4, SentInv
  <2>4. CASE Return("ok", Append(drv.got, v))
    <3>1. DevOK'
      BY <2>2, DevTypes DEF InWords, DataInv, DevOK
    <3> QED
      BY <2>4, <3>1, ReturnData
  <2> QED
    BY <2>2, <2>3, <2>4
<1>13. CASE StatusWrite
  <2>1. /\ drv.pc = "status" /\ drv.pc \in Sent /\ drv.op \in Ops /\ drv.nSoFar \in Nat
        /\ drv.op.cmd = "write" /\ ~dev.busy
    BY <1>1, <1>13, NotIdle DEF StatusWrite, At, Sent, DrvType, Ready
  <2>2. PICK o \in Ops, k \in Nat : o = drv.op /\ k = drv.nSoFar
    BY <2>1
  <2>3. ASSUME NEW v \in Val, drv.nSoFar < drv.op.n, dev.drq, NextOut(v), OutWords(v),
               drv' = [drv EXCEPT !.pc = "arm", !.nSoFar = @ + 1]
        PROVE  DataInv'
    <3>1. DevOK' /\ InStep(o, k + 1)' /\ \A got : Moved(o, k + 1, got)'
      BY <2>1, <2>2, <2>3, OutData
    <3>2. PICK got : drv'.pc = "arm" /\ drv'.op = o /\ drv'.nSoFar = k + 1 /\ drv'.got = got
      BY <1>1, <2>2, <2>3 DEF DrvType
    <3>3. "arm" \in Sent
      BY DEF Sent
    <3> QED
      BY <3>1, <3>2, <3>3, SentInv
  <2>4. CASE Goto("arm") /\ UNCHANGED <<dev, disk>>
    BY <1>13, <2>1, <2>4, GotoFields, KeepsData DEF StatusWrite, Sent
  <2>5. CASE Return("ok", <<>>) /\ UNCHANGED <<dev, disk>>
    BY <2>5, DevKept, ReturnData
  <2> QED
    BY <1>13, <2>3, <2>4, <2>5 DEF StatusWrite
<1>14. CASE StatusDone
  BY <1>14, DevKept, ReturnData DEF StatusDone
<1>15. CASE hd_reset
  <2>1. ~dev'.drq /\ drv'.pc = "reset" /\ drv'.op.cmd = "reset"
    BY <1>15, GotoFields DEF hd_reset, Command
  <2> QED
    BY <2>1, EndsData DEF DevOK
<1>16. CASE ResetEnd
  BY <1>16, DevKept, ReturnData DEF ResetEnd
<1>17. CASE DevDone
  BY <1>17, DevDoneData
<1>18. CASE AlarmGoesOff
  BY <1>18, KeepsData DEF AlarmGoesOff
<1>19. CASE UNCHANGED vars
  BY <1>19, KeepsData DEF vars
<1> QED
  BY <1>2, <1>3, <1>4, <1>5, <1>6, <1>7, <1>8, <1>9, <1>10, <1>11, <1>12, <1>13, <1>14, <1>15,
     <1>16, <1>17, <1>18, <1>19 DEF Next, Driver

\* How an operation ends: with an error, or done.
LEMMA ReturnMaps ==
    ASSUME TypeOK, ~At("idle"), disk' = disk, NEW erc, NEW out, Return(erc, out),
           \/ erc # "ok"
           \/ drv.op.cmd \notin Reads \cup {"write"}
           \/ /\ Moved(drv.op, drv.op.n, out)
              /\ out \in Seq(Val)
              /\ drv.op.n > 0
    PROVE  BD!End
<1>1. drv.op \in Ops /\ drv.op # None /\ drv'.op = None
  BY NotIdle DEF Return, Idle
<1>2. drv.op.n \in Nat /\ drv.op.lba \in Nat
  BY <1>1, OpsShape
<1>3. CASE erc # "ok"
  BY <1>1, <1>3 DEF Return, BD!End, BD!Fail
<1>4. CASE erc = "ok" /\ drv.op.cmd \notin Reads \cup {"write"}
  <2>1. drv.op.cmd \notin {"read", "readsect", "write"}
    BY <1>4 DEF Reads
  <2>2. ret' = [erc |-> "ok", out |-> <<>>]
    BY <1>4 DEF Return
  <2> QED
    BY <1>1, <2>1, <2>2 DEF BD!End, BD!Done
<1>5. CASE /\ erc = "ok" /\ drv.op.cmd \in Reads \cup {"write"}
           /\ Moved(drv.op, drv.op.n, out) /\ out \in Seq(Val) /\ drv.op.n > 0
  <2> DEFINE there == [i \in 1 .. drv.op.n |-> disk[drv.op.lba + i - 1]]
  <2>1. \A i \in 1 .. drv.op.n : drv.op.lba + i - 1 \in LBA
    BY <1>2, <1>5, HardDiskAssumption DEF Moved, LBA
  <2>2. drv.op.cmd = "write" => there = drv.op.data
    <3>1. drv.op.cmd = "write" => /\ drv.op.data \in [1 .. drv.op.n -> Val]
                                  /\ \A i \in 1 .. drv.op.n : there[i] = drv.op.data[i]
      BY <1>1, <1>5, OpsShape DEF Moved
    <3> QED
      BY <3>1
  <2>3. drv.op.cmd \in Reads => there = out
    <3>1. drv.op.cmd \in Reads => /\ out \in [1 .. drv.op.n -> Val]
                                  /\ \A i \in 1 .. drv.op.n : there[i] = out[i]
      BY <1>2, <1>5 DEF Moved
    <3> QED
      BY <3>1
  <2>4. ret' = [erc |-> "ok", out |-> IF drv.op.cmd \in {"read", "readsect"} THEN there ELSE <<>>]
    BY <1>5, <2>3 DEF Return, Reads
  <2> HIDE DEF there
  <2>5. BD!Done
    BY <2>1, <2>2, <2>4 DEF BD!Done, there
  <2> QED
    BY <1>1, <2>5 DEF BD!End
<1> QED
  BY <1>3, <1>4, <1>5

\* The next block of a write.
LEMMA PutMaps ==
    ASSUME TypeOK, NEW o \in Ops, o = drv.op, o # None, o.cmd = "write", drv'.op = o, ret' = ret,
           NEW k \in Nat, k < o.n, o.lba + k \in LBA,
           disk' = [disk EXCEPT ![o.lba + k] = o.data[k + 1]]
    PROVE  BD!Next
<1>1. o.n \in Nat /\ o.lba \in Nat /\ DOMAIN o.data = 1 .. o.n
  BY OpsShape
<1>2. k + 1 \in DOMAIN o.data /\ o.lba + (k + 1) - 1 = o.lba + k
  BY <1>1, HardDiskAssumption DEF LBA
<1>3. BD!Put(o)
  BY <1>2 DEF BD!Put
<1>4. o \in {drv.op, None}
  OBVIOUS
<1> QED
  BY <1>3, <1>4 DEF BD!Next

\* A step that the abstract disk does not see.
LEMMA StutterMaps ==
    ASSUME UNCHANGED <<disk, ret>>, drv'.op = drv.op
    PROVE  UNCHANGED BD!vars
BY DEF BD!vars

\* Every step of the driver, the controller and the timer is one of the abstract disk,
\* or none.
LEMMA NextMaps ==
    ASSUME ~AnswersLate, ~WritesAny
    PROVE  TypeOK /\ DataInv /\ [Next]_vars => [BD!Next]_(BD!vars)
<1> SUFFICES ASSUME TypeOK, DataInv, [Next]_vars PROVE BD!Next \/ UNCHANGED BD!vars
  OBVIOUS
<1>1. drv \in DrvType
  BY DEF TypeOK
<1>2. ASSUME BD!End PROVE BD!Next
  BY <1>2 DEF BD!Next
<1>3. ASSUME NEW o \in Ops, hddev_op(o) PROVE BD!Next
  <2>1. drv.op = None /\ drv'.op = o /\ disk' = disk /\ ret' = [erc |-> "ok", out |-> <<>>]
    BY <1>3, IdleType DEF hddev_op, Idle, TypeOK
  <2> QED
    BY <2>1 DEF BD!Next, BD!Start, BD!Nothing
<1>4. CASE setupseek
  <2>1. ~At("idle") /\ disk' = disk
    BY <1>4 DEF setupseek, At
  <2>2. CASE (\E erc \in {"ErcZeroBlks", "ErcTooManyBlks"} : Return(erc, <<>>))
    BY <1>2, <2>1, <2>2, ReturnMaps
  <2>3. CASE Goto("empty") /\ Stays
    BY <2>1, <2>3, GotoFields, StutterMaps DEF Stays
  <2> QED
    BY <1>4, <2>2, <2>3 DEF setupseek
<1>5. CASE Invalid
  BY <1>2, <1>5, ReturnMaps DEF Invalid, At
<1>6. CASE Empty
  BY <1>6, GotoFields, StutterMaps DEF Empty, Stays
<1>7. CASE send_command
  <2>1. ~At("idle") /\ disk' = disk
    BY <1>7 DEF send_command, At
  <2>2. Return("ErcNotReady", <<>>) \/ ((Goto("ready") \/ Goto("arm")) /\ Stays)
    BY <1>7 DEF send_command
  <2> QED
    BY <1>2, <2>1, <2>2, ReturnMaps, GotoFields, StutterMaps DEF Stays
<1>8. CASE WriteReady
  <2>1. /\ drv.pc \in Sent /\ drv.op \in Ops /\ drv.op # None /\ ~At("idle") /\ drv.nSoFar = 0
        /\ drv.op.cmd = "write" /\ drv.op.n > 0
    BY <1>8, NotIdle DEF WriteReady, At, Sent, DataInv
  <2>2. PICK o \in Ops, k \in Nat : o = drv.op /\ k = drv.nSoFar /\ k = 0
    BY <2>1
  <2>3. ASSUME NEW v \in Val, ~dev.busy, dev.drq, NextOut(v), OutWords(v), Stays,
               drv' = [drv EXCEPT !.pc = "arm", !.nSoFar = 1]
        PROVE  BD!Next
    <3>1. /\ o.lba + k \in LBA /\ v = o.data[k + 1]
          /\ disk' = [disk EXCEPT ![o.lba + k] = v]
      BY <2>1, <2>2, <2>3, OutData
    <3>2. drv'.op = o /\ ret' = ret
      BY <1>1, <2>2, <2>3 DEF DrvType, Stays
    <3> QED
      BY <2>1, <2>2, <3>1, <3>2, PutMaps
  <2>4. CASE Goto("arm") /\ Stays /\ UNCHANGED <<dev, disk>>
    BY <2>4, GotoFields, StutterMaps DEF Stays
  <2>5. CASE Return("ErcNotReady", <<>>) /\ UNCHANGED disk
    BY <1>2, <2>1, <2>5, ReturnMaps
  <2> QED
    BY <1>8, <2>3, <2>4, <2>5 DEF WriteReady
<1>9. CASE Arm
  <2>1. ~At("idle") /\ disk' = disk
    BY <1>9 DEF Arm, At
  <2>2. CASE Goto("wait") /\ Stays
    BY <2>1, <2>2, GotoFields, StutterMaps DEF Stays
  <2>3. CASE Return("ErcNoMoreTBs", <<>>)
    BY <1>2, <2>1, <2>3, ReturnMaps
  <2> QED
    BY <1>9, <2>2, <2>3 DEF Arm
<1>10. CASE WaitMsg
  <2>1. drv'.op = drv.op /\ UNCHANGED <<disk, ret>>
    BY <1>1, <1>10 DEF WaitMsg, Stays, DrvType
  <2> QED
    BY <2>1, StutterMaps
<1>11. CASE Woken
  <2>1. ~At("idle") /\ disk' = disk
    BY <1>11 DEF Woken, At
  <2>2. CASE drv' = [drv EXCEPT !.pc = "status", !.first = FALSE] /\ Stays
    <3>1. drv'.op = drv.op /\ UNCHANGED <<disk, ret>>
      BY <1>1, <2>1, <2>2 DEF Stays, DrvType
    <3> QED
      BY <3>1, StutterMaps
  <2>3. CASE Return(IF HDDInt THEN "ErcMissHDDInt" ELSE "ErcHDCTimeOut", <<>>)
    BY <1>2, <2>1, <2>3, ReturnMaps
  <2> QED
    BY <1>11, <2>2, <2>3 DEF Woken
<1>12. CASE StatusErc
  <2>1. ~At("idle") /\ disk' = disk /\ (Return("ErcBadBlock", <<>>) \/ Return("ErcNotReady", <<>>))
    BY <1>12 DEF StatusErc, At
  <2> QED
    BY <1>2, <2>1, ReturnMaps
<1>13. CASE StatusRead
  <2>1. /\ At("status") /\ ~At("idle") /\ drv.op \in Ops /\ disk' = disk
        /\ ~dev.busy /\ ~dev.err
    BY <1>13, NotIdle DEF StatusRead, InWords, Ready, At
  <2>2. PICK v \in Val :
          /\ InWords(v)
          /\ \/ /\ drv' = [drv EXCEPT !.pc = "arm", !.nSoFar = @ + 1, !.got = Append(@, v)]
                /\ Stays
             \/ /\ ~(drv.op.cmd = "read" /\ drv.nSoFar + 1 < drv.op.n)
                /\ Return("ok", Append(drv.got, v))
    BY <1>13 DEF StatusRead
  <2>3. CASE /\ drv' = [drv EXCEPT !.pc = "arm", !.nSoFar = @ + 1, !.got = Append(@, v)]
             /\ Stays
    <3>1. drv'.op = drv.op /\ UNCHANGED <<disk, ret>>
      BY <1>1, <2>1, <2>3 DEF Stays, DrvType
    <3> QED
      BY <3>1, StutterMaps
  <2>4. CASE /\ ~(drv.op.cmd = "read" /\ drv.nSoFar + 1 < drv.op.n)
             /\ Return("ok", Append(drv.got, v))
    <3>1. PICK o \in Ops, k \in Nat, got \in Seq(Val) :
             o = drv.op /\ k = drv.nSoFar /\ got = drv.got
      BY <1>1, <2>1 DEF DrvType
    <3>2. o.n \in Nat /\ (o.cmd = "readsect" => o.n = 1) /\ o.cmd # "write"
      BY <1>13, <3>1, OpsShape DEF StatusRead, Reads
    <3>3. ASSUME o.cmd \in Reads
          PROVE  Moved(o, o.n, Append(got, v)) /\ Append(got, v) \in Seq(Val) /\ o.n > 0
      <4>1. k < o.n /\ Moved(o, k + 1, Append(got, v))'
        BY <2>1, <2>2, <3>1, <3>3, InData
      <4>2. k + 1 = o.n
        BY <2>4, <3>1, <3>2, <3>3, <4>1 DEF Reads
      <4> QED
        BY <2>1, <4>1, <4>2 DEF Moved
    <3> QED
      BY <1>2, <2>1, <2>4, <3>1, <3>2, <3>3, ReturnMaps
  <2> QED
    BY <2>2, <2>3, <2>4
<1>14. CASE StatusWrite
  <2>1. /\ drv.pc = "status" /\ drv.pc \in Sent /\ drv.op \in Ops /\ drv.op # None
        /\ ~At("idle") /\ drv.nSoFar \in Nat /\ drv.op.cmd = "write" /\ ~dev.busy
    BY <1>1, <1>14, NotIdle DEF StatusWrite, At, Sent, DrvType, Ready
  <2>2. PICK o \in Ops, k \in Nat : o = drv.op /\ k = drv.nSoFar
    BY <2>1
  <2>3. ASSUME NEW v \in Val, drv.nSoFar < drv.op.n, dev.drq, NextOut(v), OutWords(v), Stays,
               drv' = [drv EXCEPT !.pc = "arm", !.nSoFar = @ + 1]
        PROVE  BD!Next
    <3>1. /\ o.lba + k \in LBA /\ v = o.data[k + 1]
          /\ disk' = [disk EXCEPT ![o.lba + k] = v]
      BY <2>1, <2>2, <2>3, OutData
    <3>2. drv'.op = o /\ ret' = ret
      BY <1>1, <2>2, <2>3 DEF DrvType, Stays
    <3> QED
      BY <2>1, <2>2, <2>3, <3>1, <3>2, PutMaps
  <2>4. CASE Goto("arm") /\ Stays /\ UNCHANGED <<dev, disk>>
    BY <2>4, GotoFields, StutterMaps DEF Stays
  <2>5. CASE drv.nSoFar >= drv.op.n /\ Return("ok", <<>>) /\ UNCHANGED <<dev, disk>>
    <3>1. Moved(o, k, drv.got)
      BY <2>1, <2>2 DEF DataInv, Transfer
    <3>2. o.n \in Nat /\ o.n > 0 /\ o.cmd = "write" /\ o.cmd \notin Reads
      BY <2>1, <2>2, OpsShape DEF Reads
    <3>3. k = o.n
      BY <2>2, <2>5, <3>1, <3>2 DEF Moved
    <3>4. Moved(drv.op, drv.op.n, <<>>) /\ drv.op.n > 0 /\ <<>> \in Seq(Val)
      BY <2>2, <3>1, <3>2, <3>3 DEF Moved
    <3> QED
      BY <1>2, <2>1, <2>5, <3>4, ReturnMaps
  <2> QED
    BY <1>14, <2>3, <2>4, <2>5 DEF StatusWrite
<1>15. CASE StatusDone
  <2>1. /\ ~At("idle") /\ disk' = disk /\ Return("ok", <<>>)
        /\ drv.op.cmd \notin Reads \cup {"write"}
    BY <1>15 DEF StatusDone, At, Reads
  <2> QED
    BY <1>2, <2>1, ReturnMaps
<1>16. CASE hd_reset
  BY <1>16, GotoFields, StutterMaps DEF hd_reset, Stays
<1>17. CASE ResetEnd
  <2>1. ~At("idle") /\ disk' = disk /\ Return("ok", <<>>)
    BY <1>17 DEF ResetEnd, At
  <2>2. drv.op.cmd \notin Reads \cup {"write"}
    BY <1>17 DEF ResetEnd, DataInv, At, Reads
  <2> QED
    BY <1>2, <2>1, <2>2, ReturnMaps
<1>18. CASE DevDone
  BY <1>18, StutterMaps DEF DevDone
<1>19. CASE AlarmGoesOff
  BY <1>19, StutterMaps DEF AlarmGoesOff
<1>20. CASE UNCHANGED vars
  BY <1>20, StutterMaps DEF vars
<1> QED
  BY <1>3, <1>4, <1>5, <1>6, <1>7, <1>8, <1>9, <1>10, <1>11, <1>12, <1>13, <1>14, <1>15,
     <1>16, <1>17, <1>18, <1>19, <1>20 DEF Next, Driver

\* The initial states.
LEMMA InitMaps == TypeOK /\ Init => BD!Init
BY DEF Init, BD!Init, BD!Nothing, Idle

\* The driver with its controller is a disk of blocks, on which every operation reads
\* or writes exactly its blocks and tells the truth about it, when the controller
\* does not answer after check_busy gave it up and no program writes 0 blocks
\* (hd_read, hd_write, hd_wait, hd_status).
THEOREM Implements ==
    ASSUME ~AnswersLate, ~WritesAny
    PROVE  Spec => ImplementsBlockDevice
<1>1. Init => TypeOK /\ DataInv
  BY InitTypeOK, InitDataInv
<1>2. TypeOK /\ DataInv /\ [Next]_vars => (TypeOK /\ DataInv)'
  BY NextTypeOK, NextDataInv
<1>3. TypeOK /\ Init => BD!Init
  BY InitMaps
<1>4. TypeOK /\ DataInv /\ [Next]_vars => [BD!Next]_(BD!vars)
  BY NextMaps
<1> QED
  BY <1>1, <1>2, <1>3, <1>4, PTL DEF Spec, ImplementsBlockDevice, BD!Spec
=============================================================================
