------------------------------- MODULE FileStore -------------------------------
(***************************************************************************)
(* What the programs expect of the file system: named files made of        *)
(* blocks, and handles through which one file is read and written.  A call *)
(* touches the file it is made for and no other.                           *)
(***************************************************************************)
EXTENDS Naturals, Sequences

CONSTANTS
    Slot,       \* the places for files
    Name,       \* the names of files
    Handle,     \* the handles of open files
    Val,        \* the contents of a block
    MaxSize     \* bound on the size of a file, in blocks

NoFile == [Name |-> "none", blocks |-> <<>>]

\* The slot of a handle that is closed.
Closed == 0

VARIABLES
    dir,        \* dir[s]: the file at s, its name and its blocks, or NoFile
    opened,     \* opened[h]: where the file of handle h is, or Closed
    ret         \* the last call: its error, and what was asked and answered

vars == <<dir, opened, ret>>

Init ==
    /\ dir = [s \in Slot |-> NoFile]
    /\ opened = [h \in Handle |-> Closed]
    /\ ret = [erc |-> "ok", call |-> <<>>]

\* A call with an error changes no file.
Fail == ret'.erc # "ok" /\ UNCHANGED <<dir, opened>>

Done(call) == ret' = [erc |-> "ok", call |-> call]

OpenFile(h, n, mode) ==
    /\ opened[h] = Closed
    /\ \E s \in Slot : dir[s].Name = n /\ opened' = [opened EXCEPT ![h] = s]
    /\ Done(<<"OpenFile", n, mode, h>>)
    /\ UNCHANGED dir

CloseFile(h) ==
    /\ opened[h] # Closed
    /\ opened' = [opened EXCEPT ![h] = Closed]
    /\ Done(<<"CloseFile", h>>)
    /\ UNCHANGED dir

\* A job ends, or a handle that may only read is closed by an error of Delete.
CloseAll(H) ==
    /\ opened' = [h \in Handle |-> IF h \in H THEN Closed ELSE opened[h]]
    /\ ret'.call = <<>>
    /\ UNCHANGED dir

CreateFile(n) ==
    /\ \A s \in Slot : dir[s].Name # n
    /\ \E s \in Slot :
        /\ dir[s] = NoFile
        /\ dir' = [dir EXCEPT ![s] = [Name |-> n, blocks |-> <<>>]]
    /\ Done(<<"CreateFile", n>>)
    /\ UNCHANGED opened

\* Nobody else has the file of handle h.
Alone(h) == opened[h] # Closed /\ \A g \in Handle \ {h} : opened[g] # opened[h]

DeleteFile(h) ==
    /\ Alone(h)
    /\ dir' = [dir EXCEPT ![opened[h]] = NoFile]
    /\ opened' = [opened EXCEPT ![h] = Closed]
    /\ Done(<<"DeleteFile", h>>)

RenameFile(s, n) ==
    /\ dir[s] # NoFile
    /\ dir' = [dir EXCEPT ![s].Name = n]
    /\ Done(<<"RenameFile", dir[s].Name, n>>)
    /\ UNCHANGED opened

Size(h) == Len(dir[opened[h]].blocks)

\* The k blocks of the file from block b on.
Part(h, b, k) == SubSeq(dir[opened[h]].blocks, b + 1, b + k)

ReadBlock(h, b, k) ==
    /\ opened[h] # Closed /\ b + k <= Size(h)
    /\ Done(<<"ReadBlock", h, b, Part(h, b, k)>>)
    /\ UNCHANGED <<dir, opened>>

WriteBlock(h, b, k, v) ==
    /\ Alone(h)
    /\ b + k <= Size(h)
    /\ dir' = [dir EXCEPT ![opened[h]].blocks =
                [i \in 1 .. Size(h) |-> IF b < i /\ i <= b + k THEN v ELSE @[i]]]
    /\ Done(<<"WriteBlock", h, b, [i \in 1 .. k |-> v]>>)
    /\ UNCHANGED opened

\* The blocks that stay keep their contents; the new ones have any.
SetFileSize(h, n) ==
    /\ Alone(h)
    /\ \E new \in [1 .. n -> Val] :
        /\ \A b \in 1 .. n : b <= Size(h) => new[b] = dir[opened[h]].blocks[b]
        /\ dir' = [dir EXCEPT ![opened[h]].blocks = new]
    /\ Done(<<"SetFileSize", h, n>>)
    /\ UNCHANGED opened

Next ==
    \/ Fail
    \/ \E H \in SUBSET Handle : CloseAll(H)
    \/ \E n \in Name :
        \/ CreateFile(n)
        \/ \E s \in Slot : RenameFile(s, n)
        \/ \E h \in Handle, mode \in {0, 1} : OpenFile(h, n, mode)
    \/ \E h \in Handle :
        \/ CloseFile(h)
        \/ DeleteFile(h)
        \/ \E b \in 0 .. MaxSize, k \in 1 .. MaxSize :
            \/ ReadBlock(h, b, k)
            \/ \E v \in Val : WriteBlock(h, b, k, v)
        \/ \E n \in 0 .. MaxSize : SetFileSize(h, n)

Spec == Init /\ [][Next]_vars
=============================================================================
