------------------------------ MODULE MCKernel ------------------------------
(***************************************************************************)
(* Instances of Kernel for TLC: the tasks of small systems, their          *)
(* priorities and the kernel calls that their programs make.               *)
(***************************************************************************)
EXTENDS Kernel, TLC

CONSTANTS t1, t2, t3, j1, j2

LBSymmetry == Permutations(LB)

On(fns, exchs) == fns \X exchs

Equal3    == (t1 :> 0) @@ (t2 :> 0) @@ (t3 :> 0)
ReadyEq3  == (0 :> <<t2, t3>>)
OwnerHalf == (0 :> j1) @@ (1 :> NIL)
Owner1    == (0 :> j1)

\* Two tasks of one priority; the TSS of a third is free, and the first task
\* spawns it at a higher priority or at its own.
JobAll    == (t1 :> j1) @@ (t2 :> j1) @@ (t3 :> NIL)
Two3      == (t1 :> 1) @@ (t2 :> 1) @@ (t3 :> 0)
ReadyTwo3 == (0 :> <<>>) @@ (1 :> <<t2>>)
CallsAll  == (t1 :> On({"SendMsg", "WaitMsg", "DeAllocExch"}, {0}) \cup On({"SpawnTask"}, {0, 1}))
          @@ (t2 :> On({"WaitMsg", "CheckMsg"}, {0}) \cup On({"SendMsg"}, {1}) \cup {<<"AllocExch", 0>>})
          @@ (t3 :> On({"SendMsg", "WaitMsg"}, {0}) \cup On({"SetPriority"}, {1}))

\* One task for each of three priorities: the senders to an exchange, and
\* its allocator, have a higher priority than the tasks that wait there, and
\* the task that deallocates it has the lowest of all.
Job3      == (t1 :> j1) @@ (t2 :> j1) @@ (t3 :> j2)
Rate3     == (t1 :> 0) @@ (t2 :> 1) @@ (t3 :> 2)
ReadyRate3 == (0 :> <<>>) @@ (1 :> <<t2>>) @@ (2 :> <<t3>>)
Owner3    == (0 :> j1) @@ (1 :> NIL) @@ (2 :> j1)
CallsRate == (t1 :> On({"SendMsg"}, {0, 1}) \cup On({"WaitMsg"}, {2}) \cup On({"SpawnTask"}, {1}) \cup {<<"AllocExch", 0>>})
          @@ (t2 :> On({"WaitMsg"}, {0,1}) \cup On({"CheckMsg"}, {0}))
          @@ (t3 :> On({"DeAllocExch"}, {1}))

\* Two tasks of the highest priority share the processor: one waits for what
\* an interrupt sends, the other looks for it without blocking, sends to a
\* task of a lower priority, and runs for as long as it likes in between.
LiveTwo3   == (t1 :> 1) @@ (t2 :> 0) @@ (t3 :> 0)
ReadyLive3 == (0 :> <<t3>>) @@ (1 :> <<t1>>)
OwnerTwo   == (0 :> j1) @@ (1 :> j2)
CallsLive  == (t1 :> On({"WaitMsg"}, {1})) @@ (t2 :> On({"WaitMsg"}, {0}))
           @@ (t3 :> On({"CheckMsg"}, {0}) \cup On({"SendMsg"}, {1}))

\* One task deallocates the exchange to which the other sends.
CallsStale == (t1 :> On({"DeAllocExch"}, {0})) @@ (t2 :> On({"SendMsg"}, {0}))
           @@ (t3 :> {})

\* One task allocates the exchange to which the other sends.
CallsAlloc == (t1 :> {<<"AllocExch", 0>>}) @@ (t2 :> On({"SendMsg"}, {1}))
           @@ (t3 :> {})

\* Three tasks of one priority send to and wait at one exchange.
CallsRace == [t \in Task |-> On({"SendMsg", "WaitMsg", "CheckMsg"}, {0})]
=============================================================================
