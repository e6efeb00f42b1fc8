----------------------------- MODULE AtomicDisk -----------------------------
(***************************************************************************)
(* What kernel/fs/log.c promises of the device it logs: the updates of the *)
(* file-system calls that are in progress together reach the disk all at   *)
(* once or, after a crash, not at all (log.c:9-15).                        *)
(***************************************************************************)
CONSTANTS Proc,   \* processes that make file-system calls
          Block,  \* blocks of the device
          Val     \* contents of a block

VARIABLES durable,   \* what a crash and a recovery would leave on the disk
          volatile,  \* what a reader of the buffer cache sees
          active     \* processes between begin_op() and end_op()

vars == <<durable, volatile, active>>

Init == /\ durable \in [Block -> Val]
        /\ volatile = durable
        /\ active = {}

Begin(p) == /\ p \notin active
            /\ active' = active \cup {p}
            /\ UNCHANGED <<durable, volatile>>

Write(p, b, v) == /\ p \in active
                  /\ volatile' = [volatile EXCEPT ![b] = v]
                  /\ UNCHANGED <<durable, active>>

End(p) == /\ p \in active
          /\ active' = active \ {p}
          /\ UNCHANGED <<durable, volatile>>

\* The whole cache becomes durable in one step, and only while no call is
\* in progress.
Commit == /\ active = {}
          /\ durable' = volatile
          /\ UNCHANGED <<volatile, active>>

Crash == /\ volatile' = durable
         /\ active' = {}
         /\ UNCHANGED durable

Next == \/ \E p \in Proc : \/ Begin(p)
                           \/ End(p)
                           \/ \E b \in Block, v \in Val : Write(p, b, v)
        \/ Commit
        \/ Crash

Spec == Init /\ [][Next]_vars
=============================================================================
