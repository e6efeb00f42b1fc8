------------------------------ MODULE BufCache ------------------------------
(***************************************************************************)
(* The path from a file-system call to the disk: the buffer cache          *)
(* (kernel/fs/bio.c), the sleep lock of each buffer (lock/sleeplock.c) and *)
(* the IDE driver (drivers/ide.c), with the drives as the environment.     *)
(*                                                                         *)
(* One action is one critical section of bcache.lock, of a sleep lock's    *)
(* spin lock or of a queue's idelock; interrupts and other processes fall  *)
(* between actions.  A process uses one buffer at a time.                  *)
(***************************************************************************)
EXTENDS Naturals, Sequences, FiniteSets

CONSTANTS Proc,
          NBUF,    \* buffers
          Key,     \* the blocks <<dev, blockno>> processes ask for
          Val,     \* contents of a block
          Outcome  \* {TRUE}: drives without errors; BOOLEAN: errors happen

Buf    == 1 .. NBUF
NOBODY == 0                  \* no process, no buffer
NOKEY  == <<0, 0>>           \* a buffer as bss leaves it
Dev    == {k[1] : k \in Key}

\* The ATA channel idestart() programs for a device; dev 1 has the first.
Port(dev) == CASE dev = 1 -> "ata0"
               [] dev \in {2, 3} -> "ata1"
               [] dev \in {4, 5} -> "ata2"
               [] OTHER -> "ata3"
Ports == {Port(dev) : dev \in Dev}

ASSUME BufCacheAssumption ==
  /\ NBUF \in Nat \ {0}
  /\ Key \subseteq (1 .. 7) \X {k[2] : k \in Key}
  /\ Outcome \subseteq BOOLEAN
  /\ IsFiniteSet(Proc) /\ NOBODY \notin Proc

VARIABLES
  \* struct buf
  key, valid, dirty, refcnt, data,
  lock,      \* lock[i]: the process that holds b->lock, or NOBODY
  lru,       \* bcache.head.next ..: all buffers, most recently used first
  \* ide.c and the drives
  idequeue,  \* idequeue[dev]: the requests, first one first
  active,    \* active[port]: the buffer whose command the drive executes
  disk,
  \* processes
  pc,
  b,         \* b[p]: the buffer of p's call
  want,      \* want[p]: the block p asked for
  lockq,     \* lockq[i]: sleepqueue restricted to channel &b->lock
  \* observation
  failed,    \* failed[i]: the last request for i met a drive error, or was
             \* taken for complete on the interrupt of another request
  fault      \* "none", or why the machine stopped

bufs  == <<key, valid, dirty, refcnt, data, lock, lru>>
ide   == <<idequeue, active, disk>>
procs == <<pc, b, want, lockq>>
vars  == <<bufs, ide, procs, failed, fault>>

Goto(p, l) == pc' = [pc EXCEPT ![p] = l]

\* binit(): each buffer is put in front of the list.
Init ==
  /\ key = [i \in Buf |-> NOKEY]
  /\ valid = [i \in Buf |-> FALSE]
  /\ dirty = [i \in Buf |-> FALSE]
  /\ refcnt = [i \in Buf |-> 0]
  /\ lock = [i \in Buf |-> NOBODY]
  /\ lru = [i \in Buf |-> NBUF + 1 - i]
  /\ disk \in [Key -> Val]
  /\ \E v \in Val : data = [i \in Buf |-> v]
  /\ idequeue = [dev \in Dev |-> <<>>]
  /\ active = [port \in Ports |-> NOBODY]
  /\ pc = [p \in Proc |-> "out"]
  /\ b = [p \in Proc |-> NOBODY]
  /\ want = [p \in Proc |-> NOKEY]
  /\ lockq = [i \in Buf |-> <<>>]
  /\ failed = [i \in Buf |-> FALSE]
  /\ fault = "none"

-----------------------------------------------------------------------------
UnusedDirty(i) == refcnt[i] = 0                    \* mutant: no B_DIRTY test
UnusedReferenced(i) == ~dirty[i]                   \* mutant: no refcnt test
CachesValid(i, k) == key[i] = k /\ valid[i]        \* mutant: B_VALID tested

Unused(i) == refcnt[i] = 0 /\ ~dirty[i]
Caches(i, k) == key[i] = k

(* bget() under bcache.lock: the block is cached, or the least recently     *)
(* used buffer that is neither referenced nor dirty is recycled for it.     *)
BGet(p, k) ==
  /\ pc[p] = "out"
  /\ LET hits == {i \in Buf : Caches(i, k)}
         free == {n \in Buf : Unused(lru[n])}
     IN \/ \E i \in hits :
             /\ refcnt' = [refcnt EXCEPT ![i] = @ + 1]
             /\ b' = [b EXCEPT ![p] = i]
             /\ want' = [want EXCEPT ![p] = k]
             /\ Goto(p, "lock")
             /\ UNCHANGED <<key, valid, dirty, failed, fault>>
        \/ /\ hits = {}
           /\ \E n \in free :
                LET i == lru[n]
                IN /\ \A o \in free : o <= n
                   /\ key' = [key EXCEPT ![i] = k]
                   /\ valid' = [valid EXCEPT ![i] = FALSE]
                   /\ dirty' = [dirty EXCEPT ![i] = FALSE]
                   /\ refcnt' = [refcnt EXCEPT ![i] = 1]
                   /\ failed' = [failed EXCEPT ![i] = FALSE]
                   /\ b' = [b EXCEPT ![p] = i]
           /\ want' = [want EXCEPT ![p] = k]
           /\ Goto(p, "lock")
           /\ UNCHANGED fault
        \/ /\ hits = {} /\ free = {}
           /\ fault' = "bget: no buffers"
           /\ UNCHANGED <<key, valid, dirty, refcnt, failed, pc, b, want>>
  /\ UNCHANGED <<data, lock, lru, ide, lockq>>

\* bread() reads the block if the locked buffer is not valid.
AfterLock(i) == IF valid[i] THEN "held" ELSE "iderw"

\* acquiresleep(): one pass of its loop.
AcquireSleep(p) ==
  /\ pc[p] = "lock"
  /\ LET i == b[p]
     IN IF lock[i] # NOBODY
        THEN /\ lockq' = [lockq EXCEPT ![i] = Append(@, p)]
             /\ Goto(p, "lock_sleep")
             /\ UNCHANGED lock
        ELSE /\ lock' = [lock EXCEPT ![i] = p]
             /\ Goto(p, AfterLock(i))
             /\ UNCHANGED lockq
  /\ UNCHANGED <<key, valid, dirty, refcnt, data, lru, ide, b, want, failed, fault>>

\* The caller changes the contents and log_write() pins the buffer.
LogWrite(p, v) ==
  /\ pc[p] = "held"
  /\ data' = [data EXCEPT ![b[p]] = v]
  /\ dirty' = [dirty EXCEPT ![b[p]] = TRUE]
  /\ UNCHANGED <<key, valid, refcnt, lock, lru, ide, procs, failed, fault>>

\* The caller changes the contents and calls bwrite().
BWrite(p, v) ==
  /\ pc[p] = "held"
  /\ data' = [data EXCEPT ![b[p]] = v]
  /\ dirty' = [dirty EXCEPT ![b[p]] = TRUE]
  /\ Goto(p, "iderw")
  /\ UNCHANGED <<key, valid, refcnt, lock, lru, ide, b, want, lockq, failed, fault>>

(* brelse(): releasesleep(), whose wakeup() makes the first sleeper         *)
(* runnable, and then the reference under bcache.lock.                      *)
ReleaseSleep(p) ==
  /\ pc[p] = "held"
  /\ LET i == b[p]
     IN /\ lock' = [lock EXCEPT ![i] = NOBODY]
        /\ \/ lockq[i] = <<>> /\ Goto(p, "brelse") /\ UNCHANGED lockq
           \/ /\ lockq[i] # <<>>
              /\ pc' = [pc EXCEPT ![p] = "brelse", ![Head(lockq[i])] = "lock"]
              /\ lockq' = [lockq EXCEPT ![i] = Tail(@)]
  /\ UNCHANGED <<key, valid, dirty, refcnt, data, lru, ide, b, want, failed, fault>>

ToFront(i) ==
  [n \in Buf |-> IF n = 1 THEN i
                 ELSE IF \E o \in n .. NBUF : lru[o] = i THEN lru[n - 1]
                 ELSE lru[n]]

BRelse(p) ==
  /\ pc[p] = "brelse"
  /\ LET i == b[p]
     IN /\ refcnt' = [refcnt EXCEPT ![i] = @ - 1]
        /\ lru' = IF refcnt[i] = 1 THEN ToFront(i) ELSE lru
  /\ b' = [b EXCEPT ![p] = NOBODY]
  /\ want' = [want EXCEPT ![p] = NOKEY]
  /\ Goto(p, "out")
  /\ UNCHANGED <<key, valid, dirty, data, lock, ide, lockq, failed, fault>>

-----------------------------------------------------------------------------
Idle(i) == active[Port(key[i][1])] = NOBODY

(* iderw(): append the request, start the drive if it is the only one, and  *)
(* sleep; the flags cannot change before sleep() has released the lock.     *)
(* idewait() does not wait for a busy drive: what a second command does to  *)
(* the first is up to the hardware, and the model ends there.               *)
IdeRw(p) ==
  /\ pc[p] = "iderw"
  /\ LET i   == b[p]
         dev == key[i][1]
     IN /\ idequeue' = [idequeue EXCEPT ![dev] = Append(@, i)]
        /\ \/ idequeue[dev] # <<>> /\ UNCHANGED <<active, fault>>
           \/ /\ idequeue[dev] = <<>> /\ Idle(i)
              /\ active' = [active EXCEPT ![Port(dev)] = i]
              /\ UNCHANGED fault
           \/ /\ idequeue[dev] = <<>> /\ ~Idle(i)
              /\ fault' = "command to a busy drive"
              /\ UNCHANGED active
  /\ Goto(p, "io_sleep")
  /\ UNCHANGED <<bufs, disk, b, want, lockq, failed>>

\* The test of its loop after a wakeup(b).
IdeRwDone(p) ==
  /\ pc[p] = "io"
  /\ Goto(p, IF valid[b[p]] /\ ~dirty[b[p]] THEN "held" ELSE "io_sleep")
  /\ UNCHANGED <<bufs, ide, b, want, lockq, failed, fault>>

CompleteNoRead(dev, done, ok) ==   \* mutant: insl is left out
  LET i == Head(idequeue[dev])
  IN /\ failed' = [failed EXCEPT ![i] = i # done \/ ~ok]
     /\ valid' = [valid EXCEPT ![i] = TRUE]
     /\ dirty' = [dirty EXCEPT ![i] = FALSE]
     /\ pc' = [p \in Proc |-> IF pc[p] = "io_sleep" /\ b[p] = i THEN "io" ELSE pc[p]]
     /\ UNCHANGED data

(* The head of queue dev is taken for the request that is complete: its     *)
(* data is read if it is clean, it becomes valid and clean, and its process *)
(* is woken.  idewait() never reports IDE_ERR, and its -1 only skips insl:  *)
(* after an error (~ok), or a command that was not a read, the contents are *)
(* whatever the drive or the buffer last held.                              *)
Complete(dev, done, ok) ==
  LET i == Head(idequeue[dev])
  IN /\ \E v \in IF ok /\ ~dirty[done] THEN {disk[key[done]]} ELSE Val :
          data' = [data EXCEPT ![i] = IF dirty[i] THEN @ ELSE v]
     /\ failed' = [failed EXCEPT ![i] = i # done \/ ~ok]
     /\ valid' = [valid EXCEPT ![i] = TRUE]
     /\ dirty' = [dirty EXCEPT ![i] = FALSE]
     /\ pc' = [p \in Proc |-> IF pc[p] = "io_sleep" /\ b[p] = i THEN "io" ELSE pc[p]]

(* A drive finishes its command, having written the block if it was one,    *)
(* and interrupts.  ideintr() serves the queue of device 1 and ideintr2()   *)
(* that of device 2; no other channel has a handler.  Both drop the next    *)
(* request from the queue as they start it; ideintr() then releases idelock *)
(* twice, and ideintr2() with an empty queue releases the wrong lock.       *)
Interrupt(port, ok) ==
  /\ active[port] # NOBODY
  /\ port \in {"ata0", "ata1"}
  /\ LET done == active[port]
         dev  == IF port = "ata0" THEN 1 ELSE 2
         queue == IF dev \in Dev THEN idequeue[dev] ELSE <<>>
         rest == Tail(queue)
     IN /\ disk' = IF ok /\ dirty[done] THEN [disk EXCEPT ![key[done]] = data[done]] ELSE disk
        /\ \/ /\ queue = <<>>
              /\ active' = [active EXCEPT ![port] = NOBODY]
              /\ fault' = IF dev = 1 THEN fault ELSE "release"
              /\ UNCHANGED <<valid, dirty, data, idequeue, pc, failed>>
           \/ /\ queue # <<>>
              /\ Complete(dev, done, ok)
              /\ \/ /\ rest = <<>>
                    /\ active' = [active EXCEPT ![port] = NOBODY]
                    /\ idequeue' = [idequeue EXCEPT ![dev] = <<>>]
                    /\ UNCHANGED fault
                 \/ /\ rest # <<>>
                    /\ active' = [active EXCEPT ![port] = Head(rest)]
                    /\ idequeue' = [idequeue EXCEPT ![dev] = Tail(rest)]
                    /\ fault' = IF dev = 1 THEN "release" ELSE fault
  /\ UNCHANGED <<key, refcnt, lock, lru, b, want, lockq>>

-----------------------------------------------------------------------------
Step(p) ==
  \/ \E k \in Key : BGet(p, k)
  \/ AcquireSleep(p)
  \/ \E v \in Val : LogWrite(p, v) \/ BWrite(p, v)
  \/ ReleaseSleep(p) \/ BRelse(p)
  \/ IdeRw(p) \/ IdeRwDone(p)

Next ==
  /\ fault = "none"
  /\ \/ \E p \in Proc : Step(p)
     \/ \E port \in Ports, ok \in Outcome : Interrupt(port, ok)

Spec == Init /\ [][Next]_vars

-----------------------------------------------------------------------------
\* Every buffer, queue entry and drive command is of its kind.
TypeOK ==
  /\ key \in [Buf -> Key \cup {NOKEY}]
  /\ valid \in [Buf -> BOOLEAN] /\ dirty \in [Buf -> BOOLEAN]
  /\ refcnt \in [Buf -> Nat]
  /\ data \in [Buf -> Val] /\ disk \in [Key -> Val]
  /\ lock \in [Buf -> Proc \cup {NOBODY}]
  /\ lru \in [Buf -> Buf] /\ \A i \in Buf : \E n \in Buf : lru[n] = i
  /\ idequeue \in [Dev -> Seq(Buf)]
  /\ active \in [Ports -> Buf \cup {NOBODY}]
  /\ pc \in [Proc -> {"out", "lock", "lock_sleep", "iderw", "io_sleep", "io",
                      "held", "brelse"}]
  /\ b \in [Proc -> Buf \cup {NOBODY}]
  /\ want \in [Proc -> Key \cup {NOKEY}]
  /\ lockq \in [Buf -> Seq(Proc)]
  /\ failed \in [Buf -> BOOLEAN]

(* bget() never gives one block two buffers, whatever other processes do    *)
(* between its lookup and the lock of the buffer.                           *)
OneBufferPerBlock ==
  \A i, j \in Buf : key[i] = key[j] /\ key[i] # NOKEY => i = j

(* From bget() to brelse() the buffer of a call still caches the block that *)
(* was asked for, although bget() drops bcache.lock before it waits for the *)
(* sleep lock; and past that wait the caller is the one holder of the lock. *)
BlockKept ==
  \A p \in Proc : pc[p] # "out" =>
    /\ key[b[p]] = want[p]
    /\ pc[p] \in {"iderw", "io_sleep", "io", "held"} => lock[b[p]] = p

\* refcnt is the number of calls between bget() and the end of brelse().
RefCounted ==
  \A i \in Buf : refcnt[i] = Cardinality({p \in Proc : b[p] = i})

(* A buffer that log_write() has pinned keeps its block and its contents    *)
(* until iderw() has written them: bget() does not recycle it, and only the *)
(* lock's holder changes it.                                                *)
PinnedKept ==
  [][\A i \in Buf : dirty[i] =>
       /\ key'[i] = key[i]
       /\ data'[i] # data[i] => pc[lock[i]] = "held"
       /\ ~dirty'[i] => key[i] \in Key /\ (disk'[key[i]] = data[i] \/ failed'[i])]_vars

(* A clean valid buffer holds what is on the disk, unless its last request  *)
(* failed or was completed by the interrupt of another.                     *)
CacheCoherent ==
  \A i \in Buf : valid[i] /\ ~dirty[i] /\ ~failed[i] => data[i] = disk[key[i]]

(* Nobody sleeps for a free buffer: releasesleep() wakes only the first     *)
(* sleeper, and while there are others, the lock is held or somebody is     *)
(* about to take it and to wake the next one.                               *)
LockSleeperHasWaker ==
  \A i \in Buf : lockq[i] # <<>> =>
    lock[i] # NOBODY \/ \E p \in Proc : b[p] = i /\ pc[p] = "lock"

(* bread(): "Return a locked buf with the contents of the indicated block." *)
(* Stated of drives without errors.                                         *)
BreadReturnsBlock ==
  \A p \in Proc : pc[p] = "held" /\ ~dirty[b[p]] => data[b[p]] = disk[want[p]]
=============================================================================
