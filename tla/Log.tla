-------------------------------- MODULE Log --------------------------------
(***************************************************************************)
(* The redo log of kernel/fs/log.c, over the buffer cache (bio.c) and two  *)
(* disks.  There is one log structure in the kernel; forkret() initialises *)
(* it on ROOTDEV and then on SECONDARYDEV (sched/proc.c:458-459), so after *)
(* boot log.dev is SECONDARYDEV, and every file-system call of either      *)
(* device goes through it.                                                 *)
(*                                                                         *)
(* One action is one critical section of log.lock, one bwrite() of a block *)
(* (the disk writes a 512-byte sector entirely or not at all), or one      *)
(* modification of a buffer under its sleep lock.  A crash may fall        *)
(* between any two of them, recovery included.                             *)
(***************************************************************************)
EXTENDS Naturals, Sequences, FiniteSets

CONSTANTS Proc,          \* processes that make file-system calls
          Block,         \* home block numbers, the same on both devices
          Val,           \* contents of a block
          ROOTDEV, SECONDARYDEV,
          LOGSIZE,       \* param.h: length of logheader.block[]
          MAXOPBLOCKS,   \* param.h: blocks reserved for one call
          nlog,          \* superblock: blocks of the on-disk log, header included
          OpBlocks       \* distinct blocks the busiest call really writes

Dev == {ROOTDEV, SECONDARYDEV}

ASSUME LogAssumption ==
  /\ IsFiniteSet(Proc)
  /\ IsFiniteSet(Block)
  /\ ROOTDEV # SECONDARYDEV
  /\ LOGSIZE \in Nat
  /\ MAXOPBLOCKS \in Nat
  /\ nlog \in Nat \ {0}
  /\ OpBlocks \in Nat
  /\ OpBlocks <= MAXOPBLOCKS

VARIABLES
  \* the disks, which survive a crash
  home,         \* home[d][b]: block b of device d
  hdr,          \* hdr[d]: the block numbers in d's log header (its first n)
  slot,         \* slot[d][i]: i-th data block of d's log
  \* the buffer cache
  data,         \* data[d][b]: contents a bread(d, b) returns
  dirty,        \* buffers <<d, b>> with B_DIRTY
  \* struct log
  outstanding, committing, dev,
  lh,           \* lh.block[0 .. lh.n-1]
  \* control
  phase,        \* where commit() or recover_from_log() is
  tail,         \* its loop counter
  pc,           \* where each process is in its call
  wrote,        \* wrote[p]: buffers p's call has logged
  pending,      \* pending[p]: buffer p holds locked inside log_write()
  waiters,      \* sleepqueue restricted to channel &log
  panicked,     \* log.c called panic()
  stuck         \* wakeup1() called panic(), from end_op()

disk  == <<home, hdr, slot>>
cache == <<data, dirty>>
ops   == <<pc, wrote, pending>>
vars  == <<disk, cache, outstanding, committing, dev, lh, phase, tail, ops,
           waiters, panicked, stuck>>

Buf  == Dev \X Block
Slots == 1 .. nlog - 1
Phase == {"read_head", "install", "clear", "idle", "write_log", "write_head",
          "finish"}
PC == {"out", "begin", "asleep", "op", "log_write", "commit"}

Logged == {lh[i] : i \in 1 .. Len(lh)}

\* Recovery is running: initlog() of either device has not returned.
Booting == phase # "idle" /\ ~committing

-----------------------------------------------------------------------------
(* At boot the cache is empty, no call is in progress, and initlog(ROOTDEV) *)
(* is about to run.  mkfs has filled the disks with zero blocks (some v     *)
(* here), so both logs are empty.                                           *)
Init ==
  /\ \E v \in Val : /\ home = [d \in Dev |-> [b \in Block |-> v]]
                    /\ slot = [d \in Dev |-> [i \in Slots |-> v]]
  /\ hdr = [d \in Dev |-> <<>>]
  /\ data = home
  /\ dirty = {}
  /\ outstanding = 0
  /\ committing = FALSE
  /\ dev = ROOTDEV
  /\ lh = <<>>
  /\ phase = "read_head"
  /\ tail = 0
  /\ pc = [p \in Proc |-> "out"]
  /\ wrote = [p \in Proc |-> {}]
  /\ pending = [p \in Proc |-> <<>>]
  /\ waiters = <<>>
  /\ panicked = FALSE
  /\ stuck = FALSE

(* A crash, or a reset after a panic, keeps the disks; the machine boots    *)
(* again.                                                                   *)
Crash ==
  /\ data' = home
  /\ dirty' = {}
  /\ outstanding' = 0
  /\ committing' = FALSE
  /\ dev' = ROOTDEV
  /\ lh' = <<>>
  /\ phase' = "read_head"
  /\ tail' = 0
  /\ pc' = [p \in Proc |-> "out"]
  /\ wrote' = [p \in Proc |-> {}]
  /\ pending' = [p \in Proc |-> <<>>]
  /\ waiters' = <<>>
  /\ panicked' = FALSE
  /\ stuck' = FALSE
  /\ UNCHANGED disk

-----------------------------------------------------------------------------

(* wakeup(&log): only the first sleeper in queue order is made runnable.    *)
(* wakeup1() moves it to readyqueue and then follows its next pointer       *)
(* there.  A process that an earlier wakeup moved and that has not run yet  *)
(* still waits on &log: if it stands behind the new one, wakeup1() panics   *)
(* ("stuck proc").  The order in readyqueue is the scheduler's (Sched.tla), *)
(* so both outcomes are possible here.                                      *)
Wakeup(awake) ==
  IF waiters = <<>>
  THEN /\ pc' = awake
       /\ UNCHANGED <<waiters, stuck>>
  ELSE /\ pc' = [awake EXCEPT ![Head(waiters)] = "begin"]
       /\ waiters' = Tail(waiters)
       /\ stuck' \in {FALSE, \E q \in Proc : pc[q] = "begin"}

-----------------------------------------------------------------------------
(* initlog() and recover_from_log(), run for ROOTDEV then SECONDARYDEV.     *)
ReadHead ==
  /\ phase = "read_head"
  /\ lh' = hdr[dev]
  /\ phase' = "install"
  /\ tail' = 0
  /\ UNCHANGED <<disk, cache, outstanding, committing, dev, ops, waiters, panicked, stuck>>

(* install_trans(): one iteration, or the exit of the loop.  It serves      *)
(* recovery and commit().                                                   *)
InstallBlock ==
  /\ phase = "install"
  /\ tail < Len(lh)
  /\ LET b == lh[tail + 1]
         v == slot[dev][tail + 1]
     IN /\ home' = [home EXCEPT ![dev][b] = v]
        /\ data' = [data EXCEPT ![dev][b] = v]
        /\ dirty' = dirty \ {<<dev, b>>}
  /\ tail' = tail + 1
  /\ UNCHANGED <<hdr, slot, outstanding, committing, dev, lh, phase, ops, waiters, panicked, stuck>>

InstallDone ==
  /\ phase = "install"
  /\ tail = Len(lh)
  /\ phase' = "clear"
  /\ UNCHANGED <<disk, cache, outstanding, committing, dev, lh, tail, ops, waiters, panicked, stuck>>

\* log.lh.n = 0; write_head()
ClearHead ==
  /\ phase = "clear"
  /\ lh' = <<>>
  /\ hdr' = [hdr EXCEPT ![dev] = <<>>]
  /\ IF committing
     THEN phase' = "finish" /\ UNCHANGED dev
     ELSE IF dev = ROOTDEV
          THEN phase' = "read_head" /\ dev' = SECONDARYDEV
          ELSE phase' = "idle" /\ UNCHANGED dev
  /\ UNCHANGED <<home, slot, cache, outstanding, committing, tail, ops, waiters, panicked, stuck>>

-----------------------------------------------------------------------------
(* begin_op(): one pass of its loop.                                        *)
NoRoomNow == Len(lh) + outstanding * MAXOPBLOCKS > LOGSIZE  \* mutant: this call left out

NoRoom == Len(lh) + (outstanding + 1) * MAXOPBLOCKS > LOGSIZE

MustWait == committing \/ NoRoom

BeginOp(p) ==
  /\ ~Booting
  /\ pc[p] \in {"out", "begin"}
  /\ IF MustWait
     THEN /\ pc' = [pc EXCEPT ![p] = "asleep"]
          /\ waiters' = Append(waiters, p)
          /\ UNCHANGED <<outstanding, wrote>>
     ELSE /\ outstanding' = outstanding + 1
          /\ pc' = [pc EXCEPT ![p] = "op"]
          /\ wrote' = [wrote EXCEPT ![p] = {}]
          /\ UNCHANGED waiters
  /\ UNCHANGED <<disk, cache, committing, dev, lh, phase, tail, pending, panicked, stuck>>

(* A call modifies a locked buffer and enters log_write(), whose two tests  *)
(* read struct log without the lock.                                        *)
LogWriteTest(p, d, b, v) ==
  /\ pc[p] = "op"
  /\ Cardinality(wrote[p] \cup {<<d, b>>}) <= OpBlocks
  /\ \A q \in Proc : pending[q] # <<d, b>>
  /\ data' = [data EXCEPT ![d][b] = v]
  /\ IF Len(lh) >= LOGSIZE \/ Len(lh) >= nlog - 1 \/ outstanding < 1
     THEN /\ panicked' = TRUE
          /\ UNCHANGED ops
     ELSE /\ pc' = [pc EXCEPT ![p] = "log_write"]
          /\ pending' = [pending EXCEPT ![p] = <<d, b>>]
          /\ UNCHANGED <<panicked, wrote>>
  /\ UNCHANGED <<disk, dirty, outstanding, committing, dev, lh, phase, tail, waiters, stuck>>

(* Absorption compares block numbers only, whatever device they are on.     *)
Absorb(b) == IF b \in Logged THEN lh ELSE Append(lh, b)

\* The rest of log_write().
LogWriteRecord(p) ==
  /\ pc[p] = "log_write"
  /\ lh' = Absorb(pending[p][2])
  /\ dirty' = dirty \cup {pending[p]}
  /\ pc' = [pc EXCEPT ![p] = "op"]
  /\ wrote' = [wrote EXCEPT ![p] = @ \cup {pending[p]}]
  /\ pending' = [pending EXCEPT ![p] = <<>>]
  /\ UNCHANGED <<disk, data, outstanding, committing, dev, phase, tail, waiters, panicked, stuck>>

(* bget() recycles a buffer that nobody holds and that is not B_DIRTY; the  *)
(* next bread() reads it from the disk again.                               *)
Recycle(d, b) ==
  /\ <<d, b>> \notin dirty
  /\ \A q \in Proc : pending[q] # <<d, b>>
  /\ data' = [data EXCEPT ![d][b] = home[d][b]]
  /\ UNCHANGED <<disk, dirty, outstanding, committing, dev, lh, phase, tail, ops,
                 waiters, panicked, stuck>>

(* end_op() up to the release of log.lock; commit() follows when it was the *)
(* last outstanding call.                                                   *)
EndOp(p) ==
  /\ pc[p] = "op"
  /\ outstanding' = outstanding - 1
  /\ panicked' = committing
  /\ IF committing
     THEN UNCHANGED <<committing, phase, tail, pc, wrote, waiters, stuck>>
     ELSE /\ wrote' = [wrote EXCEPT ![p] = {}]
          /\ \/ /\ outstanding = 1
                /\ committing' = TRUE
                /\ phase' = IF lh = <<>> THEN "finish" ELSE "write_log"
                /\ tail' = 0
                /\ pc' = [pc EXCEPT ![p] = "commit"]
                /\ UNCHANGED <<waiters, stuck>>
             \/ /\ outstanding # 1
                /\ Wakeup([pc EXCEPT ![p] = "out"])
                /\ UNCHANGED <<committing, phase, tail>>
  /\ UNCHANGED <<disk, cache, dev, lh, pending>>

-----------------------------------------------------------------------------
(* commit(): write_log(), write_head(), install_trans(), clear.             *)
WriteLogBlock ==
  /\ phase = "write_log"
  /\ tail < Len(lh)
  /\ slot' = [slot EXCEPT ![dev][tail + 1] = data[dev][lh[tail + 1]]]
  /\ tail' = tail + 1
  /\ UNCHANGED <<home, hdr, cache, outstanding, committing, dev, lh, phase, ops, waiters, panicked, stuck>>

\* Mutant: the loop stops one block early.
WriteLogDoneEarly ==
  /\ phase = "write_log"
  /\ tail = Len(lh) - 1
  /\ phase' = "write_head"
  /\ UNCHANGED <<disk, cache, outstanding, committing, dev, lh, tail, ops, waiters, panicked, stuck>>

\* Mutant: write_head() and install_trans() are left out.
WriteLogDoneOnly ==
  /\ phase = "write_log"
  /\ tail = Len(lh)
  /\ phase' = "clear"
  /\ UNCHANGED <<disk, cache, outstanding, committing, dev, lh, tail, ops, waiters, panicked, stuck>>

WriteLogDone ==
  /\ phase = "write_log"
  /\ tail = Len(lh)
  /\ phase' = "write_head"
  /\ UNCHANGED <<disk, cache, outstanding, committing, dev, lh, tail, ops, waiters, panicked, stuck>>

\* The real commit point.
WriteHead ==
  /\ phase = "write_head"
  /\ hdr' = [hdr EXCEPT ![dev] = lh]
  /\ phase' = "install"
  /\ tail' = 0
  /\ UNCHANGED <<home, slot, cache, outstanding, committing, dev, lh, ops, waiters, panicked, stuck>>

\* Mutant: the wakeup() after the commit is left out.
FinishSilent(p) ==
  /\ phase = "finish"
  /\ pc[p] = "commit"
  /\ committing' = FALSE
  /\ phase' = "idle"
  /\ pc' = [pc EXCEPT ![p] = "out"]
  /\ UNCHANGED <<disk, cache, outstanding, dev, lh, tail, wrote, pending, waiters,
                 panicked, stuck>>

(* The last critical section of end_op().                                   *)
Finish(p) ==
  /\ phase = "finish"
  /\ pc[p] = "commit"
  /\ committing' = FALSE
  /\ phase' = "idle"
  /\ Wakeup([pc EXCEPT ![p] = "out"])
  /\ UNCHANGED <<disk, cache, outstanding, dev, lh, tail, wrote, pending, panicked>>

-----------------------------------------------------------------------------
Recover == ReadHead \/ InstallBlock \/ InstallDone \/ ClearHead

CommitStep == WriteLogBlock \/ WriteLogDone \/ WriteHead

Next ==
  \/ Crash
  \/ /\ ~panicked /\ ~stuck
     /\ \/ Recover
        \/ CommitStep
        \/ \E p \in Proc :
             \/ BeginOp(p)
             \/ \E d \in Dev, b \in Block, v \in Val : LogWriteTest(p, d, b, v)
             \/ LogWriteRecord(p)
             \/ EndOp(p)
             \/ Finish(p)
        \/ \E d \in Dev, b \in Block : Recycle(d, b)

Spec == Init /\ [][Next]_vars

-----------------------------------------------------------------------------
InOp == {p \in Proc : pc[p] \in {"op", "log_write"}}

\* What recovery makes of home blocks m, a header h and log blocks s.
Replay(h, s, m) ==
  [b \in Block |->
     IF \E i \in 1 .. Len(h) : h[i] = b
     THEN s[CHOOSE i \in 1 .. Len(h) : h[i] = b]
     ELSE m[b]]

\* What device d would hold once recovery had run.
Recovered(d) == Replay(hdr[d], slot[d], home[d])

\* Every variable has its type; log.outstanding never falls below zero.
TypeOK ==
  /\ home \in [Dev -> [Block -> Val]]
  /\ hdr \in [Dev -> Seq(Block)]
  /\ slot \in [Dev -> [Slots -> Val]]
  /\ data \in [Dev -> [Block -> Val]]
  /\ dirty \subseteq Buf
  /\ outstanding \in Nat
  /\ committing \in BOOLEAN
  /\ dev \in Dev
  /\ lh \in Seq(Block)
  /\ phase \in Phase
  /\ tail \in Nat
  /\ pc \in [Proc -> PC]
  /\ wrote \in [Proc -> SUBSET Buf]
  /\ pending \in [Proc -> Buf \cup {<<>>}]
  /\ waiters \in Seq(Proc)
  /\ panicked \in BOOLEAN
  /\ stuck \in BOOLEAN

(* log.c:11-15: a commit runs only while no file-system call is in progress *)
(* (begin_op() sleeps while log.committing, end_op() commits at zero).      *)
CommitQuiescent == committing => outstanding = 0 /\ InOp = {}

(* What the reservation needs of the constants: a call writes fewer blocks  *)
(* than are reserved for it, one call fits, and the on-disk log is long     *)
(* enough.  With LOGSIZE = 30, MAXOPBLOCKS = 10 and the nlog = 30 of mkfs,  *)
(* a call may write 8 blocks.                                               *)
RoomEnough ==
  /\ OpBlocks < MAXOPBLOCKS
  /\ MAXOPBLOCKS <= LOGSIZE
  /\ LOGSIZE + OpBlocks + 1 < nlog + MAXOPBLOCKS

(* The reservation of begin_op() is enough: the in-memory header never      *)
(* outgrows the on-disk log, and no call that was let in can hit one of     *)
(* log.c's panics, although log_write() tests the length without the lock.  *)
LogFits == ~panicked /\ Len(lh) <= nlog - 1

(* Every call that has returned while nobody else is in progress is on the  *)
(* disk for good: what a crash would leave is what the cache shows.         *)
QuiescentDurable ==
  phase = "idle" /\ outstanding = 0 => data[SECONDARYDEV] = Recovered(SECONDARYDEV)

(* The same for ROOTDEV, whose calls go through the same log.               *)
RootDurable ==
  phase = "idle" /\ outstanding = 0 => data[ROOTDEV] = Recovered(ROOTDEV)

(* A process asleep in begin_op() always has somebody left to wake it: a    *)
(* commit that is running, a process inside a call that has yet to reach    *)
(* its end_op(), or a process woken before it that will make its call.      *)
(* wakeup() wakes one sleeper only, so a missing one would strand the rest. *)
NoStrandedWaiter ==
  waiters # <<>> => \/ committing
                    \/ InOp # {}
                    \/ \E p \in Proc : pc[p] = "begin"

(* Refinement: on the log's device, commit() and recovery implement atomic  *)
(* group commit with crashes.                                               *)
AD == INSTANCE AtomicDisk
        WITH durable  <- Recovered(SECONDARYDEV),
             volatile <- IF Booting THEN Recovered(SECONDARYDEV) ELSE data[SECONDARYDEV],
             active   <- InOp

GroupCommitAtomic == AD!Spec
=============================================================================
