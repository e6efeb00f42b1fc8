------------------------------ MODULE FileData ------------------------------
(***************************************************************************)
(* The contents of files (kernel/fs/fs.c: balloc, bfree, bmap, itrunc,     *)
(* readi, writei, iupdate) under read() and write() (kernel/fs/file.c).    *)
(*                                                                         *)
(* A block is BSIZE cells; a cell holds a byte or, in an indirect block, a *)
(* block number.  One action is one balloc(), one bfree(), or the copy of  *)
(* one block, with the inode's lock held; processes work on different      *)
(* inodes between these steps.  Transactions are in Log: here `logged` is  *)
(* what the one in progress has given to log_write().                      *)
(***************************************************************************)
EXTENDS Naturals, Sequences, FiniteSetsExt

CONSTANTS Proc, Inode, File, Byte,
          NBLOCKS,       \* data blocks of the device
          BSIZE, BPB,    \* cells of a block, bits of a block of the bitmap
          NDIRECT,
          MAXOPBLOCKS,   \* what begin_op() reserves
          Opened,        \* Opened[f]: the inode f is open on at the start, or 0
          Counts,        \* bound: the n of read() and write()
          MaxCalls       \* bound: calls in a behaviour

NINDIRECT == BSIZE
MAXFILE   == NDIRECT + NINDIRECT
Block     == 1 .. NBLOCKS
NOBODY    == "nobody"

ASSUME FileDataAssumption ==
  /\ {NBLOCKS, BSIZE, BPB, NDIRECT, MAXOPBLOCKS, MaxCalls} \subseteq Nat \ {0}
  /\ MAXOPBLOCKS >= 6
  /\ Opened \in [File -> Inode \cup {0}]
  /\ 0 \notin Inode /\ NOBODY \notin Proc
  /\ Counts \subseteq Nat /\ Byte \subseteq Nat

VARIABLES
  bitmap,  \* the blocks marked in use
  block,   \* block[b]: the cells of b
  inode,   \* the cached inode: [size, addrs]
  dinode,  \* the inode on the disk
  lock,    \* lock[i]: the process that holds ip->lock
  file,    \* file[f]: [ip |-> an inode or 0, off]
  pc, t,   \* t[p]: locals of filewrite(), writei() and itrunc()
  res,     \* res[p]: the bytes of p's last read()
  logged,  \* logged[p]: the blocks log_write() got in p's transaction
  before,  \* history: what inode i held when its lock was taken
  calls, fault

disk == <<bitmap, block, inode, dinode>>
vars == <<disk, lock, file, pc, t, res, logged, before, calls, fault>>

NoData == [size |-> 0, addrs |-> [k \in 0 .. NDIRECT |-> 0]]
Idle   == [f |-> 0, ip |-> 0, byte |-> 0, n |-> 0, i |-> 0, n1 |-> 0, tot |-> 0]
Zeroes == [c \in 0 .. BSIZE - 1 |-> 0]

Init ==
  /\ bitmap = {}
  /\ block = [b \in Block |-> Zeroes]
  /\ inode = [i \in Inode |-> NoData]
  /\ dinode = inode
  /\ lock = [i \in Inode |-> NOBODY]
  /\ file = [f \in File |-> [ip |-> Opened[f], off |-> 0]]
  /\ pc = [p \in Proc |-> "user"]
  /\ t = [p \in Proc |-> Idle]
  /\ res = [p \in Proc |-> <<>>]
  /\ logged = [p \in Proc |-> {}]
  /\ before = [i \in Inode |-> <<>>]
  /\ calls = 0 /\ fault = "none"

At(p, l) == pc[p] = l /\ fault = "none"
Goto(p, l) == pc' = [pc EXCEPT ![p] = l]
Log(p, bs) == logged' = [logged EXCEPT ![p] = @ \cup bs]
Calls(p) == At(p, "user") /\ calls < MaxCalls /\ calls' = calls + 1

\* The blocks a transaction writes: a block, its block of the bitmap, an inode
Data(b) == [kind |-> "data", no |-> b]
Bits(b) == [kind |-> "bitmap", no |-> b \div BPB]
INode(i) == [kind |-> "inode", no |-> i]

-----------------------------------------------------------------------------
(* Blocks.                                                                  *)

\* balloc(): the first block not in use, zeroed
FreeBlocks == Block \ bitmap

\* bmap() of a block that exists: its address, or 0
Addr(ip, bn) ==
  IF bn < NDIRECT THEN ip.addrs[bn]
  ELSE IF ip.addrs[NDIRECT] = 0 THEN 0
  ELSE block[ip.addrs[NDIRECT]][bn - NDIRECT]

\* The bytes of an inode
Contents(ip) == [k \in 1 .. ip.size |-> block[Addr(ip, (k - 1) \div BSIZE)][(k - 1) % BSIZE]]

(* bmap()'s allocations: a direct block, the indirect block, or a block     *)
(* entered in it.                                                           *)
BmapStale(i, bn, b) ==                          \* mutant: balloc() without bzero()
  IF bn < NDIRECT
  THEN inode' = [inode EXCEPT ![i].addrs[bn] = b] /\ UNCHANGED block
  ELSE IF inode[i].addrs[NDIRECT] = 0
  THEN inode' = [inode EXCEPT ![i].addrs[NDIRECT] = b] /\ UNCHANGED block
  ELSE block' = [block EXCEPT ![inode[i].addrs[NDIRECT]][bn - NDIRECT] = b]
       /\ UNCHANGED inode

Bmap(i, bn, b) ==
  IF bn < NDIRECT
  THEN /\ inode' = [inode EXCEPT ![i].addrs[bn] = b]
       /\ block' = [block EXCEPT ![b] = Zeroes]
  ELSE IF inode[i].addrs[NDIRECT] = 0
  THEN /\ inode' = [inode EXCEPT ![i].addrs[NDIRECT] = b]
       /\ block' = [block EXCEPT ![b] = Zeroes]
  ELSE /\ block' = [block EXCEPT ![b] = Zeroes,
                                 ![inode[i].addrs[NDIRECT]][bn - NDIRECT] = b]
       /\ UNCHANGED inode

BmapLogs(i, bn, b) ==
  {Data(b), Bits(b)} \cup
  (IF bn >= NDIRECT /\ inode[i].addrs[NDIRECT] # 0 THEN {Data(inode[i].addrs[NDIRECT])} ELSE {})
-----------------------------------------------------------------------------
(* Open files.                                                              *)
Open(p, f, i) ==
  /\ Calls(p)
  /\ file[f].ip = 0
  /\ ~\E q \in Proc : t[q].ip = i                    \* not being freed
  /\ file' = [file EXCEPT ![f] = [ip |-> i, off |-> 0]]
  /\ UNCHANGED <<disk, lock, pc, t, res, logged, before, fault>>

\* The last close(): no process is in a call on f.
Close(p, f) ==
  /\ Calls(p)
  /\ file[f].ip # 0 /\ \A q \in Proc : t[q].f # f
  /\ file' = [file EXCEPT ![f] = [ip |-> 0, off |-> 0]]
  /\ UNCHANGED <<disk, lock, pc, t, res, logged, before, fault>>

(* fileread() with readi(), under ip->lock.                                 *)
Read(p, f, n) ==
  LET i == file[f].ip
      o == file[f].off
      e == Min({o + n, inode[i].size})
  IN /\ Calls(p)
     /\ i # 0 /\ lock[i] = NOBODY
     /\ IF o > inode[i].size THEN UNCHANGED <<res, file>>
        ELSE /\ res' = [res EXCEPT ![p] = SubSeq(Contents(inode[i]), o + 1, e)]
             /\ file' = [file EXCEPT ![f].off = e]
     /\ UNCHANGED <<disk, lock, pc, t, logged, before, fault>>

-----------------------------------------------------------------------------
(* filewrite(): a transaction for every chunk of at most MaxChunk bytes.    *)
MaxChunkMore == ((MAXOPBLOCKS - 1 - 1) \div 2) * BSIZE   \* mutant: no slop
MaxChunk == ((MAXOPBLOCKS - 1 - 1 - 2) \div 2) * BSIZE

Write(p, f, v, n) ==
  /\ Calls(p)
  /\ file[f].ip # 0 /\ n > 0
  /\ Goto(p, "chunk")
  /\ t' = [t EXCEPT ![p] = [Idle EXCEPT !.f = f, !.byte = v, !.n = n]]
  /\ UNCHANGED <<disk, lock, file, res, logged, before, fault>>

\* begin_op(), ilock() and the tests of writei()
WriteStart(p) ==
  LET f  == t[p].f
      i  == file[f].ip
      n1 == Min({t[p].n - t[p].i, MaxChunk})
  IN /\ At(p, "chunk")
     /\ lock[i] = NOBODY
     /\ \/ /\ file[f].off > inode[i].size \/ file[f].off + n1 > MAXFILE * BSIZE
           /\ Goto(p, "user")
           /\ t' = [t EXCEPT ![p] = Idle]
           /\ UNCHANGED <<lock, logged, before>>
        \/ /\ file[f].off <= inode[i].size /\ file[f].off + n1 <= MAXFILE * BSIZE
           /\ lock' = [lock EXCEPT ![i] = p]
           /\ before' = [before EXCEPT ![i] = Contents(inode[i])]
           /\ logged' = [logged EXCEPT ![p] = {}]
           /\ t' = [t EXCEPT ![p].n1 = n1, ![p].tot = 0]
           /\ Goto(p, "writei")
     /\ UNCHANGED <<disk, file, res, calls, fault>>

Off(p) == file[t[p].f].off + t[p].tot

\* A balloc() of bmap() in writei()
WriteAlloc(p) ==
  LET i  == file[t[p].f].ip
      bn == Off(p) \div BSIZE
  IN /\ At(p, "writei") /\ t[p].tot < t[p].n1
     /\ Addr(inode[i], bn) = 0
     /\ IF FreeBlocks = {}
        THEN /\ fault' = "balloc: out of blocks"
             /\ UNCHANGED <<disk, logged>>
        ELSE LET b == Min(FreeBlocks)
             IN /\ bitmap' = bitmap \cup {b}
                /\ Bmap(i, bn, b)
                /\ Log(p, BmapLogs(i, bn, b))
                /\ UNCHANGED <<dinode, fault>>
     /\ UNCHANGED <<lock, file, pc, t, res, before, calls>>

CellsToEnd(c, m) == c .. BSIZE - 1               \* mutant: m cut at the block only
Cells(c, m) == c .. c + m - 1

\* memmove() and log_write() of one block
WriteCopy(p) ==
  LET i == file[t[p].f].ip
      b == Addr(inode[i], Off(p) \div BSIZE)
      c == Off(p) % BSIZE
      m == Min({t[p].n1 - t[p].tot, BSIZE - c})
  IN /\ At(p, "writei") /\ t[p].tot < t[p].n1
     /\ b # 0
     /\ block' = [block EXCEPT ![b] = [k \in DOMAIN @ |->
                    IF k \in Cells(c, m) THEN t[p].byte ELSE @[k]]]
     /\ Log(p, {Data(b)})
     /\ t' = [t EXCEPT ![p].tot = @ + m]
     /\ UNCHANGED <<bitmap, inode, dinode, lock, file, pc, res, before, calls, fault>>

(* The end of writei(): the size, iupdate(); f->off, iunlock(), end_op().   *)
Grown(i, off) == [inode[i] EXCEPT !.size = IF off > @ THEN off ELSE @]

Saved(i, ip) == IF ip.size > inode[i].size THEN ip ELSE dinode[i]

WriteEnd(p) ==
  LET i == file[t[p].f].ip
      ip == Grown(i, Off(p))
      i1 == t[p].i + t[p].n1
  IN /\ At(p, "writei") /\ t[p].tot = t[p].n1
     /\ inode' = [inode EXCEPT ![i] = ip]
     /\ dinode' = [dinode EXCEPT ![i] = Saved(i, ip)]
     /\ Log(p, IF Off(p) > inode[i].size THEN {INode(i)} ELSE {})
     /\ file' = [file EXCEPT ![t[p].f].off = Off(p)]
     /\ lock' = [lock EXCEPT ![i] = NOBODY]
     /\ IF i1 < t[p].n THEN Goto(p, "chunk") /\ t' = [t EXCEPT ![p].i = i1]
                       ELSE Goto(p, "user") /\ t' = [t EXCEPT ![p] = Idle]
     /\ UNCHANGED <<bitmap, block, res, before, calls, fault>>

-----------------------------------------------------------------------------
(* itrunc(), from iput() of an inode without links and references.          *)
Itrunc(p, i) ==
  /\ Calls(p)
  /\ \A f \in File : file[f].ip # i
  /\ \A q \in Proc : t[q].ip # i
  /\ inode[i].size > 0
  /\ lock' = [lock EXCEPT ![i] = p]
  /\ before' = [before EXCEPT ![i] = Contents(inode[i])]
  /\ logged' = [logged EXCEPT ![p] = {}]
  /\ Goto(p, "itrunc")
  /\ t' = [t EXCEPT ![p] = [Idle EXCEPT !.ip = i]]
  /\ UNCHANGED <<disk, file, res, fault>>

\* The blocks in the order of the loops: direct, listed, the indirect block
Directs(i) == {k \in 0 .. NDIRECT - 1 : inode[i].addrs[k] # 0}
Listed(i) == IF inode[i].addrs[NDIRECT] = 0 THEN {}
             ELSE {j \in t[lock[i]].i .. NINDIRECT - 1 : block[inode[i].addrs[NDIRECT]][j] # 0}

(* The next bfree(): of a direct block, of one the indirect block lists,    *)
(* and of the indirect block.                                               *)
ItruncFree(p) ==
  LET i == t[p].ip
      Free(b) == /\ bitmap' = bitmap \ {b}
                 /\ fault' = IF b \in bitmap THEN "none" ELSE "freeing free block"
                 /\ Log(p, {Bits(b)})
  IN /\ At(p, "itrunc")
     /\ \/ /\ Directs(i) # {}
           /\ LET k == Min(Directs(i))
              IN /\ Free(inode[i].addrs[k])
                 /\ inode' = [inode EXCEPT ![i].addrs[k] = 0]
           /\ UNCHANGED t
        \/ /\ Directs(i) = {} /\ Listed(i) # {}
           /\ LET j == Min(Listed(i))
              IN /\ Free(block[inode[i].addrs[NDIRECT]][j])
                 /\ t' = [t EXCEPT ![p].i = j + 1]
           /\ UNCHANGED inode
        \/ /\ Directs(i) = {} /\ Listed(i) = {} /\ inode[i].addrs[NDIRECT] # 0
           /\ Free(inode[i].addrs[NDIRECT])
           /\ inode' = [inode EXCEPT ![i].addrs[NDIRECT] = 0]
           /\ UNCHANGED t
     /\ UNCHANGED <<block, dinode, lock, file, pc, res, before, calls>>

\* ip->size = 0 and iupdate()
ItruncEnd(p) ==
  LET i == t[p].ip
  IN /\ At(p, "itrunc")
     /\ Directs(i) = {} /\ inode[i].addrs[NDIRECT] = 0
     /\ inode' = [inode EXCEPT ![i].size = 0]
     /\ dinode' = [dinode EXCEPT ![i] = inode'[i]]
     /\ lock' = [lock EXCEPT ![i] = NOBODY]
     /\ Log(p, {INode(i)})
     /\ Goto(p, "user")
     /\ t' = [t EXCEPT ![p] = Idle]
     /\ UNCHANGED <<bitmap, block, file, res, before, calls, fault>>
-----------------------------------------------------------------------------
Next ==
  \E p \in Proc :
    \/ \E f \in File, i \in Inode : Open(p, f, i)
    \/ \E f \in File : Close(p, f)
    \/ \E f \in File, n \in Counts : Read(p, f, n)
    \/ \E f \in File, v \in Byte, n \in Counts : Write(p, f, v, n)
    \/ WriteStart(p) \/ WriteAlloc(p) \/ WriteCopy(p) \/ WriteEnd(p)
    \/ \E i \in Inode : Itrunc(p, i)
    \/ ItruncFree(p) \/ ItruncEnd(p)

Spec == Init /\ [][Next]_vars

-----------------------------------------------------------------------------
(* Properties.                                                              *)

\* Blocks, inodes, locks and files are of their kinds.
TypeOK ==
  /\ bitmap \subseteq Block
  /\ \A i \in Inode : inode[i].size \in 0 .. MAXFILE * BSIZE
                      /\ inode[i].addrs \in [0 .. NDIRECT -> Block \cup {0}]
  /\ lock \in [Inode -> Proc \cup {NOBODY}]
  /\ file \in [File -> [ip : Inode \cup {0}, off : 0 .. MAXFILE * BSIZE]]

(* The pointers of the inodes and of their indirect blocks.  While itrunc() *)
(* runs, the ones its loop over the indirect block has passed do not count. *)
Entries(i) ==
  IF inode[i].addrs[NDIRECT] = 0 THEN {}
  ELSE {j \in 0 .. NINDIRECT - 1 :
          /\ block[inode[i].addrs[NDIRECT]][j] # 0
          /\ lock[i] # NOBODY /\ pc[lock[i]] = "itrunc" => j >= t[lock[i]].i}
Pointers ==
  {<<i, "inode", k>> : i \in Inode, k \in 0 .. NDIRECT} \cup
  UNION {{<<i, "indirect", j>> : j \in Entries(i)} : i \in Inode}
Points(x) == IF x[2] = "inode" THEN inode[x[1]].addrs[x[3]]
             ELSE block[inode[x[1]].addrs[NDIRECT]][x[3]]

\* writei() leaves out iupdate() only where bmap() has allocated nothing
InodeSaved == \A i \in Inode : lock[i] = NOBODY => dinode[i] = inode[i]

(* A block in use has exactly one pointer to it, and a block with a pointer *)
(* is in use: none is lost, shared or freed while a file still has it       *)
(* ("freeing free block", fs.c:117).  An inode whose lock is free is on the *)
(* disk as it is in memory, so that holds after a reload too.               *)
BlocksOwnedOnce ==
  /\ TypeOK /\ InodeSaved
  /\ \A x, y \in Pointers : Points(x) # 0 /\ x # y => Points(x) # Points(y)
  /\ bitmap = {Points(x) : x \in Pointers} \ {0}
  /\ fault # "freeing free block"

(* "write a few blocks at a time to avoid exceeding the maximum log         *)
(* transaction size" (file.c:127-130): even when every block has a block of *)
(* the bitmap to itself, a chunk fits what begin_op() reserved.             *)
ChunkFitsLog == \A p \in Proc : pc[p] \in {"writei", "user"} =>
                                  Cardinality(logged[p]) <= MAXOPBLOCKS

(* Files are byte sequences: an inode holds what was written to it, from    *)
(* the time a chunk is complete.  While its lock is held it still counts    *)
(* with the contents it had before.                                         *)
Bytes == [i \in Inode |-> IF lock[i] = NOBODY THEN Contents(inode[i]) ELSE before[i]]
Abstract == INSTANCE ByteFile WITH data <- Bytes, MaxSize <- MAXFILE * BSIZE
ImplementsByteFile == Abstract!Spec
=============================================================================
