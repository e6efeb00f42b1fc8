-------------------------------- MODULE Mkfs --------------------------------
(***************************************************************************)
(* mkfs builds the file system image the kernel starts from (user/mkfs.c): *)
(* the root directory, then one file per argument, each read in pieces and *)
(* appended, then the bitmap. Sizes count directory entries, of which a    *)
(* block holds BSIZE; the k-th unit of file i is the value <<i, k>>, and   *)
(* the entry of file i in the root directory is <<ROOTINO, i>>.            *)
(***************************************************************************)
EXTENDS Integers, Sequences

CONSTANTS FSSIZE, BSIZE, IPB, NLOG, NINODES, NDIRECT, NINDIRECT,
          MaxFiles,   \* bound: files on the command line
          MaxSize     \* bound: units of a file

ROOTINO == 1
Block == 0 .. FSSIZE - 1
Inum == 0 .. NINODES
MAXFILE == NDIRECT + NINDIRECT
Empty == [k \in 0 .. BSIZE - 1 |-> <<0, 0>>]

\* Disk layout: boot, super block, log, inodes, bitmap, data
ninodeblocks == NINODES \div IPB + 1
nbitmap == FSSIZE \div (BSIZE * 8) + 1
inodestart == 2 + NLOG
bmapstart == 2 + NLOG + ninodeblocks
nmeta == 2 + NLOG + ninodeblocks + nbitmap
IBLOCK(i) == i \div IPB + inodestart

VARIABLES dinode,     \* the inodes on disk: type, nlink, size, addrs
          data,       \* the data blocks
          ind,        \* the indirect blocks
          bitmap,     \* the blocks marked in use
          freeinode, freeblock,
          file,       \* the file being copied, 0 between files
          done

vars == <<dinode, data, ind, bitmap, freeinode, freeblock, file, done>>

NoInode == [type |-> "free", nlink |-> 0, size |-> 0, addrs |-> [k \in 0 .. NDIRECT |-> 0]]

Init == /\ dinode = [i \in Inum |-> NoInode]
        /\ data = [b \in Block |-> Empty]
        /\ ind = [b \in Block |-> [k \in 0 .. NINDIRECT - 1 |-> 0]]
        /\ bitmap = {}
        /\ freeinode = 1 /\ freeblock = nmeta
        /\ file = 0 /\ done = FALSE

-----------------------------------------------------------------------------
(* iappend(): the units of p go one by one behind the end of the file, and  *)
(* a block that is missing is the next free one. The image under            *)
(* construction is a record of the four variables that change.              *)
Image == [din |-> dinode, data |-> data, ind |-> ind, free |-> freeblock]

\* mutant: the indirect block is taken without moving freeblock on
WithIndirectShared(g, i) ==
  IF g.din[i].addrs[NDIRECT] # 0 THEN g
  ELSE [g EXCEPT !.din[i].addrs[NDIRECT] = g.free]
WithIndirect(g, i) ==
  IF g.din[i].addrs[NDIRECT] # 0 THEN g
  ELSE [g EXCEPT !.din[i].addrs[NDIRECT] = g.free, !.free = @ + 1]

WithBlock(g, i, fbn) ==
  IF fbn < NDIRECT
  THEN IF g.din[i].addrs[fbn] # 0 THEN g
       ELSE [g EXCEPT !.din[i].addrs[fbn] = g.free, !.free = @ + 1]
  ELSE LET h == WithIndirect(g, i)
           t == h.din[i].addrs[NDIRECT]
       IN IF h.ind[t][fbn - NDIRECT] # 0 THEN h
          ELSE [h EXCEPT !.ind[t][fbn - NDIRECT] = h.free, !.free = @ + 1]

AddrIn(g, i, fbn) ==
  IF fbn < NDIRECT THEN g.din[i].addrs[fbn] ELSE g.ind[g.din[i].addrs[NDIRECT]][fbn - NDIRECT]

RECURSIVE iappend(_, _, _)
iappend(g, i, p) ==
  IF p = <<>> THEN g
  ELSE LET off == g.din[i].size
           h == WithBlock(g, i, off \div BSIZE)
       IN iappend([h EXCEPT !.data[AddrIn(h, i, off \div BSIZE)][off % BSIZE] = Head(p),
                            !.din[i].size = off + 1], i, Tail(p))

ialloc(g, type) == [g EXCEPT !.din[freeinode] = [NoInode EXCEPT !.type = type, !.nlink = 1]]

Store(g) == /\ dinode' = g.din /\ data' = g.data /\ ind' = g.ind /\ freeblock' = g.free

\* The root directory with "." and ".."
MakeRoot ==
  /\ freeinode = 1
  /\ Store(iappend(ialloc(Image, "dir"), ROOTINO, <<<<ROOTINO, ROOTINO>>, <<ROOTINO, ROOTINO>>>>))
  /\ freeinode' = 2
  /\ UNCHANGED <<bitmap, file, done>>

\* The next argument: its inode, and its entry in the root directory
AddFile ==
  /\ freeinode > 1 /\ file = 0 /\ ~done /\ freeinode < ROOTINO + 1 + MaxFiles
  /\ Store(iappend(ialloc(Image, "file"), ROOTINO, <<<<ROOTINO, freeinode>>>>))
  /\ file' = freeinode /\ freeinode' = freeinode + 1
  /\ UNCHANGED <<bitmap, done>>

\* A piece that read() returned, of up to a block
Copy ==
  /\ file # 0
  /\ \E cc \in 1 .. BSIZE :
       LET n == dinode[file].size
       IN /\ n + cc <= MaxSize /\ n + cc <= MAXFILE * BSIZE
          /\ Store(iappend(Image, file, [k \in 1 .. cc |-> <<file, n + k - 1>>]))
  /\ UNCHANGED <<bitmap, freeinode, file, done>>

CloseFile == file # 0 /\ file' = 0 /\ UNCHANGED <<dinode, data, ind, bitmap, freeinode, freeblock, done>>

\* mutant: the bitmap leaves out the last block
balloc1(used) == 0 .. used - 2
balloc(used) == 0 .. used - 1

Rounded(off) == (off \div BSIZE + 1) * BSIZE

\* Fix the root directory's size, then write the bitmap
Finish ==
  /\ freeinode > 1 /\ file = 0 /\ ~done
  /\ dinode' = [dinode EXCEPT ![ROOTINO].size = Rounded(@)]
  /\ bitmap' = balloc(freeblock)
  /\ done' = TRUE
  /\ UNCHANGED <<data, ind, freeinode, freeblock, file>>

Next == MakeRoot \/ AddFile \/ Copy \/ CloseFile \/ Finish
Spec == Init /\ [][Next]_vars

-----------------------------------------------------------------------------
(* Properties.                                                              *)

Used == {i \in Inum : dinode[i].type # "free"}
Held(i) == {<<k>> : k \in {j \in 0 .. NDIRECT : dinode[i].addrs[j] # 0}}
             \cup {<<NDIRECT, j>> : j \in {k \in 0 .. NINDIRECT - 1 :
                     dinode[i].addrs[NDIRECT] # 0 /\ ind[dinode[i].addrs[NDIRECT]][k] # 0}}
At(i, h) == IF Len(h) = 1 THEN dinode[i].addrs[h[1]] ELSE ind[dinode[i].addrs[NDIRECT]][h[2]]

(* Every block from the end of the metadata to freeblock is held by exactly *)
(* one pointer of one inode, and no inode block reaches into the bitmap;    *)
(* the finished bitmap marks those blocks and the metadata, so that the     *)
(* kernel's balloc() hands out none of them (mkfs.c:237-251, 268-286).      *)
BlocksAccounted ==
  /\ \A b \in nmeta .. freeblock - 1 :
       \E i \in Used : \E h \in Held(i) :
         /\ At(i, h) = b
         /\ \A j \in Used : \A g \in Held(j) : At(j, g) = b => i = j /\ h = g
  /\ \A i \in Used : \A h \in Held(i) : At(i, h) \in nmeta .. freeblock - 1
  /\ \A i \in Used : IBLOCK(i) < bmapstart
  /\ done => bitmap = 0 .. nmeta - 1 \cup {At(i, h) : <<i, h>> \in {<<j, g>> \in Used \X UNION {Held(k) : k \in Used} : g \in Held(j)}}

(* What the kernel reads at offset k of a file is the k-th unit mkfs read   *)
(* from it, across the pieces and the switch to the indirect block, and the *)
(* root's entries are "." and ".." and the files in order (mkfs.c:255-297). *)
FilesWhole ==
  \A i \in Used \ {ROOTINO} : \A k \in 0 .. dinode[i].size - 1 :
    /\ data[AddrIn(Image, i, k \div BSIZE)][k % BSIZE] = <<i, k>>
    /\ data[AddrIn(Image, ROOTINO, i \div BSIZE)][i % BSIZE] = <<ROOTINO, i>>

(* The finished root directory's size covers every entry, and every block   *)
(* below it is allocated, except that entries which fill their blocks       *)
(* exactly gain a block in the size that they do not hold (mkfs.c:158-163). *)
RootCovered ==
  done => /\ freeinode <= dinode[ROOTINO].size
          /\ \A fbn \in 0 .. dinode[ROOTINO].size \div BSIZE - 1 :
               \/ (IF fbn < NDIRECT THEN <<fbn>> ELSE <<NDIRECT, fbn - NDIRECT>>) \in Held(ROOTINO)
               \/ fbn = freeinode \div BSIZE /\ freeinode % BSIZE = 0
=============================================================================
