--------------------------- MODULE LogRefinement ---------------------------
(***************************************************************************)
(* Log implements atomic group commit with crashes (AtomicDisk) on the     *)
(* device the log is on, for any number of processes and blocks.           *)
(***************************************************************************)
EXTENDS LogProofs

\* Time limits of the provers.
USE SMTT(20), ZenonT(20)

-----------------------------------------------------------------------------
(* The inductive invariant for the contents of the disk the log is on.      *)
Sec == SECONDARYDEV

\* log.dev moves to SECONDARYDEV during boot and stays there.
DevOK == dev # Sec => Booting

HeadersOK ==
  /\ Distinct(lh)
  /\ \A d \in Dev : Distinct(hdr[d])
  /\ phase \in {"install", "clear"} => hdr[dev] = lh
  /\ phase \in {"idle", "write_log", "write_head", "finish"} => hdr[Sec] = <<>>
  /\ phase \in {"write_log", "write_head"} => committing
  /\ phase = "finish" => committing
  /\ phase = "read_head" => ~committing
  /\ phase \in {"clear", "write_head"} => tail = Len(lh)

\* What commit() has copied to the log so far, and from the log home.
CopyOK ==
  /\ phase \in {"write_log", "write_head"} =>
       \A i \in 1 .. Len(lh) : i <= tail => slot[Sec][i] = data[Sec][lh[i]]
  /\ phase \in {"install", "clear"} /\ committing =>
       \A i \in 1 .. Len(lh) : slot[Sec][i] = data[Sec][lh[i]]
  /\ phase \in {"install", "clear"} =>
       \A i \in 1 .. Len(lh) : i <= tail => home[dev][lh[i]] = slot[dev][i]

\* A cached block differs from the disk only while it is pinned.
CacheOK ==
  /\ Booting => data = home /\ dirty = {}
  /\ ~Booting => \A b \in Block :
       data[Sec][b] # home[Sec][b] =>
         <<Sec, b>> \in dirty \/ \E p \in Proc : pending[p] = <<Sec, b>>
  /\ \A b \in Block : <<Sec, b>> \in dirty =>
       \E i \in 1 .. Len(lh) : lh[i] = b /\ (phase = "install" => tail < i)
  /\ phase = "clear" => \A b \in Block : <<Sec, b>> \notin dirty

DiskInv ==
  /\ DevOK
  /\ HeadersOK
  /\ CopyOK
  /\ CacheOK

-----------------------------------------------------------------------------
(* What Replay computes.                                                    *)
LEMMA ReplayAt ==
  ASSUME NEW h \in Seq(Block), Distinct(h), NEW s, NEW m, NEW i \in 1 .. Len(h)
  PROVE  Replay(h, s, m)[h[i]] = s[i]
<1>1. h[i] \in Block
  OBVIOUS
<1>2. (CHOOSE j \in 1 .. Len(h) : h[j] = h[i]) = i
  BY DEF Distinct
<1> QED BY <1>1, <1>2 DEF Replay

LEMMA ReplayElse ==
  ASSUME NEW h, NEW s, NEW m, NEW b \in Block, \A i \in 1 .. Len(h) : h[i] # b
  PROVE  Replay(h, s, m)[b] = m[b]
BY DEF Replay

LEMMA ReplayIs ==
  ASSUME NEW h \in Seq(Block), Distinct(h), NEW s, NEW m, NEW f \in [Block -> Val],
         \A i \in 1 .. Len(h) : f[h[i]] = s[i],
         \A b \in Block : (\A i \in 1 .. Len(h) : h[i] # b) => f[b] = m[b]
  PROVE  Replay(h, s, m) = f
<1> SUFFICES ASSUME NEW b \in Block PROVE Replay(h, s, m)[b] = f[b]
  BY DEF Replay
<1>1. CASE \A i \in 1 .. Len(h) : h[i] # b
  BY <1>1, ReplayElse
<1>2. CASE \E i \in 1 .. Len(h) : h[i] = b
  <2>1. PICK i \in 1 .. Len(h) : h[i] = b
    BY <1>2
  <2>2. Replay(h, s, m)[h[i]] = s[i]
    BY ReplayAt
  <2> QED BY <2>1, <2>2
<1> QED BY <1>1, <1>2

LEMMA ReplayEmpty ==
  ASSUME NEW s, NEW m \in [Block -> Val]
  PROVE  Replay(<<>>, s, m) = m
BY DEF Replay

-----------------------------------------------------------------------------
(* DiskInv holds at boot and every step keeps it.                           *)
LEMMA DiskInit == Init => DiskInv
<1> SUFFICES ASSUME Init PROVE DiskInv
  OBVIOUS
<1>1. Distinct(lh) /\ \A d \in Dev : Distinct(hdr[d])
  BY DEF Init, Distinct
<1> QED BY <1>1 DEF Init, DiskInv, DevOK, HeadersOK, CopyOK, CacheOK, Booting

LEMMA CrashDisk == SpaceInv /\ DiskInv /\ Crash => DiskInv'
<1> SUFFICES ASSUME SpaceInv, DiskInv, Crash PROVE DiskInv'
  OBVIOUS
<1>1. Distinct(lh)' /\ \A d \in Dev : Distinct(hdr[d])'
  BY DEF Crash, Distinct, disk, DiskInv, HeadersOK
<1> QED BY <1>1 DEF Crash, disk, DiskInv, DevOK, HeadersOK, CopyOK, CacheOK, Booting

LEMMA ReadHeadDisk == SpaceInv /\ DiskInv /\ ReadHead => DiskInv'
<1> SUFFICES ASSUME SpaceInv, DiskInv, ReadHead PROVE DiskInv'
  OBVIOUS
<1>1. Booting /\ ~committing /\ Booting' /\ dirty' = {} /\ data' = home'
  BY DEF ReadHead, DiskInv, HeadersOK, CacheOK, Booting, cache, disk
<1>2. HeadersOK'
  BY <1>1 DEF ReadHead, DiskInv, HeadersOK, SpaceInv, TypeOK, disk, Booting
<1>3. CopyOK'
  BY <1>1 DEF ReadHead, CopyOK, Booting
<1> QED BY <1>1, <1>2, <1>3 DEF DiskInv, DevOK, CacheOK

LEMMA InstallBlockDisk == SpaceInv /\ RoomEnough /\ DiskInv /\ InstallBlock => DiskInv'
<1> SUFFICES ASSUME SpaceInv, RoomEnough, DiskInv, InstallBlock PROVE DiskInv'
  OBVIOUS
<1> DEFINE t == tail + 1
           b == lh[t]
           v == slot[dev][t]
<1>1. t \in 1 .. Len(lh) /\ b \in Block /\ tail \in Nat /\ Sec \in Dev /\ dev \in Dev
  BY DEF SpaceInv, TypeOK, InstallBlock, Sec, Dev
<1>2. /\ home' = [home EXCEPT ![dev][b] = v]
      /\ data' = [data EXCEPT ![dev][b] = v]
      /\ dirty' = dirty \ {<<dev, b>>}
      /\ tail' = tail + 1
      /\ phase = "install" /\ phase' = "install"
      /\ lh' = lh /\ hdr' = hdr /\ slot' = slot /\ dev' = dev
      /\ committing' = committing /\ pending' = pending
  BY DEF InstallBlock, ops
<1>3. Distinct(lh) /\ hdr[dev] = lh
  BY <1>2 DEF DiskInv, HeadersOK
<1>4. home \in [Dev -> [Block -> Val]] /\ data \in [Dev -> [Block -> Val]] /\ lh \in Seq(Block)
  BY DEF SpaceInv, TypeOK
<1>5. Booting' = Booting
  BY <1>2 DEF Booting
<1>6. /\ \A c \in Block : home'[dev][c] = IF c = b THEN v ELSE home[dev][c]
      /\ \A c \in Block : data'[dev][c] = IF c = b THEN v ELSE data[dev][c]
  <2> HIDE DEF b, v
  <2> QED BY <1>1, <1>2, <1>4
<1>7. \A i \in 1 .. Len(lh) : lh[i] \in Block /\ (lh[i] = b => i = t)
  BY <1>1, <1>3, <1>4 DEF Distinct
<1> HIDE DEF b, v
<1>8. DevOK'
  BY <1>2, <1>5 DEF DiskInv, DevOK
<1>9. HeadersOK'
  BY <1>2 DEF DiskInv, HeadersOK, Distinct
<1>10. CopyOK'
  <2>1. committing => dev = Sec
    BY DEF DiskInv, DevOK, Booting
  <2>2. ASSUME committing, NEW i \in 1 .. Len(lh)
        PROVE  slot[Sec][i] = data'[Sec][lh[i]]
    <3>1. slot[Sec][i] = data[Sec][lh[i]]
      BY <1>2, <2>2 DEF DiskInv, CopyOK
    <3>2. lh[i] = b => slot[Sec][i] = v
      BY <1>7, <2>1, <2>2 DEF v
    <3> QED BY <1>6, <1>7, <2>1, <2>2, <3>1, <3>2
  <2>3. ASSUME NEW i \in 1 .. Len(lh), i <= tail + 1
        PROVE  home'[dev][lh[i]] = slot[dev][i]
    <3>1. CASE lh[i] = b
      BY <1>6, <1>7, <3>1 DEF v
    <3>2. CASE lh[i] # b
      <4>1. i # t
        BY <3>2 DEF b
      <4>2. i <= tail
        BY <4>1, <2>3, <1>1
      <4>3. home[dev][lh[i]] = slot[dev][i]
        BY <4>2, <1>2 DEF DiskInv, CopyOK
      <4> QED BY <4>3, <1>6, <1>7, <3>2
    <3> QED BY <3>1, <3>2
  <2> QED BY <1>2, <2>2, <2>3 DEF CopyOK
<1>11. CacheOK'
  <2>1. Booting => data' = home' /\ dirty' = {}
    BY <1>2 DEF DiskInv, CacheOK
  <2>2. ASSUME ~Booting, NEW c \in Block, data'[Sec][c] # home'[Sec][c]
        PROVE  <<Sec, c>> \in dirty' \/ \E p \in Proc : pending'[p] = <<Sec, c>>
    <3>1. dev = Sec
      BY <2>2 DEF DiskInv, DevOK
    <3>2. c # b /\ data[Sec][c] # home[Sec][c]
      BY <1>6, <2>2, <3>1
    <3>3. <<Sec, c>> \in dirty \/ \E p \in Proc : pending[p] = <<Sec, c>>
      BY <3>2, <2>2 DEF DiskInv, CacheOK
    <3> QED BY <3>2, <3>3, <1>2
  <2>3. ASSUME NEW c \in Block, <<Sec, c>> \in dirty'
        PROVE  \E i \in 1 .. Len(lh) : lh[i] = c /\ tail + 1 < i
    <3>1. <<Sec, c>> \in dirty
      BY <2>3, <1>2
    <3>2. PICK i \in 1 .. Len(lh) : lh[i] = c /\ tail < i
      BY <3>1, <1>2 DEF DiskInv, CacheOK
    <3>3. dev = Sec
      BY <3>1 DEF DiskInv, CacheOK, DevOK
    <3>4. c # b
      BY <3>3, <2>3, <1>2
    <3>5. i # t
      BY <3>4, <3>2 DEF b
    <3> QED BY <3>2, <3>5, <1>1
  <2> QED BY <1>2, <1>5, <2>1, <2>2, <2>3 DEF CacheOK
<1> QED BY <1>8, <1>9, <1>10, <1>11 DEF DiskInv

LEMMA InstallDoneDisk == SpaceInv /\ DiskInv /\ InstallDone => DiskInv'
<1> SUFFICES ASSUME SpaceInv, DiskInv, InstallDone PROVE DiskInv'
  OBVIOUS
<1>1. /\ phase = "install" /\ phase' = "clear" /\ tail = Len(lh)
      /\ tail' = tail /\ lh' = lh /\ home' = home /\ hdr' = hdr /\ slot' = slot
      /\ data' = data /\ dirty' = dirty /\ dev' = dev
      /\ committing' = committing /\ pending' = pending
  BY DEF InstallDone, disk, cache, ops
<1>2. Booting' = Booting
  BY <1>1 DEF Booting
<1>3. \A b \in Block : <<Sec, b>> \notin dirty
  BY <1>1 DEF DiskInv, CacheOK
<1>4. HeadersOK'
  BY <1>1 DEF DiskInv, HeadersOK, Distinct
<1>5. CopyOK'
  BY <1>1 DEF DiskInv, CopyOK
<1>6. CacheOK'
  BY <1>1, <1>2, <1>3 DEF DiskInv, CacheOK
<1> QED BY <1>1, <1>2, <1>4, <1>5, <1>6 DEF DiskInv, DevOK

LEMMA ClearHeadDisk == SpaceInv /\ DiskInv /\ ClearHead => DiskInv'
<1> SUFFICES ASSUME SpaceInv, DiskInv, ClearHead PROVE DiskInv'
  OBVIOUS
<1>1. /\ phase = "clear" /\ lh' = <<>> /\ hdr' = [hdr EXCEPT ![dev] = <<>>]
      /\ home' = home /\ slot' = slot /\ data' = data /\ dirty' = dirty
      /\ committing' = committing /\ pending' = pending
      /\ hdr \in [Dev -> Seq(Block)] /\ dev \in Dev
  BY DEF ClearHead, cache, ops, SpaceInv, TypeOK
<1>2. \A b \in Block : <<Sec, b>> \notin dirty
  BY <1>1 DEF DiskInv, CacheOK
<1>3. Distinct(lh)' /\ \A d \in Dev : Distinct(hdr[d])'
  BY <1>1 DEF DiskInv, HeadersOK, Distinct
<1>4. CASE committing
  <2>1. dev = Sec /\ dev' = dev /\ phase' = "finish" /\ ~Booting /\ ~Booting'
    BY <1>1, <1>4 DEF DiskInv, DevOK, Booting, ClearHead
  <2>2. HeadersOK'
    BY <1>1, <1>3, <1>4, <2>1 DEF HeadersOK, Sec
  <2>3. CopyOK'
    BY <2>1 DEF CopyOK
  <2>4. CacheOK'
    BY <1>1, <1>2, <2>1 DEF DiskInv, CacheOK
  <2> QED BY <2>1, <2>2, <2>3, <2>4 DEF DiskInv, DevOK
<1>5. CASE ~committing
  <2>1. Booting /\ data = home /\ dirty = {}
    BY <1>1, <1>5 DEF Booting, DiskInv, CacheOK
  <2>2. CASE dev = ROOTDEV
    <3>1. phase' = "read_head" /\ dev' = Sec /\ Booting'
      BY <1>1, <1>5, <2>2 DEF ClearHead, Booting, Sec
    <3>2. HeadersOK'
      BY <1>1, <1>3, <1>5, <3>1 DEF HeadersOK
    <3>3. CopyOK' /\ CacheOK'
      BY <1>1, <2>1, <3>1 DEF CopyOK, CacheOK
    <3> QED BY <3>1, <3>2, <3>3 DEF DiskInv, DevOK
  <2>3. CASE dev # ROOTDEV
    <3>1. dev = Sec /\ phase' = "idle" /\ dev' = Sec /\ ~Booting'
      BY <1>1, <1>5, <2>3 DEF ClearHead, Booting, Sec, Dev
    <3>2. HeadersOK'
      BY <1>1, <1>3, <3>1 DEF HeadersOK
    <3>3. CopyOK' /\ CacheOK'
      BY <1>1, <2>1, <3>1 DEF CopyOK, CacheOK
    <3> QED BY <3>1, <3>2, <3>3 DEF DiskInv, DevOK
  <2> QED BY <2>2, <2>3
<1> QED BY <1>4, <1>5

LEMMA CommitDisk == SpaceInv /\ RoomEnough /\ DiskInv /\ CommitStep => DiskInv'
<1> SUFFICES ASSUME SpaceInv, RoomEnough, DiskInv, CommitStep PROVE DiskInv'
  OBVIOUS
<1>1. phase \in {"write_log", "write_head"}
  BY DEF CommitStep, WriteLogBlock, WriteLogDone, WriteHead
<1>2. committing /\ ~Booting /\ dev = Sec /\ Sec \in Dev
  BY <1>1 DEF DiskInv, HeadersOK, DevOK, Booting, Sec, Dev
<1>3. /\ home' = home /\ data' = data /\ dirty' = dirty /\ committing' = committing
      /\ dev' = dev /\ lh' = lh /\ pending' = pending
  BY DEF CommitStep, WriteLogBlock, WriteLogDone, WriteHead, cache, disk, ops
<1>4. ~Booting'
  BY <1>2, <1>3 DEF Booting
<1>5. DevOK'
  BY <1>2, <1>3 DEF DevOK
<1>6. /\ lh \in Seq(Block) /\ tail \in Nat /\ Len(lh) \in Nat
      /\ hdr \in [Dev -> Seq(Block)] /\ slot \in [Dev -> [Slots -> Val]]
  BY DEF SpaceInv, TypeOK
<1>7. CacheOK'
  <2>1. phase' # "clear" /\ (phase' = "install" => tail' = 0)
    BY <1>1 DEF CommitStep, WriteLogBlock, WriteLogDone, WriteHead
  <2>2. ASSUME NEW b \in Block, <<Sec, b>> \in dirty
        PROVE  \E i \in 1 .. Len(lh) : lh[i] = b /\ (phase' = "install" => tail' < i)
    <3>1. PICK i \in 1 .. Len(lh) : lh[i] = b
      BY <2>2 DEF DiskInv, CacheOK
    <3> QED BY <3>1, <2>1, <1>6
  <2>3. \A b \in Block :
          data[Sec][b] # home[Sec][b] =>
            <<Sec, b>> \in dirty \/ \E p \in Proc : pending[p] = <<Sec, b>>
    BY <1>2 DEF DiskInv, CacheOK
  <2> QED BY <1>3, <1>4, <2>1, <2>2, <2>3 DEF CacheOK
<1>8. CASE WriteLogBlock
  <2> DEFINE t == tail + 1
  <2>1. Len(lh) <= nlog - 1
    BY ShortFits DEF SpaceInv, TypeOK, HeadersShort
  <2>2. t \in 1 .. Len(lh) /\ t \in Slots
    BY <1>8, <1>6, <2>1, LogAssumption DEF WriteLogBlock, Slots
  <2>3. /\ slot' = [slot EXCEPT ![Sec][t] = data[Sec][lh[t]]]
        /\ tail' = t /\ hdr' = hdr /\ phase = "write_log" /\ phase' = phase
    BY <1>8, <1>2 DEF WriteLogBlock
  <2>4. \A i \in Slots : slot'[Sec][i] = IF i = t THEN data[Sec][lh[t]] ELSE slot[Sec][i]
    BY <1>2, <1>6, <2>2, <2>3
  <2>5. HeadersOK'
    BY <1>3, <2>3 DEF DiskInv, HeadersOK, Distinct
  <2>6. ASSUME NEW i \in 1 .. Len(lh), i <= t
        PROVE  slot'[Sec][i] = data[Sec][lh[i]]
    <3>1. i \in Slots
      BY <2>1, <1>6, LogAssumption DEF Slots
    <3>2. i # t => slot[Sec][i] = data[Sec][lh[i]]
      BY <2>3, <2>6, <1>6 DEF DiskInv, CopyOK
    <3> QED BY <3>1, <3>2, <2>4
  <2>7. CopyOK'
    BY <1>3, <2>3, <2>6 DEF CopyOK
  <2> QED BY <1>5, <1>7, <2>5, <2>7 DEF DiskInv
<1>9. CASE WriteLogDone
  <2>1. /\ tail' = tail /\ hdr' = hdr /\ slot' = slot /\ tail = Len(lh)
        /\ phase = "write_log" /\ phase' = "write_head"
    BY <1>9 DEF WriteLogDone, disk
  <2>2. HeadersOK'
    BY <1>2, <1>3, <2>1 DEF DiskInv, HeadersOK, Distinct
  <2>3. CopyOK'
    BY <1>3, <2>1 DEF DiskInv, CopyOK
  <2> QED BY <1>5, <1>7, <2>2, <2>3 DEF DiskInv
<1>10. CASE WriteHead
  <2>1. /\ tail' = 0 /\ hdr' = [hdr EXCEPT ![Sec] = lh] /\ slot' = slot /\ tail = Len(lh)
        /\ phase = "write_head" /\ phase' = "install"
    BY <1>2, <1>10 DEF WriteHead, DiskInv, HeadersOK
  <2>2. HeadersOK'
    <3>1. Distinct(lh)' /\ \A d \in Dev : Distinct(hdr[d])'
      BY <1>2, <1>3, <1>6, <2>1 DEF DiskInv, HeadersOK, Distinct
    <3> QED BY <1>2, <1>3, <1>6, <2>1, <3>1 DEF HeadersOK
  <2>3. \A i \in 1 .. Len(lh) : slot[Sec][i] = data[Sec][lh[i]]
    BY <1>6, <2>1 DEF DiskInv, CopyOK
  <2>4. CopyOK'
    BY <1>3, <2>1, <2>3 DEF CopyOK
  <2> QED BY <1>5, <1>7, <2>2, <2>4 DEF DiskInv
<1> QED BY <1>8, <1>9, <1>10 DEF CommitStep

LEMMA PairNotEmpty == ASSUME NEW x, NEW y PROVE <<x, y>> # <<>>
<1>1. Len(<<x, y>>) = 2 /\ Len(<<>>) = 0
  OBVIOUS
<1> QED BY <1>1

(* A block that bget() recycles held what the disk holds.                   *)
LEMMA RecycleSame ==
  ASSUME SpaceInv, DiskInv, NEW d \in Dev, NEW b \in Block, Recycle(d, b)
  PROVE  data'[Sec] = data[Sec] /\ (Booting => data' = data)
<1>1. /\ data' = [data EXCEPT ![d][b] = home[d][b]]
      /\ data \in [Dev -> [Block -> Val]] /\ home \in [Dev -> [Block -> Val]]
      /\ Sec \in Dev
  BY DEF Recycle, SpaceInv, TypeOK, Sec, Dev
<1>2. CASE data[d][b] = home[d][b]
  BY <1>1, <1>2
<1>3. CASE data[d][b] # home[d][b]
  <2>1. ~Booting
    BY <1>3 DEF DiskInv, CacheOK
  <2>2. d # Sec
    BY <1>3, <2>1 DEF DiskInv, CacheOK, Recycle
  <2> QED BY <1>1, <2>1, <2>2
<1> QED BY <1>2, <1>3

LEMMA RecycleDisk ==
  ASSUME SpaceInv, DiskInv, NEW d \in Dev, NEW b \in Block, Recycle(d, b)
  PROVE  DiskInv'
<1>1. /\ dirty' = dirty /\ home' = home /\ hdr' = hdr /\ slot' = slot
      /\ committing' = committing /\ dev' = dev /\ lh' = lh /\ phase' = phase
      /\ tail' = tail /\ pending' = pending
  BY DEF Recycle, disk, ops
<1>2. data'[Sec] = data[Sec] /\ (Booting => data' = data)
  BY RecycleSame
<1>3. Booting' = Booting
  BY <1>1 DEF Booting
<1>4. DevOK' /\ HeadersOK'
  BY <1>1, <1>3 DEF DiskInv, DevOK, HeadersOK, Distinct
<1>5. CopyOK'
  BY <1>1, <1>2 DEF DiskInv, CopyOK
<1>6. CacheOK'
  BY <1>1, <1>2, <1>3 DEF DiskInv, CacheOK
<1> QED BY <1>4, <1>5, <1>6 DEF DiskInv

(* begin_op(), end_op() and its last critical section change no block.      *)
LEMMA CallDisk ==
  ASSUME SpaceInv, DiskInv, NEW p \in Proc, BeginOp(p) \/ EndOp(p) \/ Finish(p)
  PROVE  DiskInv'
<1>1. /\ home' = home /\ hdr' = hdr /\ slot' = slot /\ data' = data /\ dirty' = dirty
      /\ dev' = dev /\ lh' = lh /\ pending' = pending
  BY DEF BeginOp, EndOp, Finish, disk, cache
<1>2. CASE BeginOp(p)
  <2>1. phase' = phase /\ committing' = committing /\ tail' = tail
    BY <1>2 DEF BeginOp
  <2>2. Booting' = Booting
    BY <2>1 DEF Booting
  <2>3. DevOK' /\ HeadersOK' /\ CopyOK' /\ CacheOK'
    BY <1>1, <2>1, <2>2 DEF DiskInv, DevOK, HeadersOK, Distinct, CopyOK, CacheOK
  <2> QED BY <2>3 DEF DiskInv
<1>3. CASE EndOp(p)
  <2>1. p \in InOp
    BY <1>3 DEF EndOp, InOp
  <2>2. phase = "idle" /\ ~committing /\ ~Booting /\ dev = Sec
    BY <2>1 DEF SpaceInv, Quiet, Booting, DiskInv, DevOK
  <2>3. \/ phase' \in {"finish", "write_log"} /\ committing' /\ tail' = 0
        \/ phase' = "idle" /\ ~committing'
    BY <1>3, <2>2 DEF EndOp
  <2>4. ~Booting' /\ DevOK'
    BY <1>1, <2>2, <2>3 DEF Booting, DevOK
  <2>5. HeadersOK'
    BY <1>1, <2>2, <2>3 DEF DiskInv, HeadersOK, Distinct
  <2>6. CopyOK'
    BY <1>1, <2>3 DEF CopyOK
  <2>7. CacheOK'
    BY <1>1, <2>2, <2>3, <2>4 DEF DiskInv, CacheOK
  <2> QED BY <2>4, <2>5, <2>6, <2>7 DEF DiskInv
<1>4. CASE Finish(p)
  <2>1. phase = "finish" /\ phase' = "idle" /\ ~committing'
    BY <1>4 DEF Finish
  <2>2. committing /\ ~Booting /\ dev = Sec /\ ~Booting'
    BY <2>1 DEF DiskInv, HeadersOK, DevOK, Booting
  <2>3. HeadersOK'
    BY <1>1, <2>1 DEF DiskInv, HeadersOK, Distinct
  <2>4. CopyOK'
    BY <2>1 DEF CopyOK
  <2>5. CacheOK'
    BY <1>1, <2>1, <2>2 DEF DiskInv, CacheOK
  <2> QED BY <1>1, <2>2, <2>3, <2>4, <2>5 DEF DiskInv, DevOK
<1> QED BY <1>2, <1>3, <1>4

LEMMA LogWriteTestDisk ==
  ASSUME SpaceInv, RoomEnough, DiskInv, SpaceInv', NEW p \in Proc,
         NEW d \in Dev, NEW b \in Block, NEW v \in Val, LogWriteTest(p, d, b, v)
  PROVE  DiskInv'
<1>1. phase = "idle" /\ ~Booting /\ dev = Sec /\ Sec \in Dev
  <2>1. p \in InOp
    BY DEF LogWriteTest, InOp
  <2> QED BY <2>1 DEF SpaceInv, Quiet, Booting, DiskInv, DevOK, Sec, Dev
<1>2. /\ home' = home /\ hdr' = hdr /\ slot' = slot /\ dirty' = dirty /\ dev' = dev
      /\ lh' = lh /\ committing' = committing /\ phase' = phase /\ tail' = tail
      /\ data' = [data EXCEPT ![d][b] = v]
  BY DEF LogWriteTest, disk
<1>3. pending' = [pending EXCEPT ![p] = <<d, b>>]
  BY DEF LogWriteTest, SpaceInv
<1>4. ~Booting' /\ DevOK'
  BY <1>1, <1>2 DEF Booting, DevOK
<1>5. HeadersOK'
  BY <1>2 DEF DiskInv, HeadersOK, Distinct
<1>6. CopyOK'
  BY <1>1, <1>2 DEF CopyOK
<1>7. ASSUME NEW c \in Block, data'[Sec][c] # home[Sec][c]
      PROVE  <<Sec, c>> \in dirty \/ \E q \in Proc : pending'[q] = <<Sec, c>>
  <2>0. pending \in [Proc -> Buf \cup {<<>>}] /\ data \in [Dev -> [Block -> Val]]
    BY DEF SpaceInv, TypeOK
  <2>1. CASE d = Sec /\ c = b
    <3>1. pending'[p] = <<Sec, c>>
      BY <1>3, <2>0, <2>1
    <3> QED BY <3>1
  <2>2. CASE ~(d = Sec /\ c = b)
    <3>1. data'[Sec][c] = data[Sec][c]
      BY <1>1, <1>2, <2>0, <2>2
    <3>2. <<Sec, c>> \in dirty \/ \E q \in Proc : pending[q] = <<Sec, c>>
      BY <3>1, <1>1, <1>7 DEF DiskInv, CacheOK
    <3>3. pending[p] = <<>>
      BY DEF LogWriteTest, SpaceInv, InCallOK, CallOK
    <3>4. ASSUME NEW q \in Proc, pending[q] = <<Sec, c>> PROVE pending'[q] = <<Sec, c>>
      <4>1. q # p
        BY <3>3, <3>4, PairNotEmpty, Zenon
      <4> QED BY <4>1, <3>4, <1>3, <2>0
    <3> QED BY <3>2, <3>4
  <2> QED BY <2>1, <2>2
<1>8. CacheOK'
  BY <1>1, <1>2, <1>4, <1>7 DEF DiskInv, CacheOK
<1> QED BY <1>4, <1>5, <1>6, <1>8 DEF DiskInv

LEMMA LogWriteRecordDisk ==
  ASSUME SpaceInv, DiskInv, NEW p \in Proc, LogWriteRecord(p)
  PROVE  DiskInv'
<1> DEFINE buf == pending[p]
           b == buf[2]
<1>1. phase = "idle" /\ ~Booting /\ dev = Sec /\ Sec \in Dev
  <2>1. p \in InOp
    BY DEF LogWriteRecord, InOp
  <2> QED BY <2>1 DEF SpaceInv, Quiet, Booting, DiskInv, DevOK, Sec, Dev
<1>2. buf \in Buf /\ b \in Block
  BY DEF LogWriteRecord, SpaceInv, InCallOK, CallOK, Buf
<1>3. /\ home' = home /\ hdr' = hdr /\ slot' = slot /\ data' = data /\ dev' = dev
      /\ committing' = committing /\ phase' = phase /\ tail' = tail
      /\ dirty' = dirty \cup {buf} /\ pending' = [pending EXCEPT ![p] = <<>>]
      /\ lh' = Absorb(b)
  BY DEF LogWriteRecord, disk
<1>4. pending \in [Proc -> Buf \cup {<<>>}] /\ lh \in Seq(Block) /\ Len(lh) \in Nat
  BY DEF SpaceInv, TypeOK
<1>5. ~Booting' /\ DevOK'
  BY <1>1, <1>3 DEF Booting, DevOK
<1>6. /\ Distinct(lh')
      /\ \A i \in 1 .. Len(lh) : i \in 1 .. Len(lh') /\ lh'[i] = lh[i]
      /\ \E i \in 1 .. Len(lh') : lh'[i] = b
  <2> HIDE DEF b
  <2>1. Distinct(lh)
    BY DEF DiskInv, HeadersOK
  <2>2. CASE b \in Logged
    BY <1>3, <1>4, <2>1, <2>2 DEF Absorb, Logged
  <2>3. CASE b \notin Logged
    <3>1. lh' = Append(lh, b) /\ \A i \in 1 .. Len(lh) : lh[i] # b
      BY <1>3, <2>3 DEF Absorb, Logged
    <3>2. Len(lh') = Len(lh) + 1 /\ lh'[Len(lh) + 1] = b
      BY <1>2, <1>4, <3>1
    <3>3. \A i \in 1 .. Len(lh) : lh'[i] = lh[i]
      BY <1>2, <1>4, <3>1
    <3>4. Distinct(lh')
      BY <1>4, <2>1, <3>1, <3>2, <3>3 DEF Distinct
    <3> QED BY <1>4, <3>2, <3>3, <3>4
  <2> QED BY <2>2, <2>3
<1>7. HeadersOK'
  BY <1>1, <1>3, <1>6 DEF DiskInv, HeadersOK, Distinct
<1>8. CopyOK'
  BY <1>1, <1>3 DEF CopyOK
<1>9. ASSUME NEW c \in Block, data[Sec][c] # home[Sec][c]
      PROVE  <<Sec, c>> \in dirty' \/ \E q \in Proc : pending'[q] = <<Sec, c>>
  <2>1. CASE <<Sec, c>> \in dirty
    BY <2>1, <1>3
  <2>2. CASE \E q \in Proc : pending[q] = <<Sec, c>>
    <3>1. PICK q \in Proc : pending[q] = <<Sec, c>>
      BY <2>2
    <3>2. CASE q = p
      BY <3>1, <3>2, <1>3
    <3>3. CASE q # p
      <4>1. pending'[q] = <<Sec, c>>
        BY <3>1, <3>3, <1>3, <1>4
      <4> QED BY <4>1
    <3> QED BY <3>2, <3>3
  <2> QED BY <2>1, <2>2, <1>1, <1>9 DEF DiskInv, CacheOK
<1>10. ASSUME NEW c \in Block, <<Sec, c>> \in dirty'
       PROVE  \E i \in 1 .. Len(lh') : lh'[i] = c
  <2>1. CASE <<Sec, c>> \in dirty
    <3>1. PICK i \in 1 .. Len(lh) : lh[i] = c
      BY <2>1 DEF DiskInv, CacheOK
    <3> QED BY <3>1, <1>6
  <2>2. CASE <<Sec, c>> = buf
    <3>1. b = c
      <4>1. <<Sec, c>>[2] = c
        OBVIOUS
      <4> QED BY <4>1, <2>2
    <3> QED BY <3>1, <1>6
  <2> QED BY <2>1, <2>2, <1>3, <1>10
<1>11. CacheOK'
  BY <1>1, <1>3, <1>5, <1>9, <1>10 DEF CacheOK
<1> QED BY <1>5, <1>7, <1>8, <1>11 DEF DiskInv

LEMMA DiskStep ==
  SpaceInv /\ SpaceInv' /\ RoomEnough /\ DiskInv /\ [Next]_vars => DiskInv'
<1> SUFFICES ASSUME SpaceInv, SpaceInv', RoomEnough, DiskInv, [Next]_vars PROVE DiskInv'
  OBVIOUS
<1>1. CASE Recover
  BY <1>1, ReadHeadDisk, InstallBlockDisk, InstallDoneDisk, ClearHeadDisk DEF Recover
<1>2. CASE CommitStep
  BY <1>2, CommitDisk
<1>3. ASSUME NEW p \in Proc, NEW d \in Dev, NEW b \in Block, NEW v \in Val,
             LogWriteTest(p, d, b, v)
      PROVE  DiskInv'
  BY <1>3, LogWriteTestDisk
<1>4. ASSUME NEW p \in Proc, BeginOp(p) \/ LogWriteRecord(p) \/ EndOp(p) \/ Finish(p)
      PROVE  DiskInv'
  BY <1>4, CallDisk, LogWriteRecordDisk
<1>5. ASSUME NEW d \in Dev, NEW b \in Block, Recycle(d, b) PROVE DiskInv'
  BY <1>5, RecycleDisk
<1>6. CASE Crash
  BY <1>6, CrashDisk
<1>7. CASE UNCHANGED vars
  <2>1. /\ home' = home /\ hdr' = hdr /\ slot' = slot /\ data' = data /\ dirty' = dirty
        /\ committing' = committing /\ dev' = dev /\ lh' = lh /\ phase' = phase
        /\ tail' = tail /\ pending' = pending
    BY <1>7 DEF vars, disk, cache, ops
  <2>2. Booting' = Booting
    BY <2>1 DEF Booting
  <2>3. DevOK' /\ HeadersOK'
    BY <2>1, <2>2 DEF DiskInv, DevOK, HeadersOK, Distinct
  <2>4. CopyOK' /\ CacheOK'
    BY <2>1, <2>2 DEF DiskInv, CopyOK, CacheOK
  <2> QED BY <2>3, <2>4 DEF DiskInv
<1> QED BY <1>1, <1>2, <1>3, <1>4, <1>5, <1>6, <1>7 DEF Next

LEMMA DiskAlways == ASSUME RoomEnough PROVE Spec => [](SpaceInv /\ DiskInv)
<1>1. SpaceInv /\ SpaceInv' /\ DiskInv /\ [Next]_vars => DiskInv'
  BY DiskStep
<1> QED BY <1>1, DiskInit, SpaceAlways, PTL DEF Spec

(* While no call is in progress, what a crash would leave on the log's      *)
(* device is what the buffer cache shows.                                   *)
THEOREM Durable == ASSUME RoomEnough PROVE Spec => []QuiescentDurable
<1>1. SpaceInv /\ DiskInv => QuiescentDurable
  <2> SUFFICES ASSUME SpaceInv, DiskInv, phase = "idle", outstanding = 0
               PROVE  data[Sec] = Recovered(Sec)
    BY DEF QuiescentDurable, Sec
  <2>1. InOp = {}
    <3>1. IsFiniteSet(InOp)
      BY FiniteProcs DEF InOp
    <3> QED BY <3>1, FS_EmptySet DEF SpaceInv, Counted
  <2>2. lh = <<>> /\ hdr[Sec] = <<>> /\ ~Booting
    BY <2>1 DEF SpaceInv, Quiet, DiskInv, HeadersOK, Booting
  <2>3. home[Sec] \in [Block -> Val] /\ data[Sec] \in [Block -> Val]
    BY DEF SpaceInv, TypeOK, Sec, Dev
  <2>4. \A b \in Block : data[Sec][b] = home[Sec][b]
    <3>1. \A p \in Proc : pending[p] = <<>>
      BY <2>1 DEF InOp, SpaceInv, InCallOK, CallOK
    <3>2. \A b \in Block : <<Sec, b>> \notin dirty
      BY <2>2 DEF DiskInv, CacheOK
    <3>3. \A b \in Block : ~ \E p \in Proc : pending[p] = <<Sec, b>>
      BY <3>1, PairNotEmpty, Zenon
    <3> QED BY <2>2, <3>2, <3>3 DEF DiskInv, CacheOK
  <2>5. Recovered(Sec) = home[Sec]
    BY <2>2, <2>3, ReplayEmpty DEF Recovered
  <2> QED BY <2>3, <2>4, <2>5
<1> QED BY <1>1, DiskAlways, PTL

-----------------------------------------------------------------------------
(* Each step of Log is a step of AtomicDisk or leaves its variables alone.  *)

\* What a reader sees: recovery runs before the first of them.
View == IF Booting THEN Recovered(Sec) ELSE data[Sec]

Stutter == UNCHANGED <<Recovered(Sec), View, InOp>>

LEMMA SameDisk ==
  ASSUME UNCHANGED disk
  PROVE  Recovered(Sec)' = Recovered(Sec)
BY DEF disk, Recovered

\* Recovery and install_trans() change nothing that recovery would not.
LEMMA RecoverStutters ==
  ASSUME SpaceInv, RoomEnough, DiskInv, DiskInv', Recover
  PROVE  Stutter
<1>1. InOp' = InOp /\ committing' = committing
  BY DEF Recover, ReadHead, InstallBlock, InstallDone, ClearHead, InOp, ops
<1>2. /\ home \in [Dev -> [Block -> Val]] /\ data \in [Dev -> [Block -> Val]]
      /\ slot \in [Dev -> [Slots -> Val]] /\ hdr \in [Dev -> Seq(Block)]
      /\ lh \in Seq(Block) /\ dev \in Dev /\ Sec \in Dev
  BY DEF SpaceInv, TypeOK, Sec, Dev
<1>3. CASE ReadHead \/ InstallDone
  <2>1. UNCHANGED disk /\ data' = data /\ Booting' = Booting
    BY <1>3 DEF ReadHead, InstallDone, Booting, cache
  <2> QED BY <1>1, <2>1, SameDisk DEF Stutter, View
<1>4. CASE InstallBlock
  <2> DEFINE t == tail + 1
             b == lh[t]
             v == slot[dev][t]
  <2>1. t \in 1 .. Len(lh) /\ b \in Block
    BY SMTT(60), <1>2, <1>4 DEF SpaceInv, TypeOK, InstallBlock
  <2>2. /\ home' = [home EXCEPT ![dev][b] = v] /\ data' = [data EXCEPT ![dev][b] = v]
        /\ hdr' = hdr /\ slot' = slot /\ phase' = phase /\ phase = "install"
    BY <1>4 DEF InstallBlock
  <2>3. Booting' = Booting /\ hdr[dev] = lh /\ Distinct(lh)
    BY <1>1, <2>2 DEF Booting, DiskInv, HeadersOK
  <2>4. Recovered(Sec)' = Recovered(Sec)
    <3>1. CASE dev # Sec
      BY <1>2, <2>2, <3>1 DEF Recovered
    <3>2. CASE dev = Sec
      <4> DEFINE f == Replay(lh, slot[Sec], home[Sec])
      <4>1. \A c \in Block : c # b => home'[Sec][c] = home[Sec][c]
        <5> HIDE DEF b, v
        <5> QED BY <1>2, <2>1, <2>2, <3>2
      <4>2. \A c \in Block : (\A i \in 1 .. Len(lh) : lh[i] # c) => f[c] = home'[Sec][c]
        BY <4>1, <2>1, ReplayElse
      <4>3. \A i \in 1 .. Len(lh) : f[lh[i]] = slot[Sec][i]
        BY SMTT(60), <1>2, <2>3, ReplayAt
      <4>4. f \in [Block -> Val]
        <5>1. \A i \in 1 .. Len(lh) : slot[Sec][i] \in Val
          <6>1. Len(lh) <= nlog - 1 /\ Len(lh) \in Nat
            BY <1>2, ShortFits DEF SpaceInv, TypeOK, HeadersShort
          <6> QED BY <6>1, <1>2, LogAssumption DEF Slots
        <5> QED BY <5>1, <1>2 DEF Replay
      <4> HIDE DEF f
      <4>5. Replay(lh, slot[Sec], home'[Sec]) = f
        <5> DEFINE s == slot[Sec]
                   m == home'[Sec]
        <5>1. lh \in Seq(Block) /\ Distinct(lh)
          BY <1>2, <2>3
        <5>2. \A c \in Block : (\A i \in 1 .. Len(lh) : lh[i] # c) => f[c] = m[c]
          BY <4>2
        <5>3. \A i \in 1 .. Len(lh) : f[lh[i]] = s[i]
          BY <4>3
        <5> HIDE DEF s, m
        <5>4. Replay(lh, s, m) = f
          BY SMTT(60), <5>1, <5>2, <5>3, <4>4, ReplayIs
        <5> QED BY <5>4 DEF s, m
      <4> QED BY <4>5, <2>2, <2>3, <3>2 DEF Recovered, f
    <3> QED BY <3>1, <3>2
  <2>5. ~Booting => data'[Sec] = data[Sec]
    <3> SUFFICES ASSUME ~Booting PROVE data'[Sec] = data[Sec]
      OBVIOUS
    <3>1. dev = Sec /\ committing
      BY <2>2 DEF Booting, DiskInv, DevOK
    <3>2. v = data[Sec][b]
      BY <2>1, <2>2, <3>1 DEF DiskInv, CopyOK
    <3> HIDE DEF v, b
    <3> QED BY <1>2, <2>1, <2>2, <3>1, <3>2
  <2> QED BY <1>1, <2>3, <2>4, <2>5 DEF Stutter, View
<1>5. CASE ClearHead
  <2>1. /\ phase = "clear" /\ home' = home /\ slot' = slot /\ data' = data
        /\ hdr' = [hdr EXCEPT ![dev] = <<>>]
    BY <1>5 DEF ClearHead, cache
  <2>2. hdr[dev] = lh /\ Distinct(lh) /\ tail = Len(lh)
    BY <2>1 DEF DiskInv, HeadersOK
  <2>3. dev = Sec => Recovered(Sec) = home[Sec] /\ Recovered(Sec)' = home[Sec]
    <3> SUFFICES ASSUME dev = Sec
                 PROVE  Recovered(Sec) = home[Sec] /\ Recovered(Sec)' = home[Sec]
      OBVIOUS
    <3>1. \A i \in 1 .. Len(lh) : home[Sec][lh[i]] = slot[Sec][i]
      BY SMTT(60), <2>1, <2>2, <1>2 DEF DiskInv, CopyOK
    <3>2. home[Sec] \in [Block -> Val]
      BY <1>2
    <3>3. Replay(lh, slot[Sec], home[Sec]) = home[Sec]
      BY SMTT(60), <1>2, <2>2, <3>1, <3>2, ReplayIs
    <3>4. hdr'[Sec] = <<>>
      BY <1>2, <2>1
    <3>5. Replay(<<>>, slot[Sec], home[Sec]) = home[Sec]
      BY <3>2, ReplayEmpty
    <3> QED BY <2>1, <2>2, <3>3, <3>4, <3>5 DEF Recovered
  <2>4. dev # Sec => Recovered(Sec)' = Recovered(Sec)
    BY <1>2, <2>1 DEF Recovered
  <2>5. View' = View
    <3>1. CASE Booting' = Booting
      BY <2>1, <2>3, <2>4, <3>1 DEF View
    <3>2. CASE Booting' # Booting
      <4>1. Booting /\ dev = Sec /\ ~Booting'
        <5>1. CASE committing
          BY <1>1, <1>5, <2>1, <3>2, <5>1 DEF Booting, ClearHead
        <5>2. CASE ~committing
          BY <1>1, <1>2, <1>5, <2>1, <3>2, <5>2 DEF Booting, ClearHead, Dev, Sec
        <5> QED BY <5>1, <5>2
      <4>2. data = home
        BY <4>1 DEF DiskInv, CacheOK
      <4> QED BY <2>1, <2>3, <4>1, <4>2 DEF View
    <3> QED BY <3>1, <3>2
  <2> QED BY <1>1, <2>3, <2>4, <2>5 DEF Stutter
<1> QED BY <1>3, <1>4, <1>5 DEF Recover

\* An empty header hides the log: what commit() copies there is not yet durable.
LEMMA LogHidden ==
  ASSUME SpaceInv, DiskInv, phase \in {"idle", "write_log", "write_head", "finish"}
  PROVE  Recovered(Sec) = home[Sec]
<1>1. hdr[Sec] = <<>> /\ home[Sec] \in [Block -> Val]
  BY DEF SpaceInv, TypeOK, DiskInv, HeadersOK, Sec, Dev
<1> QED BY <1>1, ReplayEmpty DEF Recovered

(* write_log() is invisible; write_head() makes the whole cache durable.    *)
LEMMA CommitAtomic ==
  ASSUME SpaceInv, SpaceInv', RoomEnough, DiskInv, DiskInv', CommitStep
  PROVE  \/ Stutter
         \/ /\ InOp = {}
            /\ Recovered(Sec)' = View
            /\ UNCHANGED <<View, InOp>>
<1>1. /\ phase \in {"write_log", "write_head"} /\ home' = home /\ data' = data
      /\ InOp' = InOp /\ lh' = lh /\ dev' = dev
  BY DEF CommitStep, WriteLogBlock, WriteLogDone, WriteHead, cache, disk, InOp, ops
<1>2. committing /\ committing' /\ ~Booting /\ ~Booting' /\ dev = Sec /\ Sec \in Dev
  BY <1>1 DEF CommitStep, WriteLogBlock, WriteLogDone, WriteHead,
              DiskInv, HeadersOK, DevOK, Booting, Sec, Dev
<1>3. View = data[Sec] /\ View' = data[Sec]
  BY <1>1, <1>2 DEF View
<1>4. CASE WriteLogBlock \/ WriteLogDone
  <2>1. phase' \in {"write_log", "write_head"}
    BY <1>4 DEF WriteLogBlock, WriteLogDone
  <2>2. Recovered(Sec)' = home'[Sec]
    <3>1. hdr'[Sec] = <<>> /\ home'[Sec] \in [Block -> Val]
      BY <2>1, <1>2 DEF SpaceInv, TypeOK, DiskInv, HeadersOK
    <3>2. Replay(<<>>, slot'[Sec], home'[Sec]) = home'[Sec]
      BY <3>1, ReplayEmpty
    <3> QED BY <3>1, <3>2 DEF Recovered, Sec
  <2>3. Recovered(Sec) = home[Sec]
    BY <1>1, LogHidden
  <2> QED BY <1>1, <1>3, <2>2, <2>3 DEF Stutter
<1>5. CASE WriteHead
  <2>1. /\ hdr' = [hdr EXCEPT ![Sec] = lh] /\ slot' = slot /\ phase = "write_head"
        /\ tail = Len(lh) /\ Distinct(lh)
    BY <1>2, <1>5 DEF WriteHead, DiskInv, HeadersOK
  <2>2. InOp = {}
    BY <2>1 DEF SpaceInv, Quiet
  <2>3. /\ lh \in Seq(Block) /\ Len(lh) \in Nat /\ hdr \in [Dev -> Seq(Block)]
        /\ data[Sec] \in [Block -> Val] /\ pending \in [Proc -> Buf \cup {<<>>}]
    BY SMTT(60), <1>2 DEF SpaceInv, TypeOK
  <2> DEFINE s == slot[Sec]
             m == home[Sec]
             f == data[Sec]
  <2>4. \A i \in 1 .. Len(lh) : f[lh[i]] = s[i]
    <3>1. CopyOK
      BY DEF DiskInv
    <3>2. \A i \in 1 .. Len(lh) : i <= tail => slot[Sec][i] = data[Sec][lh[i]]
      BY <2>1, <3>1 DEF CopyOK
    <3>3. \A i \in 1 .. Len(lh) : i <= tail
      BY <2>1, <2>3
    <3> QED BY <3>2, <3>3
  <2>5. \A b \in Block : (\A i \in 1 .. Len(lh) : lh[i] # b) => f[b] = m[b]
    <3> SUFFICES ASSUME NEW b \in Block, \A i \in 1 .. Len(lh) : lh[i] # b
                 PROVE  data[Sec][b] = home[Sec][b]
      OBVIOUS
    <3>1. <<Sec, b>> \notin dirty
      BY DEF DiskInv, CacheOK
    <3>2. \A p \in Proc : pending[p] = <<>>
      BY <2>2 DEF InOp, SpaceInv, InCallOK, CallOK
    <3>3. ~ \E p \in Proc : pending[p] = <<Sec, b>>
      BY <3>2, PairNotEmpty, Zenon
    <3> QED BY <3>1, <3>3, <1>2 DEF DiskInv, CacheOK
  <2>6. f \in [Block -> Val]
    BY <2>3
  <2>7. lh \in Seq(Block) /\ Distinct(lh)
    BY <2>1, <2>3
  <2> HIDE DEF s, m, f
  <2>8. Replay(lh, s, m) = f
    BY SMTT(60), <2>4, <2>5, <2>6, <2>7, ReplayIs
  <2>9. hdr'[Sec] = lh /\ slot' = slot /\ home' = home
    BY <1>1, <1>2, <2>1, <2>3
  <2>10. Recovered(Sec)' = data[Sec]
    BY <2>8, <2>9 DEF Recovered, s, m, f, Sec
  <2> QED BY <1>1, <1>3, <2>2, <2>10
<1> QED BY <1>4, <1>5 DEF CommitStep

\* A call enters, or goes to sleep.
LEMMA BeginAtomic ==
  ASSUME SpaceInv, NEW p \in Proc, BeginOp(p)
  PROVE  \/ Stutter
         \/ p \notin InOp /\ InOp' = InOp \cup {p} /\ UNCHANGED <<Recovered(Sec), View>>
<1>1. UNCHANGED disk /\ data' = data /\ phase' = phase /\ committing' = committing
  BY DEF BeginOp, cache
<1>2. Booting' = Booting
  BY <1>1 DEF Booting
<1>3. UNCHANGED <<Recovered(Sec), View>>
  BY <1>1, <1>2, SameDisk DEF View
<1>4. p \notin InOp /\ pc \in [Proc -> PC]
  BY DEF BeginOp, InOp, SpaceInv, TypeOK
<1>5. CASE MustWait
  <2>1. pc' = [pc EXCEPT ![p] = "asleep"]
    BY <1>5 DEF BeginOp
  <2>2. InOp' = InOp
    BY <1>4, <2>1 DEF InOp
  <2> QED BY <1>3, <2>2 DEF Stutter
<1>6. CASE ~MustWait
  <2>1. pc' = [pc EXCEPT ![p] = "op"]
    BY <1>6 DEF BeginOp
  <2>2. InOp' = InOp \cup {p}
    BY <1>4, <2>1 DEF InOp
  <2> QED BY <1>3, <1>4, <2>2
<1> QED BY <1>5, <1>6

\* A call writes a block of the log's device, or of the other one.
LEMMA WriteAtomic ==
  ASSUME SpaceInv, SpaceInv', DiskInv, NEW p \in Proc,
         NEW d \in Dev, NEW b \in Block, NEW v \in Val, LogWriteTest(p, d, b, v)
  PROVE  \/ Stutter
         \/ /\ p \in InOp
            /\ View' = [View EXCEPT ![b] = v]
            /\ UNCHANGED <<Recovered(Sec), InOp>>
<1>1. /\ UNCHANGED disk /\ phase' = phase /\ committing' = committing
      /\ data' = [data EXCEPT ![d][b] = v] /\ data \in [Dev -> [Block -> Val]]
      /\ pc' = [pc EXCEPT ![p] = "log_write"] /\ pc \in [Proc -> PC] /\ pc[p] = "op"
  BY DEF LogWriteTest, SpaceInv, TypeOK
<1>2. p \in InOp /\ InOp' = InOp
  BY <1>1 DEF InOp
<1>3. ~Booting /\ ~Booting' /\ Sec \in Dev
  BY <1>1, <1>2 DEF SpaceInv, Quiet, Booting, Sec, Dev
<1>4. Recovered(Sec)' = Recovered(Sec)
  BY <1>1, SameDisk
<1>5. CASE d = Sec
  <2>1. data'[Sec] = [data[Sec] EXCEPT ![b] = v]
    BY <1>1, <1>3, <1>5
  <2> QED BY <1>2, <1>3, <1>4, <2>1 DEF View
<1>6. CASE d # Sec
  <2>1. data'[Sec] = data[Sec]
    BY <1>1, <1>3, <1>6
  <2> QED BY <1>2, <1>3, <1>4, <2>1 DEF View, Stutter
<1> QED BY <1>5, <1>6

LEMMA RecordStutters ==
  ASSUME SpaceInv, NEW p \in Proc, LogWriteRecord(p)
  PROVE  Stutter
<1>1. UNCHANGED disk /\ data' = data /\ phase' = phase /\ committing' = committing
  BY DEF LogWriteRecord
<1>2. Booting' = Booting
  BY <1>1 DEF Booting
<1>3. InOp' = InOp
  BY DEF LogWriteRecord, InOp, SpaceInv, TypeOK
<1> QED BY <1>1, <1>2, <1>3, SameDisk DEF Stutter, View

\* wakeup(&log) lets nobody into or out of a call.
LEMMA WakeupInOp ==
  ASSUME SpaceInv, NEW p \in Proc, Wakeup([pc EXCEPT ![p] = "out"])
  PROVE  InOp' = InOp \ {p}
<1>1. pc \in [Proc -> PC] /\ waiters \in Seq(Proc)
  BY DEF SpaceInv, TypeOK
<1>2. CASE waiters = <<>>
  BY <1>1, <1>2 DEF Wakeup, InOp
<1>3. CASE waiters # <<>>
  <2> DEFINE q == Head(waiters)
  <2>1. q \in Proc /\ 1 \in 1 .. Len(waiters) /\ q = waiters[1]
    BY <1>1, <1>3
  <2>2. pc[q] = "asleep"
    BY <2>1 DEF SpaceInv, WaitersOK
  <2>3. pc' = [[pc EXCEPT ![p] = "out"] EXCEPT ![q] = "begin"]
    BY <1>3 DEF Wakeup
  <2> HIDE DEF q
  <2> QED BY <1>1, <2>1, <2>2, <2>3 DEF InOp
<1> QED BY <1>2, <1>3

LEMMA EndAtomic ==
  ASSUME SpaceInv, NEW p \in Proc, EndOp(p)
  PROVE  p \in InOp /\ InOp' = InOp \ {p} /\ UNCHANGED <<Recovered(Sec), View>>
<1>1. p \in InOp /\ pc \in [Proc -> PC]
  BY DEF EndOp, InOp, SpaceInv, TypeOK
<1>2. phase = "idle" /\ ~committing /\ ~Booting
  BY <1>1 DEF SpaceInv, Quiet, Booting
<1>3. UNCHANGED disk /\ data' = data
  BY DEF EndOp, cache
<1>4. CASE outstanding = 1
  <2>1. pc' = [pc EXCEPT ![p] = "commit"] /\ committing'
    BY <1>2, <1>4 DEF EndOp
  <2>2. InOp' = InOp \ {p} /\ ~Booting'
    BY <1>1, <2>1 DEF InOp, Booting
  <2> QED BY <1>1, <1>2, <1>3, <2>2, SameDisk DEF View
<1>5. CASE outstanding # 1
  <2>1. Wakeup([pc EXCEPT ![p] = "out"]) /\ phase' = phase
    BY <1>2, <1>5 DEF EndOp
  <2>2. InOp' = InOp \ {p} /\ ~Booting'
    BY <1>2, <2>1, WakeupInOp DEF Booting
  <2> QED BY <1>1, <1>2, <1>3, <2>2, SameDisk DEF View
<1> QED BY <1>4, <1>5

LEMMA FinishStutters ==
  ASSUME SpaceInv, DiskInv, NEW p \in Proc, Finish(p)
  PROVE  Stutter
<1>1. /\ UNCHANGED disk /\ data' = data /\ phase = "finish" /\ phase' = "idle"
      /\ Wakeup([pc EXCEPT ![p] = "out"])
  BY DEF Finish, cache
<1>2. ~Booting /\ ~Booting'
  BY <1>1 DEF DiskInv, HeadersOK, Booting
<1>3. InOp = {} /\ InOp' = InOp
  BY <1>1, WakeupInOp DEF SpaceInv, Quiet
<1> QED BY <1>1, <1>2, <1>3, SameDisk DEF Stutter, View

LEMMA RecycleStutters ==
  ASSUME SpaceInv, DiskInv, NEW d \in Dev, NEW b \in Block, Recycle(d, b)
  PROVE  Stutter
<1>1. UNCHANGED disk /\ phase' = phase /\ committing' = committing /\ InOp' = InOp
  BY DEF Recycle, InOp, ops
<1>2. Booting' = Booting
  BY <1>1 DEF Booting
<1>3. data'[Sec] = data[Sec]
  BY RecycleSame
<1> QED BY <1>1, <1>2, <1>3, SameDisk DEF Stutter, View

LEMMA CrashAtomic ==
  ASSUME Crash
  PROVE  View' = Recovered(Sec) /\ InOp' = {} /\ UNCHANGED Recovered(Sec)
<1>1. UNCHANGED disk /\ Booting' /\ InOp' = {}
  BY DEF Crash, Booting, InOp
<1> QED BY <1>1, SameDisk DEF View

-----------------------------------------------------------------------------
LEMMA AtomicInit == Init => AD!Init
<1> SUFFICES ASSUME Init PROVE AD!Init
  OBVIOUS
<1>1. Booting /\ InOp = {}
  BY DEF Init, Booting, InOp
<1>2. Recovered(SECONDARYDEV) \in [Block -> Val]
  <2>1. home[SECONDARYDEV] \in [Block -> Val] /\ hdr[SECONDARYDEV] = <<>>
    BY DEF Init, Dev
  <2> QED BY <2>1, ReplayEmpty DEF Recovered
<1> QED BY <1>1, <1>2 DEF AD!Init

LEMMA AtomicStep ==
  ASSUME RoomEnough, SpaceInv, SpaceInv', DiskInv, DiskInv', [Next]_vars
  PROVE  [AD!Next]_AD!vars
<1> DEFINE R == Recovered(SECONDARYDEV)
           V == IF Booting THEN Recovered(SECONDARYDEV) ELSE data[SECONDARYDEV]
<1>0. View = V /\ View' = V' /\ Recovered(Sec) = R /\ Recovered(Sec)' = R'
  BY DEF View, Sec
<1>1. ASSUME Stutter PROVE UNCHANGED AD!vars
  BY <1>0, <1>1 DEF Stutter, AD!vars
<1>2. CASE Recover
  BY <1>1, <1>2, RecoverStutters
<1>3. CASE CommitStep
  <2>1. CASE Stutter
    BY <1>1, <2>1
  <2>2. CASE InOp = {} /\ Recovered(Sec)' = View /\ UNCHANGED <<View, InOp>>
    BY <1>0, <2>2 DEF AD!Next, AD!Commit
  <2> QED BY <1>3, <2>1, <2>2, CommitAtomic
<1>4. ASSUME NEW p \in Proc, BeginOp(p) PROVE [AD!Next]_AD!vars
  <2>1. CASE Stutter
    BY <1>1, <2>1
  <2>2. CASE p \notin InOp /\ InOp' = InOp \cup {p} /\ UNCHANGED <<Recovered(Sec), View>>
    BY <1>0, <2>2 DEF AD!Next, AD!Begin
  <2> QED BY <1>4, <2>1, <2>2, BeginAtomic
<1>5. ASSUME NEW p \in Proc, NEW d \in Dev, NEW b \in Block, NEW v \in Val,
             LogWriteTest(p, d, b, v)
      PROVE  [AD!Next]_AD!vars
  <2>1. CASE Stutter
    BY <1>1, <2>1
  <2>2. CASE /\ p \in InOp
             /\ View' = [View EXCEPT ![b] = v]
             /\ UNCHANGED <<Recovered(Sec), InOp>>
    <3>1. AD!Write(p, b, v)
      BY <1>0, <2>2 DEF AD!Write
    <3> QED BY <3>1 DEF AD!Next
  <2> QED BY <1>5, <2>1, <2>2, WriteAtomic
<1>6. ASSUME NEW p \in Proc, LogWriteRecord(p) PROVE UNCHANGED AD!vars
  BY <1>1, <1>6, RecordStutters
<1>7. ASSUME NEW p \in Proc, EndOp(p) PROVE AD!Next
  <2>1. AD!End(p)
    BY <1>0, <1>7, EndAtomic DEF AD!End
  <2> QED BY <2>1 DEF AD!Next
<1>8. ASSUME NEW p \in Proc, Finish(p) PROVE UNCHANGED AD!vars
  BY <1>1, <1>8, FinishStutters
<1>9. ASSUME NEW d \in Dev, NEW b \in Block, Recycle(d, b) PROVE UNCHANGED AD!vars
  BY <1>1, <1>9, RecycleStutters
<1>10. CASE Crash
  BY <1>0, <1>10, CrashAtomic DEF AD!Next, AD!Crash
<1>11. CASE UNCHANGED vars
  <2>1. UNCHANGED disk /\ data' = data /\ phase' = phase /\ committing' = committing
        /\ InOp' = InOp
    BY <1>11 DEF vars, InOp, cache, ops
  <2>2. Booting' = Booting
    BY <2>1 DEF Booting
  <2>3. Stutter
    BY <2>1, <2>2, SameDisk DEF Stutter, View
  <2> QED BY <1>1, <2>3
<1> HIDE DEF R, V
<1> QED BY <1>2, <1>3, <1>4, <1>5, <1>6, <1>7, <1>8, <1>9, <1>10, <1>11 DEF Next

(* log.c implements atomic group commit on the device it logs: the calls    *)
(* that end together reach the disk all at once or not at all, whatever the *)
(* step at which the machine crashes, recovery included.                    *)
THEOREM Atomicity == ASSUME RoomEnough PROVE Spec => GroupCommitAtomic
<1>1. SpaceInv /\ SpaceInv' /\ DiskInv /\ DiskInv' /\ [Next]_vars => [AD!Next]_AD!vars
  BY AtomicStep
<1> QED BY <1>1, AtomicInit, DiskAlways, PTL DEF Spec, GroupCommitAtomic, AD!Spec
=============================================================================
