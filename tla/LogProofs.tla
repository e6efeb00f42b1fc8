----------------------------- MODULE LogProofs -----------------------------
(***************************************************************************)
(* The counters of struct log and the space in the log, for any number of  *)
(* processes and blocks: type correctness, quiescent commits, no overflow, *)
(* nobody left asleep.                                                     *)
(***************************************************************************)
EXTENDS Log, FiniteSetTheorems, TLAPS

\* Time limits of the provers.
USE SMTT(20), ZenonT(20)

-----------------------------------------------------------------------------
(* The inductive invariant for the counters and the space in the log.       *)

\* Blocks reserved for the calls of I that have logged the buffers w so far
\* and may still use them.
UnusedOf(I, w) == {u \in I \X (1 .. MAXOPBLOCKS) : u[2] > Cardinality(w[u[1]])}

Reservation == Len(lh) + Cardinality(UnusedOf(InOp, wrote)) <= LOGSIZE

\* A header that some call, or some commit before a crash, has produced.
Short(s) == s = <<>> \/ Len(s) + MAXOPBLOCKS <= LOGSIZE + OpBlocks
HeadersShort == Short(lh) /\ \A d \in Dev : Short(hdr[d])

Counted == outstanding = Cardinality(InOp)

\* No call is in progress while a recovery or a commit runs, and nothing is
\* left in the header after it.
Quiet ==
  /\ phase # "idle" => InOp = {}
  /\ committing => phase # "idle"
  /\ phase = "finish" \/ (phase = "idle" /\ InOp = {}) => lh = <<>>

CallOK(p) ==
  /\ pc[p] = "log_write" =>
       pending[p] \in Buf /\ Cardinality(wrote[p] \cup {pending[p]}) <= OpBlocks
  /\ pc[p] # "log_write" => pending[p] = <<>>
  /\ p \in InOp =>
       Cardinality(wrote[p]) <= OpBlocks /\ \A buf \in wrote[p] : buf[2] \in Logged

InCallOK == \A p \in Proc : CallOK(p)

Distinct(s) == \A i, j \in 1 .. Len(s) : s[i] = s[j] => i = j

WaitersOK ==
  /\ Distinct(waiters)
  /\ \A i \in 1 .. Len(waiters) : pc[waiters[i]] = "asleep"
  /\ NoStrandedWaiter

TailOK == phase \in {"install", "write_log"} => tail <= Len(lh)

SpaceInv ==
  /\ TypeOK
  /\ ~panicked
  /\ Counted
  /\ Quiet
  /\ InCallOK
  /\ Reservation
  /\ HeadersShort
  /\ WaitersOK
  /\ TailOK

-----------------------------------------------------------------------------
(* Facts about the reserved blocks, for any set of calls.                   *)

\* They are finitely many, MAXOPBLOCKS for each call at most.
LEMMA UnusedUpper ==
  ASSUME NEW I, IsFiniteSet(I), NEW w
  PROVE  /\ IsFiniteSet(UnusedOf(I, w))
         /\ Cardinality(UnusedOf(I, w)) \in Nat
         /\ Cardinality(UnusedOf(I, w)) <= Cardinality(I) * MAXOPBLOCKS
<1> DEFINE All == I \X (1 .. MAXOPBLOCKS)
<1>1. /\ IsFiniteSet(1 .. MAXOPBLOCKS)
      /\ Cardinality(1 .. MAXOPBLOCKS) = MAXOPBLOCKS
  BY FS_Interval, LogAssumption
<1>2. IsFiniteSet(All) /\ Cardinality(All) = Cardinality(I) * MAXOPBLOCKS
  BY <1>1, FS_Product
<1>3. UnusedOf(I, w) \in SUBSET All
  BY DEF UnusedOf
<1> QED BY <1>2, <1>3, FS_Subset, FS_CardinalityType

\* A call in I that has logged at most OpBlocks buffers leaves the rest.
LEMMA UnusedLower ==
  ASSUME NEW I, IsFiniteSet(I), NEW w, NEW p \in I,
         Cardinality(w[p]) \in Nat, Cardinality(w[p]) <= OpBlocks
  PROVE  MAXOPBLOCKS - OpBlocks <= Cardinality(UnusedOf(I, w))
<1> DEFINE low == OpBlocks + 1
           Rest == low .. MAXOPBLOCKS
<1>0. low \in Int /\ MAXOPBLOCKS \in Int
  BY LogAssumption
<1>1. IsFiniteSet(Rest) /\ Cardinality(Rest) = MAXOPBLOCKS - OpBlocks
  <2>1. /\ IsFiniteSet(Rest)
        /\ Cardinality(Rest) = IF low > MAXOPBLOCKS THEN 0 ELSE MAXOPBLOCKS - low + 1
    <3> HIDE DEF low
    <3> QED BY <1>0, FS_Interval
  <2> QED BY <2>1, LogAssumption
<1>2. IsFiniteSet({p}) /\ Cardinality({p}) = 1
  BY FS_Singleton
<1>3. Cardinality({p} \X Rest) = MAXOPBLOCKS - OpBlocks
  <2>1. Cardinality({p} \X Rest) = Cardinality({p}) * Cardinality(Rest)
    <3> HIDE DEF Rest
    <3> QED BY <1>1, <1>2, FS_Product
  <2> QED BY <2>1, <1>1, <1>2, LogAssumption
<1>4. {p} \X Rest \in SUBSET UnusedOf(I, w)
  BY LogAssumption DEF UnusedOf
<1> QED BY <1>3, <1>4, UnusedUpper, FS_Subset

\* Fewer calls with the same writes leave no more.
LEMMA UnusedLeave ==
  ASSUME NEW I, IsFiniteSet(I), NEW J \in SUBSET I, NEW w, NEW x,
         \A q \in J : x[q] = w[q]
  PROVE  Cardinality(UnusedOf(J, x)) <= Cardinality(UnusedOf(I, w))
<1>1. UnusedOf(J, x) \in SUBSET UnusedOf(I, w)
  BY DEF UnusedOf
<1> QED BY <1>1, UnusedUpper, FS_Subset

\* A call that logs one more buffer uses one reserved block.
LEMMA UnusedUse ==
  ASSUME NEW I, IsFiniteSet(I), NEW w, NEW x, NEW p \in I,
         Cardinality(w[p]) \in Nat, Cardinality(w[p]) < MAXOPBLOCKS,
         Cardinality(x[p]) = Cardinality(w[p]) + 1,
         \A q \in I \ {p} : x[q] = w[q]
  PROVE  Cardinality(UnusedOf(I, x)) = Cardinality(UnusedOf(I, w)) - 1
<1> DEFINE u == <<p, Cardinality(w[p]) + 1>>
<1>1. u \in UnusedOf(I, w)
  BY LogAssumption DEF UnusedOf
<1>2. UnusedOf(I, x) = UnusedOf(I, w) \ {u}
  BY LogAssumption DEF UnusedOf
<1>3. IsFiniteSet(UnusedOf(I, w))
  BY UnusedUpper
<1>4. Cardinality(UnusedOf(I, w) \ {u}) = Cardinality(UnusedOf(I, w)) - 1
  <2> DEFINE S == UnusedOf(I, w)
  <2>1. IsFiniteSet(S) /\ u \in S
    BY <1>1, <1>3
  <2> HIDE DEF u, S
  <2>2. Cardinality(S \ {u}) = IF u \in S THEN Cardinality(S) - 1 ELSE Cardinality(S)
    BY <2>1, FS_RemoveElement
  <2>3. Cardinality(S \ {u}) = Cardinality(S) - 1
    BY <2>1, <2>2
  <2> QED BY <2>3 DEF S
<1> HIDE DEF u
<1> QED BY <1>2, <1>4

-----------------------------------------------------------------------------
(* The set parts of the type invariant are finite.                          *)
LEMMA FiniteProcs ==
  ASSUME NEW T \in SUBSET Proc
  PROVE  IsFiniteSet(T) /\ Cardinality(T) \in Nat
BY LogAssumption, FS_Subset, FS_CardinalityType

LEMMA FiniteBufs ==
  ASSUME NEW T \in SUBSET Buf
  PROVE  IsFiniteSet(T) /\ Cardinality(T) \in Nat
<1>1. ROOTDEV # SECONDARYDEV /\ IsFiniteSet(Block)
  BY LogAssumption
<1>2. IsFiniteSet(Dev)
  <2>1. IsFiniteSet({ROOTDEV})
    BY FS_Singleton
  <2>2. IsFiniteSet({ROOTDEV} \cup {SECONDARYDEV})
    BY <2>1, FS_AddElement
  <2> QED BY <2>2 DEF Dev
<1>3. IsFiniteSet(Buf)
  BY <1>1, <1>2, FS_Product DEF Buf
<1> QED BY <1>3, FS_Subset, FS_CardinalityType

\* A header that is Short fits in the on-disk log.
LEMMA ShortFits ==
  ASSUME RoomEnough, NEW s \in Seq(Block), Short(s)
  PROVE  Len(s) \in Nat /\ Len(s) <= nlog - 1
BY LogAssumption DEF RoomEnough, Short

\* While a call is in progress there is room for one more block.
LEMMA Room ==
  ASSUME SpaceInv, RoomEnough, NEW p \in InOp
  PROVE  /\ outstanding >= 1
         /\ Len(lh) \in Nat
         /\ Len(lh) < LOGSIZE
         /\ Len(lh) < nlog - 1
         /\ Len(lh) + MAXOPBLOCKS <= LOGSIZE + OpBlocks
<1>1. InOp \in SUBSET Proc /\ p \in Proc /\ wrote[p] \in SUBSET Buf
  BY DEF SpaceInv, TypeOK, InOp
<1>2. IsFiniteSet(InOp) /\ Cardinality(InOp) \in Nat /\ Cardinality(InOp) # 0
  BY <1>1, FiniteProcs, FS_EmptySet
<1>3. Cardinality(wrote[p]) \in Nat /\ Cardinality(wrote[p]) <= OpBlocks
  BY <1>1, FiniteBufs DEF SpaceInv, InCallOK, CallOK
<1>4. MAXOPBLOCKS - OpBlocks <= Cardinality(UnusedOf(InOp, wrote))
  BY <1>2, <1>3, UnusedLower
<1>5. Cardinality(UnusedOf(InOp, wrote)) \in Nat
  BY <1>2, UnusedUpper
<1>6. Len(lh) \in Nat /\ Len(lh) + Cardinality(UnusedOf(InOp, wrote)) <= LOGSIZE
  BY DEF SpaceInv, TypeOK, Reservation
<1>7. outstanding >= 1
  BY <1>2 DEF SpaceInv, Counted
<1> QED BY <1>4, <1>5, <1>6, <1>7, LogAssumption DEF RoomEnough

-----------------------------------------------------------------------------
LEMMA SpaceInit == Init => SpaceInv
<1> SUFFICES ASSUME Init PROVE SpaceInv
  OBVIOUS
<1>1. InOp = {}
  BY DEF Init, InOp
<1>2. TypeOK
  <2>1. PICK v \in Val : /\ home = [d \in Dev |-> [b \in Block |-> v]]
                         /\ slot = [d \in Dev |-> [i \in Slots |-> v]]
    BY DEF Init
  <2>2. /\ home \in [Dev -> [Block -> Val]]
        /\ slot \in [Dev -> [Slots -> Val]]
        /\ data \in [Dev -> [Block -> Val]]
    BY <2>1 DEF Init
  <2>3. /\ hdr \in [Dev -> Seq(Block)]
        /\ dirty \subseteq Buf
        /\ wrote \in [Proc -> SUBSET Buf]
        /\ pending \in [Proc -> Buf \cup {<<>>}]
    BY DEF Init
  <2>4. committing \in BOOLEAN /\ panicked \in BOOLEAN /\ stuck \in BOOLEAN
    BY DEF Init
  <2>5. /\ outstanding \in Nat
        /\ dev \in Dev
        /\ lh \in Seq(Block)
        /\ phase \in Phase
        /\ tail \in Nat
        /\ pc \in [Proc -> PC]
        /\ waiters \in Seq(Proc)
    BY DEF Init, Phase, PC, Dev
  <2> QED BY <2>2, <2>3, <2>4, <2>5 DEF TypeOK
<1>3. Counted
  BY <1>1, FS_EmptySet DEF Init, Counted
<1>4. Reservation
  <2>1. Cardinality(UnusedOf(InOp, wrote)) = 0
    BY <1>1, FS_EmptySet DEF UnusedOf
  <2> QED BY <2>1, LogAssumption DEF Init, Reservation
<1>5. Quiet /\ InCallOK /\ HeadersShort /\ WaitersOK /\ TailOK
  BY <1>1 DEF Init, Quiet, InCallOK, CallOK, HeadersShort, Short, WaitersOK, Distinct,
              NoStrandedWaiter, TailOK
<1> QED BY <1>2, <1>3, <1>4, <1>5 DEF Init, SpaceInv

-----------------------------------------------------------------------------
\* A header in the range of Short leaves no more than LOGSIZE to count.
LEMMA ShortSize ==
  ASSUME NEW s \in Seq(Block), Short(s)
  PROVE  Len(s) <= LOGSIZE
BY LogAssumption DEF Short

(* A step of recovery or of commit() touches no call and no waiter.         *)
LEMMA QuietStep ==
  ASSUME SpaceInv, TypeOK', HeadersShort', TailOK',
         UNCHANGED <<ops, waiters, outstanding, committing, panicked>>,
         phase # "idle",
         phase' = "idle" => ~committing,
         phase' \in {"idle", "finish"} => lh' = <<>>
  PROVE  SpaceInv'
<1>1. InOp = {} /\ InOp' = {}
  BY DEF SpaceInv, Quiet, InOp, ops
<1>2. Counted' /\ WaitersOK'
  BY <1>1 DEF SpaceInv, Counted, WaitersOK, NoStrandedWaiter, ops
<1>3. Quiet'
  BY <1>1 DEF Quiet
<1>4. InCallOK'
  BY <1>1 DEF SpaceInv, InCallOK, CallOK, ops, InOp
<1>5. Reservation'
  <2>1. UnusedOf(InOp', wrote') = {}
    BY <1>1 DEF UnusedOf
  <2>2. Cardinality(UnusedOf(InOp', wrote')) = 0
    BY <2>1, FS_EmptySet
  <2>3. lh' \in Seq(Block) /\ Short(lh')
    BY DEF TypeOK, HeadersShort
  <2>4. Len(lh') <= LOGSIZE /\ Len(lh') \in Nat
    BY <2>3, ShortSize
  <2> QED BY <2>2, <2>4 DEF Reservation
<1> QED BY <1>2, <1>3, <1>4, <1>5 DEF SpaceInv

LEMMA ReadHeadSpace == SpaceInv /\ RoomEnough /\ ReadHead => SpaceInv'
<1> SUFFICES ASSUME SpaceInv, RoomEnough, ReadHead PROVE SpaceInv'
  OBVIOUS
<1>1. TypeOK'
  BY DEF SpaceInv, TypeOK, ReadHead, disk, cache, ops, Phase
<1>2. HeadersShort' /\ TailOK'
  BY DEF SpaceInv, TypeOK, ReadHead, disk, HeadersShort, TailOK
<1> QED BY <1>1, <1>2, QuietStep DEF ReadHead

LEMMA InstallSpace == SpaceInv /\ RoomEnough /\ (InstallBlock \/ InstallDone) => SpaceInv'
<1> SUFFICES ASSUME SpaceInv, RoomEnough, InstallBlock \/ InstallDone PROVE SpaceInv'
  OBVIOUS
<1>1. CASE InstallBlock
  <2>1. Len(lh) \in Nat /\ Len(lh) <= nlog - 1
    BY ShortFits DEF SpaceInv, TypeOK, HeadersShort
  <2>2. tail + 1 \in Slots /\ tail + 1 \in 1 .. Len(lh)
    BY <1>1, <2>1, LogAssumption DEF SpaceInv, TypeOK, InstallBlock, Slots
  <2>3. lh[tail + 1] \in Block /\ slot[dev][tail + 1] \in Val
    BY <2>2 DEF SpaceInv, TypeOK
  <2>4. /\ home' \in [Dev -> [Block -> Val]]
        /\ data' \in [Dev -> [Block -> Val]]
        /\ dirty' \subseteq Buf
        /\ tail' \in Nat
    BY <1>1, <2>3 DEF SpaceInv, TypeOK, InstallBlock
  <2>5. TypeOK'
    BY <1>1, <2>4 DEF SpaceInv, TypeOK, InstallBlock, ops
  <2>6. HeadersShort' /\ TailOK'
    BY <1>1, <2>1, <2>2 DEF SpaceInv, InstallBlock, HeadersShort, TailOK
  <2> QED BY <1>1, <2>5, <2>6, QuietStep DEF InstallBlock
<1>2. CASE InstallDone
  <2>1. TypeOK'
    BY <1>2 DEF SpaceInv, TypeOK, InstallDone, disk, cache, ops, Phase
  <2>2. HeadersShort' /\ TailOK'
    BY <1>2 DEF SpaceInv, InstallDone, disk, HeadersShort, TailOK
  <2> QED BY <1>2, <2>1, <2>2, QuietStep DEF InstallDone
<1> QED BY <1>1, <1>2

LEMMA ClearHeadSpace == SpaceInv /\ RoomEnough /\ ClearHead => SpaceInv'
<1> SUFFICES ASSUME SpaceInv, RoomEnough, ClearHead PROVE SpaceInv'
  OBVIOUS
<1>1. lh' = <<>> /\ hdr' = [hdr EXCEPT ![dev] = <<>>]
  BY DEF ClearHead
<1>2. TypeOK'
  BY DEF SpaceInv, TypeOK, ClearHead, cache, ops, Phase, Dev
<1>3. HeadersShort' /\ TailOK'
  BY <1>1 DEF SpaceInv, TypeOK, ClearHead, HeadersShort, Short, TailOK
<1> QED BY <1>1, <1>2, <1>3, QuietStep DEF ClearHead

LEMMA CommitSpace == SpaceInv /\ RoomEnough /\ CommitStep => SpaceInv'
<1> SUFFICES ASSUME SpaceInv, RoomEnough, CommitStep PROVE SpaceInv'
  OBVIOUS
<1>1. CASE WriteLogBlock
  <2>1. tail + 1 \in 1 .. Len(lh)
    BY <1>1 DEF SpaceInv, TypeOK, WriteLogBlock
  <2>2. data[dev][lh[tail + 1]] \in Val
    BY <2>1 DEF SpaceInv, TypeOK
  <2>3. slot' \in [Dev -> [Slots -> Val]] /\ tail' \in Nat
    <3>1. dev \in Dev /\ slot \in [Dev -> [Slots -> Val]] /\ tail \in Nat
      BY DEF SpaceInv, TypeOK
    <3>2. /\ slot' = [slot EXCEPT ![dev][tail + 1] = data[dev][lh[tail + 1]]]
          /\ tail' = tail + 1
      BY <1>1 DEF WriteLogBlock
    <3>3. tail + 1 \in Slots
      <4>1. Len(lh) \in Nat /\ Len(lh) <= nlog - 1
        BY ShortFits DEF SpaceInv, TypeOK, HeadersShort
      <4> QED BY <2>1, <4>1, LogAssumption DEF Slots
    <3> QED BY <2>2, <3>1, <3>2, <3>3
  <2>4. TypeOK'
    BY <1>1, <2>3 DEF SpaceInv, TypeOK, WriteLogBlock, cache, ops
  <2>5. HeadersShort' /\ TailOK'
    BY <1>1, <2>1 DEF SpaceInv, TypeOK, WriteLogBlock, HeadersShort, TailOK
  <2> QED BY <1>1, <2>4, <2>5, QuietStep DEF WriteLogBlock
<1>2. CASE WriteLogDone
  <2>1. TypeOK'
    BY <1>2 DEF SpaceInv, TypeOK, WriteLogDone, disk, cache, ops, Phase
  <2>2. HeadersShort' /\ TailOK'
    BY <1>2 DEF SpaceInv, WriteLogDone, disk, HeadersShort, TailOK
  <2> QED BY <1>2, <2>1, <2>2, QuietStep DEF WriteLogDone
<1>3. CASE WriteHead
  <2>1. TypeOK'
    BY <1>3 DEF SpaceInv, TypeOK, WriteHead, cache, ops, Phase
  <2>2. HeadersShort' /\ TailOK'
    BY <1>3 DEF SpaceInv, TypeOK, WriteHead, HeadersShort, TailOK
  <2> QED BY <1>3, <2>1, <2>2, QuietStep DEF WriteHead
<1> QED BY <1>1, <1>2, <1>3 DEF CommitStep

LEMMA CrashSpace == SpaceInv /\ RoomEnough /\ Crash => SpaceInv'
<1> SUFFICES ASSUME SpaceInv, RoomEnough, Crash PROVE SpaceInv'
  OBVIOUS
<1>1. InOp' = {}
  BY DEF Crash, InOp
<1>2. TypeOK'
  <2>1. committing' \in BOOLEAN /\ panicked' \in BOOLEAN /\ stuck' \in BOOLEAN
    BY DEF Crash
  <2> QED BY <2>1 DEF SpaceInv, TypeOK, Crash, disk, Phase, PC, Dev
<1>3. Counted'
  BY <1>1, FS_EmptySet DEF Crash, Counted
<1>4. Reservation'
  <2>1. Cardinality(UnusedOf(InOp', wrote')) = 0
    BY <1>1, FS_EmptySet DEF UnusedOf
  <2> QED BY <2>1, LogAssumption DEF Crash, Reservation
<1>5. Quiet' /\ InCallOK' /\ HeadersShort' /\ TailOK'
  BY <1>1 DEF SpaceInv, Crash, Quiet, InCallOK, CallOK, HeadersShort, Short, TailOK, disk
<1>6. WaitersOK'
  BY DEF Crash, WaitersOK, Distinct, NoStrandedWaiter
<1> QED BY <1>2, <1>3, <1>4, <1>5, <1>6 DEF SpaceInv, Crash

LEMMA RecycleSpace ==
  ASSUME SpaceInv, RoomEnough, NEW d \in Dev, NEW b \in Block, Recycle(d, b)
  PROVE  SpaceInv'
<1>1. data' \in [Dev -> [Block -> Val]]
  BY DEF SpaceInv, TypeOK, Recycle
<1>2. TypeOK'
  BY <1>1 DEF SpaceInv, TypeOK, Recycle, disk, ops
<1>3. InOp' = InOp
  BY DEF Recycle, InOp, ops
<1>4. Counted' /\ Quiet' /\ InCallOK' /\ Reservation' /\ HeadersShort' /\ WaitersOK' /\ TailOK'
  BY <1>3 DEF SpaceInv, Recycle, disk, ops, Counted, Quiet, InCallOK, CallOK, Logged, Reservation,
              HeadersShort, WaitersOK, NoStrandedWaiter, TailOK
<1> QED BY <1>2, <1>4 DEF SpaceInv, Recycle

\* A process that is added to the calls in progress, or removed from them.
LEMMA CountIn ==
  ASSUME NEW I \in SUBSET Proc, NEW p \in Proc, p \notin I
  PROVE  Cardinality(I \cup {p}) = Cardinality(I) + 1
BY FiniteProcs, FS_AddElement

LEMMA CountOut ==
  ASSUME NEW I \in SUBSET Proc, NEW p \in I
  PROVE  /\ Cardinality(I \ {p}) = Cardinality(I) - 1
         /\ Cardinality(I) = 1 => I \ {p} = {}
         /\ Cardinality(I) # 1 => I \ {p} # {}
<1>1. IsFiniteSet(I) /\ Cardinality(I) \in Nat
  BY FiniteProcs
<1>2. IsFiniteSet(I \ {p}) /\ Cardinality(I \ {p}) = Cardinality(I) - 1
  BY <1>1, FS_RemoveElement
<1> QED BY <1>1, <1>2, FS_EmptySet

\* A step of one call leaves the others as they are.
LEMMA OtherCalls ==
  ASSUME InCallOK, NEW p \in Proc, CallOK(p)', Logged \subseteq Logged',
         \A q \in Proc \ {p} :
           pc'[q] = pc[q] /\ wrote'[q] = wrote[q] /\ pending'[q] = pending[q]
  PROVE  InCallOK'
<1> SUFFICES ASSUME NEW q \in Proc \ {p} PROVE CallOK(q)'
  BY DEF InCallOK
<1>1. CallOK(q) /\ (q \in InOp' <=> q \in InOp)
  BY DEF InCallOK, InOp
<1> QED BY <1>1 DEF CallOK

LEMMA BeginOpSpace ==
  ASSUME SpaceInv, RoomEnough, NEW p \in Proc, BeginOp(p)
  PROVE  SpaceInv'
<1>0. p \notin InOp /\ InOp \in SUBSET Proc
  BY DEF BeginOp, InOp
<1>1. CASE MustWait
  <2>1. /\ pc' = [pc EXCEPT ![p] = "asleep"]
        /\ waiters' = Append(waiters, p)
        /\ UNCHANGED <<outstanding, wrote>>
    BY <1>1 DEF BeginOp
  <2>2. TypeOK'
    BY <2>1 DEF SpaceInv, TypeOK, BeginOp, disk, cache, PC
  <2>3. InOp' = InOp
    BY <1>0, <2>1 DEF SpaceInv, TypeOK, InOp
  <2>4. Counted' /\ Quiet' /\ Reservation' /\ HeadersShort' /\ TailOK'
    BY <2>1, <2>3 DEF SpaceInv, BeginOp, disk, Counted, Quiet, Reservation, HeadersShort, TailOK
  <2>5. InCallOK'
    <3>1. CallOK(p)'
      BY <1>0, <2>1, <2>3 DEF SpaceInv, TypeOK, BeginOp, InCallOK, CallOK
    <3>2. Logged' = Logged
      BY DEF BeginOp, Logged
    <3> QED BY <2>1, <3>1, <3>2, OtherCalls DEF SpaceInv, TypeOK, BeginOp
  <2>6. NoStrandedWaiter'
    <3>1. committing \/ InOp # {}
      <4>1. SUFFICES ASSUME ~committing, InOp = {} PROVE FALSE
        OBVIOUS
      <4>2. phase = "idle"
        BY <4>1 DEF BeginOp, Booting
      <4>3. outstanding = 0
        BY <4>1, FS_EmptySet DEF SpaceInv, Counted
      <4>4. lh = <<>>
        BY <4>1, <4>2 DEF SpaceInv, Quiet
      <4> QED BY <1>1, <4>1, <4>3, <4>4, LogAssumption DEF MustWait, NoRoom, RoomEnough
    <3> QED BY <3>1, <2>3 DEF BeginOp, NoStrandedWaiter
  <2>7. WaitersOK'
    <3>1. waiters \in Seq(Proc) /\ pc \in [Proc -> PC] /\ pc[p] # "asleep"
      BY DEF SpaceInv, TypeOK, BeginOp
    <3>2. \A i \in 1 .. Len(waiters) : pc[waiters[i]] = "asleep" /\ waiters[i] # p
      BY <3>1 DEF SpaceInv, WaitersOK
    <3>3. Distinct(waiters')
      BY <2>1, <3>1, <3>2 DEF SpaceInv, WaitersOK, Distinct
    <3>4. \A i \in 1 .. Len(waiters') : pc'[waiters'[i]] = "asleep"
      BY <2>1, <3>1, <3>2
    <3> QED BY <2>6, <3>3, <3>4 DEF WaitersOK
  <2> QED BY <2>2, <2>4, <2>5, <2>7 DEF SpaceInv, BeginOp
<1>2. CASE ~MustWait
  <2>1. /\ outstanding' = outstanding + 1
        /\ pc' = [pc EXCEPT ![p] = "op"]
        /\ wrote' = [wrote EXCEPT ![p] = {}]
        /\ UNCHANGED waiters
    BY <1>2 DEF BeginOp
  <2>2. TypeOK'
    BY <2>1 DEF SpaceInv, TypeOK, BeginOp, disk, cache, PC
  <2>3. InOp' = InOp \cup {p} /\ InOp' \in SUBSET Proc
    BY <2>1 DEF SpaceInv, TypeOK, InOp
  <2>4. phase = "idle" /\ ~committing
    BY <1>2 DEF BeginOp, Booting, MustWait
  <2>5. Counted'
    BY <1>0, <2>1, <2>3, CountIn DEF SpaceInv, Counted
  <2>6. Quiet' /\ HeadersShort' /\ TailOK'
    BY <2>3, <2>4 DEF SpaceInv, BeginOp, disk, Quiet, HeadersShort, TailOK
  <2>7. InCallOK'
    <3>1. Cardinality({}) = 0
      BY FS_EmptySet
    <3>2. CallOK(p)'
      <4>1. pc'[p] = "op" /\ wrote'[p] = {}
        BY <2>1 DEF SpaceInv, TypeOK
      <4>2. pending'[p] = <<>>
        BY DEF SpaceInv, BeginOp, InCallOK, CallOK
      <4> QED BY <3>1, <4>1, <4>2, LogAssumption DEF CallOK
    <3>3. Logged' = Logged
      BY DEF BeginOp, Logged
    <3> QED BY <2>1, <3>2, <3>3, OtherCalls DEF SpaceInv, TypeOK, BeginOp
  <2>8. Reservation'
    <3>1. Len(lh) + (outstanding + 1) * MAXOPBLOCKS <= LOGSIZE /\ lh' = lh /\ Len(lh) \in Nat
      BY <1>2, LogAssumption DEF MustWait, NoRoom, BeginOp, SpaceInv, TypeOK
    <3>2. /\ Cardinality(UnusedOf(InOp', wrote')) \in Nat
          /\ Cardinality(UnusedOf(InOp', wrote')) <= Cardinality(InOp') * MAXOPBLOCKS
      BY <2>3, FiniteProcs, UnusedUpper
    <3>3. Cardinality(InOp') = outstanding + 1
      BY <2>1, <2>5 DEF Counted
    <3>4. (outstanding + 1) * MAXOPBLOCKS \in Nat
      BY LogAssumption DEF SpaceInv, TypeOK
    <3> QED BY <3>1, <3>2, <3>3, <3>4, LogAssumption DEF Reservation
  <2>9. WaitersOK'
    <3>1. NoStrandedWaiter'
      BY <2>3 DEF NoStrandedWaiter
    <3>2. \A i \in 1 .. Len(waiters) : pc[waiters[i]] = "asleep" /\ waiters[i] \in Proc
      BY DEF SpaceInv, TypeOK, WaitersOK
    <3>3. \A i \in 1 .. Len(waiters) : pc'[waiters[i]] = "asleep"
      BY <2>1, <3>2 DEF SpaceInv, TypeOK, BeginOp
    <3> QED BY <2>1, <3>1, <3>3 DEF SpaceInv, WaitersOK, Distinct
  <2> QED BY <2>2, <2>5, <2>6, <2>7, <2>8, <2>9 DEF SpaceInv, BeginOp
<1> QED BY <1>1, <1>2

LEMMA LogWriteTestSpace ==
  ASSUME SpaceInv, RoomEnough, NEW p \in Proc,
         NEW d \in Dev, NEW b \in Block, NEW v \in Val, LogWriteTest(p, d, b, v)
  PROVE  SpaceInv'
<1>1. p \in InOp
  BY DEF LogWriteTest, InOp
<1>2. ~(Len(lh) >= LOGSIZE \/ Len(lh) >= nlog - 1 \/ outstanding < 1)
  BY <1>1, Room, LogAssumption DEF SpaceInv, TypeOK
<1>3. /\ pc' = [pc EXCEPT ![p] = "log_write"]
      /\ pending' = [pending EXCEPT ![p] = <<d, b>>]
      /\ UNCHANGED <<panicked, wrote>>
  BY <1>2 DEF LogWriteTest
<1>4. <<d, b>> \in Buf
  BY DEF Buf
<1>5. TypeOK'
  <2>1. data' \in [Dev -> [Block -> Val]]
    BY DEF SpaceInv, TypeOK, LogWriteTest
  <2>2. pending' \in [Proc -> Buf \cup {<<>>}] /\ pc' \in [Proc -> PC]
    BY <1>3, <1>4 DEF SpaceInv, TypeOK, PC
  <2> QED BY <1>3, <2>1, <2>2 DEF SpaceInv, TypeOK, LogWriteTest, disk
<1>6. InOp' = InOp
  BY <1>3 DEF SpaceInv, TypeOK, LogWriteTest, InOp
<1>7. Counted' /\ Quiet' /\ Reservation' /\ HeadersShort' /\ TailOK'
  BY <1>3, <1>6 DEF SpaceInv, LogWriteTest, disk, Counted, Quiet, Reservation,
                    HeadersShort, TailOK
<1>8. InCallOK'
  <2>1. CallOK(p)'
    <3>1. pc'[p] = "log_write" /\ pending'[p] = <<d, b>> /\ wrote'[p] = wrote[p]
      BY <1>3 DEF SpaceInv, TypeOK
    <3>2. Cardinality(wrote[p] \cup {<<d, b>>}) <= OpBlocks
      BY DEF LogWriteTest
    <3>3. Logged' = Logged /\ CallOK(p)
      BY DEF LogWriteTest, Logged, SpaceInv, InCallOK
    <3> QED BY <1>1, <1>4, <3>1, <3>2, <3>3 DEF CallOK
  <2>2. Logged' = Logged
    BY DEF LogWriteTest, Logged
  <2> QED BY <1>3, <2>1, <2>2, OtherCalls DEF SpaceInv, TypeOK
<1>9. WaitersOK'
  <2>1. \A i \in 1 .. Len(waiters) : pc[waiters[i]] = "asleep" /\ waiters[i] \in Proc
    BY DEF SpaceInv, TypeOK, WaitersOK
  <2>2. pc[p] = "op"
    BY DEF LogWriteTest
  <2>3. \A i \in 1 .. Len(waiters) : pc'[waiters[i]] = "asleep"
    BY <1>3, <2>1, <2>2 DEF SpaceInv, TypeOK
  <2>4. NoStrandedWaiter'
    BY <1>1, <1>6 DEF NoStrandedWaiter
  <2> QED BY <2>3, <2>4 DEF SpaceInv, WaitersOK, LogWriteTest, Distinct
<1> QED BY <1>3, <1>5, <1>7, <1>8, <1>9 DEF SpaceInv

LEMMA LogWriteRecordSpace ==
  ASSUME SpaceInv, RoomEnough, NEW p \in Proc, LogWriteRecord(p)
  PROVE  SpaceInv'
<1> DEFINE buf == pending[p]
           b == buf[2]
<1>1. p \in InOp /\ pc[p] = "log_write" /\ CallOK(p) /\ buf \in Buf /\ b \in Block
  BY DEF LogWriteRecord, InOp, SpaceInv, InCallOK, CallOK, Buf
<1>2. /\ pc' = [pc EXCEPT ![p] = "op"]
      /\ wrote' = [wrote EXCEPT ![p] = @ \cup {buf}]
      /\ pending' = [pending EXCEPT ![p] = <<>>]
      /\ dirty' = dirty \cup {buf}
      /\ lh' = Absorb(b)
  BY DEF LogWriteRecord
<1>3. lh \in Seq(Block) /\ Len(lh) \in Nat
  BY DEF SpaceInv, TypeOK
<1>4. /\ lh' \in Seq(Block)
      /\ b \in Logged => lh' = lh
      /\ Len(lh') <= Len(lh) + 1 /\ Len(lh') \in Nat
      /\ Logged \subseteq Logged' /\ b \in Logged'
  <2>1. CASE b \in Logged
    BY <1>2, <1>3, <2>1 DEF Absorb, Logged
  <2>2. CASE b \notin Logged
    <3>1. lh' = Append(lh, b)
      BY <1>2, <2>2 DEF Absorb
    <3>2. /\ lh' \in Seq(Block) /\ Len(lh') = Len(lh) + 1 /\ lh'[Len(lh) + 1] = b
          /\ \A i \in 1 .. Len(lh) : lh'[i] = lh[i]
      BY <1>1, <1>3, <3>1
    <3>3. Logged \subseteq Logged' /\ b \in Logged'
      BY <1>3, <3>2 DEF Logged
    <3> QED BY <2>2, <3>2, <3>3, <1>3
  <2> QED BY <2>1, <2>2
<1>5. TypeOK'
  <2>1. /\ pc' \in [Proc -> PC]
        /\ wrote' \in [Proc -> SUBSET Buf]
        /\ pending' \in [Proc -> Buf \cup {<<>>}]
        /\ dirty' \subseteq Buf
    BY <1>1, <1>2 DEF SpaceInv, TypeOK, PC
  <2> QED BY <1>4, <2>1 DEF SpaceInv, TypeOK, LogWriteRecord, disk
<1>6. InOp' = InOp /\ InOp \in SUBSET Proc
  BY <1>1, <1>2 DEF SpaceInv, TypeOK, InOp
<1>7. /\ wrote'[p] = wrote[p] \cup {buf}
      /\ Cardinality(wrote'[p]) <= OpBlocks
      /\ Cardinality(wrote'[p]) \in Nat
      /\ Cardinality(wrote[p]) \in Nat
      /\ IF buf \in wrote[p] THEN wrote'[p] = wrote[p]
         ELSE Cardinality(wrote'[p]) = Cardinality(wrote[p]) + 1
  <2>1. wrote'[p] = wrote[p] \cup {buf} /\ wrote[p] \in SUBSET Buf /\ wrote'[p] \in SUBSET Buf
    BY <1>1, <1>2 DEF SpaceInv, TypeOK
  <2>2. IsFiniteSet(wrote[p]) /\ Cardinality(wrote[p]) \in Nat /\ Cardinality(wrote'[p]) \in Nat
    BY <2>1, FiniteBufs
  <2>3. Cardinality(wrote[p] \cup {buf}) =
          IF buf \in wrote[p] THEN Cardinality(wrote[p]) ELSE Cardinality(wrote[p]) + 1
    BY <2>2, FS_AddElement
  <2> QED BY <1>1, <2>1, <2>2, <2>3 DEF CallOK
<1>8. Reservation'
  <2>1. IsFiniteSet(InOp)
    BY <1>6, FiniteProcs
  <2>2. \A q \in InOp \ {p} : wrote'[q] = wrote[q]
    BY <1>2, <1>6 DEF SpaceInv, TypeOK
  <2>3. /\ Cardinality(UnusedOf(InOp, wrote)) \in Nat
        /\ Cardinality(UnusedOf(InOp, wrote')) \in Nat
    BY <2>1, UnusedUpper
  <2>4. CASE buf \in wrote[p]
    <3>1. lh' = lh
      BY <1>1, <1>4, <2>4 DEF CallOK
    <3>2. \A q \in InOp : wrote'[q] = wrote[q]
      BY <1>7, <2>2, <2>4
    <3>3. Cardinality(UnusedOf(InOp, wrote')) <= Cardinality(UnusedOf(InOp, wrote))
      BY <2>1, <3>2, UnusedLeave
    <3> QED BY <1>3, <1>6, <2>3, <3>1, <3>3, LogAssumption DEF SpaceInv, Reservation
  <2>5. CASE buf \notin wrote[p]
    <3>1. Cardinality(UnusedOf(InOp, wrote')) = Cardinality(UnusedOf(InOp, wrote)) - 1
      <4>1. Cardinality(wrote[p]) < MAXOPBLOCKS
        BY <1>7, <2>5, LogAssumption
      <4>2. /\ Cardinality(wrote[p]) \in Nat
            /\ Cardinality(wrote'[p]) = Cardinality(wrote[p]) + 1
        BY <1>7, <2>5
      <4>3. p \in InOp
        BY <1>1
      <4> HIDE DEF InOp, buf, b
      <4> QED BY <2>1, <2>2, <4>1, <4>2, <4>3, UnusedUse
    <3> QED BY <1>3, <1>4, <1>6, <2>3, <3>1, LogAssumption DEF SpaceInv, Reservation
  <2> QED BY <2>4, <2>5
<1>9. HeadersShort'
  <2>1. MAXOPBLOCKS - OpBlocks <= Cardinality(UnusedOf(InOp', wrote'))
    BY <1>1, <1>6, <1>7, FiniteProcs, UnusedLower
  <2>2. Cardinality(UnusedOf(InOp', wrote')) \in Nat
    BY <1>6, FiniteProcs, UnusedUpper
  <2>3. Short(lh')
    BY <1>4, <1>8, <2>1, <2>2, LogAssumption DEF Reservation, Short
  <2> QED BY <2>3 DEF SpaceInv, LogWriteRecord, HeadersShort, disk
<1>10. InCallOK'
  <2>1. CallOK(p)'
    <3>1. pc'[p] = "op" /\ pending'[p] = <<>>
      BY <1>2 DEF SpaceInv, TypeOK
    <3>2. \A x \in wrote'[p] : x[2] \in Logged'
      BY <1>1, <1>4, <1>7 DEF CallOK
    <3> QED BY <1>7, <3>1, <3>2 DEF CallOK
  <2> QED BY <1>2, <1>4, <2>1, OtherCalls DEF SpaceInv, TypeOK
<1>11. Counted' /\ Quiet' /\ TailOK'
  <2>1. phase = "idle" /\ phase' = "idle" /\ committing' = committing
    BY <1>1 DEF SpaceInv, Quiet, LogWriteRecord
  <2> QED BY <1>1, <1>6, <2>1 DEF SpaceInv, Counted, Quiet, TailOK, LogWriteRecord
<1>12. WaitersOK'
  <2>1. \A i \in 1 .. Len(waiters) : pc[waiters[i]] = "asleep" /\ waiters[i] \in Proc
    BY DEF SpaceInv, TypeOK, WaitersOK
  <2>2. \A i \in 1 .. Len(waiters) : pc'[waiters[i]] = "asleep"
    BY <1>1, <1>2, <2>1 DEF SpaceInv, TypeOK
  <2>3. NoStrandedWaiter'
    BY <1>1, <1>6 DEF NoStrandedWaiter
  <2> QED BY <2>2, <2>3 DEF SpaceInv, WaitersOK, LogWriteRecord, Distinct
<1> QED BY <1>5, <1>8, <1>9, <1>10, <1>11, <1>12 DEF SpaceInv, LogWriteRecord

\* wakeup(&log) moves the first waiter out of begin_op()'s sleep and nobody else.
LEMMA WakeupOne ==
  ASSUME NEW awake \in [Proc -> PC], waiters \in Seq(Proc), Distinct(waiters),
         stuck \in BOOLEAN,
         \A i \in 1 .. Len(waiters) : awake[waiters[i]] = "asleep",
         Wakeup(awake)
  PROVE  /\ pc' \in [Proc -> PC]
         /\ waiters' \in Seq(Proc)
         /\ stuck' \in BOOLEAN
         /\ Distinct(waiters')
         /\ \A i \in 1 .. Len(waiters') : pc'[waiters'[i]] = "asleep"
         /\ \A q \in Proc : pc'[q] = awake[q] \/ (awake[q] = "asleep" /\ pc'[q] = "begin")
         /\ waiters' # <<>> => \E q \in Proc : pc'[q] = "begin"
<1>1. CASE waiters = <<>>
  BY <1>1 DEF Wakeup
<1>2. CASE waiters # <<>>
  <2>1. pc' = [awake EXCEPT ![Head(waiters)] = "begin"] /\ waiters' = Tail(waiters)
    BY <1>2 DEF Wakeup
  <2>2. /\ Head(waiters) \in Proc /\ Head(waiters) = waiters[1]
        /\ 1 \in 1 .. Len(waiters)
    BY <1>2
  <2>3. /\ waiters' \in Seq(Proc) /\ Len(waiters') = Len(waiters) - 1
        /\ \A i \in 1 .. Len(waiters') : waiters'[i] = waiters[i + 1]
    BY <1>2, <2>1
  <2>4. \A i \in 1 .. Len(waiters') :
          i + 1 \in 1 .. Len(waiters) /\ waiters'[i] # Head(waiters) /\ waiters'[i] \in Proc
    BY <2>2, <2>3 DEF Distinct
  <2>5. Distinct(waiters')
    BY <2>3, <2>4 DEF Distinct
  <2>6. \A i \in 1 .. Len(waiters') : pc'[waiters'[i]] = "asleep"
    BY <2>1, <2>2, <2>3, <2>4
  <2>7. pc' \in [Proc -> PC]
    BY <2>1, <2>2 DEF PC
  <2>8. \A q \in Proc : pc'[q] = awake[q] \/ (awake[q] = "asleep" /\ pc'[q] = "begin")
    BY <2>1, <2>2
  <2>9. \E q \in Proc : pc'[q] = "begin"
    BY <2>1, <2>2
  <2>10. stuck' \in BOOLEAN
    BY <1>2 DEF Wakeup
  <2> QED BY <2>3, <2>5, <2>6, <2>7, <2>8, <2>9, <2>10
<1> QED BY <1>1, <1>2

(* end_op() of a call that is in progress, in both of its outcomes: the     *)
(* call's reservation ends with it.                                         *)
LEMMA EndOpSpace ==
  ASSUME SpaceInv, RoomEnough, NEW p \in Proc, EndOp(p)
  PROVE  SpaceInv'
<1>1. p \in InOp /\ InOp \in SUBSET Proc /\ pc[p] = "op" /\ CallOK(p)
  BY DEF EndOp, InOp, SpaceInv, InCallOK
<1>2. ~committing /\ phase = "idle"
  BY <1>1 DEF SpaceInv, Quiet
<1>3. /\ outstanding \in Nat /\ outstanding >= 1
      /\ outstanding' = outstanding - 1
      /\ wrote' = [wrote EXCEPT ![p] = {}]
      /\ ~panicked'
      /\ UNCHANGED <<disk, cache, dev, lh, pending>>
  BY <1>1, <1>2, Room DEF EndOp, SpaceInv, TypeOK
<1> DEFINE awake == [pc EXCEPT ![p] = "out"]
<1>4. /\ awake \in [Proc -> PC]
      /\ \A i \in 1 .. Len(waiters) : waiters[i] \in Proc /\ awake[waiters[i]] = "asleep"
  <2>1. \A i \in 1 .. Len(waiters) : waiters[i] \in Proc /\ pc[waiters[i]] = "asleep"
    BY DEF SpaceInv, TypeOK, WaitersOK
  <2> QED BY <1>1, <2>1 DEF SpaceInv, TypeOK, PC
<1>5. /\ pc' \in [Proc -> PC]
      /\ waiters' \in Seq(Proc)
      /\ stuck' \in BOOLEAN
      /\ Distinct(waiters')
      /\ \A i \in 1 .. Len(waiters') : pc'[waiters'[i]] = "asleep"
      /\ \A q \in Proc \ {p} : pc'[q] = pc[q] \/ (pc[q] = "asleep" /\ pc'[q] = "begin")
      /\ pc'[p] \in {"out", "commit"}
      /\ IF outstanding = 1
         THEN /\ committing' = TRUE
              /\ phase' = IF lh = <<>> THEN "finish" ELSE "write_log"
              /\ tail' = 0
         ELSE UNCHANGED <<committing, phase, tail>>
  <2>1. CASE outstanding = 1
    <3>1. /\ pc' = [pc EXCEPT ![p] = "commit"] /\ waiters' = waiters /\ stuck' = stuck
          /\ committing' = TRUE
          /\ phase' = IF lh = <<>> THEN "finish" ELSE "write_log"
          /\ tail' = 0
      BY <1>2, <2>1 DEF EndOp
    <3>2. \A i \in 1 .. Len(waiters) : pc[waiters[i]] = "asleep" /\ waiters[i] # p
      BY <1>1 DEF SpaceInv, WaitersOK
    <3>3. pc' \in [Proc -> PC] /\ pc'[p] = "commit" /\ \A q \in Proc \ {p} : pc'[q] = pc[q]
      BY <3>1 DEF SpaceInv, TypeOK, PC
    <3>4. \A i \in 1 .. Len(waiters) : pc'[waiters[i]] = "asleep"
      BY <1>4, <3>2, <3>3
    <3> QED BY <2>1, <3>1, <3>3, <3>4 DEF SpaceInv, TypeOK, WaitersOK
  <2>2. CASE outstanding # 1
    <3>1. Wakeup(awake) /\ UNCHANGED <<committing, phase, tail>>
      BY <1>2, <2>2 DEF EndOp
    <3>2. awake[p] = "out" /\ \A q \in Proc \ {p} : awake[q] = pc[q]
      BY DEF SpaceInv, TypeOK
    <3> HIDE DEF awake
    <3>3. waiters \in Seq(Proc) /\ Distinct(waiters) /\ stuck \in BOOLEAN
      BY DEF SpaceInv, TypeOK, WaitersOK
    <3> QED BY <1>4, <2>2, <3>1, <3>2, <3>3, WakeupOne
  <2> QED BY <2>1, <2>2
<1>6. TypeOK'
  <2>1. outstanding' \in Nat /\ wrote' \in [Proc -> SUBSET Buf]
    BY <1>3 DEF SpaceInv, TypeOK
  <2>2. committing' \in BOOLEAN /\ panicked' \in BOOLEAN
    BY <1>3, <1>5 DEF SpaceInv, TypeOK, EndOp
  <2>3. phase' \in Phase /\ tail' \in Nat
    BY <1>5 DEF SpaceInv, TypeOK, Phase
  <2> QED BY <1>3, <1>5, <2>1, <2>2, <2>3 DEF SpaceInv, TypeOK, disk, cache
<1>7. InOp' = InOp \ {p}
  BY <1>1, <1>5 DEF InOp
<1>8. Counted' /\ (outstanding = 1 => InOp' = {}) /\ (outstanding # 1 => InOp' # {})
  BY <1>1, <1>3, <1>7, CountOut DEF SpaceInv, Counted
<1>9. Quiet' /\ HeadersShort' /\ TailOK'
  <2>1. Quiet'
    BY <1>2, <1>3, <1>5, <1>8 DEF SpaceInv, Quiet
  <2>2. HeadersShort'
    BY <1>3 DEF SpaceInv, HeadersShort, disk
  <2>3. TailOK'
    BY <1>2, <1>3, <1>5 DEF SpaceInv, TypeOK, TailOK
  <2> QED BY <2>1, <2>2, <2>3
<1>10. Reservation'
  <2>1. IsFiniteSet(InOp) /\ InOp' \in SUBSET InOp
    BY <1>1, <1>7, FiniteProcs
  <2>2. \A q \in InOp' : wrote'[q] = wrote[q]
    BY <1>1, <1>3, <1>7 DEF SpaceInv, TypeOK
  <2>3. Cardinality(UnusedOf(InOp', wrote')) <= Cardinality(UnusedOf(InOp, wrote))
    BY <2>1, <2>2, UnusedLeave
  <2>4. /\ Cardinality(UnusedOf(InOp, wrote)) \in Nat
        /\ Cardinality(UnusedOf(InOp', wrote')) \in Nat
    BY <1>1, <2>1, UnusedUpper, FiniteProcs
  <2>5. Len(lh) \in Nat /\ lh' = lh
    BY <1>3 DEF SpaceInv, TypeOK
  <2> QED BY <2>3, <2>4, <2>5, LogAssumption DEF SpaceInv, Reservation
<1>11. InCallOK'
  <2> SUFFICES ASSUME NEW q \in Proc PROVE CallOK(q)'
    BY DEF InCallOK
  <2>1. CallOK(q) /\ pending'[q] = pending[q] /\ Logged' = Logged
    BY <1>3 DEF SpaceInv, InCallOK, Logged
  <2>2. CASE q = p
    BY <1>1, <1>5, <1>7, <2>1, <2>2 DEF CallOK
  <2>3. CASE q # p
    <3>1. wrote'[q] = wrote[q] /\ (q \in InOp' <=> q \in InOp)
      BY <1>3, <1>7, <2>3 DEF SpaceInv, TypeOK
    <3>2. pc'[q] = "log_write" <=> pc[q] = "log_write"
      BY <1>5, <2>3
    <3> QED BY <2>1, <3>1, <3>2 DEF CallOK
  <2> QED BY <2>2, <2>3
<1>12. WaitersOK'
  <2>1. NoStrandedWaiter'
    BY <1>5, <1>8 DEF NoStrandedWaiter
  <2> QED BY <1>5, <2>1 DEF WaitersOK
<1> QED BY <1>3, <1>6, <1>8, <1>9, <1>10, <1>11, <1>12 DEF SpaceInv

LEMMA FinishSpace ==
  ASSUME SpaceInv, RoomEnough, NEW p \in Proc, Finish(p)
  PROVE  SpaceInv'
<1>1. InOp = {} /\ lh = <<>> /\ pc[p] = "commit" /\ phase = "finish"
  BY DEF Finish, SpaceInv, Quiet
<1> DEFINE awake == [pc EXCEPT ![p] = "out"]
<1>2. /\ awake \in [Proc -> PC]
      /\ \A i \in 1 .. Len(waiters) : awake[waiters[i]] = "asleep"
      /\ awake[p] = "out" /\ \A q \in Proc \ {p} : awake[q] = pc[q]
  <2>1. \A i \in 1 .. Len(waiters) : waiters[i] \in Proc /\ pc[waiters[i]] = "asleep"
    BY DEF SpaceInv, TypeOK, WaitersOK
  <2> QED BY <1>1, <2>1 DEF SpaceInv, TypeOK, PC
<1>3. waiters \in Seq(Proc) /\ Distinct(waiters) /\ stuck \in BOOLEAN /\ Wakeup(awake)
  BY DEF SpaceInv, TypeOK, WaitersOK, Finish
<1> HIDE DEF awake
<1>4. /\ pc' \in [Proc -> PC]
      /\ waiters' \in Seq(Proc)
      /\ stuck' \in BOOLEAN
      /\ Distinct(waiters')
      /\ \A i \in 1 .. Len(waiters') : pc'[waiters'[i]] = "asleep"
      /\ \A q \in Proc \ {p} : pc'[q] = pc[q] \/ (pc[q] = "asleep" /\ pc'[q] = "begin")
      /\ pc'[p] = "out"
      /\ waiters' # <<>> => \E q \in Proc : pc'[q] = "begin"
  BY <1>2, <1>3, WakeupOne
<1>5. InOp' = InOp
  BY <1>1, <1>4 DEF InOp
<1>6. TypeOK'
  <2>1. committing' \in BOOLEAN
    BY DEF Finish
  <2> QED BY <1>4, <2>1 DEF SpaceInv, TypeOK, Finish, disk, cache, Phase
<1>7. Counted' /\ Reservation' /\ HeadersShort' /\ Quiet' /\ TailOK'
  BY <1>1, <1>5 DEF SpaceInv, Finish, Counted, Reservation, HeadersShort, Quiet, TailOK, disk
<1>8. InCallOK'
  <2> SUFFICES ASSUME NEW q \in Proc PROVE CallOK(q)'
    BY DEF InCallOK
  <2>1. CallOK(q) /\ pending'[q] = pending[q] /\ q \notin InOp'
    BY <1>1, <1>5 DEF SpaceInv, InCallOK, Finish
  <2>2. pc'[q] # "log_write" /\ pc[q] # "log_write"
    BY <1>1, <1>5 DEF InOp
  <2> QED BY <2>1, <2>2 DEF CallOK
<1>9. WaitersOK'
  BY <1>4 DEF WaitersOK, NoStrandedWaiter
<1> QED BY <1>6, <1>7, <1>8, <1>9 DEF SpaceInv, Finish

-----------------------------------------------------------------------------
LEMMA SpaceStep == SpaceInv /\ RoomEnough /\ [Next]_vars => SpaceInv'
<1> SUFFICES ASSUME SpaceInv, RoomEnough, [Next]_vars PROVE SpaceInv'
  OBVIOUS
<1>1. CASE Recover
  BY <1>1, ReadHeadSpace, InstallSpace, ClearHeadSpace DEF Recover
<1>2. CASE CommitStep
  BY <1>2, CommitSpace
<1>3. CASE \E p \in Proc : BeginOp(p)
  BY <1>3, BeginOpSpace
<1>4. CASE \E p \in Proc, d \in Dev, b \in Block, v \in Val : LogWriteTest(p, d, b, v)
  BY <1>4, LogWriteTestSpace
<1>5. CASE \E p \in Proc : LogWriteRecord(p)
  BY <1>5, LogWriteRecordSpace
<1>6. CASE \E p \in Proc : EndOp(p)
  BY <1>6, EndOpSpace
<1>7. CASE \E p \in Proc : Finish(p)
  BY <1>7, FinishSpace
<1>8. CASE \E d \in Dev, b \in Block : Recycle(d, b)
  BY <1>8, RecycleSpace
<1>9. CASE Crash
  BY <1>9, CrashSpace
<1>10. CASE UNCHANGED vars
  <2>1. /\ UNCHANGED <<home, hdr, slot, data, dirty, outstanding, committing, dev, lh>>
        /\ UNCHANGED <<phase, tail, pc, wrote, pending, waiters, panicked, stuck>>
    BY <1>10 DEF vars, disk, cache, ops
  <2>2. TypeOK'
    BY <2>1 DEF SpaceInv, TypeOK
  <2>3. InOp' = InOp /\ Logged' = Logged
    BY <2>1 DEF InOp, Logged
  <2>4. Counted' /\ Quiet' /\ InCallOK' /\ Reservation'
    BY <2>1, <2>3 DEF SpaceInv, Counted, Quiet, InCallOK, CallOK, Reservation
  <2>5. HeadersShort' /\ WaitersOK' /\ TailOK'
    BY <2>1, <2>3 DEF SpaceInv, HeadersShort, WaitersOK, NoStrandedWaiter, TailOK
  <2> QED BY <2>1, <2>2, <2>4, <2>5 DEF SpaceInv
<1> QED BY <1>1, <1>2, <1>3, <1>4, <1>5, <1>6, <1>7, <1>8, <1>9, <1>10 DEF Next

LEMMA SpaceAlways == ASSUME RoomEnough PROVE Spec => []SpaceInv
<1>1. SpaceInv /\ [Next]_vars => SpaceInv'
  BY SpaceStep
<1> QED BY <1>1, SpaceInit, PTL DEF Spec

(* Type correctness.  It rests on the reservation: install_trans() reads    *)
(* the log blocks that the header counts, so a header longer than the log   *)
(* would make it read outside.                                              *)
THEOREM TypeCorrect == ASSUME RoomEnough PROVE Spec => []TypeOK
<1>1. SpaceInv => TypeOK
  BY DEF SpaceInv
<1> QED BY <1>1, SpaceAlways, PTL

(* end_op() commits, and begin_op() keeps calls out while it does.          *)
THEOREM Quiescence == ASSUME RoomEnough PROVE Spec => []CommitQuiescent
<1>1. SpaceInv => CommitQuiescent
  BY FS_EmptySet DEF SpaceInv, Quiet, Counted, CommitQuiescent
<1> QED BY <1>1, SpaceAlways, PTL

(* The reservation of begin_op() is enough for every number of processes:   *)
(* the header never outgrows the on-disk log and log.c never panics.        *)
THEOREM LogSpace == ASSUME RoomEnough PROVE Spec => []LogFits
<1>1. SpaceInv => LogFits
  BY ShortFits DEF SpaceInv, TypeOK, HeadersShort, LogFits
<1> QED BY <1>1, SpaceAlways, PTL

(* wakeup() may wake one process only: somebody is always left to wake the  *)
(* others that sleep in begin_op().                                         *)
THEOREM NobodyStranded == ASSUME RoomEnough PROVE Spec => []NoStrandedWaiter
<1>1. SpaceInv => NoStrandedWaiter
  BY DEF SpaceInv, WaitersOK
<1> QED BY <1>1, SpaceAlways, PTL
=============================================================================
