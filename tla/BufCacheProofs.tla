--------------------------- MODULE BufCacheProofs ---------------------------
(***************************************************************************)
(* The buffer cache for any number of processes, buffers and blocks: a     *)
(* block has one buffer, a caller's buffer keeps its block, references are *)
(* counted, and nobody sleeps for a free lock.                             *)
(***************************************************************************)
EXTENDS BufCache, FiniteSetTheorems, TLAPS

\* Time limits of the provers.
USE SMTT(20), ZenonT(20)

-----------------------------------------------------------------------------
(* The inductive invariant.                                                 *)

\* A process has a buffer exactly while it is in a call, for a real block.
CallOK ==
  \A p \in Proc : /\ pc[p] = "out" <=> b[p] = NOBODY
                  /\ pc[p] # "out" => want[p] \in Key

\* The sleepers of a lock sleep once, in a call for its buffer.
Distinct(s) == \A m, n \in 1 .. Len(s) : s[m] = s[n] => m = n

QueueOK ==
  \A i \in Buf : /\ Distinct(lockq[i])
                 /\ \A n \in 1 .. Len(lockq[i]) :
                      b[lockq[i][n]] = i /\ pc[lockq[i][n]] = "lock_sleep"

\* Requests and commands are for buffers that have a block.
IdeOK ==
  /\ \A dev \in Dev : \A n \in 1 .. Len(idequeue[dev]) : key[idequeue[dev][n]] \in Key
  /\ \A port \in Ports : active[port] # NOBODY => key[active[port]] \in Key

BufInv ==
  /\ TypeOK
  /\ OneBufferPerBlock
  /\ BlockKept
  /\ RefCounted
  /\ LockSleeperHasWaker
  /\ CallOK
  /\ QueueOK
  /\ IdeOK

-----------------------------------------------------------------------------
(* Facts about the constants.                                               *)
LEMMA Constants ==
  /\ NOBODY \notin Proc /\ NOBODY \notin Buf /\ NOKEY \notin Key
  /\ \A k \in Key : k[1] \in Dev
  /\ \A dev \in Dev : Port(dev) \in Ports
<1>1. NOBODY \notin Proc /\ NOBODY \notin Buf
  BY BufCacheAssumption DEF NOBODY, Buf
<1>2. NOKEY \notin Key
  BY BufCacheAssumption DEF NOKEY
<1> QED BY <1>1, <1>2 DEF Dev, Ports

\* The calls that use buffer i, when they are given by f.
Users(f, i) == {p \in Proc : f[p] = i}

LEMMA UsersFinite ==
  ASSUME NEW f, NEW i
  PROVE  IsFiniteSet(Users(f, i)) /\ Cardinality(Users(f, i)) \in Nat
<1>1. Users(f, i) \in SUBSET Proc
  BY DEF Users
<1> QED BY <1>1, BufCacheAssumption, FS_Subset, FS_CardinalityType

\* A process enters a call for i.
LEMMA UsersAdd ==
  ASSUME NEW f, NEW g, NEW i, NEW p \in Proc, f[p] # i, g[p] = i,
         \A q \in Proc \ {p} : g[q] = f[q]
  PROVE  Cardinality(Users(g, i)) = Cardinality(Users(f, i)) + 1
<1> DEFINE S == Users(f, i)
<1>1. IsFiniteSet(S) /\ p \notin S
  BY UsersFinite DEF Users
<1>2. Users(g, i) = S \cup {p}
  BY DEF Users
<1> HIDE DEF S
<1>3. Cardinality(S \cup {p}) = IF p \in S THEN Cardinality(S) ELSE Cardinality(S) + 1
  BY <1>1, FS_AddElement
<1>4. Cardinality(S \cup {p}) = Cardinality(S) + 1
  BY <1>1, <1>3
<1> QED BY <1>2, <1>4 DEF S

\* Calls for another buffer are not affected.
LEMMA UsersOther ==
  ASSUME NEW f, NEW g, NEW i, NEW p \in Proc, f[p] # i, g[p] # i,
         \A q \in Proc \ {p} : g[q] = f[q]
  PROVE  Users(g, i) = Users(f, i)
BY DEF Users

\* Nobody uses a buffer without references.
LEMMA UsersNone ==
  ASSUME NEW f, NEW i, Cardinality(Users(f, i)) = 0
  PROVE  \A p \in Proc : f[p] # i
<1>1. Users(f, i) = {}
  BY UsersFinite, FS_EmptySet
<1> QED BY <1>1 DEF Users

\* Sleepers stay where they are.
LEMMA QueueSame ==
  ASSUME BufInv, lockq' = lockq,
         \A q \in Proc : pc[q] = "lock_sleep" => pc'[q] = "lock_sleep" /\ b'[q] = b[q]
  PROVE  QueueOK'
<1>1. \A i \in Buf : \A n \in 1 .. Len(lockq[i]) : lockq[i][n] \in Proc
  BY DEF BufInv, TypeOK
<1> QED BY <1>1 DEF BufInv, QueueOK

\* Processes about to take a lock stay there, and held locks stay held.
LEMMA WakerSame ==
  ASSUME BufInv, lockq' = lockq, lock' = lock,
         \A q \in Proc : pc[q] = "lock" => pc'[q] = "lock" /\ b'[q] = b[q]
  PROVE  LockSleeperHasWaker'
<1> SUFFICES ASSUME NEW i \in Buf, lockq[i] # <<>>, lock[i] = NOBODY
             PROVE  \E q \in Proc : b'[q] = i /\ pc'[q] = "lock"
  BY DEF LockSleeperHasWaker
<1>1. PICK q \in Proc : b[q] = i /\ pc[q] = "lock"
  BY DEF BufInv, LockSleeperHasWaker
<1> QED BY <1>1

\* A buffer that has a block keeps having one.
LEMMA IdeSame ==
  ASSUME BufInv, idequeue' = idequeue, active' = active,
         \A i \in Buf : key[i] \in Key => key'[i] \in Key
  PROVE  IdeOK'
<1>1. /\ \A dev \in Dev : \A n \in 1 .. Len(idequeue[dev]) : idequeue[dev][n] \in Buf
      /\ \A port \in Ports : active[port] # NOBODY => active[port] \in Buf
  BY DEF BufInv, TypeOK
<1> QED BY <1>1 DEF BufInv, IdeOK

LEMMA SameInv ==
  ASSUME BufInv, UNCHANGED <<bufs, ide, procs, failed>>
  PROVE  BufInv'
<1> USE DEF BufInv, bufs, ide, procs
<1>1. TypeOK'
  BY DEF TypeOK
<1>2. OneBufferPerBlock' /\ BlockKept' /\ CallOK'
  BY DEF OneBufferPerBlock, BlockKept, CallOK
<1>3. RefCounted'
  BY DEF RefCounted
<1>4. LockSleeperHasWaker' /\ QueueOK' /\ IdeOK'
  BY DEF LockSleeperHasWaker, QueueOK, IdeOK
<1> QED BY <1>1, <1>2, <1>3, <1>4

LEMMA RefCountedUsers == RefCounted <=> \A i \in Buf : refcnt[i] = Cardinality(Users(b, i))
BY DEF RefCounted, Users

LEMMA RefCountedUsersNext ==
  RefCounted' <=> \A i \in Buf : refcnt'[i] = Cardinality(Users(b', i))
BY DEF RefCounted, Users
-----------------------------------------------------------------------------
(* Every action preserves it.                                               *)
LEMMA BufInit == Init => BufInv
<1> SUFFICES ASSUME Init PROVE BufInv
  OBVIOUS
<1> USE Constants
<1>1. lru \in [Buf -> Buf] /\ \A i \in Buf : \E n \in Buf : lru[n] = i
  <2>1. lru \in [Buf -> Buf]
    BY BufCacheAssumption DEF Init, Buf
  <2>2. ASSUME NEW i \in Buf PROVE \E n \in Buf : lru[n] = i
    <3>1. NBUF + 1 - i \in Buf /\ lru[NBUF + 1 - i] = i
      BY BufCacheAssumption DEF Init, Buf
    <3> QED BY <3>1
  <2> QED BY <2>1, <2>2
<1>2. TypeOK
  BY <1>1 DEF Init, TypeOK
<1>3. OneBufferPerBlock /\ BlockKept /\ LockSleeperHasWaker /\ CallOK
  BY DEF Init, OneBufferPerBlock, BlockKept, LockSleeperHasWaker, CallOK
<1>4. RefCounted
  <2> SUFFICES ASSUME NEW i \in Buf PROVE refcnt[i] = Cardinality(Users(b, i))
    BY RefCountedUsers
  <2>1. Users(b, i) = {}
    BY DEF Init, Users
  <2> QED BY <2>1, FS_EmptySet DEF Init
<1>5. QueueOK /\ IdeOK
  BY DEF Init, QueueOK, IdeOK, Distinct
<1> QED BY <1>2, <1>3, <1>4, <1>5 DEF BufInv

\* bget() finds the block in the cache.
LEMMA HitInv ==
  ASSUME BufInv, NEW p \in Proc, NEW k \in Key, NEW i \in Buf,
         pc[p] = "out", key[i] = k,
         refcnt' = [refcnt EXCEPT ![i] = @ + 1],
         b' = [b EXCEPT ![p] = i], want' = [want EXCEPT ![p] = k],
         pc' = [pc EXCEPT ![p] = "lock"],
         UNCHANGED <<key, valid, dirty, data, lock, lru, ide, lockq, failed>>
  PROVE  BufInv'
<1> USE Constants
<1>1. b[p] = NOBODY /\ b \in [Proc -> Buf \cup {NOBODY}]
  BY DEF BufInv, CallOK, TypeOK
<1>2. TypeOK'
  BY DEF BufInv, TypeOK, ide
<1>3. OneBufferPerBlock' /\ BlockKept' /\ CallOK'
  BY <1>1 DEF BufInv, TypeOK, OneBufferPerBlock, BlockKept, CallOK
<1>4. RefCounted'
  <2> SUFFICES ASSUME NEW j \in Buf PROVE refcnt'[j] = Cardinality(Users(b', j))
    BY RefCountedUsersNext
  <2>1. refcnt[j] = Cardinality(Users(b, j)) /\ refcnt \in [Buf -> Nat]
    BY RefCountedUsers DEF BufInv, TypeOK
  <2> DEFINE f == b
             g == b'
  <2>2. g[p] = i /\ f[p] # j /\ \A q \in Proc \ {p} : g[q] = f[q]
    BY <1>1
  <2>3. CASE j = i
    <3>1. Cardinality(Users(g, j)) = Cardinality(Users(f, j)) + 1
      <4>1. p \in Proc /\ f[p] # j /\ g[p] = j /\ \A q \in Proc \ {p} : g[q] = f[q]
        BY <2>2, <2>3
      <4> HIDE DEF f, g
      <4> QED BY ONLY <4>1, UsersAdd
    <3>2. refcnt'[j] = refcnt[j] + 1
      BY <2>1, <2>3
    <3> QED BY <2>1, <3>1, <3>2
  <2>4. CASE j # i
    <3>1. Users(g, j) = Users(f, j)
      <4> HIDE DEF f, g
      <4> QED BY <2>2, <2>4, UsersOther
    <3>2. refcnt'[j] = refcnt[j]
      BY <2>1, <2>4
    <3> QED BY <2>1, <3>1, <3>2
  <2> QED BY <2>3, <2>4
<1>5. LockSleeperHasWaker'
  <2>1. \A q \in Proc : pc[q] = "lock" => pc'[q] = "lock" /\ b'[q] = b[q]
    BY DEF BufInv, TypeOK
  <2> QED BY <2>1, WakerSame
<1>6. QueueOK'
  <2>1. \A q \in Proc : pc[q] = "lock_sleep" => pc'[q] = "lock_sleep" /\ b'[q] = b[q]
    BY DEF BufInv, TypeOK
  <2> QED BY <2>1, QueueSame
<1>7. IdeOK'
  BY DEF BufInv, IdeOK, ide
<1> QED BY <1>2, <1>3, <1>4, <1>5, <1>6, <1>7 DEF BufInv

\* bget() recycles buffer i, which nobody uses.
LEMMA RecycleInv ==
  ASSUME BufInv, NEW p \in Proc, NEW k \in Key, NEW i \in Buf,
         pc[p] = "out", \A j \in Buf : key[j] # k, refcnt[i] = 0,
         key' = [key EXCEPT ![i] = k], valid' = [valid EXCEPT ![i] = FALSE],
         dirty' = [dirty EXCEPT ![i] = FALSE], refcnt' = [refcnt EXCEPT ![i] = 1],
         failed' = [failed EXCEPT ![i] = FALSE],
         b' = [b EXCEPT ![p] = i], want' = [want EXCEPT ![p] = k],
         pc' = [pc EXCEPT ![p] = "lock"],
         UNCHANGED <<data, lock, lru, ide, lockq>>
  PROVE  BufInv'
<1> USE Constants
<1>1. b[p] = NOBODY /\ b \in [Proc -> Buf \cup {NOBODY}]
  BY DEF BufInv, CallOK, TypeOK
<1>2. TypeOK'
  <2>1. /\ valid' \in [Buf -> BOOLEAN] /\ dirty' \in [Buf -> BOOLEAN]
        /\ failed' \in [Buf -> BOOLEAN]
    BY DEF BufInv, TypeOK
  <2> QED BY <2>1 DEF BufInv, TypeOK, ide
<1>3. \A q \in Proc : b[q] # i
  BY RefCountedUsers, UsersNone DEF BufInv
<1>4. OneBufferPerBlock'
  BY DEF BufInv, TypeOK, OneBufferPerBlock
<1>5. BlockKept' /\ CallOK'
  BY <1>1, <1>3 DEF BufInv, TypeOK, BlockKept, CallOK
<1>6. RefCounted'
  <2> SUFFICES ASSUME NEW j \in Buf PROVE refcnt'[j] = Cardinality(Users(b', j))
    BY RefCountedUsersNext
  <2>1. refcnt[j] = Cardinality(Users(b, j)) /\ refcnt \in [Buf -> Nat]
    BY RefCountedUsers DEF BufInv, TypeOK
  <2> DEFINE f == b
             g == b'
  <2>2. g[p] = i /\ f[p] # j /\ \A q \in Proc \ {p} : g[q] = f[q]
    BY <1>1
  <2>3. CASE j = i
    <3>1. Cardinality(Users(g, j)) = Cardinality(Users(f, j)) + 1
      <4>1. p \in Proc /\ f[p] # j /\ g[p] = j /\ \A q \in Proc \ {p} : g[q] = f[q]
        BY <2>2, <2>3
      <4> HIDE DEF f, g
      <4> QED BY ONLY <4>1, UsersAdd
    <3>2. refcnt'[j] = refcnt[j] + 1
      BY <2>1, <2>3
    <3> QED BY <2>1, <3>1, <3>2
  <2>4. CASE j # i
    <3>1. Users(g, j) = Users(f, j)
      <4> HIDE DEF f, g
      <4> QED BY <2>2, <2>4, UsersOther
    <3>2. refcnt'[j] = refcnt[j]
      BY <2>1, <2>4
    <3> QED BY <2>1, <3>1, <3>2
  <2> QED BY <2>3, <2>4
<1>7. LockSleeperHasWaker'
  <2>1. \A q \in Proc : pc[q] = "lock" => pc'[q] = "lock" /\ b'[q] = b[q]
    BY DEF BufInv, TypeOK
  <2> QED BY <2>1, WakerSame
<1>8. QueueOK'
  <2>1. \A q \in Proc : pc[q] = "lock_sleep" => pc'[q] = "lock_sleep" /\ b'[q] = b[q]
    BY DEF BufInv, TypeOK
  <2> QED BY <2>1, QueueSame
<1>9. IdeOK'
  <2>1. \A j \in Buf : key[j] \in Key => key'[j] \in Key
    BY DEF BufInv, TypeOK
  <2> QED BY <2>1, IdeSame DEF ide
<1> QED BY <1>2, <1>4, <1>5, <1>6, <1>7, <1>8, <1>9 DEF BufInv

LEMMA BGetInv ==
  ASSUME BufInv, NEW p \in Proc, NEW k \in Key, BGet(p, k)
  PROVE  BufInv'
<1> DEFINE hits == {i \in Buf : Caches(i, k)}
           free == {n \in Buf : Unused(lru[n])}
<1>1. CASE \E i \in hits : /\ refcnt' = [refcnt EXCEPT ![i] = @ + 1]
                           /\ b' = [b EXCEPT ![p] = i]
                           /\ want' = [want EXCEPT ![p] = k]
                           /\ Goto(p, "lock")
                           /\ UNCHANGED <<key, valid, dirty, failed, fault>>
  BY <1>1, HitInv DEF BGet, Caches, Goto
<1>2. CASE /\ hits = {}
           /\ \E n \in free : \E i \in {lru[n]} :
                /\ key' = [key EXCEPT ![i] = k]
                /\ valid' = [valid EXCEPT ![i] = FALSE]
                /\ dirty' = [dirty EXCEPT ![i] = FALSE]
                /\ refcnt' = [refcnt EXCEPT ![i] = 1]
                /\ failed' = [failed EXCEPT ![i] = FALSE]
                /\ b' = [b EXCEPT ![p] = i]
           /\ want' = [want EXCEPT ![p] = k]
           /\ Goto(p, "lock")
  <2>1. PICK n \in free :
                /\ key' = [key EXCEPT ![lru[n]] = k]
                /\ valid' = [valid EXCEPT ![lru[n]] = FALSE]
                /\ dirty' = [dirty EXCEPT ![lru[n]] = FALSE]
                /\ refcnt' = [refcnt EXCEPT ![lru[n]] = 1]
                /\ failed' = [failed EXCEPT ![lru[n]] = FALSE]
                /\ b' = [b EXCEPT ![p] = lru[n]]
    BY <1>2
  <2> DEFINE i == lru[n]
  <2>2. i \in Buf /\ refcnt[i] = 0 /\ \A j \in Buf : key[j] # k
    BY <1>2 DEF BufInv, TypeOK, Unused, Caches
  <2>3. pc[p] = "out" /\ UNCHANGED <<data, lock, lru, ide, lockq>>
    BY DEF BGet
  <2> HIDE DEF i
  <2> QED BY <1>2, <2>1, <2>2, <2>3, RecycleInv DEF i, Goto
<1>3. CASE UNCHANGED <<key, valid, dirty, refcnt, failed, pc, b, want>>
  <2>1. UNCHANGED <<data, lock, lru, ide, lockq>>
    BY DEF BGet
  <2> QED BY <1>3, <2>1, SameInv DEF bufs, procs
<1> QED BY <1>1, <1>2, <1>3 DEF BGet
\* An action that leaves the buffers with their blocks and their users.
Holding == {"iderw", "io_sleep", "io", "held"}

LEMMA SameUsers ==
  ASSUME BufInv, UNCHANGED <<key, refcnt, b, want>>,
         \A q \in Proc : pc'[q] = "out" <=> pc[q] = "out",
         \A q \in Proc : pc'[q] \in Holding => lock'[b[q]] = q
  PROVE  OneBufferPerBlock' /\ BlockKept' /\ RefCounted' /\ CallOK'
<1>1. OneBufferPerBlock' /\ RefCounted'
  BY DEF BufInv, OneBufferPerBlock, RefCounted
<1>2. CallOK'
  BY DEF BufInv, CallOK
<1>3. BlockKept'
  BY DEF BufInv, BlockKept, Holding
<1> QED BY <1>1, <1>2, <1>3

\* Past acquiresleep() the caller holds the lock of its buffer.
LEMMA Holds ==
  ASSUME BufInv, NEW q \in Proc, pc[q] \in Holding
  PROVE  lock[b[q]] = q /\ b[q] \in Buf
BY DEF BufInv, TypeOK, BlockKept, CallOK, Holding

LEMMA AcquireSleepInv ==
  ASSUME BufInv, NEW p \in Proc, AcquireSleep(p)
  PROVE  BufInv'
<1> USE Constants
<1> DEFINE i == b[p]
<1>1. /\ pc[p] = "lock" /\ i \in Buf
      /\ UNCHANGED <<key, valid, dirty, refcnt, data, lru, ide, b, want, failed>>
  BY DEF AcquireSleep, BufInv, TypeOK, CallOK
<1>2. CASE lock[i] # NOBODY
  <2>1. /\ lockq' = [lockq EXCEPT ![i] = Append(@, p)]
        /\ pc' = [pc EXCEPT ![p] = "lock_sleep"] /\ lock' = lock
    BY <1>2 DEF AcquireSleep, Goto
  <2>2. TypeOK'
    BY <1>1, <2>1 DEF BufInv, TypeOK, ide
  <2>3. OneBufferPerBlock' /\ BlockKept' /\ RefCounted' /\ CallOK'
    <3>1. \A q \in Proc : pc'[q] = "out" <=> pc[q] = "out"
      BY <1>1, <2>1 DEF BufInv, TypeOK
    <3>2. \A q \in Proc : pc'[q] \in Holding => pc[q] \in Holding
      BY <1>1, <2>1 DEF BufInv, TypeOK, Holding
    <3>3. \A q \in Proc : pc'[q] \in Holding => lock'[b[q]] = q
      BY <2>1, <3>2, Holds
    <3> QED BY <1>1, <3>1, <3>3, SameUsers
  <2>4. LockSleeperHasWaker'
    <3> SUFFICES ASSUME NEW j \in Buf, lockq'[j] # <<>>, lock[j] = NOBODY
                 PROVE  \E q \in Proc : b'[q] = j /\ pc'[q] = "lock"
      BY <2>1 DEF LockSleeperHasWaker
    <3>1. j # i /\ lockq[j] # <<>>
      BY <1>2, <2>1 DEF BufInv, TypeOK
    <3>2. PICK q \in Proc : b[q] = j /\ pc[q] = "lock"
      BY <3>1 DEF BufInv, LockSleeperHasWaker
    <3> QED BY <1>1, <2>1, <3>1, <3>2 DEF BufInv, TypeOK
  <2>5. QueueOK'
    <3> SUFFICES ASSUME NEW j \in Buf
                 PROVE  /\ Distinct(lockq'[j])
                        /\ \A n \in 1 .. Len(lockq'[j]) :
                             b[lockq'[j][n]] = j /\ pc'[lockq'[j][n]] = "lock_sleep"
      BY <1>1 DEF QueueOK
    <3>1. /\ lockq[j] \in Seq(Proc) /\ Distinct(lockq[j])
          /\ \A n \in 1 .. Len(lockq[j]) :
               b[lockq[j][n]] = j /\ pc[lockq[j][n]] = "lock_sleep"
      BY DEF BufInv, TypeOK, QueueOK
    <3>2. \A n \in 1 .. Len(lockq[j]) : lockq[j][n] # p /\ lockq[j][n] \in Proc
      BY <1>1, <3>1
    <3>3. pc'[p] = "lock_sleep" /\ \A q \in Proc \ {p} : pc'[q] = pc[q]
      BY <2>1 DEF BufInv, TypeOK
    <3>4. CASE j # i
      <4>1. lockq'[j] = lockq[j]
        BY <2>1, <3>4 DEF BufInv, TypeOK
      <4> QED BY <3>1, <3>2, <3>3, <4>1
    <3>5. CASE j = i
      <4> DEFINE s == lockq[j]
      <4>1. lockq'[j] = Append(s, p)
        BY <2>1, <3>5 DEF BufInv, TypeOK
      <4>2. /\ Len(Append(s, p)) = Len(s) + 1 /\ Len(s) \in Nat
            /\ \A n \in 1 .. Len(s) : Append(s, p)[n] = s[n]
            /\ Append(s, p)[Len(s) + 1] = p
        BY <3>1
      <4>3. Distinct(Append(s, p))
        BY <3>1, <3>2, <4>2 DEF Distinct
      <4>4. \A n \in 1 .. Len(s) + 1 : n \in 1 .. Len(s) \/ n = Len(s) + 1
        BY <4>2
      <4>5. \A n \in 1 .. Len(s) + 1 :
              b[Append(s, p)[n]] = j /\ pc'[Append(s, p)[n]] = "lock_sleep"
        BY <3>1, <3>2, <3>3, <3>5, <4>2, <4>4
      <4> QED BY <4>1, <4>2, <4>3, <4>5
    <3> QED BY <3>4, <3>5
  <2>6. IdeOK'
    BY <1>1, IdeSame DEF ide
  <2> QED BY <2>2, <2>3, <2>4, <2>5, <2>6 DEF BufInv
<1>3. CASE lock[i] = NOBODY
  <2>1. /\ lock' = [lock EXCEPT ![i] = p] /\ lockq' = lockq
        /\ pc' = [pc EXCEPT ![p] = AfterLock(i)] /\ AfterLock(i) \in {"held", "iderw"}
    BY <1>3 DEF AcquireSleep, Goto, AfterLock
  <2>2. TypeOK'
    BY <1>1, <2>1 DEF BufInv, TypeOK, ide
  <2>3. OneBufferPerBlock' /\ BlockKept' /\ RefCounted' /\ CallOK'
    <3>1. \A q \in Proc : pc'[q] = "out" <=> pc[q] = "out"
      BY <1>1, <2>1 DEF BufInv, TypeOK
    <3>2. ASSUME NEW q \in Proc, pc'[q] \in Holding PROVE lock'[b[q]] = q
      <4>1. CASE q = p
        BY <1>1, <2>1, <4>1 DEF BufInv, TypeOK
      <4>2. CASE q # p
        <5>1. pc[q] \in Holding
          BY <2>1, <3>2, <4>2 DEF BufInv, TypeOK
        <5>2. lock[b[q]] = q /\ b[q] \in Buf
          BY <5>1, Holds
        <5>3. b[q] # i
          BY <1>3, <5>2
        <5> QED BY <2>1, <5>2, <5>3 DEF BufInv, TypeOK
      <4> QED BY <4>1, <4>2
    <3> QED BY <1>1, <3>1, <3>2, SameUsers
  <2>4. LockSleeperHasWaker'
    <3> SUFFICES ASSUME NEW j \in Buf, lockq[j] # <<>>, lock'[j] = NOBODY
                 PROVE  \E q \in Proc : b'[q] = j /\ pc'[q] = "lock"
      BY <2>1 DEF LockSleeperHasWaker
    <3>1. j # i /\ lock[j] = NOBODY
      BY <1>1, <2>1 DEF BufInv, TypeOK
    <3>2. PICK q \in Proc : b[q] = j /\ pc[q] = "lock"
      BY <3>1 DEF BufInv, LockSleeperHasWaker
    <3> QED BY <1>1, <2>1, <3>1, <3>2 DEF BufInv, TypeOK
  <2>5. QueueOK'
    <3>1. \A q \in Proc : pc[q] = "lock_sleep" => pc'[q] = "lock_sleep" /\ b'[q] = b[q]
      BY <1>1, <2>1 DEF BufInv, TypeOK
    <3> QED BY <2>1, <3>1, QueueSame
  <2>6. IdeOK'
    BY <1>1, IdeSame DEF ide
  <2> QED BY <2>2, <2>3, <2>4, <2>5, <2>6 DEF BufInv
<1> QED BY <1>2, <1>3

\* An action of processes that hold their locks, and of the driver.
LEMMA HoldersInv ==
  ASSUME BufInv, TypeOK', IdeOK', UNCHANGED <<key, refcnt, b, want, lock, lockq>>,
         \A q \in Proc : pc'[q] = pc[q] \/ (pc[q] \in Holding /\ pc'[q] \in Holding)
  PROVE  BufInv'
<1>1. \A q \in Proc : pc'[q] = "out" <=> pc[q] = "out"
  BY DEF Holding
<1>2. \A q \in Proc : pc'[q] \in Holding => lock'[b[q]] = q
  BY Holds
<1>3. OneBufferPerBlock' /\ BlockKept' /\ RefCounted' /\ CallOK'
  BY <1>1, <1>2, SameUsers
<1>4. \A q \in Proc : pc[q] = "lock" => pc'[q] = "lock" /\ b'[q] = b[q]
  BY DEF Holding
<1>5. \A q \in Proc : pc[q] = "lock_sleep" => pc'[q] = "lock_sleep" /\ b'[q] = b[q]
  BY DEF Holding
<1>6. LockSleeperHasWaker' /\ QueueOK'
  BY <1>4, <1>5, WakerSame, QueueSame
<1> QED BY <1>3, <1>6 DEF BufInv

LEMMA LogWriteInv ==
  ASSUME BufInv, NEW p \in Proc, NEW v \in Val, LogWrite(p, v)
  PROVE  BufInv'
<1>1. dirty' \in [Buf -> BOOLEAN]
  BY DEF LogWrite, BufInv, TypeOK
<1>2. TypeOK'
  BY <1>1 DEF LogWrite, BufInv, TypeOK, ide, procs
<1>3. IdeOK'
  BY IdeSame DEF LogWrite, ide
<1> QED BY <1>2, <1>3, HoldersInv DEF LogWrite, procs

LEMMA BWriteInv ==
  ASSUME BufInv, NEW p \in Proc, NEW v \in Val, BWrite(p, v)
  PROVE  BufInv'
<1>1. dirty' \in [Buf -> BOOLEAN]
  BY DEF BWrite, BufInv, TypeOK
<1>2. TypeOK'
  BY <1>1 DEF BWrite, Goto, BufInv, TypeOK, ide
<1>3. IdeOK'
  BY IdeSame DEF BWrite, ide
<1>4. \A q \in Proc : pc'[q] = pc[q] \/ (pc[q] \in Holding /\ pc'[q] \in Holding)
  BY DEF BWrite, Goto, BufInv, TypeOK, Holding
<1> QED BY <1>2, <1>3, <1>4, HoldersInv DEF BWrite

LEMMA ReleaseSleepInv ==
  ASSUME BufInv, NEW p \in Proc, ReleaseSleep(p)
  PROVE  BufInv'
<1> USE Constants
<1> DEFINE i == b[p]
           s == lockq[i]
<1>1. /\ pc[p] = "held" /\ i \in Buf /\ lock[i] = p
      /\ lock' = [lock EXCEPT ![i] = NOBODY]
      /\ UNCHANGED <<key, valid, dirty, refcnt, data, lru, ide, b, want, failed>>
  BY Holds DEF ReleaseSleep, Holding
<1>2. /\ s \in Seq(Proc) /\ Distinct(s)
      /\ \A n \in 1 .. Len(s) : s[n] \in Proc /\ b[s[n]] = i /\ pc[s[n]] = "lock_sleep"
  <2>1. s \in Seq(Proc)
    BY <1>1 DEF BufInv, TypeOK
  <2>2. \A n \in 1 .. Len(s) : s[n] \in Proc
    BY <2>1
  <2>3. Distinct(s) /\ \A n \in 1 .. Len(s) : b[s[n]] = i /\ pc[s[n]] = "lock_sleep"
    BY <1>1 DEF BufInv, QueueOK
  <2> QED BY <2>1, <2>2, <2>3
<1>3. \/ s = <<>> /\ pc' = [pc EXCEPT ![p] = "brelse"] /\ lockq' = lockq
      \/ /\ s # <<>> /\ pc' = [pc EXCEPT ![p] = "brelse", ![Head(s)] = "lock"]
         /\ lockq' = [lockq EXCEPT ![i] = Tail(s)]
  BY DEF ReleaseSleep, Goto
<1>4. s # <<>> => /\ Head(s) = s[1] /\ 1 \in 1 .. Len(s) /\ Head(s) \in Proc
                  /\ Tail(s) \in Seq(Proc) /\ Len(Tail(s)) = Len(s) - 1
                  /\ \A n \in 1 .. Len(s) - 1 : Tail(s)[n] = s[n + 1]
  BY <1>2
<1>5. s # <<>> => b[Head(s)] = i /\ pc[Head(s)] = "lock_sleep" /\ Head(s) # p
  BY <1>1, <1>2, <1>4
<1>6. TypeOK'
  <2>1. lockq' \in [Buf -> Seq(Proc)]
    BY <1>3, <1>4 DEF BufInv, TypeOK
  <2>2. /\ lock' \in [Buf -> Proc \cup {NOBODY}]
        /\ pc' \in [Proc -> {"out", "lock", "lock_sleep", "iderw", "io_sleep", "io",
                             "held", "brelse"}]
    BY <1>1, <1>3 DEF BufInv, TypeOK
  <2> QED BY <1>1, <2>1, <2>2 DEF BufInv, TypeOK, ide
<1>7. /\ pc'[p] = "brelse"
      /\ s # <<>> => pc'[Head(s)] = "lock"
      /\ \A q \in Proc \ {p} : pc'[q] = pc[q] \/ (s # <<>> /\ q = Head(s))
  BY <1>3, <1>4, <1>5 DEF BufInv, TypeOK
<1>8. OneBufferPerBlock' /\ BlockKept' /\ RefCounted' /\ CallOK'
  <2>1. \A q \in Proc : pc'[q] = "out" <=> pc[q] = "out"
    BY <1>1, <1>5, <1>7
  <2>2. ASSUME NEW q \in Proc, pc'[q] \in Holding PROVE lock'[b[q]] = q
    <3>1. q # p /\ pc[q] \in Holding
      BY <1>7, <2>2 DEF Holding
    <3>2. lock[b[q]] = q /\ b[q] \in Buf
      BY <3>1, Holds
    <3>3. b[q] # i
      BY <1>1, <3>1, <3>2
    <3> QED BY <1>1, <3>2, <3>3 DEF BufInv, TypeOK
  <2> QED BY <1>1, <2>1, <2>2, SameUsers
<1>9. LockSleeperHasWaker'
  <2> SUFFICES ASSUME NEW j \in Buf, lockq'[j] # <<>>, lock'[j] = NOBODY
               PROVE  \E q \in Proc : b[q] = j /\ pc'[q] = "lock"
    BY <1>1 DEF LockSleeperHasWaker
  <2>1. CASE j = i
    <3>1. s # <<>>
      BY <1>3, <2>1
    <3> QED BY <1>4, <1>5, <1>7, <2>1, <3>1
  <2>2. CASE j # i
    <3>1. lock \in [Buf -> Proc \cup {NOBODY}] /\ lockq \in [Buf -> Seq(Proc)]
      BY DEF BufInv, TypeOK
    <3>2. lockq'[j] = lockq[j]
      BY <1>3, <2>2, <3>1
    <3>3. lock[j] = NOBODY
      BY <1>1, <2>2, <3>1
    <3>4. PICK q \in Proc : b[q] = j /\ pc[q] = "lock"
      BY <3>2, <3>3 DEF BufInv, LockSleeperHasWaker
    <3> QED BY <1>1, <1>5, <1>7, <3>4
  <2> QED BY <2>1, <2>2
<1>10. QueueOK'
  <2> SUFFICES ASSUME NEW j \in Buf
               PROVE  /\ Distinct(lockq'[j])
                      /\ \A n \in 1 .. Len(lockq'[j]) :
                           b[lockq'[j][n]] = j /\ pc'[lockq'[j][n]] = "lock_sleep"
    BY <1>1 DEF QueueOK
  <2>1. /\ lockq[j] \in Seq(Proc) /\ Distinct(lockq[j])
        /\ \A n \in 1 .. Len(lockq[j]) : /\ lockq[j][n] \in Proc /\ b[lockq[j][n]] = j
                                         /\ pc[lockq[j][n]] = "lock_sleep"
    BY DEF BufInv, TypeOK, QueueOK
  <2>2. CASE j # i \/ s = <<>>
    <3>1. lockq'[j] = lockq[j]
      BY <1>3, <2>2 DEF BufInv, TypeOK
    <3>2. ASSUME NEW q \in Proc, b[q] = j, pc[q] = "lock_sleep"
          PROVE  pc'[q] = "lock_sleep"
      <4>1. pc[p] = "held"
        BY <1>1
      <4>2. q # p
        BY <3>2, <4>1
      <4>3. ~ (s # <<>> /\ q = Head(s))
        BY <1>5, <2>2, <3>2
      <4> QED BY <1>7, <3>2, <4>2, <4>3
    <3>3. \A n \in 1 .. Len(lockq[j]) :
            b[lockq[j][n]] = j /\ pc'[lockq[j][n]] = "lock_sleep"
      BY <2>1, <3>2
    <3> QED BY <2>1, <3>1, <3>3
  <2>3. CASE j = i /\ s # <<>>
    <3> DEFINE t == Tail(s)
    <3>1. lockq'[j] = t /\ Len(s) \in Nat /\ Len(t) = Len(s) - 1
      BY <1>1, <1>2, <1>3, <1>4, <2>3 DEF BufInv, TypeOK
    <3>a. \A n \in 1 .. Len(s) - 1 : t[n] = s[n + 1]
      BY <1>4, <2>3
    <3> HIDE DEF t, s
    <3>2. \A n \in 1 .. Len(t) : t[n] = s[n + 1] /\ n + 1 \in 1 .. Len(s) /\ n + 1 # 1
      BY <3>1, <3>a
    <3>3. Distinct(t)
      BY <1>2, <3>1, <3>2 DEF Distinct
    <3>4. \A n \in 1 .. Len(t) : t[n] # Head(s) /\ t[n] # p
      BY <1>1, <1>2, <1>4, <2>3, <3>2 DEF Distinct
    <3>5. \A n \in 1 .. Len(t) : b[t[n]] = j /\ pc'[t[n]] = "lock_sleep"
      BY <1>2, <1>7, <2>3, <3>2, <3>4
    <3> QED BY <3>1, <3>3, <3>5
  <2> QED BY <2>2, <2>3
<1>11. IdeOK'
  BY <1>1, IdeSame DEF ide
<1> QED BY <1>6, <1>8, <1>9, <1>10, <1>11 DEF BufInv
\* brelse() puts a buffer in front of the list and loses no other.
LEMMA ToFrontAll ==
  ASSUME lru \in [Buf -> Buf], \A j \in Buf : \E n \in Buf : lru[n] = j, NEW i \in Buf
  PROVE  ToFront(i) \in [Buf -> Buf] /\ \A j \in Buf : \E n \in Buf : ToFront(i)[n] = j
<1>n. NBUF \in Nat \ {0} /\ Buf = 1 .. NBUF
  BY BufCacheAssumption DEF Buf
<1>1. ToFront(i) \in [Buf -> Buf]
  <2>0. \A n \in Buf : n # 1 => n - 1 \in Buf
    BY <1>n
  <2>1. \A n \in Buf : lru[n] \in Buf /\ (n # 1 => lru[n - 1] \in Buf)
    BY <2>0
  <2>2. ASSUME NEW n \in Buf
        PROVE  (IF n = 1 THEN i
                ELSE IF \E o \in n .. NBUF : lru[o] = i THEN lru[n - 1]
                ELSE lru[n]) \in Buf
    BY <2>1
  <2> QED BY <2>2 DEF ToFront
<1>2. ASSUME NEW j \in Buf PROVE \E n \in Buf : ToFront(i)[n] = j
  <2>1. CASE j = i
    BY <1>n, <2>1 DEF ToFront
  <2>2. CASE j # i
    <3>1. PICK m \in Buf : lru[m] = j
      OBVIOUS
    <3>2. PICK o \in Buf : lru[o] = i
      OBVIOUS
    <3>3. CASE \E l \in m + 1 .. NBUF : lru[l] = i
      <4>1. m + 1 \in Buf /\ m + 1 # 1 /\ (m + 1) - 1 = m
        BY <1>n, <3>3
      <4>2. ToFront(i)[m + 1] = lru[(m + 1) - 1]
        BY <3>3, <4>1 DEF ToFront
      <4> QED BY <3>1, <4>1, <4>2
    <3>4. CASE ~ \E l \in m + 1 .. NBUF : lru[l] = i
      <4>1. o # m /\ o \notin m + 1 .. NBUF
        BY <2>2, <3>1, <3>2, <3>4
      <4>2. m # 1
        BY <1>n, <4>1
      <4>3. ~ \E l \in m .. NBUF : lru[l] = i
        BY <1>n, <2>2, <3>1, <3>4
      <4>4. ToFront(i)[m] = lru[m]
        BY <4>2, <4>3 DEF ToFront
      <4> QED BY <3>1, <4>4
    <3> QED BY <3>3, <3>4
  <2> QED BY <2>1, <2>2
<1> QED BY <1>1, <1>2

LEMMA BRelseInv ==
  ASSUME BufInv, NEW p \in Proc, BRelse(p)
  PROVE  BufInv'
<1> USE Constants
<1> DEFINE i == b[p]
<1>1. /\ pc[p] = "brelse" /\ pc' = [pc EXCEPT ![p] = "out"]
      /\ refcnt' = [refcnt EXCEPT ![i] = @ - 1]
      /\ lru' = IF refcnt[i] = 1 THEN ToFront(i) ELSE lru
      /\ b' = [b EXCEPT ![p] = NOBODY] /\ want' = [want EXCEPT ![p] = NOKEY]
      /\ UNCHANGED <<key, valid, dirty, data, lock, ide, lockq, failed>>
  BY DEF BRelse, Goto
<1>2. i \in Buf /\ b \in [Proc -> Buf \cup {NOBODY}]
  BY <1>1 DEF BufInv, CallOK, TypeOK
<1>3. \A j \in Buf : refcnt'[j] = Cardinality(Users(b', j))
  <2> SUFFICES ASSUME NEW j \in Buf PROVE refcnt'[j] = Cardinality(Users(b', j))
    OBVIOUS
  <2>1. refcnt[j] = Cardinality(Users(b, j)) /\ refcnt \in [Buf -> Nat]
    BY RefCountedUsers DEF BufInv, TypeOK
  <2> DEFINE f == b
             g == b'
  <2>2. f[p] = i /\ g[p] # j /\ \A q \in Proc \ {p} : f[q] = g[q]
    BY <1>1, <1>2
  <2>3. CASE j = i
    <3>1. Cardinality(Users(f, j)) = Cardinality(Users(g, j)) + 1
      <4>1. p \in Proc /\ g[p] # j /\ f[p] = j /\ \A q \in Proc \ {p} : f[q] = g[q]
        BY <2>2, <2>3
      <4> HIDE DEF f, g
      <4> QED BY ONLY <4>1, UsersAdd
    <3>2. Cardinality(Users(g, j)) \in Nat
      <4> HIDE DEF g
      <4> QED BY UsersFinite
    <3>3. refcnt'[j] = refcnt[j] - 1
      BY <1>1, <2>1, <2>3
    <3> QED BY <2>1, <3>1, <3>2, <3>3
  <2>4. CASE j # i
    <3>1. Users(g, j) = Users(f, j)
      <4>1. p \in Proc /\ f[p] # j /\ g[p] # j /\ \A q \in Proc \ {p} : g[q] = f[q]
        BY <2>2, <2>4
      <4> HIDE DEF f, g
      <4> QED BY ONLY <4>1, UsersOther
    <3>2. refcnt'[j] = refcnt[j]
      BY <1>1, <2>1, <2>4
    <3> QED BY <2>1, <3>1, <3>2
  <2> QED BY <2>3, <2>4
<1>4. TypeOK'
  <2>1. lru' \in [Buf -> Buf] /\ \A j \in Buf : \E n \in Buf : lru'[n] = j
    <3>1. lru \in [Buf -> Buf] /\ \A j \in Buf : \E n \in Buf : lru[n] = j
      BY DEF BufInv, TypeOK
    <3>2. /\ ToFront(i) \in [Buf -> Buf]
          /\ \A j \in Buf : \E n \in Buf : ToFront(i)[n] = j
      <4> HIDE DEF i
      <4> QED BY <1>2, <3>1, ToFrontAll
    <3>3. lru' = ToFront(i) \/ lru' = lru
      BY <1>1
    <3> HIDE DEF i
    <3> QED BY ONLY <3>1, <3>2, <3>3
  <2>2. ASSUME NEW j \in Buf PROVE refcnt'[j] \in Nat
    <3> DEFINE g == b'
    <3>1. Cardinality(Users(g, j)) \in Nat
      <4> HIDE DEF g
      <4> QED BY UsersFinite
    <3> QED BY <1>3, <3>1
  <2>3. refcnt' \in [Buf -> Nat]
    BY <1>1, <2>2 DEF BufInv, TypeOK
  <2> QED BY <1>1, <2>1, <2>3 DEF BufInv, TypeOK, ide
<1>5. OneBufferPerBlock' /\ BlockKept' /\ CallOK'
  BY <1>1, <1>2 DEF BufInv, TypeOK, OneBufferPerBlock, BlockKept, CallOK
<1>6. RefCounted'
  BY <1>3, RefCountedUsersNext
<1>7. LockSleeperHasWaker'
  <2>1. \A q \in Proc : pc[q] = "lock" => pc'[q] = "lock" /\ b'[q] = b[q]
    BY <1>1 DEF BufInv, TypeOK
  <2> QED BY <1>1, <2>1, WakerSame
<1>8. QueueOK'
  <2>1. \A q \in Proc : pc[q] = "lock_sleep" => pc'[q] = "lock_sleep" /\ b'[q] = b[q]
    BY <1>1 DEF BufInv, TypeOK
  <2> QED BY <1>1, <2>1, QueueSame
<1>9. IdeOK'
  BY <1>1, IdeSame DEF ide
<1> QED BY <1>4, <1>5, <1>6, <1>7, <1>8, <1>9 DEF BufInv
\* The buffer of a call has a block, whose device has a queue and a channel.
LEMMA CallKey ==
  ASSUME BufInv, NEW p \in Proc, pc[p] # "out"
  PROVE  /\ b[p] \in Buf /\ key[b[p]] \in Key
         /\ key[b[p]][1] \in Dev /\ Port(key[b[p]][1]) \in Ports
<1>1. b[p] \in Buf /\ key[b[p]] \in Key
  BY Constants DEF BufInv, TypeOK, CallOK, BlockKept
<1> QED BY <1>1, Constants

LEMMA IdeRwInv ==
  ASSUME BufInv, NEW p \in Proc, IdeRw(p)
  PROVE  BufInv'
<1> DEFINE i == b[p]
           dev == key[i][1]
           port == Port(dev)
<1>1. pc[p] = "iderw" /\ pc' = [pc EXCEPT ![p] = "io_sleep"]
  BY DEF IdeRw, Goto
<1>2. i \in Buf /\ key[i] \in Key /\ dev \in Dev /\ port \in Ports
  BY <1>1, CallKey
<1>3. /\ idequeue' = [idequeue EXCEPT ![dev] = Append(@, i)]
      /\ active' = active \/ active' = [active EXCEPT ![port] = i]
      /\ UNCHANGED <<bufs, disk, b, want, lockq, failed>>
  BY DEF IdeRw
<1> HIDE DEF i, dev, port
<1>4. idequeue \in [Dev -> Seq(Buf)] /\ active \in [Ports -> Buf \cup {NOBODY}]
  BY DEF BufInv, TypeOK
<1>5. TypeOK'
  <2>1. idequeue' \in [Dev -> Seq(Buf)] /\ active' \in [Ports -> Buf \cup {NOBODY}]
    BY <1>2, <1>3, <1>4
  <2> QED BY <1>1, <1>3, <2>1 DEF BufInv, TypeOK, bufs
<1>6. IdeOK'
  <2>1. ASSUME NEW d \in Dev, NEW n \in 1 .. Len(idequeue'[d])
        PROVE  key[idequeue'[d][n]] \in Key
    <3> DEFINE s == idequeue[d]
    <3>1. s \in Seq(Buf) /\ \A m \in 1 .. Len(s) : key[s[m]] \in Key
      BY <1>4 DEF BufInv, IdeOK
    <3>2. idequeue'[d] = IF d = dev THEN Append(s, i) ELSE s
      BY <1>2, <1>3, <1>4
    <3> HIDE DEF s
    <3>3. CASE d = dev
      <4>1. n \in 1 .. Len(Append(s, i)) /\ idequeue'[d] = Append(s, i)
        BY <2>1, <3>2, <3>3
      <4>2. Append(s, i)[n] = i \/ (n \in 1 .. Len(s) /\ Append(s, i)[n] = s[n])
        BY ONLY <1>2, <3>1, <4>1
      <4> QED BY ONLY <1>2, <3>1, <4>1, <4>2
    <3>4. CASE d # dev
      BY <2>1, <3>1, <3>2, <3>4
    <3> QED BY <3>3, <3>4
  <2>2. ASSUME NEW c \in Ports, active'[c] # NOBODY PROVE key[active'[c]] \in Key
    BY <1>2, <1>3, <1>4, <2>2 DEF BufInv, IdeOK
  <2> QED BY <1>3, <2>1, <2>2 DEF IdeOK, bufs
<1>7. \A q \in Proc : pc'[q] = pc[q] \/ (pc[q] \in Holding /\ pc'[q] \in Holding)
  BY <1>1 DEF BufInv, TypeOK, Holding
<1> QED BY <1>3, <1>5, <1>6, <1>7, HoldersInv DEF bufs

LEMMA IdeRwDoneInv ==
  ASSUME BufInv, NEW p \in Proc, IdeRwDone(p)
  PROVE  BufInv'
<1>1. /\ pc[p] = "io"
      /\ pc' = [pc EXCEPT ![p] = "held"] \/ pc' = [pc EXCEPT ![p] = "io_sleep"]
      /\ UNCHANGED <<bufs, ide, b, want, lockq, failed>>
  BY DEF IdeRwDone, Goto
<1>2. TypeOK'
  BY <1>1 DEF BufInv, TypeOK, bufs, ide
<1>3. IdeOK'
  BY <1>1, IdeSame DEF bufs, ide
<1>4. \A q \in Proc : pc'[q] = pc[q] \/ (pc[q] \in Holding /\ pc'[q] \in Holding)
  BY <1>1 DEF BufInv, TypeOK, Holding
<1> QED BY <1>1, <1>2, <1>3, <1>4, HoldersInv DEF bufs
(* An interrupt for a command: no request of the queue is touched, or the   *)
(* first is completed and the next one, if any, is started and dropped.     *)
Served(port, ok, dev) ==
  /\ idequeue[dev] # <<>>
  /\ Complete(dev, active[port], ok)
  /\ \/ /\ active' = [active EXCEPT ![port] = NOBODY]
        /\ idequeue' = [idequeue EXCEPT ![dev] = <<>>]
     \/ /\ Tail(idequeue[dev]) # <<>>
        /\ active' = [active EXCEPT ![port] = Head(Tail(idequeue[dev]))]
        /\ idequeue' = [idequeue EXCEPT ![dev] = Tail(Tail(idequeue[dev]))]

LEMMA InterruptCases ==
  ASSUME BufInv, NEW port \in Ports, NEW ok, Interrupt(port, ok)
  PROVE  /\ active[port] \in Buf /\ key[active[port]] \in Key
         /\ disk' = IF ok /\ dirty[active[port]]
                    THEN [disk EXCEPT ![key[active[port]]] = data[active[port]]] ELSE disk
         /\ UNCHANGED <<key, refcnt, lock, lru, b, want, lockq>>
         /\ \/ /\ active' = [active EXCEPT ![port] = NOBODY]
               /\ UNCHANGED <<valid, dirty, data, idequeue, pc, failed>>
            \/ \E dev \in Dev : Served(port, ok, dev)
<1> DEFINE dev == IF port = "ata0" THEN 1 ELSE 2
           queue == IF dev \in Dev THEN idequeue[dev] ELSE <<>>
<1>1. active[port] \in Buf /\ key[active[port]] \in Key
  BY DEF Interrupt, BufInv, TypeOK, IdeOK
<1>2. disk' = IF ok /\ dirty[active[port]]
              THEN [disk EXCEPT ![key[active[port]]] = data[active[port]]] ELSE disk
  BY DEF Interrupt
<1>3. UNCHANGED <<key, refcnt, lock, lru, b, want, lockq>>
  BY DEF Interrupt
<1>4. \/ /\ active' = [active EXCEPT ![port] = NOBODY]
         /\ UNCHANGED <<valid, dirty, data, idequeue, pc, failed>>
      \/ /\ queue # <<>>
         /\ Complete(dev, active[port], ok)
         /\ \/ /\ active' = [active EXCEPT ![port] = NOBODY]
               /\ idequeue' = [idequeue EXCEPT ![dev] = <<>>]
            \/ /\ Tail(queue) # <<>>
               /\ active' = [active EXCEPT ![port] = Head(Tail(queue))]
               /\ idequeue' = [idequeue EXCEPT ![dev] = Tail(Tail(queue))]
  BY DEF Interrupt
<1>5. queue # <<>> => dev \in Dev /\ queue = idequeue[dev]
  OBVIOUS
<1> HIDE DEF dev, queue
<1>6. \/ /\ active' = [active EXCEPT ![port] = NOBODY]
         /\ UNCHANGED <<valid, dirty, data, idequeue, pc, failed>>
      \/ dev \in Dev /\ Served(port, ok, dev)
  BY ONLY <1>4, <1>5 DEF Served
<1>7. \/ /\ active' = [active EXCEPT ![port] = NOBODY]
         /\ UNCHANGED <<valid, dirty, data, idequeue, pc, failed>>
      \/ \E d \in Dev : Served(port, ok, d)
  BY ONLY <1>6
<1> QED BY ONLY <1>1, <1>2, <1>3, <1>7

\* What the completion of a request leaves in its buffer.
LEMMA ServedTypes ==
  ASSUME BufInv, NEW port \in Ports, NEW ok, NEW dev \in Dev, Served(port, ok, dev),
         active[port] \in Buf, key[active[port]] \in Key
  PROVE  /\ Head(idequeue[dev]) \in Buf /\ key[Head(idequeue[dev])] \in Key
         /\ data' \in [Buf -> Val]
         /\ idequeue' \in [Dev -> Seq(Buf)] /\ active' \in [Ports -> Buf \cup {NOBODY}]
         /\ \A d \in Dev : \A n \in 1 .. Len(idequeue'[d]) : key[idequeue'[d][n]] \in Key
         /\ \A c \in Ports : active'[c] # NOBODY => key[active'[c]] \in Key
<1> DEFINE s == idequeue[dev]
           t == Tail(s)
           done == active[port]
<1>1. /\ idequeue \in [Dev -> Seq(Buf)] /\ active \in [Ports -> Buf \cup {NOBODY}]
      /\ \A d \in Dev : \A n \in 1 .. Len(idequeue[d]) : key[idequeue[d][n]] \in Key
      /\ \A c \in Ports : active[c] # NOBODY => key[active[c]] \in Key
  BY DEF BufInv, TypeOK, IdeOK
<1>2. /\ s \in Seq(Buf) /\ s # <<>> /\ \A n \in 1 .. Len(s) : key[s[n]] \in Key
      /\ \/ /\ active' = [active EXCEPT ![port] = NOBODY]
            /\ idequeue' = [idequeue EXCEPT ![dev] = <<>>]
         \/ /\ t # <<>> /\ active' = [active EXCEPT ![port] = Head(t)]
            /\ idequeue' = [idequeue EXCEPT ![dev] = Tail(t)]
  BY <1>1 DEF Served
<1>3. PICK v \in Val : data' = [data EXCEPT ![Head(s)] = IF dirty[Head(s)] THEN @ ELSE v]
  <2>1. disk[key[done]] \in Val
    BY DEF BufInv, TypeOK
  <2>2. \E v \in IF ok /\ ~dirty[done] THEN {disk[key[done]]} ELSE Val :
          data' = [data EXCEPT ![Head(s)] = IF dirty[Head(s)] THEN @ ELSE v]
    BY DEF Served, Complete
  <2> QED BY <2>1, <2>2
<1> HIDE DEF s
<1>4. Head(s) \in Buf /\ key[Head(s)] \in Key
  BY <1>2
<1>5. data' \in [Buf -> Val]
  BY <1>3, <1>4 DEF BufInv, TypeOK
<1>6. t \in Seq(Buf) /\ \A n \in 1 .. Len(t) : key[t[n]] \in Key
  <2>1. t \in Seq(Buf) /\ Len(t) = Len(s) - 1 /\ \A n \in 1 .. Len(t) : t[n] = s[n + 1]
    BY <1>2
  <2> HIDE DEF t
  <2> QED BY <1>2, <2>1
<1> HIDE DEF t
<1>7. t # <<>> => /\ Head(t) \in Buf /\ key[Head(t)] \in Key
                  /\ Tail(t) \in Seq(Buf)
                  /\ \A n \in 1 .. Len(Tail(t)) : key[Tail(t)[n]] \in Key
  <2>1. t # <<>> => /\ Tail(t) \in Seq(Buf) /\ Len(Tail(t)) = Len(t) - 1
                    /\ \A n \in 1 .. Len(Tail(t)) : Tail(t)[n] = t[n + 1]
    BY <1>6
  <2> QED BY <1>6, <2>1
<1>8. <<>> \in Seq(Buf) /\ \A n \in 1 .. Len(<<>>) : FALSE
  OBVIOUS
<1>9. PICK u \in Seq(Buf) : /\ idequeue' = [idequeue EXCEPT ![dev] = u]
                            /\ \A n \in 1 .. Len(u) : key[u[n]] \in Key
  BY <1>2, <1>7, <1>8
<1>10. PICK x \in Buf \cup {NOBODY} : /\ active' = [active EXCEPT ![port] = x]
                                      /\ x # NOBODY => key[x] \in Key
  BY <1>2, <1>7
<1>11. /\ idequeue' \in [Dev -> Seq(Buf)]
       /\ \A d \in Dev : idequeue'[d] = IF d = dev THEN u ELSE idequeue[d]
  BY <1>1, <1>9
<1>12. \A d \in Dev : \A n \in 1 .. Len(idequeue'[d]) : key[idequeue'[d][n]] \in Key
  BY <1>1, <1>9, <1>11
<1>13. /\ active' \in [Ports -> Buf \cup {NOBODY}]
       /\ \A c \in Ports : active'[c] = IF c = port THEN x ELSE active[c]
  BY <1>1, <1>10
<1>14. \A c \in Ports : active'[c] # NOBODY => key[active'[c]] \in Key
  BY <1>1, <1>10, <1>13
<1> QED BY <1>4, <1>5, <1>11, <1>12, <1>13, <1>14 DEF s

LEMMA InterruptInv ==
  ASSUME BufInv, NEW port \in Ports, NEW ok \in BOOLEAN, Interrupt(port, ok)
  PROVE  BufInv'
<1>1. /\ active[port] \in Buf /\ key[active[port]] \in Key
      /\ UNCHANGED <<key, refcnt, lock, lru, b, want, lockq>>
  BY InterruptCases
<1>2. disk' \in [Key -> Val]
  <2>1. \/ disk' = disk
        \/ disk' = [disk EXCEPT ![key[active[port]]] = data[active[port]]]
    BY InterruptCases
  <2> QED BY <1>1, <2>1 DEF BufInv, TypeOK
<1>3. CASE /\ active' = [active EXCEPT ![port] = NOBODY]
           /\ UNCHANGED <<valid, dirty, data, idequeue, pc, failed>>
  <2>1. TypeOK'
    BY <1>1, <1>2, <1>3 DEF BufInv, TypeOK
  <2>2. IdeOK'
    BY <1>1, <1>3 DEF BufInv, TypeOK, IdeOK
  <2> QED BY <1>1, <1>3, <2>1, <2>2, HoldersInv
<1>4. CASE \E dev \in Dev : Served(port, ok, dev)
  <2>1. PICK dev \in Dev : Served(port, ok, dev)
    BY <1>4
  <2> DEFINE i == Head(idequeue[dev])
  <2>2. /\ i \in Buf /\ data' \in [Buf -> Val]
        /\ idequeue' \in [Dev -> Seq(Buf)] /\ active' \in [Ports -> Buf \cup {NOBODY}]
        /\ \A d \in Dev : \A n \in 1 .. Len(idequeue'[d]) : key[idequeue'[d][n]] \in Key
        /\ \A c \in Ports : active'[c] # NOBODY => key[active'[c]] \in Key
    BY <1>1, <2>1, ServedTypes
  <2>3. /\ failed' = [failed EXCEPT ![i] = i # active[port] \/ ~ok]
        /\ valid' = [valid EXCEPT ![i] = TRUE]
        /\ dirty' = [dirty EXCEPT ![i] = FALSE]
        /\ pc' = [p \in Proc |-> IF pc[p] = "io_sleep" /\ b[p] = i THEN "io" ELSE pc[p]]
    BY <2>1 DEF Served, Complete
  <2> HIDE DEF i
  <2>4. /\ failed' \in [Buf -> BOOLEAN] /\ valid' \in [Buf -> BOOLEAN]
        /\ dirty' \in [Buf -> BOOLEAN]
    BY <2>2, <2>3, Zenon DEF BufInv, TypeOK
  <2>5. pc' \in [Proc -> {"out", "lock", "lock_sleep", "iderw", "io_sleep", "io",
                          "held", "brelse"}]
    BY <2>3 DEF BufInv, TypeOK
  <2>6. TypeOK'
    BY <1>1, <1>2, <2>2, <2>4, <2>5 DEF BufInv, TypeOK
  <2>7. IdeOK'
    BY <1>1, <2>2 DEF IdeOK
  <2>8. \A q \in Proc : pc'[q] = pc[q] \/ (pc[q] \in Holding /\ pc'[q] \in Holding)
    BY <2>3 DEF Holding
  <2> QED BY <1>1, <2>6, <2>7, <2>8, HoldersInv
<1> QED BY <1>3, <1>4, InterruptCases
LEMMA BufStep == BufInv /\ [Next]_vars => BufInv'
<1> SUFFICES ASSUME BufInv, [Next]_vars PROVE BufInv'
  OBVIOUS
<1>1. ASSUME NEW p \in Proc, Step(p) PROVE BufInv'
  BY <1>1, BGetInv, AcquireSleepInv, LogWriteInv, BWriteInv, ReleaseSleepInv,
     BRelseInv, IdeRwInv, IdeRwDoneInv DEF Step
<1>2. ASSUME NEW port \in Ports, NEW ok \in Outcome, Interrupt(port, ok) PROVE BufInv'
  BY <1>2, InterruptInv, BufCacheAssumption
<1>3. CASE UNCHANGED vars
  BY <1>3, SameInv DEF vars
<1> QED BY <1>1, <1>2, <1>3 DEF Next

THEOREM BufInvariant == Spec => []BufInv
BY BufInit, BufStep, PTL DEF Spec

-----------------------------------------------------------------------------
(* What it says of bio.c, sleeplock.c and ide.c.                            *)

(* Buffers, requests and drive commands are of their kinds; in particular   *)
(* brelse() keeps every buffer on the list and refcnt never falls below 0.  *)
THEOREM TypeCorrect == Spec => []TypeOK
BY BufInvariant, PTL DEF BufInv

\* bget() never gives one block two buffers.
THEOREM BlockHasOneBuffer == Spec => []OneBufferPerBlock
BY BufInvariant, PTL DEF BufInv

(* bget()'s buffer still caches the block when acquiresleep() returns, and  *)
(* its caller alone holds the lock until brelse().                          *)
THEOREM BufferKept == Spec => []BlockKept
BY BufInvariant, PTL DEF BufInv

\* refcnt counts the calls between bget() and brelse().
THEOREM ReferencesCounted == Spec => []RefCounted
BY BufInvariant, PTL DEF BufInv

(* Although releasesleep() wakes one sleeper, nobody sleeps for a lock that *)
(* is free with no process about to take it.                                *)
THEOREM SleeperHasWaker == Spec => []LockSleeperHasWaker
BY BufInvariant, PTL DEF BufInv
=============================================================================
