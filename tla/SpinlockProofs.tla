--------------------------- MODULE SpinlockProofs ---------------------------
(***************************************************************************)
(* Proofs about Spinlock, for any processors, locks and depth: mutual      *)
(* exclusion, the absence of self-deadlock, the causes of a panic, and     *)
(* matched interrupts.                                                     *)
(***************************************************************************)
EXTENDS Spinlock, FiniteSetTheorems, TLAPS

USE SMTT(20), ZenonT(20)

TypeOK ==
  /\ locked \in [Lock -> BOOLEAN] /\ cpu \in [Lock -> Cpu \cup {NoCpu}]
  /\ ncli \in [Cpu -> Nat] /\ intena \in [Cpu -> BOOLEAN] /\ IF_ \in [Cpu -> BOOLEAN]
  /\ pc \in [Cpu -> Steps] /\ want \in [Cpu -> Lock] /\ holds \in [Cpu -> SUBSET Lock]
  /\ inHandler \in [Cpu -> BOOLEAN] /\ saved \in [Cpu -> Context]
  /\ panicked \in {"no", "acquire", "release", "popcli"}

(* A thread is only interrupted outside acquire() and release().            *)
SavedIdle == \A c \in Cpu : saved[c].pc = "run" /\ saved[c].holds = {}

(* pushcli() and popcli() count the locks, and interrupts follow the count. *)
Busy(c) == IF pc[c] = "run" THEN 0 ELSE 1
Counted == \A c \in Cpu : ncli[c] = Cardinality(holds[c]) + Busy(c)
IntrFollows ==
  \A c \in Cpu : /\ IF_[c] <=> ~inHandler[c] /\ ncli[c] = 0
                 /\ ncli[c] > 0 => (intena[c] <=> ~inHandler[c])

(* lk->cpu names the holder; a lock in use is locked by exactly one.        *)
WantsOther == \A c \in Cpu : pc[c] \notin {"run", "check"} => want[c] \notin holds[c]
HolderNamed == \A c \in Cpu, l \in Lock : l \in holds[c] <=> cpu[l] = c
Mine(c, l) == l \in holds[c] \/ (pc[c] \in {"record", "unlock"} /\ want[c] = l)
LockedInUse == \A l \in Lock : locked[l] <=> \E c \in Cpu : Mine(c, l)
UsedOnce == \A c, d \in Cpu, l \in Lock : Mine(c, l) /\ Mine(d, l) => c = d

IInv == /\ TypeOK /\ SavedIdle /\ Counted /\ IntrFollows /\ WantsOther
        /\ HolderNamed /\ LockedInUse /\ UsedOnce /\ OnlyMisusePanics

-----------------------------------------------------------------------------
LEMMA HoldsFinite ==
  ASSUME TypeOK, NEW c \in Cpu
  PROVE  /\ IsFiniteSet(holds[c]) /\ Cardinality(holds[c]) \in Nat
         /\ Cardinality(holds[c]) = 0 <=> holds[c] = {}
<1>1. holds[c] \subseteq Lock
  BY DEF TypeOK
<1>2. IsFiniteSet(holds[c])
  BY <1>1, LockAssumption, FS_Subset
<1> QED
  BY <1>2, FS_CardinalityType, FS_EmptySet

LEMMA InitInv == Init => IInv
<1> SUFFICES ASSUME Init PROVE IInv
  OBVIOUS
<1>1. TypeOK
  BY DEF Init, TypeOK, Steps, Context
<1>2. Counted
  BY FS_EmptySet DEF Init, Counted, Busy
<1>3. LockedInUse /\ UsedOnce /\ HolderNamed /\ WantsOther
  BY CpuAssumption DEF Init, LockedInUse, UsedOnce, HolderNamed, WantsOther, Mine
<1>4. SavedIdle /\ IntrFollows /\ OnlyMisusePanics
  BY DEF Init, SavedIdle, IntrFollows, OnlyMisusePanics
<1> QED
  BY <1>1, <1>2, <1>3, <1>4 DEF IInv
-----------------------------------------------------------------------------
(* The steps, one lemma for each action.                                    *)
USE DEF IInv

LEMMA AcquireInv ==
  ASSUME IInv, NEW c \in Cpu, NEW l \in Lock, Acquire(c, l)
  PROVE  IInv'
<1> USE DEF Acquire, Pushcli
<1>0. Cardinality(holds[c]) \in Nat /\ (Cardinality(holds[c]) = 0 <=> holds[c] = {})
  BY HoldsFinite
<1>1. TypeOK'
  BY DEF TypeOK, Steps
<1>2. SavedIdle' /\ WantsOther' /\ OnlyMisusePanics'
  BY DEF TypeOK, SavedIdle, WantsOther, OnlyMisusePanics
<1>3. Counted'
  BY <1>0 DEF TypeOK, Counted, Busy
<1>4. IntrFollows'
  BY <1>0 DEF TypeOK, IntrFollows, Counted, Busy
<1>5. \A d \in Cpu, k \in Lock : Mine(d, k)' <=> Mine(d, k)
  BY DEF TypeOK, Mine
<1>6. HolderNamed' /\ LockedInUse' /\ UsedOnce'
  BY <1>5 DEF TypeOK, HolderNamed, LockedInUse, UsedOnce
<1> QED
  BY <1>1, <1>2, <1>3, <1>4, <1>6

LEMMA CheckInv ==
  ASSUME IInv, NEW c \in Cpu, Check(c)
  PROVE  IInv'
<1> USE DEF Check
<1>1. Holding(c, want[c]) => want[c] \in holds[c]
  BY DEF TypeOK, Holding, HolderNamed
<1>2. want[c] \in holds[c] => Holding(c, want[c])
  BY DEF TypeOK, Holding, HolderNamed, LockedInUse, Mine
<1>3. TypeOK' /\ OnlyMisusePanics'
  BY <1>1 DEF TypeOK, Steps, OnlyMisusePanics
<1>4. SavedIdle' /\ Counted' /\ IntrFollows'
  BY DEF TypeOK, SavedIdle, Counted, Busy, IntrFollows
<1>5. WantsOther'
  BY <1>2 DEF TypeOK, WantsOther
<1>6. \A d \in Cpu, k \in Lock : Mine(d, k)' <=> Mine(d, k)
  BY DEF TypeOK, Mine
<1>7. HolderNamed' /\ LockedInUse' /\ UsedOnce'
  BY <1>6 DEF TypeOK, HolderNamed, LockedInUse, UsedOnce
<1> QED
  BY <1>3, <1>4, <1>5, <1>7

LEMMA XchgInv ==
  ASSUME IInv, NEW c \in Cpu, Xchg(c)
  PROVE  IInv'
<1> USE DEF Xchg, XchgFree
<1>1. TypeOK' /\ OnlyMisusePanics'
  BY DEF TypeOK, Steps, OnlyMisusePanics
<1>2. SavedIdle' /\ WantsOther' /\ Counted' /\ IntrFollows' /\ HolderNamed'
  BY DEF TypeOK, SavedIdle, WantsOther, Counted, Busy, IntrFollows, HolderNamed
<1>3. \A d \in Cpu, k \in Lock : Mine(d, k)' <=> Mine(d, k) \/ (d = c /\ k = want[c])
  BY DEF TypeOK, Mine
<1>4. LockedInUse'
  BY <1>3 DEF TypeOK, LockedInUse
<1>5. \A d \in Cpu : ~Mine(d, want[c])
  BY DEF TypeOK, LockedInUse
<1>6. UsedOnce'
  BY <1>3, <1>5 DEF UsedOnce
<1> QED
  BY <1>1, <1>2, <1>4, <1>6

LEMMA RecordInv ==
  ASSUME IInv, NEW c \in Cpu, Record(c)
  PROVE  IInv'
<1> USE DEF Record
<1>1. TypeOK' /\ OnlyMisusePanics'
  BY DEF TypeOK, Steps, OnlyMisusePanics
<1>2. SavedIdle' /\ WantsOther' /\ IntrFollows'
  BY DEF TypeOK, SavedIdle, WantsOther, IntrFollows
<1>3. Cardinality(holds[c] \cup {want[c]}) = Cardinality(holds[c]) + 1
  BY HoldsFinite, FS_AddElement DEF WantsOther
<1>4. Counted'
  BY <1>3, HoldsFinite DEF TypeOK, Counted, Busy
<1>5. \A d \in Cpu : d # c => ~Mine(d, want[c])
  BY DEF TypeOK, UsedOnce, Mine
<1>6. HolderNamed'
  BY <1>5, CpuAssumption DEF TypeOK, HolderNamed, Mine
<1>7. \A d \in Cpu, k \in Lock : Mine(d, k)' <=> Mine(d, k)
  BY DEF TypeOK, Mine
<1>8. LockedInUse' /\ UsedOnce'
  BY <1>7 DEF LockedInUse, UsedOnce
<1> QED
  BY <1>1, <1>2, <1>4, <1>6, <1>8

LEMMA ReleaseInv ==
  ASSUME IInv, NEW c \in Cpu, NEW l \in Lock, Release(c, l)
  PROVE  IInv'
<1>1. l \in holds[c] <=> Holding(c, l)
  BY DEF TypeOK, Holding, HolderNamed, LockedInUse, Mine
<1>2. CASE ~Holding(c, l)
  <2> USE <1>2 DEF Release
  <2>1. TypeOK' /\ OnlyMisusePanics'
    BY <1>1 DEF TypeOK, OnlyMisusePanics
  <2>2. SavedIdle' /\ WantsOther' /\ IntrFollows' /\ Counted' /\ HolderNamed'
    BY DEF TypeOK, SavedIdle, WantsOther, IntrFollows, Counted, Busy, HolderNamed
  <2>3. \A d \in Cpu, k \in Lock : Mine(d, k)' <=> Mine(d, k)
    BY DEF TypeOK, Mine
  <2>4. LockedInUse' /\ UsedOnce'
    BY <2>3 DEF LockedInUse, UsedOnce
  <2> QED
    BY <2>1, <2>2, <2>4
<1>3. CASE Holding(c, l)
  <2> USE <1>3 DEF Release
  <2>1. TypeOK' /\ OnlyMisusePanics'
    BY DEF TypeOK, Steps, OnlyMisusePanics
  <2>2. SavedIdle' /\ WantsOther' /\ IntrFollows'
    BY DEF TypeOK, SavedIdle, WantsOther, IntrFollows
  <2>3. Cardinality(holds[c] \ {l}) = Cardinality(holds[c]) - 1
    BY <1>1, HoldsFinite, FS_RemoveElement
  <2>4. Counted'
    <3>1. /\ holds' = [holds EXCEPT ![c] = @ \ {l}] /\ pc' = [pc EXCEPT ![c] = "unlock"]
          /\ pc[c] = "run" /\ ncli' = ncli
      OBVIOUS
    <3>2. Cardinality(holds[c]) \in Nat
      BY HoldsFinite
    <3> HIDE <1>3 DEF Release
    <3> QED
      BY <2>3, <3>1, <3>2 DEF TypeOK, Counted, Busy
  <2>5. HolderNamed'
    BY <1>1, CpuAssumption DEF TypeOK, HolderNamed
  <2>6. \A d \in Cpu, k \in Lock : Mine(d, k)' <=> Mine(d, k)
    BY <1>1 DEF TypeOK, Mine
  <2>7. LockedInUse' /\ UsedOnce'
    BY <2>6 DEF LockedInUse, UsedOnce
  <2> QED
    BY <2>1, <2>2, <2>4, <2>5, <2>7
<1> QED
  BY <1>2, <1>3

LEMMA UnlockInv ==
  ASSUME IInv, NEW c \in Cpu, Unlock(c)
  PROVE  IInv'
<1> USE DEF Unlock
<1>1. TypeOK' /\ OnlyMisusePanics'
  BY DEF TypeOK, Steps, OnlyMisusePanics
<1>2. SavedIdle' /\ WantsOther' /\ Counted' /\ IntrFollows' /\ HolderNamed'
  BY DEF TypeOK, SavedIdle, WantsOther, Counted, Busy, IntrFollows, HolderNamed
<1>3. \A d \in Cpu, k \in Lock : Mine(d, k)' <=> Mine(d, k) /\ ~(d = c /\ k = want[c])
  BY DEF TypeOK, Mine, WantsOther
<1>4. \A d \in Cpu : Mine(d, want[c]) => d = c
  BY DEF TypeOK, UsedOnce, Mine
<1>5. LockedInUse'
  BY <1>3, <1>4 DEF TypeOK, LockedInUse
<1>6. UsedOnce'
  BY <1>3 DEF UsedOnce
<1> QED
  BY <1>1, <1>2, <1>5, <1>6

LEMMA PopcliInv ==
  ASSUME IInv, NEW c \in Cpu, Popcli(c)
  PROVE  IInv'
<1> USE DEF Popcli, SetsIF
<1>0. Cardinality(holds[c]) \in Nat /\ ncli[c] = Cardinality(holds[c]) + 1
  BY HoldsFinite DEF Counted, Busy
<1>1. ~IF_[c] /\ ncli[c] >= 1
  BY <1>0 DEF IntrFollows
<1>2. TypeOK' /\ OnlyMisusePanics'
  BY <1>0, <1>1 DEF TypeOK, Steps, OnlyMisusePanics
<1>3. SavedIdle' /\ WantsOther'
  BY DEF TypeOK, SavedIdle, WantsOther
<1>4. Counted'
  BY <1>0 DEF TypeOK, Counted, Busy
<1>5. IntrFollows'
  BY <1>0, <1>1 DEF TypeOK, IntrFollows
<1>6. \A d \in Cpu, k \in Lock : Mine(d, k)' <=> Mine(d, k)
  BY DEF TypeOK, Mine
<1>7. HolderNamed' /\ LockedInUse' /\ UsedOnce'
  BY <1>6 DEF HolderNamed, LockedInUse, UsedOnce
<1> QED
  BY <1>2, <1>3, <1>4, <1>5, <1>7

LEMMA InterruptInv ==
  ASSUME IInv, NEW c \in Cpu, Interrupt(c)
  PROVE  IInv'
<1> USE DEF Interrupt
<1>0. pc[c] = "run" /\ holds[c] = {} /\ ncli[c] = 0
  BY HoldsFinite DEF IntrFollows, Counted, Busy
<1>1. TypeOK' /\ OnlyMisusePanics'
  BY DEF TypeOK, Steps, OnlyMisusePanics, Context
<1>2. SavedIdle' /\ WantsOther'
  BY <1>0 DEF TypeOK, SavedIdle, WantsOther
<1>3. pc' = pc /\ holds' = holds
  BY <1>0 DEF TypeOK
<1>4. Counted'
  BY <1>3 DEF Counted, Busy
<1>6. \A d \in Cpu, k \in Lock : Mine(d, k)' <=> Mine(d, k)
  BY <1>3 DEF Mine
<1>7. HolderNamed' /\ LockedInUse' /\ UsedOnce'
  BY <1>3, <1>6 DEF HolderNamed, LockedInUse, UsedOnce
<1>5. IntrFollows'
  <2> SUFFICES ASSUME NEW d \in Cpu
               PROVE  /\ IF_'[d] <=> ~inHandler'[d] /\ ncli'[d] = 0
                      /\ ncli'[d] > 0 => (intena'[d] <=> ~inHandler'[d])
    BY DEF IntrFollows
  <2>1. ncli' = ncli /\ intena' = intena
    OBVIOUS
  <2>2. CASE d = c
    <3>1. IF_'[d] = FALSE /\ inHandler'[d] = TRUE
      BY <2>2 DEF TypeOK
    <3> QED
      BY <3>1, <2>1, <2>2, <1>0
  <2>3. CASE d # c
    <3>1. IF_'[d] = IF_[d] /\ inHandler'[d] = inHandler[d]
      BY <2>3 DEF TypeOK
    <3> QED
      BY <3>1, <2>1 DEF IntrFollows
  <2> QED
    BY <2>2, <2>3
<1> QED
  BY <1>1, <1>2, <1>4, <1>7, <1>5

LEMMA IretInv ==
  ASSUME IInv, NEW c \in Cpu, Iret(c)
  PROVE  IInv'
<1> USE DEF Iret
<1>0. saved[c].pc = "run" /\ saved[c].holds = {} /\ ncli[c] = 0
  BY HoldsFinite, FS_EmptySet DEF SavedIdle, Counted, Busy
<1>1. TypeOK' /\ OnlyMisusePanics'
  BY DEF TypeOK, Steps, OnlyMisusePanics, Context
<1>2. pc' = pc /\ holds' = holds
  BY <1>0 DEF TypeOK
<1>3. SavedIdle' /\ WantsOther'
  BY <1>0, <1>2 DEF TypeOK, SavedIdle, WantsOther
<1>4. \A d \in Cpu, k \in Lock : Mine(d, k)' <=> Mine(d, k)
  BY <1>2 DEF TypeOK, Mine
<1>5. Counted' /\ HolderNamed' /\ LockedInUse' /\ UsedOnce'
  BY <1>2, <1>4 DEF Counted, Busy, HolderNamed, LockedInUse, UsedOnce
<1>6. IntrFollows'
  BY <1>0 DEF TypeOK, IntrFollows
<1> QED
  BY <1>1, <1>3, <1>5, <1>6

LEMMA NextInv == IInv /\ [Next]_vars => IInv'
<1> SUFFICES ASSUME IInv, [Next]_vars PROVE IInv'
  OBVIOUS
<1>1. CASE UNCHANGED vars
  BY <1>1 DEF vars, TypeOK, SavedIdle, Counted, Busy, IntrFollows, WantsOther, HolderNamed,
              LockedInUse, UsedOnce, Mine, OnlyMisusePanics
<1>2. CASE Next
  BY <1>2, AcquireInv, CheckInv, XchgInv, RecordInv, ReleaseInv, UnlockInv, PopcliInv,
     InterruptInv, IretInv DEF Next
<1> QED
  BY <1>1, <1>2

-----------------------------------------------------------------------------
LEMMA Implied == IInv => MutualExclusion /\ NoSelfDeadlock /\ InterruptsMatched
<1> SUFFICES ASSUME IInv PROVE MutualExclusion /\ NoSelfDeadlock /\ InterruptsMatched
  OBVIOUS
<1>1. \A c \in Cpu, l \in Lock : l \in Uses(c) <=> Mine(c, l)
  BY DEF Uses, Mine, SavedIdle
<1>2. \A c \in Cpu : Uses(c) \subseteq Lock
  BY DEF Uses, SavedIdle, TypeOK
<1>3. MutualExclusion
  BY <1>1, <1>2 DEF MutualExclusion, UsedOnce, SavedIdle
<1>4. NoSelfDeadlock
  <2> SUFFICES ASSUME NEW c \in Cpu, pc[c] = "spin", locked[want[c]]
               PROVE  \E d \in Cpu \ {c} : want[c] \in Uses(d)
    BY DEF NoSelfDeadlock
  <2>1. PICK d \in Cpu : Mine(d, want[c])
    BY DEF LockedInUse, TypeOK
  <2>2. d # c
    BY <2>1 DEF Mine, WantsOther
  <2> QED
    BY <2>1, <2>2, <1>1 DEF TypeOK
<1>5. InterruptsMatched
  <2> SUFFICES ASSUME NEW c \in Cpu, ~inHandler[c]
               PROVE  IF_[c] <=> pc[c] = "run" /\ holds[c] = {}
    BY DEF InterruptsMatched
  <2>1. IF_[c] <=> ncli[c] = 0
    BY DEF IntrFollows
  <2>2. ncli[c] = 0 <=> pc[c] = "run" /\ holds[c] = {}
    BY HoldsFinite DEF Counted, Busy
  <2> QED
    BY <2>1, <2>2
<1> QED
  BY <1>3, <1>4, <1>5

(* Spin locks exclude one another for any number of processors and locks,   *)
(* with interrupt handlers that take the same locks (spinlock.c:24-44,      *)
(* 48-72).                                                                  *)
THEOREM Excludes == Spec => []MutualExclusion
<1>1. IInv => MutualExclusion
  BY Implied
<1> QED
  BY <1>1, InitInv, NextInv, PTL DEF Spec

(* No processor spins on a lock that it holds itself, whatever its code     *)
(* does: the test of holding() stops it first (spinlock.c:27-36).           *)
THEOREM NeverSelfDeadlocks == Spec => []NoSelfDeadlock
<1>1. IInv => NoSelfDeadlock
  BY Implied
<1> QED
  BY <1>1, InitInv, NextInv, PTL DEF Spec

(* The panics of acquire() and release() meet only code that takes a lock   *)
(* it holds or gives back one it does not hold, and never code that was     *)
(* merely interrupted; popcli() never panics (spinlock.c:27-31, 52-53,      *)
(* 119-128).                                                                *)
THEOREM PanicsOnlyOnMisuse == Spec => []OnlyMisusePanics
<1>1. IInv => OnlyMisusePanics
  OBVIOUS
<1> QED
  BY <1>1, InitInv, NextInv, PTL DEF Spec

(* Interrupts are off exactly while locks are held or being taken, however  *)
(* acquire() and release() nest (spinlock.c:103-128).                       *)
THEOREM InterruptsAreMatched == Spec => []InterruptsMatched
<1>1. IInv => InterruptsMatched
  BY Implied
<1> QED
  BY <1>1, InitInv, NextInv, PTL DEF Spec
=============================================================================
