------------------------- MODULE BufCacheCoherence --------------------------
(***************************************************************************)
(* The contents of the buffers, from the invariant of BufCacheProofs:      *)
(* pinned buffers are kept, and clean ones agree with the disk.            *)
(***************************************************************************)
EXTENDS BufCacheProofs

\* Time limits of the provers.
USE SMTT(20), ZenonT(20)

-----------------------------------------------------------------------------
(* Pinned buffers, an action property.                                      *)
Pinned(i) ==
  dirty[i] => /\ key'[i] = key[i]
              /\ data'[i] # data[i] => pc[lock[i]] = "held"
              /\ ~dirty'[i] => key[i] \in Key /\ (disk'[key[i]] = data[i] \/ failed'[i])

\* Steps that write no contents and clean nothing.
LEMMA PinnedFrame ==
  ASSUME NEW i \in Buf, UNCHANGED <<key, dirty, data>>
  PROVE  Pinned(i)
BY DEF Pinned

\* The holder of the lock changes its buffer.
LEMMA PinnedWrite ==
  ASSUME BufInv, NEW i \in Buf, NEW p \in Proc, NEW v, pc[p] = "held", key' = key,
         data' = [data EXCEPT ![b[p]] = v], dirty' = [dirty EXCEPT ![b[p]] = TRUE]
  PROVE  Pinned(i)
<1>1. b[p] \in Buf /\ lock[b[p]] = p
  BY Holds DEF Holding
<1>2. i # b[p] => data'[i] = data[i] /\ dirty'[i] = dirty[i]
  BY <1>1 DEF BufInv, TypeOK
<1>3. i = b[p] => dirty'[i] = TRUE /\ pc[lock[i]] = "held"
  BY <1>1 DEF BufInv, TypeOK
<1> QED BY <1>2, <1>3 DEF Pinned

\* bget() recycles clean buffers.
LEMMA PinnedBGet ==
  ASSUME BufInv, NEW i \in Buf, NEW p \in Proc, NEW k \in Key, BGet(p, k)
  PROVE  Pinned(i)
<1>1. data' = data
  BY DEF BGet
<1>2. \/ UNCHANGED <<key, dirty>>
      \/ \E n \in Buf : /\ Unused(lru[n])
                        /\ key' = [key EXCEPT ![lru[n]] = k]
                        /\ dirty' = [dirty EXCEPT ![lru[n]] = FALSE]
  BY DEF BGet
<1>3. dirty[i] => key'[i] = key[i] /\ dirty'[i] = dirty[i]
  BY <1>2 DEF Unused, BufInv, TypeOK
<1> QED BY <1>1, <1>3 DEF Pinned

\* An interrupt cleans the buffer of a request only.
LEMMA PinnedInterrupt ==
  ASSUME BufInv, NEW i \in Buf, NEW port \in Ports, NEW ok \in BOOLEAN,
         Interrupt(port, ok)
  PROVE  Pinned(i)
<1> DEFINE done == active[port]
<1>1. /\ done \in Buf /\ key[done] \in Key /\ key' = key
      /\ disk' = IF ok /\ dirty[done] THEN [disk EXCEPT ![key[done]] = data[done]] ELSE disk
  BY InterruptCases
<1>2. CASE UNCHANGED <<valid, dirty, data, idequeue, pc, failed>>
  BY <1>1, <1>2, PinnedFrame
<1>3. CASE \E dev \in Dev : Served(port, ok, dev)
  <2>1. PICK dev \in Dev : Served(port, ok, dev)
    BY <1>3
  <2> DEFINE j == Head(idequeue[dev])
  <2>2. j \in Buf /\ key[j] \in Key
    BY <1>1, <2>1, ServedTypes
  <2>3. PICK v : data' = [data EXCEPT ![j] = IF dirty[j] THEN @ ELSE v]
    BY <2>1 DEF Served, Complete
  <2>4. /\ failed' = [failed EXCEPT ![j] = j # done \/ ~ok]
        /\ dirty' = [dirty EXCEPT ![j] = FALSE]
    BY <2>1 DEF Served, Complete
  <2> HIDE DEF j, done
  <2>5. dirty[i] => data'[i] = data[i]
    BY <2>2, <2>3 DEF BufInv, TypeOK
  <2>6. dirty[i] /\ ~dirty'[i] => i = j
    BY <2>2, <2>4 DEF BufInv, TypeOK
  <2>7. failed'[j] = (j # done \/ ~ok)
    BY <2>2, <2>4 DEF BufInv, TypeOK
  <2>8. dirty[j] => disk'[key[j]] = data[j] \/ failed'[j]
    <3>1. CASE j = done /\ ok = TRUE
      <4>1. dirty[j] => disk' = [disk EXCEPT ![key[j]] = data[j]]
        BY <1>1, <3>1
      <4> QED BY <2>2, <4>1 DEF BufInv, TypeOK
    <3>2. CASE ~(j = done /\ ok = TRUE)
      BY <2>7, <3>2
    <3> QED BY <3>1, <3>2
  <2> QED BY <1>1, <2>2, <2>5, <2>6, <2>8 DEF Pinned
<1> QED BY <1>2, <1>3, InterruptCases

LEMMA PinnedStep == BufInv /\ [Next]_vars => [\A i \in Buf : Pinned(i)]_vars
<1> SUFFICES ASSUME BufInv, Next, NEW i \in Buf PROVE Pinned(i)
  OBVIOUS
<1>1. ASSUME NEW p \in Proc, Step(p) PROVE Pinned(i)
  <2>1. ASSUME NEW v \in Val, LogWrite(p, v) \/ BWrite(p, v) PROVE Pinned(i)
    BY <2>1, PinnedWrite DEF LogWrite, BWrite
  <2>2. CASE AcquireSleep(p) \/ ReleaseSleep(p) \/ BRelse(p)
    BY <2>2, PinnedFrame DEF AcquireSleep, ReleaseSleep, BRelse
  <2>3. CASE IdeRw(p) \/ IdeRwDone(p)
    BY <2>3, PinnedFrame DEF IdeRw, IdeRwDone, bufs
  <2> QED BY <1>1, <2>1, <2>2, <2>3, PinnedBGet DEF Step
<1>2. ASSUME NEW port \in Ports, NEW ok \in Outcome, Interrupt(port, ok) PROVE Pinned(i)
  BY <1>2, PinnedInterrupt, BufCacheAssumption
<1> QED BY <1>1, <1>2 DEF Next

(* A buffer that log_write() pinned keeps its block, and its contents until *)
(* they are on the disk or the drive failed.                                *)
THEOREM PinnedBuffersKept == Spec => PinnedKept
<1>1. [\A i \in Buf : Pinned(i)]_vars =>
        [\A i \in Buf : dirty[i] =>
           /\ key'[i] = key[i]
           /\ data'[i] # data[i] => pc[lock[i]] = "held"
           /\ ~dirty'[i] => key[i] \in Key /\ (disk'[key[i]] = data[i] \/ failed'[i])]_vars
  BY DEF Pinned
<1> QED BY <1>1, BufInvariant, PinnedStep, PTL DEF Spec, PinnedKept
-----------------------------------------------------------------------------
(* Coherence.  Only the buffer of a block writes the block, so a write to   *)
(* the disk cannot make another buffer stale.                               *)
Coherent ==
  \A i \in Buf : /\ valid[i] => key[i] \in Key
                 /\ valid[i] /\ ~dirty[i] /\ ~failed[i] => data[i] = disk[key[i]]

\* A write makes its buffer dirty.
LEMMA CoherentWrite ==
  ASSUME BufInv, Coherent, NEW p \in Proc, NEW v, pc[p] # "out",
         data' = [data EXCEPT ![b[p]] = v], dirty' = [dirty EXCEPT ![b[p]] = TRUE],
         UNCHANGED <<key, valid, failed, disk>>
  PROVE  Coherent'
<1>1. b[p] \in Buf
  BY CallKey
<1>2. \A i \in Buf : i # b[p] => data'[i] = data[i] /\ dirty'[i] = dirty[i]
  BY <1>1 DEF BufInv, TypeOK
<1>3. dirty'[b[p]]
  BY <1>1 DEF BufInv, TypeOK
<1> QED BY <1>2, <1>3 DEF Coherent

\* A recycled buffer is not valid.
LEMMA CoherentBGet ==
  ASSUME BufInv, Coherent, NEW p \in Proc, NEW k \in Key, BGet(p, k)
  PROVE  Coherent'
<1>1. data' = data /\ disk' = disk
  BY DEF BGet, ide
<1>2. CASE UNCHANGED <<key, valid, dirty, failed>>
  BY <1>1, <1>2 DEF Coherent
<1>3. CASE \E n \in Buf : /\ key' = [key EXCEPT ![lru[n]] = k]
                          /\ valid' = [valid EXCEPT ![lru[n]] = FALSE]
                          /\ dirty' = [dirty EXCEPT ![lru[n]] = FALSE]
                          /\ failed' = [failed EXCEPT ![lru[n]] = FALSE]
  <2>1. PICK j \in Buf : /\ key' = [key EXCEPT ![j] = k]
                         /\ valid' = [valid EXCEPT ![j] = FALSE]
                         /\ dirty' = [dirty EXCEPT ![j] = FALSE]
                         /\ failed' = [failed EXCEPT ![j] = FALSE]
    BY <1>3 DEF BufInv, TypeOK
  <2>2. ~valid'[j]
    BY <2>1 DEF BufInv, TypeOK
  <2>3. \A i \in Buf : i # j => /\ key'[i] = key[i] /\ valid'[i] = valid[i]
                                /\ dirty'[i] = dirty[i] /\ failed'[i] = failed[i]
    BY <2>1 DEF BufInv, TypeOK
  <2> QED BY <1>1, <2>2, <2>3 DEF Coherent
<1> QED BY <1>2, <1>3 DEF BGet

\* What an interrupt writes to the disk is the contents of a dirty buffer.
LEMMA CoherentInterrupt ==
  ASSUME BufInv, Coherent, NEW port \in Ports, NEW ok \in BOOLEAN, Interrupt(port, ok)
  PROVE  Coherent'
<1> DEFINE done == active[port]
<1>1. /\ done \in Buf /\ key[done] \in Key /\ key' = key
      /\ disk' = IF ok /\ dirty[done] THEN [disk EXCEPT ![key[done]] = data[done]] ELSE disk
  BY InterruptCases
<1>2. ASSUME NEW i \in Buf, key[i] \in Key, i # done \/ ~dirty[i]
      PROVE  disk'[key[i]] = disk[key[i]]
  <2>1. dirty[done] => key[i] # key[done]
    BY <1>1, <1>2, Constants DEF BufInv, OneBufferPerBlock
  <2> QED BY <1>1, <1>2, <2>1 DEF BufInv, TypeOK
<1>3. CASE UNCHANGED <<valid, dirty, data, idequeue, pc, failed>>
  BY <1>1, <1>2, <1>3 DEF Coherent
<1>4. CASE \E dev \in Dev : Served(port, ok, dev)
  <2>1. PICK dev \in Dev : Served(port, ok, dev)
    BY <1>4
  <2> DEFINE j == Head(idequeue[dev])
  <2>2. j \in Buf /\ key[j] \in Key
    BY <1>1, <2>1, ServedTypes
  <2>3. PICK v \in IF ok /\ ~dirty[done] THEN {disk[key[done]]} ELSE Val :
          data' = [data EXCEPT ![j] = IF dirty[j] THEN @ ELSE v]
    BY <2>1 DEF Served, Complete
  <2>4. /\ failed' = [failed EXCEPT ![j] = j # done \/ ~ok]
        /\ valid' = [valid EXCEPT ![j] = TRUE]
        /\ dirty' = [dirty EXCEPT ![j] = FALSE]
    BY <2>1 DEF Served, Complete
  <2> HIDE DEF j, done
  <2>5. \A i \in Buf : i # j => /\ data'[i] = data[i] /\ valid'[i] = valid[i]
                                /\ dirty'[i] = dirty[i] /\ failed'[i] = failed[i]
    BY <2>2, <2>3, <2>4 DEF BufInv, TypeOK
  <2>6. ASSUME NEW i \in Buf, i # j
        PROVE  /\ valid'[i] => key[i] \in Key
               /\ valid'[i] /\ ~dirty'[i] /\ ~failed'[i] => data'[i] = disk'[key[i]]
    BY <1>2, <2>5, <2>6 DEF Coherent
  <2>7. ASSUME ~failed'[j] PROVE data'[j] = disk'[key[j]]
    <3>1. j = done /\ ok
      BY <2>2, <2>4, <2>7 DEF BufInv, TypeOK
    <3>2. CASE dirty[j]
      <4>1. data'[j] = data[j]
        BY <2>2, <2>3, <3>2 DEF BufInv, TypeOK
      <4>2. disk' = [disk EXCEPT ![key[j]] = data[j]]
        BY <1>1, <3>1, <3>2
      <4> QED BY <2>2, <4>1, <4>2 DEF BufInv, TypeOK
    <3>3. CASE ~dirty[j]
      <4>1. v = disk[key[j]] /\ disk' = disk
        BY <1>1, <2>3, <3>1, <3>3
      <4> QED BY <2>2, <2>3, <3>3, <4>1 DEF BufInv, TypeOK
    <3> QED BY <3>2, <3>3
  <2> QED BY <1>1, <2>2, <2>6, <2>7 DEF Coherent
<1> QED BY <1>3, <1>4, InterruptCases

LEMMA CoherentStep == BufInv /\ Coherent /\ [Next]_vars => Coherent'
<1> SUFFICES ASSUME BufInv, Coherent, [Next]_vars PROVE Coherent'
  OBVIOUS
<1>1. CASE UNCHANGED <<key, valid, dirty, failed, data, disk>>
  BY <1>1 DEF Coherent
<1>2. ASSUME NEW p \in Proc, Step(p) PROVE Coherent'
  <2>1. ASSUME NEW v \in Val, LogWrite(p, v) \/ BWrite(p, v) PROVE Coherent'
    BY <2>1, CoherentWrite DEF LogWrite, BWrite, ide
  <2>2. CASE AcquireSleep(p) \/ ReleaseSleep(p) \/ BRelse(p)
    BY <1>1, <2>2 DEF AcquireSleep, ReleaseSleep, BRelse, ide
  <2>3. CASE IdeRw(p) \/ IdeRwDone(p)
    BY <1>1, <2>3 DEF IdeRw, IdeRwDone, bufs, ide
  <2> QED BY <1>2, <2>1, <2>2, <2>3, CoherentBGet DEF Step
<1>3. ASSUME NEW port \in Ports, NEW ok \in Outcome, Interrupt(port, ok) PROVE Coherent'
  BY <1>3, CoherentInterrupt, BufCacheAssumption
<1>4. CASE UNCHANGED vars
  BY <1>1, <1>4 DEF vars, bufs, ide
<1> QED BY <1>2, <1>3, <1>4 DEF Next

(* A clean valid buffer whose last request was answered by its own command  *)
(* without an error holds the contents of its block.                        *)
THEOREM BuffersCoherent == Spec => []CacheCoherent
<1>1. Init => Coherent
  BY DEF Init, Coherent
<1>2. Coherent => CacheCoherent
  BY DEF Coherent, CacheCoherent
<1> QED BY <1>1, <1>2, BufInvariant, CoherentStep, PTL DEF Spec
=============================================================================
