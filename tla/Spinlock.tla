------------------------------ MODULE Spinlock ------------------------------
(***************************************************************************)
(* Spin locks (kernel/lock/spinlock.c): acquire() and release() with       *)
(* pushcli() and popcli(), on processors that take interrupts whose        *)
(* handlers use the same locks.  A handler runs with interrupts off, as    *)
(* the gates of kernel/trap/trap.c have it, and interrupts the thread of   *)
(* its processor at any point where they are on.  Nothing is assumed of    *)
(* the callers: they may acquire a lock they hold and release one they do  *)
(* not hold.                                                               *)
(***************************************************************************)
EXTENDS Naturals, FiniteSets

CONSTANTS Cpu, Lock, NoCpu,
          Depth     \* bound: locks held at once by a thread or a handler

ASSUME CpuAssumption == NoCpu \notin Cpu
ASSUME LockAssumption == IsFiniteSet(Lock) /\ Lock # {}
ASSUME DepthAssumption == Depth \in Nat

VARIABLES locked, cpu,      \* of each lock
          ncli, intena,     \* of each processor
          IF_,              \* FL_IF
          pc, want,         \* where the processor is in acquire() or release(), of which lock
          holds,            \* the locks the running code has acquired
          inHandler, saved, \* the interrupted thread's pc, want and holds
          panicked          \* "no", or the function whose panic() stopped the kernel

vars == <<locked, cpu, ncli, intena, IF_, pc, want, holds, inHandler, saved, panicked>>

Steps == {"run", "check", "spin", "record", "unlock", "pop"}
Context == [pc : Steps, want : Lock, holds : SUBSET Lock]

Init ==
  /\ locked = [l \in Lock |-> FALSE] /\ cpu = [l \in Lock |-> NoCpu]
  /\ ncli = [c \in Cpu |-> 0] /\ intena = [c \in Cpu |-> TRUE]
  /\ IF_ = [c \in Cpu |-> TRUE]
  /\ pc = [c \in Cpu |-> "run"] /\ want \in [Cpu -> Lock]
  /\ holds = [c \in Cpu |-> {}]
  /\ inHandler = [c \in Cpu |-> FALSE]
  /\ saved = [c \in Cpu |-> [pc |-> "run", want |-> want[c], holds |-> {}]]
  /\ panicked = "no"

-----------------------------------------------------------------------------
\* mutant: interrupts stay on
PushcliOn(c) ==
  /\ intena' = IF ncli[c] = 0 THEN [intena EXCEPT ![c] = IF_[c]] ELSE intena
  /\ ncli' = [ncli EXCEPT ![c] = @ + 1]
  /\ UNCHANGED IF_

Pushcli(c) ==
  /\ intena' = IF ncli[c] = 0 THEN [intena EXCEPT ![c] = IF_[c]] ELSE intena
  /\ IF_' = [IF_ EXCEPT ![c] = FALSE]
  /\ ncli' = [ncli EXCEPT ![c] = @ + 1]

SetsIF(c) == ncli[c] = 1 /\ intena[c]

\* acquire()
Acquire(c, l) ==
  /\ pc[c] = "run" /\ panicked = "no"
  /\ Cardinality(holds[c]) < Depth
  /\ Pushcli(c)
  /\ want' = [want EXCEPT ![c] = l]
  /\ pc' = [pc EXCEPT ![c] = "check"]
  /\ UNCHANGED <<locked, cpu, holds, inHandler, saved, panicked>>

Holding(c, l) == locked[l] /\ cpu[l] = c

\* mutant: the test of holding() is left out
CheckNone(c) ==
  /\ pc[c] = "check" /\ panicked = "no"
  /\ pc' = [pc EXCEPT ![c] = "spin"]
  /\ UNCHANGED <<locked, cpu, ncli, intena, IF_, want, holds, inHandler, saved, panicked>>

Check(c) ==
  /\ pc[c] = "check" /\ panicked = "no"
  /\ IF Holding(c, want[c])
     THEN panicked' = "acquire" /\ UNCHANGED pc
     ELSE pc' = [pc EXCEPT ![c] = "spin"] /\ UNCHANGED panicked
  /\ UNCHANGED <<locked, cpu, ncli, intena, IF_, want, holds, inHandler, saved>>

\* mutant: the exchange does not look at the old value
XchgBlind(c) == TRUE
XchgFree(c) == ~locked[want[c]]

Xchg(c) ==
  /\ pc[c] = "spin" /\ panicked = "no"
  /\ XchgFree(c)
  /\ locked' = [locked EXCEPT ![want[c]] = TRUE]
  /\ pc' = [pc EXCEPT ![c] = "record"]
  /\ UNCHANGED <<cpu, ncli, intena, IF_, want, holds, inHandler, saved, panicked>>

Record(c) ==
  /\ pc[c] = "record" /\ panicked = "no"
  /\ cpu' = [cpu EXCEPT ![want[c]] = c]
  /\ holds' = [holds EXCEPT ![c] = @ \cup {want[c]}]
  /\ pc' = [pc EXCEPT ![c] = "run"]
  /\ UNCHANGED <<locked, ncli, intena, IF_, want, inHandler, saved, panicked>>

\* release()
Release(c, l) ==
  /\ pc[c] = "run" /\ panicked = "no"
  /\ want' = [want EXCEPT ![c] = l]
  /\ IF Holding(c, l)
     THEN /\ cpu' = [cpu EXCEPT ![l] = NoCpu]
          /\ holds' = [holds EXCEPT ![c] = @ \ {l}]
          /\ pc' = [pc EXCEPT ![c] = "unlock"]
          /\ UNCHANGED panicked
     ELSE /\ panicked' = "release"
          /\ UNCHANGED <<cpu, holds, pc>>
  /\ UNCHANGED <<locked, ncli, intena, IF_, inHandler, saved>>

Unlock(c) ==
  /\ pc[c] = "unlock" /\ panicked = "no"
  /\ locked' = [locked EXCEPT ![want[c]] = FALSE]
  /\ pc' = [pc EXCEPT ![c] = "pop"]
  /\ UNCHANGED <<cpu, ncli, intena, IF_, want, holds, inHandler, saved, panicked>>

Popcli(c) ==
  /\ pc[c] = "pop" /\ panicked = "no"
  /\ panicked' = IF IF_[c] \/ ncli[c] < 1 THEN "popcli" ELSE "no"
  /\ ncli' = [ncli EXCEPT ![c] = IF @ < 1 THEN 0 ELSE @ - 1]
  /\ IF_' = [IF_ EXCEPT ![c] = @ \/ SetsIF(c)]
  /\ pc' = [pc EXCEPT ![c] = "run"]
  /\ UNCHANGED <<locked, cpu, intena, want, holds, inHandler, saved>>

\* An interrupt, and the return of its handler
Interrupt(c) ==
  /\ IF_[c] /\ ~inHandler[c] /\ panicked = "no"
  /\ IF_' = [IF_ EXCEPT ![c] = FALSE]
  /\ inHandler' = [inHandler EXCEPT ![c] = TRUE]
  /\ saved' = [saved EXCEPT ![c] = [pc |-> pc[c], want |-> want[c], holds |-> holds[c]]]
  /\ pc' = [pc EXCEPT ![c] = "run"]
  /\ holds' = [holds EXCEPT ![c] = {}]
  /\ UNCHANGED <<locked, cpu, ncli, intena, want, panicked>>

Iret(c) ==
  /\ inHandler[c] /\ pc[c] = "run" /\ holds[c] = {} /\ panicked = "no"
  /\ IF_' = [IF_ EXCEPT ![c] = TRUE]
  /\ inHandler' = [inHandler EXCEPT ![c] = FALSE]
  /\ pc' = [pc EXCEPT ![c] = saved[c].pc]
  /\ want' = [want EXCEPT ![c] = saved[c].want]
  /\ holds' = [holds EXCEPT ![c] = saved[c].holds]
  /\ UNCHANGED <<locked, cpu, ncli, intena, saved, panicked>>

Next ==
  \E c \in Cpu :
    \/ \E l \in Lock : Acquire(c, l) \/ Release(c, l)
    \/ Check(c) \/ Xchg(c) \/ Record(c) \/ Unlock(c) \/ Popcli(c)
    \/ Interrupt(c) \/ Iret(c)

Spec == Init /\ [][Next]_vars

-----------------------------------------------------------------------------
(* Properties.                                                              *)

(* The locks that the code on c is using, the interrupted thread's          *)
(* included: taken and not given back yet.                                  *)
Uses(c) == holds[c] \cup saved[c].holds
             \cup (IF pc[c] \in {"record", "unlock"} THEN {want[c]} ELSE {})

(* Two processors, or a handler and the thread it interrupted, never hold   *)
(* the same lock (spinlock.c:34-36).                                        *)
MutualExclusion ==
  /\ \A c, d \in Cpu : c # d => Uses(c) \cap Uses(d) = {}
  /\ \A c \in Cpu : inHandler[c] => holds[c] \cap saved[c].holds = {}

(* A processor never spins on a lock that it holds itself, whatever its     *)
(* code asks for: who holds the lock it waits for is another one, so that   *)
(* a wait for oneself ends in a panic (spinlock.c:27-36).                   *)
NoSelfDeadlock ==
  \A c \in Cpu : pc[c] = "spin" /\ locked[want[c]] =>
    \E d \in Cpu \ {c} : want[c] \in Uses(d)

(* acquire() panics only for code that holds the lock already, release()    *)
(* only for code that does not hold it, popcli() never: no interrupt makes  *)
(* a handler meet a lock of the thread below it (spinlock.c:27,             *)
(* "disable trap to avoid deadlock.").                                      *)
OnlyMisusePanics ==
  /\ panicked = "acquire" => \E c \in Cpu : pc[c] = "check" /\ want[c] \in holds[c]
  /\ panicked = "release" => \E c \in Cpu : pc[c] = "run" /\ want[c] \notin holds[c]
  /\ panicked # "popcli"

(* Interrupts are off while any lock is held and on again, in a thread,     *)
(* once the last one is released (spinlock.c:103-128).                      *)
InterruptsMatched ==
  \A c \in Cpu : ~inHandler[c] => (IF_[c] <=> pc[c] = "run" /\ holds[c] = {})
=============================================================================
