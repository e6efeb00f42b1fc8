-------------------------------- MODULE Clock --------------------------------
(***************************************************************************)
(* sleep(n) on the clock (kernel/syscall/sysproc.c, kernel/trap/trap.c).   *)
(* ticks is a word that wraps; a timer interrupt of CPU 0 adds one and     *)
(* calls wakeup(&ticks), which moves the first sleeper only (proc.c). A    *)
(* process holds tickslock from its test of ticks until it is asleep, so   *)
(* one turn of the loop is one step.                                       *)
(***************************************************************************)
EXTENDS Integers, Sequences

CONSTANTS Proc,
          WRAP,       \* ticks counts modulo this, 2^32 in the code
          Lengths,    \* bound: the n of sleep(), as unsigned words
          MaxTicks,   \* bound: timer interrupts
          MaxCalls    \* bound: calls of each process

VARIABLES ticks,
          pc, n, ticks0,     \* locals of sys_sleep()
          sleepq,            \* the sleepers on &ticks, first first
          woken,             \* woken, not run yet
          killed, limbo,     \* limbo: killed in sleep(), still on sleepqueue
          calls, fault,
          elapsed, began,    \* history: interrupts so far, and at each call
          crowd              \* history: one slept while another did

vars == <<ticks, pc, n, ticks0, sleepq, woken, killed, limbo, calls, fault, elapsed, began, crowd>>

Init ==
  /\ ticks = 0 /\ elapsed = 0
  /\ pc = [p \in Proc |-> "user"]
  /\ n = [p \in Proc |-> 0] /\ ticks0 = [p \in Proc |-> 0] /\ began = [p \in Proc |-> 0]
  /\ sleepq = <<>> /\ woken = {} /\ killed = {} /\ limbo = {}
  /\ calls = [p \in Proc |-> 0]
  /\ fault = "none" /\ crowd = FALSE

Goto(p, l) == pc' = [pc EXCEPT ![p] = l]
Asleep(p) == \E k \in DOMAIN sleepq : sleepq[k] = p
Sleepers == {k \in DOMAIN sleepq : sleepq[k] \notin limbo}
Without(s, k) == SubSeq(s, 1, k - 1) \o SubSeq(s, k + 1, Len(s))

\* The walk goes on from the woken process into the ready queue, where it
\* may meet one woken before that has not run: "stuck proc".
Wakeup ==
  \/ /\ Sleepers = {} /\ limbo = {}
     /\ UNCHANGED <<sleepq, woken, fault>>
  \/ /\ Sleepers # {}
     /\ LET k == CHOOSE j \in Sleepers : \A i \in Sleepers : j <= i
        IN sleepq' = Without(sleepq, k) /\ woken' = woken \cup {sleepq[k]}
     /\ UNCHANGED fault
  \/ /\ limbo # {} \/ (Sleepers # {} /\ woken # {})
     /\ fault' = "stuck proc"
     /\ UNCHANGED <<sleepq, woken>>

Tick ==
  /\ fault = "none" /\ elapsed < MaxTicks
  /\ ticks' = (ticks + 1) % WRAP /\ elapsed' = elapsed + 1
  /\ Wakeup
  /\ UNCHANGED <<pc, n, ticks0, killed, limbo, calls, began, crowd>>

-----------------------------------------------------------------------------
Call(p) ==
  /\ fault = "none" /\ pc[p] = "user" /\ calls[p] < MaxCalls
  /\ calls' = [calls EXCEPT ![p] = @ + 1]
  /\ n' \in {[n EXCEPT ![p] = k] : k \in Lengths}
  /\ ticks0' = [ticks0 EXCEPT ![p] = ticks] /\ began' = [began EXCEPT ![p] = elapsed]
  /\ Goto(p, "loop")
  /\ UNCHANGED <<ticks, sleepq, woken, killed, limbo, fault, elapsed, crowd>>

\* mutant: the deadline is compared, not the difference
WaitsUntil(p) == ticks < (ticks0[p] + n[p]) % WRAP
Waits(p) == (ticks - ticks0[p]) % WRAP < n[p]

Runs(p) == fault = "none" /\ pc[p] = "loop" /\ ~Asleep(p)

Sleep(p) ==
  /\ Runs(p) /\ Waits(p) /\ p \notin killed
  /\ sleepq' = Append(sleepq, p) /\ woken' = woken \ {p}
  /\ crowd' = (crowd \/ sleepq # <<>>)
  /\ UNCHANGED <<ticks, pc, n, ticks0, killed, limbo, calls, fault, elapsed, began>>

Return(p) ==
  /\ Runs(p)
  /\ \/ ~Waits(p) /\ Goto(p, "slept")
     \/ Waits(p) /\ p \in killed /\ Goto(p, "failed")
  /\ woken' = woken \ {p}
  /\ UNCHANGED <<ticks, n, ticks0, sleepq, killed, limbo, calls, fault, elapsed, began, crowd>>

\* A killed process exits on its way back to user space (trap.c:41-42).
Leave(p) ==
  /\ fault = "none" /\ pc[p] \in {"slept", "failed"}
  /\ Goto(p, IF p \in killed THEN "exited" ELSE "user")
  /\ UNCHANGED <<ticks, n, ticks0, sleepq, woken, killed, limbo, calls, fault, elapsed, began, crowd>>

\* kill() by another process: the sleeper stays on sleepqueue (proc.c:565).
Kill(p) ==
  /\ fault = "none" /\ p \notin killed /\ pc[p] = "loop"
  /\ killed' = killed \cup {p}
  /\ limbo' = IF Asleep(p) THEN limbo \cup {p} ELSE limbo
  /\ UNCHANGED <<ticks, pc, n, ticks0, sleepq, woken, calls, fault, elapsed, began, crowd>>

Next == \/ Tick
        \/ \E p \in Proc : Call(p) \/ Sleep(p) \/ Return(p) \/ Leave(p) \/ Kill(p)

Spec == Init /\ [][Next]_vars

-----------------------------------------------------------------------------
(* Properties.                                                              *)

(* sleep(n) returns 0 only when n interrupts have passed since the call,    *)
(* also when ticks wraps around in between (sysproc.c:109-118).             *)
SleepsLongEnough == \A p \in Proc : pc[p] = "slept" => elapsed - began[p] >= n[p]

(* A process that slept alone is awake once its time is up, unless ticks    *)
(* has come all the way round; only when several wait for the clock, or one *)
(* of them was killed, may a due sleeper be left asleep for lack of a       *)
(* wakeup of its own (trap.c:74-77).                                        *)
DueIsAwake ==
  \A p \in Proc : Asleep(p) /\ elapsed - began[p] \in n[p] .. WRAP - 1
                    => crowd \/ limbo # {} \/ fault # "none"
=============================================================================
