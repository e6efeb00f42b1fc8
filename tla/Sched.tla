------------------------------- MODULE Sched -------------------------------
(***************************************************************************)
(* The process life cycle (kernel/sched/proc.c) and the per-CPU scheduler  *)
(* (kernel/sched/sched.c): fork, exit, wait, kill, sleep, wakeup, preempt  *)
(* and yield, with the timer interrupt as the source of wakeups.           *)
(*                                                                         *)
(* One action is one critical section of ptable.lock, of a queue lock or   *)
(* of check_lock, or one unlocked read in scheduler().  Interrupts and     *)
(* preemption fall between actions; they are off inside one.               *)
(***************************************************************************)
EXTENDS ProcQueue

CONSTANTS Killers,     \* slots whose process may call kill()
          BadCallers,  \* slots whose process may use an unknown system call
          MaxPid       \* bound: fork is tried only while nextpid <= MaxPid

\* The first slot.  Its program, user/init.c, only forks and waits.
initproc == 1

ASSUME SchedAssumption ==
  /\ Killers \subseteq Proc \ {initproc}
  /\ BadCallers \subseteq Proc \ {initproc}
  /\ MaxPid \in Nat

VARIABLES
  k,         \* the scheduling state ProcQueue describes
  pid, parent, killed, p_sig, nextpid,
  pc,        \* pc[p]: where p is in its system call
  child,     \* child[p]: the slot fork() of p has allocated
  cpc,       \* cpc[c]: where scheduler() of CPU c is; "run" inside a process
  head,      \* head[c]: scheduler()'s local p from pick to insert, else NOBODY
  cproc,     \* cproc[c]: cpu->proc
  ptable     \* ptable.lock: the CPU that holds it between two actions, or NONE

table == <<pid, parent, killed, p_sig, nextpid>>
procs == <<pc, child>>
cpus  == <<cpc, head, cproc, ptable>>
vars  == <<k, table, procs, cpus>>

\* userinit(): initproc alone, on readyqueue.
Init ==
  /\ k = [state    |-> [p \in Proc |-> IF p = initproc THEN "RUNNABLE" ELSE "UNUSED"],
          chan     |-> [p \in Proc |-> NOBODY],
          pri      |-> [p \in Proc |-> IF p = initproc THEN MED_USER_PRIORITY ELSE 0],
          urgent   |-> [p \in Proc |-> FALSE],
          claimed  |-> [p \in Proc |-> FALSE],
          curr_cpu |-> [p \in Proc |-> NONE],
          curr     |-> [p \in Proc |-> IF p = initproc THEN "readyqueue" ELSE NONE],
          q        |-> [i \in QueueId |-> IF i = "readyqueue" THEN <<initproc>> ELSE <<>>],
          fault    |-> "none"]
  /\ pid = [p \in Proc |-> IF p = initproc THEN 1 ELSE 0]
  /\ parent = [p \in Proc |-> NOBODY]
  /\ killed = [p \in Proc |-> FALSE]
  /\ p_sig = [p \in Proc |-> FALSE]
  /\ nextpid = 2
  /\ pc = [p \in Proc |-> "user"]
  /\ child = [p \in Proc |-> NOBODY]
  /\ cpc = [c \in CPU |-> "main"]
  /\ head = [c \in CPU |-> NOBODY]
  /\ cproc = [c \in CPU |-> NOBODY]
  /\ ptable = NONE

-----------------------------------------------------------------------------
(* scheduler(), one CPU.                                                    *)
Goto(c, l) == cpc' = [cpc EXCEPT ![c] = l]

(* The tests at main:.  With both queues empty it spins: do_balance() moves *)
(* a runqueue's tail, which is null for a list of one.                      *)
SchedMain(c) ==
  /\ cpc[c] = "main"
  /\ \/ k.q["readyqueue"] # <<>> /\ Goto(c, "pick")
     \/ k.q["readyqueue"] = <<>> /\ k.q[c] # <<>> /\ Goto(c, "sched")
  /\ UNCHANGED <<k, table, procs, head, cproc, ptable>>

(* p = readyqueue.head, then handle_signals(p): a pending signal with an    *)
(* empty p_ign marks the process killed.                                    *)
SchedPick(c) ==
  /\ cpc[c] = "pick"
  /\ IF k.q["readyqueue"] = <<>>
     THEN /\ k' = Fault(k, "null readyqueue.head")
          /\ UNCHANGED <<killed, head, cpc>>
     ELSE LET p == Head(k.q["readyqueue"])
          IN /\ head' = [head EXCEPT ![c] = p]
             /\ killed' = [killed EXCEPT ![p] = @ \/ p_sig[p]]
             /\ Goto(c, "check")
             /\ UNCHANGED k
  /\ UNCHANGED <<pid, parent, p_sig, nextpid, procs, cproc, ptable>>

\* p->curr == &readyqueue, read without a lock
SchedCheck(c) ==
  /\ cpc[c] = "check"
  /\ Goto(c, IF k.curr[head[c]] = "readyqueue" THEN "claim" ELSE "sched")
  /\ UNCHANGED <<k, table, procs, head, cproc, ptable>>

SchedClaim(c) ==
  /\ cpc[c] = "claim"
  /\ k' = claim_proc(k, head[c], c)
  /\ Goto(c, IF k.claimed[head[c]] THEN "sched" ELSE "remove")
  /\ UNCHANGED <<table, procs, head, cproc, ptable>>

SchedRemove(c) ==
  /\ cpc[c] = "remove"
  /\ k' = remove_proc_from_queue(k, head[c], "readyqueue")
  /\ Goto(c, "insert")
  /\ UNCHANGED <<table, procs, head, cproc, ptable>>

SchedInsert(c) ==
  /\ cpc[c] = "insert"
  /\ k' = insert_proc_into_queue(k, head[c], c)
  /\ Goto(c, "sched")
  /\ UNCHANGED <<table, procs, head, cproc, ptable>>

(* sched: mark the head of the runqueue RUNNING and swtch() to it.  What    *)
(* the process does before it releases ptable.lock is part of the step:     *)
(* forkret(), yield() and preempt() only release it, sleep() clears chan;   *)
(* in wait() the lock stays held into the next scan of the table.           *)
SchedSwitch(c) ==
  /\ cpc[c] = "sched"
  /\ head' = [head EXCEPT ![c] = NOBODY]
  /\ IF k.q[c] = <<>>
     THEN /\ Goto(c, "main")
          /\ UNCHANGED <<k, pc, cproc, ptable>>
     ELSE LET p == Head(k.q[c])
          IN /\ ptable = NONE
             /\ cproc' = [cproc EXCEPT ![c] = p]
             /\ Goto(c, "run")
             /\ k' = [k EXCEPT !.state[p] = "RUNNING",
                               !.chan[p] = IF pc[p] \in {"wait_sleep", "ticks_sleep"}
                                           THEN NOBODY ELSE @]
             /\ pc' = [pc EXCEPT ![p] = CASE @ = "wait_sleep"  -> "wait"
                                          [] @ = "ticks_sleep" -> "ticks"
                                          [] OTHER -> @]
             /\ ptable' = IF pc[p] = "wait_sleep" THEN c ELSE NONE
  /\ UNCHANGED <<table, child>>

-----------------------------------------------------------------------------
(* What a process does while it runs on CPU c.                              *)
Running(c, p, l) ==
  /\ cpc[c] = "run"
  /\ cproc[c] = p
  /\ pc[p] = l

\* A system call is entered, or goes on, with ptable.lock free.
InCall(c, p, l) == Running(c, p, l) /\ ptable = NONE

\* A killed process exits when it would enter the kernel or leave it.
Enters(c, p) == InCall(c, p, "user") /\ ~killed[p]

(* swtch() to the scheduler, which shifts its runqueue, clears cpu->proc    *)
(* and releases ptable.lock.                                                *)
GiveUp(c, k1) ==
  /\ k' = shift_queue(k1, c)
  /\ cproc' = [cproc EXCEPT ![c] = NOBODY]
  /\ Goto(c, "main")
  /\ ptable' = NONE

\* allocproc() inside fork(): the first UNUSED slot becomes EMBRYO.
ForkAlloc(c, p) ==
  /\ Enters(c, p)
  /\ nextpid <= MaxPid
  /\ \E np \in Proc :
       /\ k.state[np] = "UNUSED"
       /\ \A o \in 1 .. np - 1 : k.state[o] # "UNUSED"
       /\ k' = [k EXCEPT !.state[np] = "EMBRYO"]
       /\ pid' = [pid EXCEPT ![np] = nextpid]
       /\ child' = [child EXCEPT ![p] = np]
  /\ nextpid' = nextpid + 1
  /\ pc' = [pc EXCEPT ![p] = "fork"]
  /\ UNCHANGED <<parent, killed, p_sig, cpus>>

\* kalloc() or copyuvm() fails: the slot goes back, its pid stays in it.
ForkFail(c, p) ==
  /\ InCall(c, p, "fork")
  /\ k' = [k EXCEPT !.state[child[p]] = "UNUSED"]
  /\ pc' = [pc EXCEPT ![p] = "user"]
  /\ child' = [child EXCEPT ![p] = NOBODY]
  /\ UNCHANGED <<table, cpus>>

ForkReady(c, p) ==
  /\ InCall(c, p, "fork")
  /\ LET np == child[p]
     IN /\ k' = [k EXCEPT !.state[np] = "RUNNABLE", !.urgent[np] = FALSE,
                          !.claimed[np] = FALSE, !.pri[np] = k.pri[p],
                          !.curr_cpu[np] = NONE, !.curr[np] = NONE]
        /\ parent' = [parent EXCEPT ![np] = p]
        /\ p_sig' = [p_sig EXCEPT ![np] = FALSE]
        /\ pc' = [pc EXCEPT ![p] = "fork_insert", ![np] = "user"]
  /\ UNCHANGED <<pid, killed, nextpid, child, cpus>>

\* Mutant: the child is not queued.
ForkInsertNot(c, p) ==
  /\ InCall(c, p, "fork_insert")
  /\ pc' = [pc EXCEPT ![p] = "user"]
  /\ child' = [child EXCEPT ![p] = NOBODY]
  /\ UNCHANGED <<k, table, cpus>>

\* The last step of fork(), after ptable.lock has been released.
ForkInsert(c, p) ==
  /\ InCall(c, p, "fork_insert")
  /\ k' = insert_proc_into_queue(k, child[p], "readyqueue")
  /\ pc' = [pc EXCEPT ![p] = "user"]
  /\ child' = [child EXCEPT ![p] = NOBODY]
  /\ UNCHANGED <<table, cpus>>

Kids(p) == {o \in Proc : parent[o] = p}

ExitWakesInit(p) == wakeup1(k, initproc)  \* mutant: the parent is not woken
KeepKids(p) == parent                     \* mutant: children are not handed over

\* exit() wakes the parent, and initproc once for every child it is handed.
ExitWakes(p) ==
  FoldLeft(LAMBDA kk, o : wakeup1(kk, initproc), wakeup1(k, parent[p]), SetToSeq(Kids(p)))

HandOver(p) == [o \in Proc |-> IF o \in Kids(p) THEN initproc ELSE parent[o]]

(* What fork() sets anew before anyone reads it is not kept in a ZOMBIE or  *)
(* UNUSED slot; pid and killed, which kill() reads and writes there, are.   *)
Forget(k1, o) ==
  IF k1.fault # "none" THEN k1
  ELSE [k1 EXCEPT !.pri[o] = 0, !.urgent[o] = FALSE, !.claimed[o] = FALSE,
                  !.curr_cpu[o] = NONE, !.curr[o] = NONE]

(* exit() from acquire(&ptable.lock) on; a call, or forced by trap() on a   *)
(* killed process.  initproc never exits (user/init.c loops for ever).      *)
Exit(c, p) ==
  /\ InCall(c, p, "user")
  /\ p # initproc
  /\ parent' = HandOver(p)
  /\ GiveUp(c, Forget(sched(LeaveQueue([ExitWakes(p) EXCEPT !.state[p] = "ZOMBIE"], p), p), p))
  /\ killed' = [killed EXCEPT ![p] = TRUE]
  /\ nextpid' = pid[p]
  /\ UNCHANGED <<pid, p_sig, procs, head>>

(* wait(): one scan of the table, with ptable.lock held throughout.         *)
Wait(c, p) ==
  /\ Enters(c, p) \/ (Running(c, p, "wait") /\ ptable = c)
  /\ LET kids == Kids(p)
         dead == {o \in kids : k.state[o] = "ZOMBIE"}
     IN \/ /\ dead # {}
           /\ LET o == Min(dead)
              IN /\ k' = [k EXCEPT !.state[o] = "UNUSED"]
                 /\ pid' = [pid EXCEPT ![o] = 0]
                 /\ parent' = [parent EXCEPT ![o] = NOBODY]
                 /\ killed' = [killed EXCEPT ![o] = FALSE]
                 /\ p_sig' = [p_sig EXCEPT ![o] = FALSE]
           /\ pc' = [pc EXCEPT ![p] = "user"]
           /\ ptable' = NONE
           /\ UNCHANGED <<cpc, cproc>>
        \/ /\ dead = {} /\ (kids = {} \/ killed[p])
           /\ pc' = [pc EXCEPT ![p] = "user"]
           /\ ptable' = NONE
           /\ UNCHANGED <<k, pid, parent, killed, p_sig, cpc, cproc>>
        \/ /\ dead = {} /\ kids # {} /\ ~killed[p]
           /\ GiveUp(c, sleep(k, p, p))
           /\ pc' = [pc EXCEPT ![p] = "wait_sleep"]
           /\ UNCHANGED <<pid, parent, killed, p_sig>>
  /\ UNCHANGED <<nextpid, child, head>>

(* sys_sleep(n): from its entry to its first sleep(&ticks), and its loop.   *)
(* n is not modelled: whether ticks - ticks0 < n still holds is a choice.   *)
SleepTicks(c, p) ==
  /\ Enters(c, p)
  /\ p # initproc
  /\ GiveUp(c, sleep(k, p, TICKS))
  /\ pc' = [pc EXCEPT ![p] = "ticks_sleep"]
  /\ UNCHANGED <<table, child, head>>

SleepTicksLoop(c, p) ==
  /\ InCall(c, p, "ticks")
  /\ \/ /\ pc' = [pc EXCEPT ![p] = "user"]
        /\ UNCHANGED <<k, cpc, cproc, ptable>>
     \/ /\ ~killed[p]
        /\ GiveUp(c, sleep(k, p, TICKS))
        /\ pc' = [pc EXCEPT ![p] = "ticks_sleep"]
  /\ UNCHANGED <<table, child, head>>

(* kill(): the first slot with the pid, whatever its state; a sleeper is    *)
(* made RUNNABLE where it is, on sleepqueue.  init's pid is not a target.   *)
Kill(c, p) ==
  /\ Enters(c, p)
  /\ p \in Killers
  /\ \E t \in Proc :
       /\ pid[t] \notin {0, pid[initproc]}
       /\ \A o \in 1 .. t - 1 : pid[o] # pid[t]
       /\ killed' = [killed EXCEPT ![t] = TRUE]
       /\ k' = IF k.state[t] = "SLEEPING" THEN [k EXCEPT !.state[t] = "RUNNABLE"] ELSE k
  /\ UNCHANGED <<pid, parent, p_sig, nextpid, procs, cpus>>

(* syscall() with an unknown number: SIGSYS to the caller, then yield().    *)
UnknownSyscall(c, p) ==
  /\ Enters(c, p)
  /\ p \in BadCallers
  /\ p_sig' = [p_sig EXCEPT ![p] = TRUE]
  /\ GiveUp(c, sched(purge_queue([k EXCEPT !.state[p] = "RUNNABLE"], c), p))
  /\ UNCHANGED <<pid, parent, killed, nextpid, procs, head>>

(* trap(): the time quantum is used up.  It may strike in user or in kernel *)
(* mode, wherever no spin lock is held.                                     *)
Preempt(c, p) ==
  /\ \E l \in {"user", "fork", "fork_insert", "ticks"} : InCall(c, p, l)
  /\ GiveUp(c, sched(purge_queue([k EXCEPT !.state[p] = "PREEMPTED"], c), p))
  /\ UNCHANGED <<table, procs, head>>

(* The timer interrupt of CPU 0: ticks++ and wakeup(&ticks).                *)
Tick ==
  /\ ptable = NONE
  /\ k' = wakeup1(k, TICKS)
  /\ UNCHANGED <<table, procs, cpus>>

-----------------------------------------------------------------------------
Scheduler(c) ==
  \/ SchedMain(c) \/ SchedPick(c) \/ SchedCheck(c) \/ SchedClaim(c)
  \/ SchedRemove(c) \/ SchedInsert(c) \/ SchedSwitch(c)

Process(c, p) ==
  \/ ForkAlloc(c, p) \/ ForkFail(c, p) \/ ForkReady(c, p) \/ ForkInsert(c, p)
  \/ Exit(c, p) \/ Wait(c, p)
  \/ SleepTicks(c, p) \/ SleepTicksLoop(c, p)
  \/ Kill(c, p) \/ UnknownSyscall(c, p) \/ Preempt(c, p)

Next ==
  /\ k.fault = "none"
  /\ \/ \E c \in CPU : Scheduler(c)
     \/ \E c \in CPU, p \in Proc : Process(c, p)
     \/ Tick

Spec == Init /\ [][Next]_vars

-----------------------------------------------------------------------------
OnQueue(p, i) == Contains(k.q[i], p)

\* Every field has its type; p_pri is in the range of a char
TypeOK ==
  /\ k.state \in [Proc -> State]
  /\ k.chan \in [Proc -> Chan]
  /\ k.pri \in [Proc -> CHAR_MIN .. CHAR_MAX]
  /\ k.urgent \in [Proc -> BOOLEAN]
  /\ k.claimed \in [Proc -> BOOLEAN]
  /\ k.curr_cpu \in [Proc -> CPU \cup {NONE}]
  /\ k.curr \in [Proc -> QueueId \cup {NONE}]
  /\ \A i \in QueueId : k.q[i] \in Seq(Proc)
  /\ pid \in [Proc -> Nat]
  /\ parent \in [Proc -> Proc \cup {NOBODY}]
  /\ killed \in [Proc -> BOOLEAN]
  /\ p_sig \in [Proc -> BOOLEAN]
  /\ nextpid \in Nat
  /\ pc \in [Proc -> {"user", "fork", "fork_insert", "wait", "wait_sleep", "ticks",
                      "ticks_sleep"}]
  /\ child \in [Proc -> Proc \cup {NOBODY}]
  /\ cpc \in [CPU -> {"main", "pick", "check", "claim", "remove", "insert", "sched", "run"}]
  /\ head \in [CPU -> Proc \cup {NOBODY}]
  /\ cproc \in [CPU -> Proc \cup {NOBODY}]
  /\ ptable \in CPU \cup {NONE}

(* A process is on one list at most, and once; if it is on one, p->curr     *)
(* says which (queue.c writes curr on insertion and leaves a stale value on *)
(* most removals).  Priorities stay in the range of a char although         *)
(* wakeup1() increments them without a test (proc.c:530).                   *)
QueuesExclusive ==
  /\ TypeOK
  /\ \A i \in QueueId :
       IsInjective(k.q[i]) /\ \A m \in DOMAIN k.q[i] : k.curr[k.q[i][m]] = i

(* No process is lost: the list a process is on, or the hand that holds it, *)
(* follows from its state.  A RUNNABLE process off every list is the one    *)
(* scheduler() is moving or the one fork() is about to insert; a killed     *)
(* sleeper may be RUNNABLE on sleepqueue.                                   *)
ProcessPlaced ==
  k.fault = "none" =>
    \A p \in Proc :
      /\ k.state[p] = "SLEEPING" => OnQueue(p, "sleepqueue")
      /\ k.state[p] = "RUNNING" => \E c \in CPU : cproc[c] = p /\ k.q[c] = <<p>>
      /\ k.state[p] = "RUNNABLE" =>
           \/ OnQueue(p, "readyqueue")
           \/ \E c \in CPU : OnQueue(p, c) \/ (cpc[c] = "insert" /\ head[c] = p)
           \/ \E o \in Proc : pc[o] = "fork_insert" /\ child[o] = p
           \/ killed[p] /\ OnQueue(p, "sleepqueue")
      /\ k.state[p] \in {"UNUSED", "EMBRYO", "ZOMBIE"} => \A i \in QueueId : ~OnQueue(p, i)

(* wait() never sleeps through an exit: exit() wakes the parent and turns   *)
(* ZOMBIE in one critical section of ptable.lock.                           *)
NoMissedExit ==
  \A p, o \in Proc :
    k.state[p] = "SLEEPING" /\ k.chan[p] = p /\ parent[o] = p => k.state[o] # "ZOMBIE"

(* Every process has a parent that can still reap it: exit() hands its      *)
(* children to initproc before it becomes a ZOMBIE.                         *)
ParentAlive ==
  \A p \in Proc \ {initproc} :
    k.state[p] \notin {"UNUSED", "EMBRYO"} =>
      parent[p] # NOBODY /\ k.state[parent[p]] \notin {"UNUSED", "EMBRYO", "ZOMBIE"}

-----------------------------------------------------------------------------
(* What the assertions of the code say, and the code does not do.           *)

(* wakeup1() finds only sleepers on its channel: its panic("stuck proc")    *)
(* asserts it.                                                              *)
WakesSleepersOnly == k.fault # "stuck proc"

(* remove_proc_from_queue() is called for a process that is on the list:    *)
(* its panic("proc not in queue") asserts it.  scheduler() reads the head   *)
(* of readyqueue without a lock and its claim ends with its own removal, so *)
(* another CPU may remove the same process a second time.                   *)
RemovesQueued == k.fault # "proc not in queue"
=============================================================================
