----------------------------- MODULE ProcQueue -----------------------------
(***************************************************************************)
(* The process queues of kernel/data/queue.c and the sleep/wakeup core of  *)
(* kernel/sched/proc.c, as functions on the part of the kernel state they  *)
(* touch: a record k with                                                  *)
(*   state, chan, pri, urgent, claimed, curr_cpu, curr   (per process)     *)
(*   q      queue name -> the processes on its list, head first            *)
(*   fault  "none", or how the kernel came to a stop.                      *)
(* Each operator is one call; a call after a fault has no effect.          *)
(***************************************************************************)
EXTENDS Integers, Sequences, FiniteSets, SequencesExt

CONSTANTS NPROC,               \* slots of ptable
          CPU,                 \* CPUs; each names its runqueue
          CHAR_MIN, CHAR_MAX   \* range of the char p_pri

Proc == 1 .. NPROC

ASSUME ProcQueueAssumption ==
  /\ NPROC \in Nat \ {0}
  /\ CPU # {}
  /\ {"none", "readyqueue", "sleepqueue"} \cap CPU = {}
  /\ CHAR_MIN \in Int /\ CHAR_MAX \in Int /\ CHAR_MIN < 1 /\ 3 < CHAR_MAX

QueueId == {"readyqueue", "sleepqueue"} \cup CPU
NONE  == "none"     \* curr == 0, curr_cpu == NOCPU
NOBODY == 0         \* a null struct proc *, a null chan
TICKS == NPROC + 1  \* the channel &ticks; the channel of wait() is the parent
Chan  == 0 .. NPROC + 1

State == {"UNUSED", "EMBRYO", "SLEEPING", "RUNNABLE", "RUNNING", "ZOMBIE", "PREEMPTED"}
LOW_USER_PRIORITY == 1
MED_USER_PRIORITY == 3

Fault(k, why) == [k EXCEPT !.fault = why]

\* p_pri++ on a char.
IncPri(v) == IF v = CHAR_MAX THEN CHAR_MIN ELSE v + 1

-----------------------------------------------------------------------------
claim_proc(k, p, cpu) ==
  IF k.claimed[p] THEN k
  ELSE [k EXCEPT !.claimed[p] = TRUE, !.curr_cpu[p] = cpu]

unclaim_proc(k, p) ==
  IF k.claimed[p]
  THEN [k EXCEPT !.claimed[p] = FALSE, !.curr_cpu[p] = NONE, !.curr[p] = NONE]
  ELSE k

(* The place a process takes: at the end of a list of fewer than two, else  *)
(* before the first RUNNABLE process after the head that has a lower        *)
(* priority, or before the first RUNNABLE one when the new one is URGENT.   *)
InsertPosition(k, new, list) ==
  LET yields == {i \in 2 .. Len(list) :
                   /\ k.state[list[i]] = "RUNNABLE"
                   /\ k.pri[new] > k.pri[list[i]] \/ k.urgent[new]}
  IN IF yields = {} THEN Len(list) + 1 ELSE Min(yields)

insert_proc_into_queue(k, new, qid) ==
  IF k.fault # "none" THEN k
  ELSE IF k.state[new] = "RUNNING" THEN Fault(k, "Inserting running proc")
  ELSE IF k.curr[new] = qid THEN k
  ELSE [k EXCEPT !.q[qid] = InsertAt(@, InsertPosition(k, new, @), new),
                 !.curr[new] = qid]

(* A process that is not on a non-empty list is not found, and the function *)
(* falls off its end with the list's qloc still held (queue.c:200-221).     *)
remove_proc_from_queue(k, old, qid) ==
  IF k.fault # "none" THEN k
  ELSE IF k.q[qid] = <<>> THEN Fault(k, "proc not in queue")
  ELSE IF k.state[old] = "RUNNING" THEN Fault(k, "Removing running proc")
  ELSE IF ~Contains(k.q[qid], old) THEN Fault(k, "qloc never released")
  ELSE unclaim_proc([k EXCEPT !.q[qid] = RemoveFirst(@, old)], old)

(* The walk stops after its first removal: the removed process's next       *)
(* pointer, which it follows, has been cleared.                             *)
purge_queue(k, qid) ==
  LET invalid == {i \in DOMAIN k.q[qid] : k.state[k.q[qid][i]] # "RUNNABLE"}
  IN IF invalid = {} THEN k
     ELSE remove_proc_from_queue(k, k.q[qid][Min(invalid)], qid)

(* Called by the scheduler on its runqueue after a process gave up the CPU. *)
(* A list with a process left on it is fatal: a single one is removed with  *)
(* qloc held, so that acquire() panics; of two, the tail becomes the head.  *)
shift_queue(k, qid) ==
  IF k.fault # "none" \/ k.q[qid] = <<>> THEN k
  ELSE IF k.state[Head(k.q[qid])] = "RUNNING" THEN Fault(k, "Removing running proc")
  ELSE IF Len(k.q[qid]) = 1 THEN Fault(k, "acquire")
  ELSE Fault(k, "head eq tail")

-----------------------------------------------------------------------------
(* sched() up to swtch(): put the process back on readyqueue if it can run. *)
sched(k, p) ==
  IF k.fault # "none" THEN k
  ELSE IF k.curr_cpu[p] # NONE THEN Fault(k, "runqueue[NOCPU]")
  ELSE IF k.state[p] = "PREEMPTED"
  THEN insert_proc_into_queue([k EXCEPT !.pri[p] = LOW_USER_PRIORITY,
                                        !.state[p] = "RUNNABLE",
                                        !.curr[p] = NONE],
                              p, "readyqueue")
  ELSE IF k.state[p] # "RUNNABLE" THEN k
  ELSE insert_proc_into_queue(
         IF k.curr[p] # NONE THEN remove_proc_from_queue(k, p, k.curr[p]) ELSE k,
         p, "readyqueue")

StayQueued(k, p) == k  \* mutant of LeaveQueue

(* Taking a process that stops running off the list it is on.               *)
LeaveQueue(k, p) ==
  IF k.curr_cpu[p] # NONE
  THEN [remove_proc_from_queue(k, p, k.curr_cpu[p]) EXCEPT !.curr_cpu[p] = NONE]
  ELSE IF k.curr[p] # NONE THEN remove_proc_from_queue(k, p, k.curr[p])
  ELSE k

(* sleep() between taking ptable.lock and swtch().                          *)
sleep(k, p, ch) ==
  sched(insert_proc_into_queue(
          LeaveQueue([k EXCEPT !.chan[p] = ch, !.state[p] = "SLEEPING"], p),
          p, "sleepqueue"),
        p)

(* wakeup1(): the loop follows p->next after p has moved to readyqueue, so  *)
(* it wakes the first sleeper only and then inspects the processes that     *)
(* stand behind it on readyqueue, whose chan is stale until they run.       *)
wakeup1(k, ch) ==
  LET list == k.q["sleepqueue"]
      hits == {i \in DOMAIN list : k.chan[list[i]] = ch}
      p    == list[Min(hits)]
      woken == insert_proc_into_queue(
                 [remove_proc_from_queue(k, p, "sleepqueue") EXCEPT !.state[p] = "RUNNABLE"],
                 p, "readyqueue")
      ready == woken.q["readyqueue"]
      stuck == \E i, j \in DOMAIN ready :
                 i < j /\ ready[i] = p /\ k.chan[ready[j]] = ch
  IN IF k.fault # "none" \/ hits = {} THEN k
     ELSE IF k.state[p] # "SLEEPING" THEN Fault(k, "stuck proc")
     ELSE LET next == [woken EXCEPT !.urgent[p] = TRUE, !.pri[p] = IncPri(@)]
          IN IF stuck THEN Fault(next, "stuck proc") ELSE next
=============================================================================
