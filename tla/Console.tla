------------------------------ MODULE Console ------------------------------
(***************************************************************************)
(* The console's input (kernel/dev/console.c): consoleintr() edits a line  *)
(* in the ring input.buf, consoleread() takes finished lines from it.      *)
(* cons.lock is held by a reader from one sleep() to the next; the         *)
(* interrupt handler runs whole.  wakeup() moves the first sleeper only    *)
(* (kernel/sched/proc.c).  Echo is Screen's.                               *)
(***************************************************************************)
EXTENDS Naturals, Sequences

CONSTANTS Proc,       \* processes reading the console
          Letters,    \* characters that are not special
          INPUT_BUF,
          WRAP,       \* 2^32 in the code: the indices are taken modulo it
          Sizes,      \* bound: the n of consoleread()
          MaxTyped,   \* bound: characters typed
          MaxCalls    \* bound: calls of each process

NONE == "none"

VARIABLES buf, r, w, e,     \* input
          lock,             \* cons.lock: the reader that holds it
          pc, n, target,    \* locals of consoleread()
          sleepq,           \* the readers on sleepqueue, first first
          woken,            \* readers woken that have not run yet
          killed, limbo,    \* limbo: killed in sleep(), still on sleepqueue
          typed, calls, fault,
          crowd             \* history: a reader slept while another one did

input == <<buf, r, w, e>>
vars  == <<input, lock, pc, n, target, sleepq, woken, killed, limbo, typed, calls, fault, crowd>>

Chars == Letters \cup {"nl", "eof"}

Init ==
  /\ buf = [k \in 0 .. INPUT_BUF - 1 |-> "nul"] /\ r = 0 /\ w = 0 /\ e = 0
  /\ lock = NONE
  /\ pc = [p \in Proc |-> "user"]
  /\ n = [p \in Proc |-> 0] /\ target = [p \in Proc |-> 0]
  /\ sleepq = <<>> /\ woken = {}
  /\ killed = {} /\ limbo = {}
  /\ typed = 0 /\ calls = [p \in Proc |-> 0]
  /\ fault = "none" /\ crowd = FALSE

Up(i)   == (i + 1) % WRAP
Down(i) == (i + WRAP - 1) % WRAP
Minus(i, j) == (i + WRAP - j) % WRAP

Goto(p, l) == pc' = [pc EXCEPT ![p] = l]

-----------------------------------------------------------------------------
(* consoleintr(): one character of the keyboard or of the serial port.      *)
Sleepers == {k \in DOMAIN sleepq : sleepq[k] \notin limbo}
Without(s, k) == SubSeq(s, 1, k - 1) \o SubSeq(s, k + 1, Len(s))

NoWakeup == UNCHANGED <<sleepq, woken, fault>>    \* mutant: nobody is woken

Wakeup ==
  \/ /\ Sleepers = {} /\ limbo = {}
     /\ UNCHANGED <<sleepq, woken, fault>>
  \/ /\ Sleepers # {}
     /\ LET k == CHOOSE j \in Sleepers : \A i \in Sleepers : j <= i
        IN sleepq' = Without(sleepq, k) /\ woken' = woken \cup {sleepq[k]}
     /\ UNCHANGED fault
  \/ /\ limbo # {} \/ (Sleepers # {} /\ woken # {})
     /\ fault' = "stuck proc"
     /\ UNCHANGED <<sleepq, woken>>

Intr ==
  /\ lock = NONE /\ fault = "none"
  /\ typed < MaxTyped /\ typed' = typed + 1

\* mutant: a full line is not handed over
FinishesLine(c) == c \in {"nl", "eof"}
Finishes(c) == c \in {"nl", "eof"} \/ Minus(Up(e), r) = INPUT_BUF

IntrChar(c) ==
  /\ Intr
  /\ Minus(e, r) < INPUT_BUF
  /\ buf' = [buf EXCEPT ![e % INPUT_BUF] = c]
  /\ e' = Up(e)
  /\ IF Finishes(c) THEN w' = Up(e) /\ Wakeup
     ELSE UNCHANGED <<w, sleepq, woken, fault>>
  /\ UNCHANGED <<r, lock, pc, n, target, killed, limbo, calls, crowd>>

IntrErase ==
  /\ Intr
  /\ e # w
  /\ e' = Down(e)
  /\ UNCHANGED <<buf, r, w, lock, pc, n, target, sleepq, woken, killed, limbo, calls, fault, crowd>>

\* ^U: back to the last newline or to the start of the line
IntrKill ==
  LET back == {k \in 0 .. Minus(e, w) :
                 \A j \in 0 .. k - 1 : buf[Minus(e, j + 1) % INPUT_BUF] # "nl"}
  IN /\ Intr
     /\ e' = Minus(e, CHOOSE k \in back : \A j \in back : j <= k)
     /\ UNCHANGED <<buf, r, w, lock, pc, n, target, sleepq, woken, killed, limbo, calls, fault,
                    crowd>>

-----------------------------------------------------------------------------
(* consoleread().                                                           *)
Read(p, k) ==
  /\ pc[p] = "user" /\ fault = "none" /\ calls[p] < MaxCalls
  /\ calls' = [calls EXCEPT ![p] = @ + 1]
  /\ n' = [n EXCEPT ![p] = k] /\ target' = [target EXCEPT ![p] = k]
  /\ Goto(p, "acquire")
  /\ UNCHANGED <<input, lock, sleepq, woken, killed, limbo, typed, fault, crowd>>

Acquire(p) ==
  /\ pc[p] = "acquire" /\ fault = "none" /\ lock = NONE
  /\ p \notin {sleepq[k] : k \in DOMAIN sleepq}
  /\ lock' = p /\ woken' = woken \ {p}
  /\ Goto(p, "loop")
  /\ UNCHANGED <<input, n, target, sleepq, killed, limbo, typed, calls, fault, crowd>>

\* ^D after other characters is left for the next call.
ReadChar(p) ==
  LET c == buf[r % INPUT_BUF]
  IN /\ pc[p] = "loop" /\ fault = "none"
     /\ n[p] > 0 /\ r # w
     /\ IF c = "eof"
        THEN /\ r' = IF n[p] < target[p] THEN r ELSE Up(r)
             /\ Goto(p, "user") /\ lock' = NONE
             /\ UNCHANGED n
        ELSE /\ r' = Up(r)
             /\ n' = [n EXCEPT ![p] = @ - 1]
             /\ IF c = "nl" \/ n[p] = 1
                THEN Goto(p, "user") /\ lock' = NONE
                ELSE UNCHANGED <<pc, lock>>
     /\ UNCHANGED <<buf, w, e, target, sleepq, woken, killed, limbo, typed, calls, fault, crowd>>

ReadEmpty(p) ==
  /\ pc[p] = "loop" /\ fault = "none"
  /\ r = w
  /\ IF p \in killed
     THEN Goto(p, "user") /\ lock' = NONE
     ELSE Goto(p, "sleep") /\ UNCHANGED lock
  /\ UNCHANGED <<input, n, target, sleepq, woken, killed, limbo, typed, calls, fault, crowd>>

\* sleep(): cons.lock is released under ptable.lock.
Sleep(p) ==
  /\ pc[p] = "sleep" /\ fault = "none"
  /\ sleepq' = Append(sleepq, p)
  /\ crowd' = (crowd \/ sleepq # <<>>)
  /\ lock' = NONE
  /\ Goto(p, "acquire")
  /\ UNCHANGED <<input, n, target, woken, killed, limbo, typed, calls, fault>>

\* kill(): a sleeper becomes RUNNABLE and stays on sleepqueue.
Kill(p) ==
  /\ p \notin killed /\ fault = "none"
  /\ killed' = killed \cup {p}
  /\ limbo' = IF p \in {sleepq[k] : k \in DOMAIN sleepq} THEN limbo \cup {p} ELSE limbo
  /\ UNCHANGED <<input, lock, pc, n, target, sleepq, woken, typed, calls, fault, crowd>>

-----------------------------------------------------------------------------
Next ==
  \/ \E c \in Chars : IntrChar(c)
  \/ IntrErase \/ IntrKill
  \/ \E p \in Proc : \/ \E k \in Sizes : Read(p, k)
                     \/ Acquire(p) \/ ReadChar(p) \/ ReadEmpty(p) \/ Sleep(p) \/ Kill(p)

Spec == Init /\ [][Next]_vars

-----------------------------------------------------------------------------
(* Properties.                                                              *)

Ring(i, j) == [k \in 1 .. Minus(j, i) |-> buf[((i + k - 1) % WRAP) % INPUT_BUF]]

(* The ring holds a line input: every finished character reaches a reader   *)
(* once and in order, erasing stops at the line's start, nothing typed is   *)
(* overwritten, and a line that fills the ring is finished                  *)
(* (console.c:221-300).                                                     *)
Abstract == INSTANCE LineInput WITH Size <- INPUT_BUF, lines <- Ring(r, w), edit <- Ring(w, e)
ImplementsLineInput == Abstract!Spec

(* No reader sleeps while finished input waits, unless two readers have     *)
(* slept at once (one is woken per line) or one was killed                  *)
(* (console.c:251-254, 274-281).                                            *)
ReaderWoken == Sleepers # {} => r = w \/ crowd \/ fault # "none"
=============================================================================
