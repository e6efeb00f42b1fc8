-------------------------------- MODULE Pipe --------------------------------
(***************************************************************************)
(* Open files and a pipe (kernel/fs/file.c, kernel/ipc/pipe.c) under the   *)
(* system calls on descriptors (kernel/syscall/sysfile.c) and the parts of *)
(* fork() and exit() that copy and close them.                             *)
(*                                                                         *)
(* One action is the code of one critical section of ftable.lock or        *)
(* p->lock; sleep() on the pipe is an action of its own, taken with        *)
(* p->lock held, since kill() needs ptable.lock alone.  The scheduler is   *)
(* in Sched: here a process that is not asleep may run, and wakeup() finds *)
(* its sleeper as wakeup1() of ProcQueue does.                             *)
(***************************************************************************)
EXTENDS Naturals, Sequences, SequencesExt, FiniteSetsExt

CONSTANTS Proc,
          NFILE, NOFILE, PIPESIZE,
          WRAP,           \* nread and nwrite are counted modulo WRAP
          Sizes,          \* bound: bytes of one write() or read()
          MaxBytes,       \* bound: bytes written to a pipe
          MaxCalls,       \* bound: system calls in a behaviour
          Starts          \* where a run starts: [born, r, w |-> sets of processes
                          \* (that exist, hold the read end, the write end)]

NONE  == "none"
File  == 1 .. NFILE
Fd    == 1 .. NOFILE
Chan  == {"nread", "nwrite"}

ASSUME PipeAssumption ==
  /\ NONE \notin Proc
  /\ {NFILE, NOFILE, PIPESIZE, WRAP, MaxBytes, MaxCalls} \cup Sizes \subseteq Nat \ {0}
  /\ WRAP % PIPESIZE = 0 /\ WRAP > PIPESIZE
  /\ \A s \in Starts : /\ s.born \subseteq Proc
                       /\ (s.r = {}) = (s.w = {})

VARIABLES
  ftable,  \* ftable.file[]: [ref, type, writable]
  ofile,   \* ofile[p][fd]: a file or 0
  pipe,    \* struct pipe in the one page kalloc() has for it
  plock,   \* who holds p->lock while going to sleep
  pc,
  todo,    \* todo[p]: files p has allocated or is about to fileclose()
  io,      \* io[p]: [n, i] of pipewrite() and piperead()
  sleepq,  \* sleepqueue: a sequence of [proc, chan]
  limbo,   \* processes made RUNNABLE by kill() and left on sleepqueue
  woken,   \* woken[p]: p->chan of a process wakeup() has made RUNNABLE
  killed, fault, calls,
  sent, got,  \* history: bytes written, the sequence of the bytes read
  crowd       \* history: two processes have slept on one channel at a time

sched == <<sleepq, limbo, woken>>
vars  == <<ftable, ofile, pipe, plock, pc, todo, io, sched, killed, fault, calls, sent, got,
           crowd>>

NoFile == [ref |-> 0, type |-> "none", writable |-> FALSE]
NewPipe == [page |-> "pipe", nread |-> 0, nwrite |-> 0, readopen |-> TRUE,
            writeopen |-> TRUE, data |-> [k \in 0 .. PIPESIZE - 1 |-> 0]]
NoPipe == [NewPipe EXCEPT !.page = "free", !.readopen = FALSE, !.writeopen = FALSE]

(* After pipe(), fork()s and close()s, the read end is file 1 and the write *)
(* end file 2, under descriptors 1 and 2 of the processes that kept them.   *)
Init ==
  /\ \E s \in Starts :
       /\ ftable = [f \in File |->
                     IF s.r # {} /\ f \in {1, 2}
                     THEN [ref |-> Cardinality(IF f = 1 THEN s.r ELSE s.w),
                           type |-> "pipe", writable |-> f = 2]
                     ELSE NoFile]
       /\ ofile = [p \in Proc |-> [d \in Fd |-> IF d = 1 /\ p \in s.r THEN 1
                                                ELSE IF d = 2 /\ p \in s.w THEN 2 ELSE 0]]
       /\ pipe = IF s.r # {} THEN NewPipe ELSE NoPipe
       /\ pc = [p \in Proc |-> IF p \in s.born THEN "user" ELSE "unborn"]
  /\ plock = NONE
  /\ todo = [p \in Proc |-> <<>>]
  /\ io = [p \in Proc |-> [n |-> 0, i |-> 0]]
  /\ sleepq = <<>> /\ limbo = {}
  /\ woken = [p \in Proc |-> NONE]
  /\ killed = [p \in Proc |-> FALSE]
  /\ fault = "none" /\ calls = 0
  /\ sent = 0 /\ got = <<>>
  /\ crowd = FALSE

Asleep(p) == \E k \in DOMAIN sleepq : sleepq[k].proc = p
At(p, l) == pc[p] = l /\ ~Asleep(p) /\ fault = "none"
Goto(p, l) == pc' = [pc EXCEPT ![p] = l]

\* p makes a system call.
Calls(p) == At(p, "user") /\ ~killed[p] /\ calls < MaxCalls /\ calls' = calls + 1

\* p runs: sleep() clears p->chan when it returns.
Runs(p) == [woken EXCEPT ![p] = NONE]

(* wakeup(): the first sleeper on ch leaves sleepqueue.  The walk panics    *)
(* with "stuck proc" at a process that kill() left there, and at one woken  *)
(* before that still waits to run behind the woken one (as their           *)
(* priorities put it).                                                      *)
Sleepers(ch) == {k \in DOMAIN sleepq : sleepq[k].chan = ch /\ sleepq[k].proc \notin limbo}
Stuck(p, ch) == \/ \E k \in DOMAIN sleepq : sleepq[k].chan = ch /\ sleepq[k].proc \in limbo
                \/ Sleepers(ch) # {} /\ \E q \in Proc \ {p} : woken[q] = ch

NoWakeup(p, ch) ==                               \* mutant: nobody is woken
  woken' = Runs(p) /\ UNCHANGED <<sleepq, limbo, fault>>

Wakeup(p, ch) ==
  \/ /\ Sleepers(ch) = {} /\ ~Stuck(p, ch)
     /\ woken' = Runs(p)
     /\ UNCHANGED <<sleepq, limbo, fault>>
  \/ /\ Sleepers(ch) # {}
     /\ LET k == Min(Sleepers(ch))
        IN /\ sleepq' = RemoveAt(sleepq, k)
           /\ woken' = [Runs(p) EXCEPT ![sleepq[k].proc] = ch]
     /\ UNCHANGED <<limbo, fault>>
  \/ /\ Stuck(p, ch)
     /\ fault' = "stuck proc"
     /\ UNCHANGED sched

-----------------------------------------------------------------------------
(* Descriptors.                                                             *)
FreeFds(p) == {d \in Fd : ofile[p][d] = 0}
FreeFiles == {f \in File : ftable[f].ref = 0}

(* filealloc(): the first file without references; kept in todo[p].         *)
FileAlloc(p) ==
  LET f == Min(FreeFiles)
  IN /\ ftable' = [ftable EXCEPT ![f].ref = 1]
     /\ todo' = [todo EXCEPT ![p] = Append(@, f)]

(* sys_pipe(): pipealloc()'s two filealloc()s, kalloc(), and two fdalloc()s *)
SysPipe(p) ==
  /\ \/ Calls(p) /\ Goto(p, "pipe1") /\ FreeFiles # {} /\ FileAlloc(p)
     \/ At(p, "pipe1") /\ UNCHANGED calls /\ FreeFiles # {} /\ Goto(p, "pipe2") /\ FileAlloc(p)
     \/ At(p, "pipe1") /\ UNCHANGED calls /\ FreeFiles = {} /\ Goto(p, "close") /\ UNCHANGED <<ftable, todo>>
  /\ UNCHANGED <<ofile, pipe, plock, io, sched, killed, fault, sent, got, crowd>>

PipeAlloc(p) ==
  LET rf == todo[p][1]
      wf == todo[p][2]
      d0 == Min(FreeFds(p))
      d1 == Min(FreeFds(p) \ {d0})
  IN /\ At(p, "pipe2")
     /\ \/ /\ pipe.page # "free"
           /\ Goto(p, "close")
           /\ UNCHANGED <<ftable, pipe, ofile, todo, sent, got>>
        \/ /\ pipe.page = "free"
           /\ pipe' = NewPipe /\ sent' = 0 /\ got' = <<>>
           /\ ftable' = [ftable EXCEPT ![rf].type = "pipe", ![wf].type = "pipe",
                                       ![rf].writable = FALSE, ![wf].writable = TRUE]
           /\ \/ /\ Cardinality(FreeFds(p)) >= 2
                 /\ ofile' = [ofile EXCEPT ![p][d0] = rf, ![p][d1] = wf]
                 /\ todo' = [todo EXCEPT ![p] = <<>>]
                 /\ Goto(p, "user")
              \/ /\ Cardinality(FreeFds(p)) < 2
                 /\ Goto(p, "close")
                 /\ UNCHANGED <<ofile, todo>>
     /\ UNCHANGED <<plock, io, sched, killed, fault, calls, crowd>>

\* sys_dup(): fdalloc() and filedup()
Dup(p, d) ==
  LET f == ofile[p][d]
  IN /\ Calls(p)
     /\ f # 0 /\ FreeFds(p) # {}
     /\ ofile' = [ofile EXCEPT ![p][Min(FreeFds(p))] = f]
     /\ ftable' = [ftable EXCEPT ![f].ref = @ + 1]
     /\ UNCHANGED <<pipe, plock, pc, todo, io, sched, killed, fault, sent, got, crowd>>

\* sys_close() to its fileclose()
Close(p, d) ==
  /\ Calls(p)
  /\ ofile[p][d] # 0
  /\ ofile' = [ofile EXCEPT ![p][d] = 0]
  /\ todo' = [todo EXCEPT ![p] = <<ofile[p][d]>>]
  /\ Goto(p, "close")
  /\ UNCHANGED <<ftable, pipe, plock, io, sched, killed, fault, sent, got, crowd>>

(* The loop over the descriptors in fork() and the one in exit().           *)
Fork(p, c) ==
  /\ Calls(p) /\ pc[c] = "unborn"
  /\ ofile' = [ofile EXCEPT ![c] = ofile[p]]
  /\ ftable' = [f \in File |-> [ftable[f] EXCEPT
                  !.ref = @ + Cardinality({d \in Fd : ofile[p][d] = f})]]
  /\ Goto(c, "user")
  /\ UNCHANGED <<pipe, plock, todo, io, sched, killed, fault, sent, got, crowd>>

Exit(p) ==
  /\ At(p, "user")
  /\ IF killed[p] THEN UNCHANGED calls ELSE Calls(p)
  /\ todo' = [todo EXCEPT ![p] = SelectSeq(ofile[p], LAMBDA f : f # 0)]
  /\ ofile' = [ofile EXCEPT ![p] = [d \in Fd |-> 0]]
  /\ Goto(p, "exit")
  /\ UNCHANGED <<ftable, pipe, plock, io, sched, killed, fault, sent, got, crowd>>

-----------------------------------------------------------------------------
(* fileclose() under ftable.lock, then pipeclose() under p->lock.           *)
Closing == {"close", "exit"}
Closed(p) == IF pc[p] = "close" THEN "user" ELSE "dead"

FileClose(p) ==
  /\ pc[p] \in Closing /\ At(p, pc[p])
  /\ todo[p] # <<>>
  /\ LET f == Head(todo[p])
         last == ftable[f].ref = 1
     IN /\ ftable' = [ftable EXCEPT ![f].ref = @ - 1, ![f].type = IF last THEN "none" ELSE @]
        /\ todo' = [todo EXCEPT ![p] = Tail(@)]
        /\ pc' = [pc EXCEPT ![p] =
                    IF last /\ ftable[f].type = "pipe"
                    THEN pc[p] \o (IF ftable[f].writable THEN " w" ELSE " r") ELSE @]
  /\ UNCHANGED <<ofile, pipe, plock, io, sched, killed, fault, calls, sent, got, crowd>>

CloseDone(p) ==
  /\ pc[p] \in Closing /\ At(p, pc[p])
  /\ todo[p] = <<>>
  /\ Goto(p, Closed(p))
  /\ UNCHANGED <<ftable, ofile, pipe, plock, todo, io, sched, killed, fault, calls, sent, got, crowd>>

\* mutant: the first close frees the page
FreeEarly(pp) == [NoPipe EXCEPT !.data = pp.data]

FreeLast(pp) == IF pp.readopen \/ pp.writeopen THEN pp ELSE NoPipe

PipeClose(p, how, w) ==
  /\ At(p, how \o (IF w THEN " w" ELSE " r"))
  /\ plock = NONE
  /\ pipe' = FreeLast(IF w THEN [pipe EXCEPT !.writeopen = FALSE]
                           ELSE [pipe EXCEPT !.readopen = FALSE])
  /\ Wakeup(p, IF w THEN "nread" ELSE "nwrite")
  /\ Goto(p, how)
  /\ UNCHANGED <<ftable, ofile, plock, todo, io, killed, calls, sent, got, crowd>>
-----------------------------------------------------------------------------
(* sys_write() and sys_read() on the pipe.                                  *)
Call(p, d, op, n) ==
  LET f == ofile[p][d]
  IN /\ Calls(p)
     /\ f # 0
     /\ ftable[f].writable = (op = "write")
     /\ op = "write" => sent + n <= MaxBytes
     /\ Goto(p, op)
     /\ io' = [io EXCEPT ![p] = [n |-> n, i |-> 0]]
     /\ UNCHANGED <<ftable, ofile, pipe, plock, todo, sched, killed, fault, sent, got, crowd>>

Used == (pipe.nwrite + WRAP - pipe.nread) % WRAP
Slot(count, j) == ((count + j) % WRAP) % PIPESIZE

Space == PIPESIZE - Used                         \* 0: nwrite = nread + PIPESIZE

\* mutant: data[++nwrite]
PutAhead(k) ==
  [pipe EXCEPT
     !.nwrite = (@ + k) % WRAP,
     !.data = [x \in DOMAIN @ |->
                 IF \E j \in 1 .. k : Slot(pipe.nwrite, j) = x
                 THEN sent + (CHOOSE j \in 1 .. k : Slot(pipe.nwrite, j) = x)
                 ELSE @[x]]]

\* k times p->data[p->nwrite++ % PIPESIZE] = addr[i]; the bytes are numbered
Put(k) ==
  [pipe EXCEPT
     !.nwrite = (@ + k) % WRAP,
     !.data = [x \in DOMAIN @ |->
                 IF \E j \in 1 .. k : Slot(pipe.nwrite, j - 1) = x
                 THEN sent + (CHOOSE j \in 1 .. k : Slot(pipe.nwrite, j - 1) = x)
                 ELSE @[x]]]

(* The loop of pipewrite() up to its sleep() or its end.                    *)
PipeWrite(p) ==
  LET k == Min({io[p].n - io[p].i, Space})
      done == io[p].i + k = io[p].n
      give == ~done /\ (~pipe.readopen \/ killed[p])
  IN /\ At(p, "write") /\ plock = NONE
     /\ pipe' = Put(k)
     /\ sent' = sent + k
     /\ io' = [io EXCEPT ![p].i = @ + k]
     /\ \/ /\ give
           /\ Goto(p, "user")
           /\ woken' = Runs(p)
           /\ UNCHANGED <<plock, sleepq, limbo, fault>>
        \/ /\ done
           /\ Goto(p, "user")
           /\ Wakeup(p, "nread")
           /\ UNCHANGED plock
        \/ /\ ~done /\ ~give
           /\ Goto(p, "wsleep")
           /\ Wakeup(p, "nread")
           /\ plock' = p
     /\ UNCHANGED <<ftable, ofile, todo, killed, calls, got, crowd>>

WaitsFor == Used = 0 /\ pipe.writeopen

PipeRead(p) ==
  LET k == Min({io[p].n, Used})
      bytes == [j \in 1 .. k |-> pipe.data[Slot(pipe.nread, j - 1)]]
  IN /\ At(p, "read") /\ plock = NONE
     /\ \/ /\ WaitsFor /\ killed[p]
           /\ Goto(p, "user")
           /\ woken' = Runs(p)
           /\ UNCHANGED <<pipe, got, plock, sleepq, limbo, fault>>
        \/ /\ WaitsFor /\ ~killed[p]
           /\ Goto(p, "rsleep")
           /\ plock' = p
           /\ woken' = Runs(p)
           /\ UNCHANGED <<pipe, got, sleepq, limbo, fault>>
        \/ /\ ~WaitsFor
           /\ pipe' = [pipe EXCEPT !.nread = (@ + k) % WRAP]
           /\ got' = got \o bytes
           /\ Goto(p, "user")
           /\ Wakeup(p, "nwrite")
           /\ UNCHANGED plock
     /\ UNCHANGED <<ftable, ofile, todo, io, killed, calls, sent, crowd>>

\* sleep(): p->lock is released under ptable.lock.
Sleep(p) ==
  LET ch == IF pc[p] = "rsleep" THEN "nread" ELSE "nwrite"
  IN /\ plock = p
     /\ plock' = NONE
     /\ sleepq' = Append(sleepq, [proc |-> p, chan |-> ch])
     /\ Goto(p, IF pc[p] = "rsleep" THEN "read" ELSE "write")
     /\ crowd' = (crowd \/ Sleepers(ch) # {})
     /\ UNCHANGED <<ftable, ofile, pipe, todo, io, limbo, woken, killed, fault, calls, sent, got>>

\* kill(): a sleeper becomes RUNNABLE and stays on sleepqueue.
Kill(p) ==
  /\ pc[p] \notin {"unborn", "dead"} /\ ~killed[p] /\ fault = "none"
  /\ calls < MaxCalls /\ calls' = calls + 1
  /\ killed' = [killed EXCEPT ![p] = TRUE]
  /\ limbo' = IF Asleep(p) THEN limbo \cup {p} ELSE limbo
  /\ UNCHANGED <<ftable, ofile, pipe, plock, pc, todo, io, sleepq, woken, fault, sent, got,
                 crowd>>

-----------------------------------------------------------------------------
\* A step of p inside a system call
Kernel(p) ==
  \/ PipeAlloc(p) \/ FileClose(p) \/ CloseDone(p)
  \/ pc[p] = "pipe1" /\ SysPipe(p)
  \/ \E how \in Closing, w \in BOOLEAN : PipeClose(p, how, w)
  \/ PipeWrite(p) \/ PipeRead(p) \/ Sleep(p)

User(p) ==
  \/ SysPipe(p) \/ Exit(p) \/ Kill(p)
  \/ \E d \in Fd : Dup(p, d) \/ Close(p, d)
  \/ \E c \in Proc : Fork(p, c)
  \/ \E d \in Fd, op \in {"read", "write"}, n \in Sizes : Call(p, d, op, n)

Next == \E p \in Proc : Kernel(p) \/ User(p)

Spec == Init /\ [][Next]_vars

-----------------------------------------------------------------------------
(* Properties.                                                              *)

\* Files, descriptors, the pipe and the queues are of their kinds.
TypeOK ==
  /\ ftable \in [File -> [ref : Nat, type : {"none", "pipe"}, writable : BOOLEAN]]
  /\ ofile \in [Proc -> [Fd -> File \cup {0}]]
  /\ pipe.nread \in 0 .. WRAP - 1 /\ pipe.nwrite \in 0 .. WRAP - 1 /\ Used <= PIPESIZE
  /\ plock \in Proc \cup {NONE} /\ limbo \subseteq Proc
  /\ \A p \in Proc : todo[p] \in Seq(File) /\ woken[p] \in Chan \cup {NONE}

\* f->ref is the number of descriptors that name f, plus the closes and
\* allocations in progress
FileRefs ==
  \A f \in File :
    ftable[f].ref = Cardinality({<<p, d>> \in Proc \X Fd : ofile[p][d] = f})
                      + Cardinality({<<p, k>> \in Proc \X (1 .. 2 + NOFILE) :
                                       k \in DOMAIN todo[p] /\ todo[p][k] = f})

(* A file lives exactly as long as a descriptor names it (file.c:45-77),    *)
(* and the page of the pipe as long as an end is open, being closed or in   *)
(* use: it is freed once and nobody touches it after that (pipe.c:70-74).   *)
Ends(w) ==
  {f \in File : ftable[f].type = "pipe" /\ ftable[f].writable = w}
    \cup {p \in Proc : pc[p] \in {how \o (IF w THEN " w" ELSE " r") : how \in Closing}}
PageWhileOpen ==
  /\ TypeOK /\ FileRefs
  /\ pipe.readopen = (Ends(FALSE) # {}) /\ pipe.writeopen = (Ends(TRUE) # {})
  /\ (pipe.page = "pipe") = (pipe.readopen \/ pipe.writeopen)
  /\ \A p \in Proc : pc[p] \in {"read", "rsleep"} => pipe.readopen
  /\ \A p \in Proc : pc[p] \in {"write", "wsleep"} => pipe.writeopen

(* Every byte written is read once, in the order of the writes, also after  *)
(* nread and nwrite have wrapped around (pipe.c:93, 116).                   *)
BytesInOrder ==
  pipe.page = "pipe" =>
    got \o [j \in 1 .. Used |-> pipe.data[Slot(pipe.nread, j - 1)]] = [j \in 1 .. sent |-> j]

(* While no two processes sleep on one channel, no wakeup is lost: a reader *)
(* sleeps on an empty pipe that has a writer, a writer on a full one that   *)
(* has a reader.  (A killed writer fills the pipe and leaves pipewrite()    *)
(* without a wakeup.)                                                       *)
NoLostWakeup ==
  crowd \/ fault # "none" \/
    /\ Sleepers("nread") # {} =>
         pipe.writeopen /\ (Used = 0 \/ \E p \in Proc : killed[p])
    /\ Sleepers("nwrite") # {} => Space = 0 /\ pipe.readopen
=============================================================================
