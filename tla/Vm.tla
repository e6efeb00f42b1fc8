--------------------------------- MODULE Vm ---------------------------------
(***************************************************************************)
(* Physical pages (kernel/mm/kalloc.c) and the address spaces of processes *)
(* (kernel/arch/x86_32/mem/vm.c) through fork(), exec(), growproc(),       *)
(* exit(), wait() and freemem() (kernel/sched/proc.c, kernel/exec.c).      *)
(*                                                                         *)
(* One action is one kalloc(), or the code between two of them.  An        *)
(* address space is its directory, its page tables (the kernel's part is   *)
(* one table) and its user pages; page contents are left out.              *)
(***************************************************************************)
EXTENDS Naturals, Integers, Sequences, SequencesExt, FiniteSetsExt

CONSTANTS Proc,      \* the slots of ptable, 1 the first process
          NPAGES,    \* pages kinit1() and kinit2() free
          PGSIZE, NPTENTRIES,
          NUSER,     \* page tables below KERNBASE
          Sizes,     \* bound: sizes of the programs exec() loads
          Grows,     \* bound: the n of growproc()
          MaxCalls   \* bound: system calls in a behaviour

Page  == 1 .. NPAGES
VPage == 0 .. NUSER * NPTENTRIES - 1
KTAB  == NUSER                        \* the index of the kernel's page table
KERNBASE == NUSER * NPTENTRIES * PGSIZE
INIT  == 1

VARIABLES
  freelist,  \* kmem.freelist
  state, parent, kstack, sz,
  pgdir,     \* pgdir[p]: the page p->pgdir points to, 0, or one freed since
  space,     \* space[p]: the address space of p
  pc,        \* pc[p]: what p is doing in the kernel
  t,         \* t[p]: locals: the child, the space being built, its next page,
             \* the page after its last, the page not yet mapped, size
  tally,     \* freemem(), with ptable.lock held: [proc, dir] or NOTALLY
  calls, fault,
  emptied    \* history: processes that have shrunk to size 0

memory == <<freelist, kstack, space, pgdir, sz>>
vars   == <<memory, state, parent, pc, t, tally, calls, fault, emptied>>

NOTALLY == [proc |-> 0, dir |-> 0]
NoSpace == [dir |-> 0, tabs |-> [k \in 0 .. NUSER |-> 0], pages |-> [v \in VPage |-> 0]]
Idle    == [np |-> 0, sp |-> NoSpace, a |-> 0, end |-> 0, mem |-> 0, sz |-> 0]

PGROUNDUP(n) == (n + PGSIZE - 1) \div PGSIZE       \* counted in pages

\* userinit(): one process of one page; its stack, directory and tables
Init ==
  /\ freelist = [k \in 1 .. NPAGES - 5 |-> k + 5]
  /\ state = [p \in Proc |-> IF p = INIT THEN "RUNNING" ELSE "UNUSED"]
  /\ parent = [p \in Proc |-> 0]
  /\ kstack = [p \in Proc |-> IF p = INIT THEN 1 ELSE 0]
  /\ sz = [p \in Proc |-> IF p = INIT THEN PGSIZE ELSE 0]
  /\ pgdir = [p \in Proc |-> IF p = INIT THEN 2 ELSE 0]
  /\ space = [p \in Proc |->
                IF p = INIT
                THEN [NoSpace EXCEPT !.dir = 2, !.tabs[KTAB] = 3, !.tabs[0] = 5, !.pages[0] = 4]
                ELSE NoSpace]
  /\ pc = [p \in Proc |-> IF p = INIT THEN "user" ELSE "none"]
  /\ t = [p \in Proc |-> Idle]
  /\ tally = NOTALLY
  /\ calls = 0 /\ fault = "none" /\ emptied = {}

At(p, l) == pc[p] = l /\ fault = "none"
Goto(p, l) == pc' = [pc EXCEPT ![p] = l]
PtableFree == tally = NOTALLY
Calls(p) == At(p, "user") /\ calls < MaxCalls /\ calls' = calls + 1

-----------------------------------------------------------------------------
(* Pages.                                                                   *)
kfree(list, p) == IF p = 0 THEN list ELSE <<p>> \o list

\* deallocuvm() and freevm(): kfree() in the order of their loops
FreeUser(list, s, from) ==
  FoldLeftDomain(LAMBDA l, v : IF v - 1 >= from THEN kfree(l, s.pages[v - 1]) ELSE l,
                 list, [v \in 1 .. Cardinality(VPage) |-> v])
WithoutUser(s, from) == [s EXCEPT !.pages = [v \in VPage |-> IF v >= from THEN 0 ELSE @[v]]]

\* mutant: the page tables are not freed
freevmNoTabs(list, s) == kfree(FreeUser(list, s, 0), s.dir)

freevm(list, s) ==
  kfree(FoldLeftDomain(LAMBDA l, k : kfree(l, s.tabs[k - 1]), FreeUser(list, s, 0),
                       [k \in 1 .. NUSER + 1 |-> k]),
        s.dir)

(* What one more page is for, in setupkvm(), allocuvm() and copyuvm(): the  *)
(* directory, the kernel's table, the user page at a, or the table that     *)
(* mappages() misses for it; with its table there, the page is mapped.      *)
Mapped(r, pg) ==
  [r EXCEPT !.sp.pages[r.a] = pg, !.a = r.a + 1, !.mem = 0]

Took(r, pg) ==
  LET k == r.a \div NPTENTRIES
  IN IF r.sp.dir = 0 THEN [r EXCEPT !.sp.dir = pg]
     ELSE IF r.sp.tabs[KTAB] = 0 THEN [r EXCEPT !.sp.tabs[KTAB] = pg]
     ELSE IF r.mem = 0
     THEN IF r.sp.tabs[k] # 0 THEN Mapped(r, pg) ELSE [r EXCEPT !.mem = pg]
     ELSE Mapped([r EXCEPT !.sp.tabs[k] = pg], r.mem)

Complete(r) == r.sp.dir # 0 /\ r.sp.tabs[KTAB] # 0 /\ r.a >= r.end

\* copyuvm() finds the parent's page; a missing one is a panic.
Copies(p) == pc[p] = "fork" /\ t[p].sp.dir # 0 /\ t[p].sp.tabs[KTAB] # 0
               /\ t[p].mem = 0 /\ t[p].a < t[p].end
CopyPanic(p) ==
  /\ fault = "none"
  /\ Copies(p) /\ space[p].pages[t[p].a] = 0
  /\ fault' = "copyuvm: page not present"
  /\ UNCHANGED <<memory, state, parent, pc, t, tally, calls, emptied>>

Building == {"fork", "exec", "grow"}

(* The next kalloc() of an address space being built.                       *)
Kalloc(p) ==
  /\ pc[p] \in Building /\ fault = "none" /\ ~Complete(t[p])
  /\ Copies(p) => space[p].pages[t[p].a] # 0
  /\ freelist # <<>>
  /\ freelist' = Tail(freelist)
  /\ t' = [t EXCEPT ![p] = Took(@, Head(freelist))]
  /\ UNCHANGED <<kstack, space, pgdir, sz, state, parent, pc, tally, calls, fault, emptied>>
(* kalloc() returns 0: fork() and exec() free the new space, growproc()     *)
(* what it has added; a page not yet mapped is freed as well.               *)
LeakMem(p, list) == list                         \* mutant: kfree(mem) left out
FreeMem(p, list) == kfree(list, t[p].mem)

KallocFails(p) ==
  /\ pc[p] \in Building /\ fault = "none" /\ ~Complete(t[p])
  /\ Copies(p) => space[p].pages[t[p].a] # 0
  /\ freelist = <<>>
  /\ t' = [t EXCEPT ![p] = Idle]
  /\ Goto(p, "user")
  /\ \/ /\ pc[p] = "fork"
        /\ freelist' = kfree(freevm(FreeMem(p, freelist), t[p].sp), kstack[t[p].np])
        /\ kstack' = [kstack EXCEPT ![t[p].np] = 0]
        /\ pgdir' = [pgdir EXCEPT ![t[p].np] = 0]
        /\ state' = [state EXCEPT ![t[p].np] = "UNUSED"]
        /\ UNCHANGED space
     \/ /\ pc[p] = "exec"
        /\ freelist' = freevm(FreeMem(p, freelist), t[p].sp)
        /\ UNCHANGED <<kstack, pgdir, state, space>>
     \/ /\ pc[p] = "grow"
        /\ freelist' = FreeMem(p, FreeUser(freelist, t[p].sp, PGROUNDUP(sz[p])))
        /\ space' = [space EXCEPT ![p] = WithoutUser(t[p].sp, PGROUNDUP(sz[p]))]
        /\ UNCHANGED <<kstack, pgdir, state>>
  /\ UNCHANGED <<sz, parent, tally, calls, fault, emptied>>

-----------------------------------------------------------------------------
(* fork(): allocproc() under ptable.lock, its kalloc(), then copyuvm().     *)
Unused == {q \in Proc : state[q] = "UNUSED"}

AllocProc(p) ==
  /\ Calls(p) /\ PtableFree
  /\ Unused # {}
  /\ state' = [state EXCEPT ![Min(Unused)] = "EMBRYO"]
  /\ t' = [t EXCEPT ![p].np = Min(Unused)]
  /\ Goto(p, "kstack")
  /\ UNCHANGED <<memory, parent, tally, fault, emptied>>

KStack(p) ==
  LET q == t[p].np
  IN /\ At(p, "kstack")
     /\ \/ /\ freelist # <<>>
           /\ kstack' = [kstack EXCEPT ![q] = Head(freelist)]
           /\ freelist' = Tail(freelist)
           /\ t' = [t EXCEPT ![p].end = PGROUNDUP(sz[p])]
           /\ Goto(p, "fork")
           /\ UNCHANGED state
        \/ /\ freelist = <<>>
           /\ kstack' = [kstack EXCEPT ![q] = 0]
           /\ state' = [state EXCEPT ![q] = "UNUSED"]
           /\ t' = [t EXCEPT ![p] = Idle]
           /\ Goto(p, "user")
           /\ UNCHANGED freelist
     /\ UNCHANGED <<space, pgdir, sz, parent, tally, calls, fault, emptied>>

ForkDone(p) ==
  LET q == t[p].np
  IN /\ At(p, "fork") /\ Complete(t[p]) /\ PtableFree
     /\ space' = [space EXCEPT ![q] = t[p].sp]
     /\ pgdir' = [pgdir EXCEPT ![q] = t[p].sp.dir]
     /\ sz' = [sz EXCEPT ![q] = sz[p]]
     /\ parent' = [parent EXCEPT ![q] = p]
     /\ state' = [state EXCEPT ![q] = "RUNNING"]
     /\ pc' = [pc EXCEPT ![p] = "user", ![q] = "user"]
     /\ t' = [t EXCEPT ![p] = Idle]
     /\ UNCHANGED <<freelist, kstack, tally, calls, fault, emptied>>

(* exec() of a program of n bytes: two more pages for the stack; the file   *)
(* is missing, too short, no program, or its arguments do not fit.          *)
Exec(p, n) ==
  /\ Calls(p)
  /\ PGROUNDUP(n) + 2 <= Cardinality(VPage)
  /\ t' = [t EXCEPT ![p].end = PGROUNDUP(n) + 2]
  /\ Goto(p, "exec")
  /\ UNCHANGED <<memory, state, parent, tally, fault, emptied>>

ExecBadMagic(p) ==
  /\ At(p, "exec") /\ t[p].sp.dir = 0
  /\ fault' = "bad elf magic"
  /\ UNCHANGED <<memory, state, parent, pc, t, tally, calls, emptied>>

ExecBad(p) ==
  /\ At(p, "exec")
  /\ Complete(t[p]) \/ t[p].sp.dir = 0
  /\ freelist' = freevm(freelist, t[p].sp)
  /\ t' = [t EXCEPT ![p] = Idle]
  /\ Goto(p, "user")
  /\ UNCHANGED <<kstack, space, pgdir, sz, state, parent, tally, calls, fault, emptied>>

ExecDone(p) ==
  /\ At(p, "exec") /\ Complete(t[p])
  /\ space' = [space EXCEPT ![p] = t[p].sp]
  /\ pgdir' = [pgdir EXCEPT ![p] = t[p].sp.dir]
  /\ sz' = [sz EXCEPT ![p] = t[p].end * PGSIZE]
  /\ freelist' = freevm(freelist, space[p])
  /\ t' = [t EXCEPT ![p] = Idle]
  /\ Goto(p, "user")
  /\ emptied' = emptied \ {p}
  /\ UNCHANGED <<kstack, state, parent, tally, calls, fault>>

-----------------------------------------------------------------------------
(* growproc(): allocuvm() for n > 0, deallocuvm() for n < 0.                *)
GrowStart(p, n) ==
  /\ Calls(p)
  /\ n > 0 /\ sz[p] + n < KERNBASE
  /\ Goto(p, "grow")
  /\ t' = [t EXCEPT ![p] = [Idle EXCEPT !.sp = space[p], !.a = PGROUNDUP(sz[p]),
                                        !.end = PGROUNDUP(sz[p] + n), !.sz = sz[p] + n]]
  /\ UNCHANGED <<memory, state, parent, tally, fault, emptied>>

GrowDone(p) ==
  /\ At(p, "grow") /\ Complete(t[p])
  /\ space' = [space EXCEPT ![p] = t[p].sp]
  /\ sz' = [sz EXCEPT ![p] = t[p].sz]
  /\ t' = [t EXCEPT ![p] = Idle]
  /\ Goto(p, "user")
  /\ UNCHANGED <<freelist, kstack, pgdir, state, parent, tally, calls, fault, emptied>>

(* What deallocuvm() returns: the old size when sz + n wraps above it.  A   *)
(* result of 0 is taken for an error, after the pages have been freed.      *)
ShrunkSize(p, new) == IF new <= 0 THEN sz[p] ELSE new

Shrink(p, n) ==
  LET new  == sz[p] + n
      keep == IF new < 0 THEN PGROUNDUP(sz[p]) ELSE PGROUNDUP(new)
  IN /\ Calls(p)
     /\ n < 0
     /\ freelist' = FreeUser(freelist, space[p], keep)
     /\ space' = [space EXCEPT ![p] = WithoutUser(@, keep)]
     /\ sz' = [sz EXCEPT ![p] = ShrunkSize(p, new)]
     /\ emptied' = IF new = 0 THEN emptied \cup {p} ELSE emptied
     /\ UNCHANGED <<kstack, pgdir, state, parent, pc, t, tally, fault>>

-----------------------------------------------------------------------------
(* exit() and wait().  p->pgdir keeps pointing to the freed directory.      *)
Exit(p) ==
  /\ Calls(p) /\ PtableFree
  /\ p # INIT
  /\ state' = [state EXCEPT ![p] = "ZOMBIE"]
  /\ parent' = [q \in Proc |-> IF parent[q] = p THEN INIT ELSE parent[q]]
  /\ Goto(p, "none")
  /\ UNCHANGED <<memory, t, tally, fault, emptied>>

Wait(p, q) ==
  /\ Calls(p) /\ PtableFree
  /\ parent[q] = p /\ state[q] = "ZOMBIE"
  /\ freelist' = freevm(kfree(freelist, kstack[q]), space[q])
  /\ kstack' = [kstack EXCEPT ![q] = 0]
  /\ space' = [space EXCEPT ![q] = NoSpace]
  /\ parent' = [parent EXCEPT ![q] = 0]
  /\ state' = [state EXCEPT ![q] = "UNUSED"]
  /\ emptied' = emptied \ {q}
  /\ UNCHANGED <<pgdir, sz, pc, t, tally, fault>>

Tallies(q) == state[q] # "UNUSED"

(* freemem(): p->pgdir is read and walked under ptable.lock.                *)
FreememRead(p, q) ==
  /\ Calls(p) /\ PtableFree
  /\ Tallies(q)
  /\ tally' = [proc |-> q, dir |-> pgdir[q]]
  /\ UNCHANGED <<memory, state, parent, pc, t, fault, emptied>>

FreememNext ==
  /\ tally # NOTALLY /\ fault = "none"
  /\ tally' = NOTALLY
  /\ UNCHANGED <<memory, state, parent, pc, t, calls, fault, emptied>>

-----------------------------------------------------------------------------
Next ==
  \/ \E p \in Proc :
       \/ Kalloc(p) \/ KallocFails(p) \/ CopyPanic(p)
       \/ AllocProc(p) \/ KStack(p) \/ ForkDone(p)
       \/ \E n \in Sizes : Exec(p, n)
       \/ ExecBadMagic(p) \/ ExecBad(p) \/ ExecDone(p)
       \/ \E n \in Grows : GrowStart(p, n) \/ Shrink(p, n)
       \/ GrowDone(p) \/ Exit(p)
       \/ \E q \in Proc : Wait(p, q) \/ FreememRead(p, q)
  \/ FreememNext

Spec == Init /\ [][Next]_vars

-----------------------------------------------------------------------------
(* Properties.                                                              *)

(* What owns a page: the free list, a kernel stack, an address space in use *)
(* or being built.  A growing process works on its own space.               *)
Spaces == {<<"space", p>> : p \in {q \in Proc : pc[q] # "grow"}}
            \cup {<<"new", p>> : p \in Proc}
SpaceOf(x) == IF x[1] = "space" THEN space[x[2]] ELSE t[x[2]].sp
Owners(pg) ==
  {<<"free", k>> : k \in {j \in DOMAIN freelist : freelist[j] = pg}}
    \cup {<<"kstack", p>> : p \in {q \in Proc : kstack[q] = pg}}
    \cup {<<"mem", p>> : p \in {q \in Proc : t[q].mem = pg}}
    \cup {<<"dir", x>> : x \in {y \in Spaces : SpaceOf(y).dir = pg}}
    \cup {<<"tab", x, k>> : x \in {y \in Spaces : TRUE}, k \in 0 .. NUSER}
    \cup {<<"user", x, v>> : x \in {y \in Spaces : TRUE}, v \in VPage}
Owns(o, pg) == CASE o[1] = "tab" -> SpaceOf(o[2]).tabs[o[3]] = pg
                 [] o[1] = "user" -> SpaceOf(o[2]).pages[o[3]] = pg
                 [] OTHER -> TRUE

(* Every page has exactly one owner at all times: none is lost on an out-   *)
(* of-memory path, freed twice, or in two address spaces (kalloc.c:55-58).  *)
PagesOwnedOnce == \A pg \in Page : Cardinality({o \in Owners(pg) : Owns(o, pg)}) = 1

(* A process has its pages from 0 to its size and none above, through       *)
(* failed calls as well, unless it has shrunk to 0; copyuvm() panics only   *)
(* for such a process (proc.c:233-235).                                     *)
MappedBelowSize ==
  /\ \A p \in Proc \ emptied : state[p] = "RUNNING" /\ pc[p] # "grow" =>
       {v \in VPage : space[p].pages[v] # 0} = 0 .. PGROUNDUP(sz[p]) - 1
  /\ fault = "copyuvm: page not present" =>
       \E p \in emptied : pc[p] = "fork"

(* freemem() walks the directory of a process that has one.  Two windows    *)
(* are left open: a process being made, whose p->pgdir is an old one, and   *)
(* one whose exec() replaces and frees it meanwhile.                        *)
TallyLive ==
  tally # NOTALLY =>
    LET q == tally.proc
    IN space[q].dir = tally.dir \/ state[q] = "EMBRYO" \/ pgdir[q] # tally.dir
=============================================================================
