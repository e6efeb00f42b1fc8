------------------------------- MODULE MCParts ------------------------------
(* Small instances of the components that share no state with each other,   *)
(* in one model: `part' says which one runs, the others stay in their       *)
(* initial states.  The spin lock is the one this module extends; each of   *)
(* the others has a prefix of its own.                                      *)
EXTENDS Spinlock, Integers
CONSTANT Proc

VARIABLES part,
  v_freelist, v_state, v_parent, v_kstack, v_sz, v_pgdir, v_space, v_pc, v_t,
  v_tally, v_calls, v_fault, v_emptied,
  m_locked, m_mounted, m_ismp, m_pointRef, m_rootRef, m_aboveRef,
  m_outstanding, m_cwd, m_pc, m_calls, m_fault, m_twice, m_lost,
  c_buf, c_r, c_w, c_e, c_lock, c_pc, c_n, c_target, c_sleepq, c_woken, c_killed,
  c_limbo, c_typed, c_calls, c_fault, c_crowd,
  s_crt, s_pos, s_passwd_mode, s_fault,
  k_port, k_shift, k_c, k_keyed, k_mods,
  t_ticks, t_pc, t_n, t_ticks0, t_sleepq, t_woken, t_killed, t_limbo, t_calls,
  t_fault, t_elapsed, t_began, t_crowd,
  sh_line, str_mem, num_x, num_size, num_sz,
  u_ptr, u_size, u_freep, u_brk, u_blocks, u_gap,
  g_re, g_text, g_input, g_buf, g_m, g_cut, g_out, g_dropped,
  mk_dinode, mk_data, mk_ind, mk_bitmap, mk_freeinode, mk_freeblock, mk_file, mk_done

V == INSTANCE Vm WITH Proc <- {1, 2, 3}, NPAGES <- 12, PGSIZE <- 2, NPTENTRIES <- 2,
       NUSER <- 2, Sizes <- {1, 3}, Grows <- {3, -2, -1, -3}, MaxCalls <- 5,
       freelist <- v_freelist, state <- v_state, parent <- v_parent, kstack <- v_kstack,
       sz <- v_sz, pgdir <- v_pgdir, space <- v_space, pc <- v_pc, t <- v_t,
       tally <- v_tally, calls <- v_calls, fault <- v_fault, emptied <- v_emptied

M == INSTANCE Mount WITH MaxCalls <- 3,
       locked <- m_locked, mounted <- m_mounted, ismp <- m_ismp, pointRef <- m_pointRef,
       rootRef <- m_rootRef, aboveRef <- m_aboveRef, outstanding <- m_outstanding,
       cwd <- m_cwd, pc <- m_pc, calls <- m_calls, fault <- m_fault, twice <- m_twice,
       lost <- m_lost

C == INSTANCE Console WITH Letters <- {"a"}, INPUT_BUF <- 2, WRAP <- 4, Sizes <- {2},
       MaxTyped <- 4, MaxCalls <- 2,
       buf <- c_buf, r <- c_r, w <- c_w, e <- c_e, lock <- c_lock, pc <- c_pc, n <- c_n,
       target <- c_target, sleepq <- c_sleepq, woken <- c_woken, killed <- c_killed,
       limbo <- c_limbo, typed <- c_typed, calls <- c_calls, fault <- c_fault,
       crowd <- c_crowd

S == INSTANCE Screen WITH ROWS <- 4, COLS <- 3,
       crt <- s_crt, pos <- s_pos, passwd_mode <- s_passwd_mode, fault <- s_fault

K == INSTANCE Keyboard WITH MaxBytes <- 2,
       port <- k_port, shift <- k_shift, c <- k_c, keyed <- k_keyed, mods <- k_mods

T == INSTANCE Clock WITH WRAP <- 4, Lengths <- {1, 3}, MaxTicks <- 4, MaxCalls <- 2,
       ticks <- t_ticks, pc <- t_pc, n <- t_n, ticks0 <- t_ticks0, sleepq <- t_sleepq,
       woken <- t_woken, killed <- t_killed, limbo <- t_limbo, calls <- t_calls,
       fault <- t_fault, elapsed <- t_elapsed, began <- t_began, crowd <- t_crowd

Sh == INSTANCE Shell WITH MAXARGS <- 3, MaxTokens <- 5, line <- sh_line

Str == INSTANCE Strings WITH NMEM <- 5, MaxChar <- 2, mem <- str_mem

Num == INSTANCE Numbers WITH W <- 5, KERNBASE <- 16,
       x <- num_x, size <- num_size, sz <- num_sz

U == INSTANCE Umalloc WITH MINCORE <- 3, HEAPMAX <- 7, Sizes <- {1, 2, 3}, MaxBlocks <- 3,
       ptr <- u_ptr, size <- u_size, freep <- u_freep, brk <- u_brk,
       blocks <- u_blocks, gap <- u_gap

G == INSTANCE Grep WITH Letters <- {"a", "b"}, MaxRe <- 4, MaxText <- 3, BUFSIZE <- 4,
       MaxInput <- 6,
       re <- g_re, text <- g_text, input <- g_input, buf <- g_buf, m <- g_m,
       cut <- g_cut, out <- g_out, dropped <- g_dropped

Mk == INSTANCE Mkfs WITH FSSIZE <- 24, BSIZE <- 2, IPB <- 2, NLOG <- 1, NINODES <- 5,
       NDIRECT <- 2, NINDIRECT <- 2, MaxFiles <- 3, MaxSize <- 6,
       dinode <- mk_dinode, data <- mk_data, ind <- mk_ind, bitmap <- mk_bitmap,
       freeinode <- mk_freeinode, freeblock <- mk_freeblock, file <- mk_file,
       done <- mk_done

\* The variables of each
vVars == <<v_freelist, v_state, v_parent, v_kstack, v_sz, v_pgdir, v_space, v_pc, v_t, v_tally,
           v_calls, v_fault, v_emptied>>
mVars == <<m_locked, m_mounted, m_ismp, m_pointRef, m_rootRef, m_aboveRef, m_outstanding,
           m_cwd, m_pc, m_calls, m_fault, m_twice, m_lost>>
cVars == <<c_buf, c_r, c_w, c_e, c_lock, c_pc, c_n, c_target, c_sleepq, c_woken, c_killed,
           c_limbo, c_typed, c_calls, c_fault, c_crowd>>
sVars == <<s_crt, s_pos, s_passwd_mode, s_fault>>
kVars == <<k_port, k_shift, k_c, k_keyed, k_mods>>
tVars == <<t_ticks, t_pc, t_n, t_ticks0, t_sleepq, t_woken, t_killed, t_limbo, t_calls,
           t_fault, t_elapsed, t_began, t_crowd>>
numVars == <<num_x, num_size, num_sz>>
uVars == <<u_ptr, u_size, u_freep, u_brk, u_blocks, u_gap>>
gVars == <<g_re, g_text, g_input, g_buf, g_m, g_cut, g_out, g_dropped>>
mkVars == <<mk_dinode, mk_data, mk_ind, mk_bitmap, mk_freeinode, mk_freeblock, mk_file, mk_done>>
strVars == str_mem
shVars == sh_line

Parts == {"spinlock", "vm", "mount", "console", "screen", "keyboard", "clock", "shell",
          "strings", "numbers", "umalloc", "grep", "mkfs"}

PartsInit ==
  /\ part \in Parts
  /\ Init /\ V!Init /\ M!Init /\ C!Init /\ S!Init /\ K!Init /\ T!Init
  /\ Sh!Init /\ Str!Init /\ Num!Init /\ U!Init /\ G!Init /\ Mk!Init
  /\ part = "spinlock" \/ want = [c \in Cpu |-> CHOOSE l \in Lock : TRUE]
  /\ part = "screen" \/ s_pos = 0
  /\ part = "grep" \/ g_input = <<>>

\* Component c is the one that runs
Only(c) ==
  /\ part = c /\ UNCHANGED part
  /\ IF c = "spinlock" THEN TRUE ELSE UNCHANGED vars
  /\ IF c = "vm"       THEN TRUE ELSE UNCHANGED vVars
  /\ IF c = "mount"    THEN TRUE ELSE UNCHANGED mVars
  /\ IF c = "console"  THEN TRUE ELSE UNCHANGED cVars
  /\ IF c = "screen"   THEN TRUE ELSE UNCHANGED sVars
  /\ IF c = "keyboard" THEN TRUE ELSE UNCHANGED kVars
  /\ IF c = "clock"    THEN TRUE ELSE UNCHANGED tVars
  /\ IF c = "shell"    THEN TRUE ELSE UNCHANGED shVars
  /\ IF c = "strings"  THEN TRUE ELSE UNCHANGED strVars
  /\ IF c = "numbers"  THEN TRUE ELSE UNCHANGED numVars
  /\ IF c = "umalloc"  THEN TRUE ELSE UNCHANGED uVars
  /\ IF c = "grep"     THEN TRUE ELSE UNCHANGED gVars
  /\ IF c = "mkfs"     THEN TRUE ELSE UNCHANGED mkVars

PartsNext ==
  \/ Only("spinlock") /\ Next
  \/ Only("vm")       /\ V!Next
  \/ Only("mount")    /\ M!Next
  \/ Only("console")  /\ C!Next
  \/ Only("screen")   /\ S!Next
  \/ Only("keyboard") /\ K!Next
  \/ Only("clock")    /\ T!Next
  \/ Only("shell")    /\ Sh!Next
  \/ Only("strings")  /\ Str!Next
  \/ Only("numbers")  /\ Num!Next
  \/ Only("umalloc")  /\ U!Next
  \/ Only("grep")     /\ G!Next
  \/ Only("mkfs")     /\ Mk!Next

PartsSpec == PartsInit /\ [][PartsNext]_<<part, vars, vVars, mVars, cVars, sVars, kVars,
                 tVars, shVars, strVars, numVars, uVars, gVars, mkVars>>

-----------------------------------------------------------------------------
(* Properties: MutualExclusion of the spin lock, and those of the others    *)
(* for the part that runs.                                                  *)

(* Vm: every page has one owner, so that none is lost on an out-of-memory   *)
(* path, freed twice or shared (kalloc.c:55-58, vm.c:263-358); a process    *)
(* has its pages from 0 to its size and none above, unless it has shrunk to *)
(* 0 (proc.c:233-235); freemem() walks a live directory, but for a process  *)
(* being made or one in exec().                                             *)
PagesOwned == part = "vm" => V!PagesOwnedOnce /\ V!MappedBelowSize /\ V!TallyLive


(* Console and Clock: no reader sleeps while finished input waits, unless   *)
(* two slept at once or one was killed (console.c:251-254, 274-281), and a  *)
(* process that slept alone is awake once its time is up (trap.c:74-77).    *)
SleepersWoken ==
  /\ part = "console" => C!ReaderWoken
  /\ part = "clock" => T!DueIsAwake

(* Clock: sleep(n) returns 0 only after n interrupts, also when ticks wraps *)
(* around (sysproc.c:109-118).                                              *)
SleepsLongEnough == part = "clock" => T!SleepsLongEnough

(* Shell: the parser accepts exactly the well-formed lines and nests them   *)
(* as the precedence of the operators says (sh.c:346-465).                  *)
ParsedAsMeant == part = "shell" => Sh!AcceptsLanguage /\ Sh!ParsedAsMeant

(* Shell: every process of a line has its input, its output and the console *)
(* open and nothing else (sh.c:114-147).                                    *)
PipesWired == part = "shell" => Sh!PipesWired

(* Strings and Numbers: memmove() copies the source as it was, safestrcpy() *)
(* ends what it copies within n characters, strncmp() agrees with memcmp()  *)
(* on the fields strncpy() fills (string.c:15-104); what %d and %x print    *)
(* stands for the number (console.c:38-60), and what a system call accepts  *)
(* lies below the process's size (syscall.c:20-28, 60-72).                  *)
FunctionsExact ==
  /\ part = "strings" => Str!MovesOverlapping /\ Str!CopiesEnded /\ Str!ComparesStrings
  /\ part = "numbers" => Num!PrintsValue /\ Num!AcceptedInside

(* Umalloc: every unit of the heap is in one block, free or handed out, and *)
(* the free list is a circle in address order whose blocks never touch      *)
(* (umalloc.c:24-44, 63-90).                                                *)
HeapSound == part = "umalloc" => U!UnitsOnce /\ U!ListSorted

(* Grep: match() finds exactly the lines a part of which the pattern covers *)
(* (grep.c:71-106), and only whole lines are printed, however read() cuts   *)
(* the input, unless a piece had no newline (grep.c:17-35).                 *)
GrepExact == part = "grep" => G!MatchesPart /\ G!LinesWhole

(* Mkfs: every block in use has one pointer to it and is marked in the      *)
(* bitmap (mkfs.c:237-251, 268-286), every file holds what was copied into  *)
(* it (mkfs.c:255-297), and the root's size covers its entries              *)
(* (mkfs.c:157-163).                                                        *)
ImageSound == part = "mkfs" => Mk!BlocksAccounted /\ Mk!FilesWhole /\ Mk!RootCovered

(* Console: the ring implements a line input (console.c:221-300).           *)
ImplementsLineInput == C!ImplementsLineInput

(* Screen: text leaves the screen only at its top, and nothing is left      *)
(* behind the cursor (console.c:146-168).                                   *)
TextKept == S!TextKept

(* Keyboard: the flags are what the key events processed so far ask for,    *)
(* and a letter is the character its modifiers ask for (kbd.c:20-42).       *)
KeysMeant == K!KeysMeant
=============================================================================
