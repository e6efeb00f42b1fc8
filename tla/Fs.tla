--------------------------------- MODULE Fs ---------------------------------
(***************************************************************************)
(* Inodes, directories and path names (kernel/fs/fs.c) under the system    *)
(* calls that name files (kernel/syscall/sysfile.c): open, mkdir, mknod,   *)
(* link, unlink, chdir and close, on one device.                           *)
(*                                                                         *)
(* One action is the code between two points where a process may wait for  *)
(* an inode's sleep lock, or between releasesleep() and ip->ref-- of       *)
(* iput().  The inode cache is write-through, so an inode has one copy     *)
(* here; file contents are in FileData, transactions in Log.               *)
(***************************************************************************)
EXTENDS Integers, Sequences, FiniteSets

CONSTANTS Proc,
          NINODES,   \* inodes on the disk
          NINODE,    \* entries of the inode cache
          Name,      \* names of directory entries other than the dots
          Path,      \* the paths calls are given: [abs |-> is there a leading
                     \* slash, elems |-> what skipelem() returns one by one]
          Starts,    \* where a run starts: [disk, home |-> a directory]
          MaxCalls   \* bound: system calls made in a behaviour

Inum    == 1 .. NINODES
ROOTINO == 1
NOBODY  == "nobody"
DOT     == "."
DOTDOT  == ".."
Entry   == Name \cup {DOT, DOTDOT}
NoEnts  == [n \in Entry |-> 0]

ASSUME FsAssumption ==
  /\ NINODES \in Nat \ {0} /\ NINODE \in Nat /\ MaxCalls \in Nat
  /\ NOBODY \notin Proc
  /\ Name \cap {DOT, DOTDOT} = {}
  /\ \A x \in Path : x.elems \in Seq(Entry) /\ (x.elems = <<>> => x.abs)

VARIABLES
  dinode,  \* struct dinode, a directory's entries in place of its blocks
  ref, valid,
  lock,    \* lock[i]: the process that holds ip->lock, or NOBODY
  cwd,     \* cwd[p], 0 from chdir()'s iput(cwd) to its assignment
  file,    \* file[p]: the inode of p's open file, or 0
  pc,
  t,       \* t[p]: the locals of p's call; ip, dp, old and drop own references
  calls,
  fault,   \* "none", or why the machine stopped
  stray,   \* history: a path has gone through ".." of a removed directory
  raced    \* history: iput() tested an inode that another iput() had tested
           \* without links and not put yet

cache == <<dinode, ref, valid, lock>>
user  == <<cwd, file>>
hist  == <<stray, raced>>
vars  == <<cache, user, pc, t, calls, fault, hist>>

NoPath == [abs |-> TRUE, elems |-> <<>>]
NoCall == [op |-> "none", path |-> NoPath, new |-> NoPath, parent |-> FALSE,
           name |-> DOT, ip |-> 0, dp |-> 0, old |-> 0, drop |-> 0, after |-> "user"]

Init ==
  /\ \E s \in Starts, p \in Proc :
       /\ dinode = s.disk
       /\ cwd = [q \in Proc |-> IF q = p THEN s.home ELSE ROOTINO]
  /\ ref = [i \in Inum |-> Cardinality({p \in Proc : cwd[p] = i})]
  /\ valid = [i \in Inum |-> i # ROOTINO /\ \E p \in Proc : cwd[p] = i]   \* by chdir()
  /\ lock = [i \in Inum |-> NOBODY]
  /\ file = [p \in Proc |-> 0]
  /\ pc = [p \in Proc |-> "user"]
  /\ t = [p \in Proc |-> NoCall]
  /\ calls = 0
  /\ fault = "none"
  /\ stray = FALSE /\ raced = FALSE

At(p, l) == pc[p] = l /\ fault = "none"
Goto(p, l) == pc' = [pc EXCEPT ![p] = l]
Local(p, r) == t' = [t EXCEPT ![p] = r]
Return(p) == Goto(p, "user") /\ Local(p, NoCall)
Panic(msg) == fault' = msg /\ UNCHANGED <<cache, user, pc, t, calls, hist>>

-----------------------------------------------------------------------------
(* Inodes.                                                                  *)

\* iget() finds a cached inode or a free entry of the cache.
IGetOK(i) == ref[i] > 0 \/ Cardinality({j \in Inum : ref[j] > 0}) < NINODE

\* iget(i) with inode l locked: a recycled entry is not valid, l is
GetUncounted(i, l) ==                                \* mutant: no ref++
  UNCHANGED ref /\ valid' = [j \in Inum |-> j = l \/ (valid[j] /\ (j = i => ref[j] > 0))]
GetLoad(i, l) ==
  /\ ref' = [ref EXCEPT ![i] = @ + 1]
  /\ valid' = [j \in Inum |-> j = l \/ (valid[j] /\ (j = i => ref[j] > 0))]

\* ilock() reads a free inode from the disk and stops.
NoType(i) == ~valid[i] /\ dinode[i].type = "free"

\* ilock() returns; the entry is valid afterwards.
Locks(i) == lock[i] = NOBODY /\ ~NoType(i)
Load(i) == valid' = [valid EXCEPT ![i] = TRUE]

\* The inode p's next step is to lock.
Wants(p) ==
  CASE pc[p] \in {"namex", "open", "chdir", "link", "unlinkip", "createold", "createnew"}
         -> t[p].ip
    [] pc[p] \in {"linkto", "unlink", "create"} -> t[p].dp
    [] pc[p] = "linkbad" -> t[p].old
    [] pc[p] = "iput" -> t[p].drop
    [] OTHER -> 0

FreesNever(i) == FALSE                                  \* mutant: no test at all
FreesReferenced(i) == valid[i] /\ dinode[i].nlink = 0   \* mutant: ref not tested

\* iput()'s test for the last reference to an inode without links
Frees(i) == valid[i] /\ dinode[i].nlink = 0 /\ ref[i] = 1

(* iput() to its releasesleep(): itrunc() and type 0 for such an inode.     *)
IPut(p) ==
  LET i == t[p].drop
  IN /\ At(p, "iput")
     /\ lock[i] = NOBODY
     /\ IF Frees(i)
        THEN /\ dinode' = [dinode EXCEPT ![i] = [type |-> "free", nlink |-> 0,
                                                 ents |-> NoEnts]]
             /\ valid' = [valid EXCEPT ![i] = FALSE]
        ELSE UNCHANGED <<dinode, valid>>
     /\ Goto(p, "drop")
     /\ raced' = (raced \/ /\ dinode[i].nlink = 0
                           /\ \E q \in Proc \ {p} : pc[q] = "drop" /\ t[q].drop = i)
     /\ UNCHANGED <<ref, lock, user, t, calls, fault, stray>>

\* iput(): ip->ref--
IDrop(p) ==
  /\ At(p, "drop")
  /\ ref' = [ref EXCEPT ![t[p].drop] = @ - 1]
  /\ Goto(p, t[p].after)
  /\ Local(p, IF t[p].after = "user" THEN NoCall ELSE [t[p] EXCEPT !.drop = 0])
  /\ UNCHANGED <<dinode, valid, lock, user, calls, fault, hist>>

\* iput() of the inode that local l points to; then the call goes on at a.
Put(p, r, l, a) ==
  Goto(p, "iput") /\ Local(p, [r EXCEPT ![l] = 0, !.drop = r[l], !.after = a])

\* ialloc(): the first inode whose type on the disk is 0
FreeInums == {i \in Inum : dinode[i].type = "free"}
FirstFree == CHOOSE i \in FreeInums : \A j \in FreeInums : i <= j

\* dirlookup(): the inode number of an entry, or 0
Lookup(d, n) == dinode[d].ents[n]

\* An entry of some directory names directory d: it is not removed.
Named(d) == \E e \in Inum : dinode[e].type = "dir" /\ \E n \in Name : dinode[e].ents[n] = d
Follow(d, n) == /\ stray' = (stray \/ (n = DOTDOT /\ d # ROOTINO /\ ~Named(d)))
                /\ UNCHANGED raced

\* isdirempty()
IsDirEmpty(d) == \A n \in Name : dinode[d].ents[n] = 0
-----------------------------------------------------------------------------
(* Path names.                                                              *)
ByParent == {"create", "mkdir", "mknod", "unlink"}

\* A system call of p that starts with namei() or nameiparent()
Call(p, op, x, y) ==
  /\ At(p, "user")
  /\ calls < MaxCalls
  /\ calls' = calls + 1
  /\ Goto(p, "start")
  /\ Local(p, [NoCall EXCEPT !.op = op, !.path = x, !.new = y, !.parent = op \in ByParent])
  /\ UNCHANGED <<cache, user, fault, hist>>

\* Where a call goes on when its path is resolved
Found(r) ==
  CASE r.op \in {"open", "openw"} -> "open"
    [] r.op = "link" -> IF r.parent THEN "linkto" ELSE "link"
    [] r.op \in {"create", "mkdir", "mknod"} -> "create"
    [] OTHER -> r.op

\* and where when it is not: sys_link() takes its nlink++ back
Missing(r) == IF r.old # 0 THEN "linkbad" ELSE "user"

(* namex() to its loop: iget() of the root or idup(cwd).  The root itself   *)
(* has no parent for nameiparent().                                         *)
NamexStart(p) ==
  LET r == t[p]
      i == IF r.path.abs THEN ROOTINO ELSE cwd[p]
  IN /\ At(p, "start")
     /\ IGetOK(i)
     /\ GetLoad(i, 0)
     /\ \/ /\ r.path.elems = <<>> /\ r.parent
           /\ Put(p, [r EXCEPT !.ip = i], "ip", Missing(r))
        \/ /\ r.path.elems # <<>> \/ ~r.parent
           /\ Goto(p, IF r.path.elems # <<>> THEN "namex" ELSE Found(r))
           /\ Local(p, [r EXCEPT !.ip = i])
     /\ UNCHANGED <<dinode, lock, user, calls, fault, hist>>

(* One element: ilock(ip), dirlookup(), iunlock(ip), and iput(ip) next.     *)
NamexStep(p) ==
  LET r  == t[p]
      i  == r.ip
      n  == Head(r.path.elems)
      rs == Tail(r.path.elems)
      x  == Lookup(i, n)
  IN /\ At(p, "namex")
     /\ Locks(i)
     /\ \/ /\ dinode[i].type # "dir" \/ (x = 0 /\ ~(r.parent /\ rs = <<>>))
           /\ Load(i)
           /\ Put(p, r, "ip", Missing(r))
           /\ UNCHANGED <<dinode, ref, lock, fault, hist>>
        \/ /\ dinode[i].type = "dir" /\ r.parent /\ rs = <<>>
           /\ Load(i)
           /\ Goto(p, Found(r))
           /\ Local(p, [r EXCEPT !.name = n, !.dp = i, !.ip = 0])
           /\ UNCHANGED <<dinode, ref, lock, fault, hist>>
        \/ /\ dinode[i].type = "dir" /\ x # 0 /\ ~(r.parent /\ rs = <<>>) /\ IGetOK(x)
           /\ GetLoad(x, i)
           /\ Put(p, [r EXCEPT !.name = n, !.path.elems = rs, !.dp = i, !.ip = x],
                  "dp", IF rs = <<>> THEN Found(r) ELSE "namex")
           /\ Follow(i, n)
           /\ UNCHANGED <<dinode, lock, fault>>
     /\ UNCHANGED <<user, calls>>
-----------------------------------------------------------------------------
(* open(), with O_CREATE in Create; chdir(); close().                       *)

(* The rest of sys_open() with ip locked: fdalloc() fails when p's one      *)
(* descriptor is in use.                                                    *)
OpenFile(p, r) ==
  \/ /\ file[p] = 0
     /\ file' = [file EXCEPT ![p] = r.ip]
     /\ Return(p)
  \/ /\ file[p] # 0
     /\ Put(p, r, "ip", "user")
     /\ UNCHANGED file

Open(p) ==
  LET r == t[p]
  IN /\ At(p, "open")
     /\ Locks(r.ip)
     /\ Load(r.ip)
     /\ \/ /\ dinode[r.ip].type = "dir" /\ r.op = "openw"
           /\ Put(p, r, "ip", "user")
           /\ UNCHANGED file
        \/ /\ ~(dinode[r.ip].type = "dir" /\ r.op = "openw")
           /\ OpenFile(p, r)
     /\ UNCHANGED <<dinode, ref, lock, cwd, calls, fault, hist>>

Chdir(p) ==
  LET r == t[p]
  IN /\ At(p, "chdir")
     /\ Locks(r.ip)
     /\ Load(r.ip)
     /\ \/ /\ dinode[r.ip].type # "dir"
           /\ Put(p, r, "ip", "user")
           /\ UNCHANGED cwd
        \/ /\ dinode[r.ip].type = "dir"
           /\ Put(p, [r EXCEPT !.dp = cwd[p]], "dp", "chdirset")
           /\ cwd' = [cwd EXCEPT ![p] = 0]
     /\ UNCHANGED <<dinode, ref, lock, file, calls, fault, hist>>

ChdirSet(p) ==
  /\ At(p, "chdirset")
  /\ cwd' = [cwd EXCEPT ![p] = t[p].ip]
  /\ Return(p)
  /\ UNCHANGED <<cache, file, calls, fault, hist>>

\* close() of the last descriptor: fileclose() puts the inode
Close(p) ==
  /\ At(p, "user")
  /\ file[p] # 0
  /\ file' = [file EXCEPT ![p] = 0]
  /\ Put(p, [NoCall EXCEPT !.op = "close", !.ip = file[p]], "ip", "user")
  /\ UNCHANGED <<cache, cwd, calls, fault, hist>>

-----------------------------------------------------------------------------
(* link().  nlink is counted up before the new entry is written.            *)
Link(p) ==
  LET r == t[p]
  IN /\ At(p, "link")
     /\ Locks(r.ip)
     /\ Load(r.ip)
     /\ \/ /\ dinode[r.ip].type = "dir"
           /\ Put(p, r, "ip", "user")
           /\ UNCHANGED dinode
        \/ /\ dinode[r.ip].type # "dir"
           /\ dinode' = [dinode EXCEPT ![r.ip].nlink = @ + 1]
           /\ Goto(p, "start")
           /\ Local(p, [r EXCEPT !.old = r.ip, !.ip = 0, !.path = r.new,
                                 !.parent = TRUE, !.name = DOT])
     /\ UNCHANGED <<ref, lock, user, calls, fault, hist>>

(* dirlink(dp, name, ip->inum) under dp's lock.  When the name exists, its  *)
(* inode is put with the lock still held.                                   *)
LinkTo(p) ==
  LET r == t[p]
      x == Lookup(r.dp, r.name)
  IN /\ At(p, "linkto")
     /\ Locks(r.dp)
     /\ \/ /\ x = 0
           /\ dinode' = [dinode EXCEPT ![r.dp].ents[r.name] = r.old]
           /\ Load(r.dp)
           /\ Put(p, r, "dp", "putold")
           /\ UNCHANGED <<ref, lock, fault, hist>>
        \/ /\ x # 0 /\ IGetOK(x)
           /\ GetLoad(x, r.dp)
           /\ lock' = [lock EXCEPT ![r.dp] = p]
           /\ Put(p, [r EXCEPT !.ip = x], "ip", "linkexists")
           /\ Follow(r.dp, r.name)
           /\ UNCHANGED <<dinode, fault>>
     /\ UNCHANGED <<user, calls>>

PutOld(p) ==
  /\ At(p, "putold")
  /\ Put(p, t[p], "old", "user")
  /\ UNCHANGED <<cache, user, calls, fault, hist>>

LinkExists(p) ==
  /\ At(p, "linkexists")
  /\ lock' = [lock EXCEPT ![t[p].dp] = NOBODY]
  /\ Put(p, t[p], "dp", "linkbad")
  /\ UNCHANGED <<dinode, ref, valid, user, calls, fault, hist>>

LinkBad(p) ==
  LET i == t[p].old
  IN /\ At(p, "linkbad")
     /\ Locks(i)
     /\ Load(i)
     /\ dinode' = [dinode EXCEPT ![i].nlink = @ - 1]
     /\ Put(p, t[p], "old", "user")
     /\ UNCHANGED <<ref, lock, user, calls, fault, hist>>
-----------------------------------------------------------------------------
(* unlink().                                                                *)
RefusesNone(n) == FALSE                              \* mutant: unlink(".") tried
Refuses(n) == n \in {DOT, DOTDOT}

Unlink(p) ==
  LET r == t[p]
      x == Lookup(r.dp, r.name)
  IN /\ At(p, "unlink")
     /\ Locks(r.dp)
     /\ \/ /\ Refuses(r.name) \/ x = 0
           /\ Load(r.dp)
           /\ Put(p, r, "dp", "user")
           /\ UNCHANGED <<ref, lock, fault, hist>>
        \/ /\ ~Refuses(r.name) /\ x # 0 /\ IGetOK(x)
           /\ GetLoad(x, r.dp)
           /\ lock' = [lock EXCEPT ![r.dp] = p]
           /\ Goto(p, "unlinkip")
           /\ Local(p, [r EXCEPT !.ip = x])
           /\ UNCHANGED <<fault, hist>>
     /\ UNCHANGED <<dinode, user, calls>>

Empty(d) == dinode[d].type = "dir" => IsDirEmpty(d)

(* With dp and ip locked: the entry is erased, dp unlocked and put.         *)
UnlinkIp(p) ==
  LET r == t[p]
      i == r.ip
      d == dinode[i].type = "dir"
  IN /\ At(p, "unlinkip")
     /\ Locks(i)
     /\ dinode[i].nlink >= 1
     /\ Load(i)
     /\ \/ /\ ~Empty(i)
           /\ Put(p, r, "ip", "unlinkfail")
           /\ UNCHANGED <<dinode, lock>>
        \/ /\ Empty(i)
           /\ dinode' = [dinode EXCEPT ![r.dp].ents[r.name] = 0,
                                       ![r.dp].nlink = IF d THEN @ - 1 ELSE @]
           /\ lock' = [lock EXCEPT ![r.dp] = NOBODY, ![i] = p]
           /\ Put(p, r, "dp", "unlinklast")
     /\ UNCHANGED <<ref, user, calls, fault, hist>>

UnlinkFail(p) ==
  /\ At(p, "unlinkfail")
  /\ lock' = [lock EXCEPT ![t[p].dp] = NOBODY]
  /\ Put(p, t[p], "dp", "user")
  /\ UNCHANGED <<dinode, ref, valid, user, calls, fault, hist>>

UnlinkLast(p) ==
  LET i == t[p].ip
  IN /\ At(p, "unlinklast")
     /\ dinode' = [dinode EXCEPT ![i].nlink = @ - 1]
     /\ lock' = [lock EXCEPT ![i] = NOBODY]
     /\ Put(p, t[p], "ip", "user")
     /\ UNCHANGED <<ref, valid, user, calls, fault, hist>>

-----------------------------------------------------------------------------
(* create(), for open() with O_CREATE, mkdir() and mknod().                 *)
TypeOf(op) == CASE op = "mkdir" -> "dir" [] op = "mknod" -> "dev" [] OTHER -> "file"

Create(p) ==
  LET r == t[p]
      x == Lookup(r.dp, r.name)
      i == FirstFree
  IN /\ At(p, "create")
     /\ Locks(r.dp)
     /\ \/ /\ x # 0 /\ IGetOK(x)
           /\ GetLoad(x, r.dp)
           /\ Put(p, [r EXCEPT !.ip = x], "dp", "createold")
           /\ Follow(r.dp, r.name)
           /\ UNCHANGED <<dinode, lock, fault>>
        \/ /\ x = 0 /\ FreeInums # {} /\ IGetOK(i)
           /\ dinode' = [dinode EXCEPT ![i] = [type |-> TypeOf(r.op), nlink |-> 0,
                                               ents |-> NoEnts]]
           /\ GetLoad(i, r.dp)
           /\ lock' = [lock EXCEPT ![r.dp] = p]
           /\ Goto(p, "createnew")
           /\ Local(p, [r EXCEPT !.ip = i])
           /\ UNCHANGED <<fault, hist>>
        \/ /\ x = 0 /\ FreeInums = {}
           /\ Panic("ialloc: no inodes")
     /\ UNCHANGED <<user, calls>>

\* The name exists: good for open() of a file.
CreateOld(p) ==
  LET r == t[p]
  IN /\ At(p, "createold")
     /\ Locks(r.ip)
     /\ Load(r.ip)
     /\ \/ /\ r.op = "create" /\ dinode[r.ip].type = "file"
           /\ OpenFile(p, r)
        \/ /\ ~(r.op = "create" /\ dinode[r.ip].type = "file")
           /\ Put(p, r, "ip", "user")
           /\ UNCHANGED file
     /\ UNCHANGED <<dinode, ref, lock, cwd, calls, fault, hist>>

(* With dp and the new inode locked: nlink, the dots of a directory, and    *)
(* the entry in dp, which is unlocked and put.                              *)
WithDots(r, ents) == IF r.op = "mkdir" THEN [ents EXCEPT ![DOT] = r.ip, ![DOTDOT] = r.dp]
                                       ELSE ents

\* mutant: no nlink++ for ".."
FilledNoDots(r) ==
  [dinode EXCEPT ![r.ip] = [@ EXCEPT !.nlink = 1, !.ents = WithDots(r, @)],
                 ![r.dp] = [@ EXCEPT !.ents[r.name] = r.ip]]

Filled(r) ==
  [dinode EXCEPT ![r.ip] = [@ EXCEPT !.nlink = 1, !.ents = WithDots(r, @)],
                 ![r.dp] = [@ EXCEPT !.ents[r.name] = r.ip,
                                     !.nlink = IF r.op = "mkdir" THEN @ + 1 ELSE @]]

CreateNew(p) ==
  LET r == t[p]
  IN /\ At(p, "createnew")
     /\ Locks(r.ip)
     /\ Load(r.ip)
     /\ dinode' = Filled(r)
     /\ lock' = [lock EXCEPT ![r.dp] = NOBODY, ![r.ip] = p]
     /\ Put(p, r, "dp", "createdone")
     /\ UNCHANGED <<ref, user, calls, fault, hist>>

CreateDone(p) ==
  LET r == t[p]
  IN /\ At(p, "createdone")
     /\ lock' = [lock EXCEPT ![r.ip] = NOBODY]
     /\ \/ r.op = "create" /\ OpenFile(p, r)
        \/ r.op # "create" /\ Put(p, r, "ip", "user") /\ UNCHANGED file
     /\ UNCHANGED <<dinode, ref, valid, cwd, calls, fault, hist>>
-----------------------------------------------------------------------------
(* Steps that stop the machine.                                             *)

LockedPanic(p) ==
  /\ fault = "none" /\ Wants(p) # 0 /\ pc[p] # "iput"
  /\ lock[Wants(p)] = NOBODY
  /\ IF NoType(Wants(p)) THEN Panic("ilock: no type")
     ELSE /\ pc[p] = "unlinkip" /\ dinode[t[p].ip].nlink < 1
          /\ Panic("unlink: nlink < 1")

\* The inode that p's next step gets
Gets(p) ==
  LET r == t[p]
  IN CASE pc[p] = "start" -> IF r.path.abs THEN ROOTINO ELSE cwd[p]
       [] pc[p] = "namex" /\ ~(r.parent /\ Len(r.path.elems) = 1)
            -> Lookup(r.ip, Head(r.path.elems))
       [] pc[p] \in {"linkto", "unlink", "create"} /\ Lookup(r.dp, r.name) # 0
            -> Lookup(r.dp, r.name)
       [] pc[p] = "create" /\ Lookup(r.dp, r.name) = 0 /\ FreeInums # {} -> FirstFree
       [] OTHER -> 0

IGetPanic(p) ==
  /\ fault = "none" /\ Gets(p) # 0
  /\ Wants(p) # 0 => Locks(Wants(p))
  /\ pc[p] = "unlink" => ~Refuses(t[p].name)
  /\ ~IGetOK(Gets(p))
  /\ Panic("iget: no inodes")

-----------------------------------------------------------------------------
Step(p) ==
  \/ \E op \in ByParent \cup {"open", "openw", "chdir"}, x \in Path : Call(p, op, x, NoPath)
  \/ \E x, y \in Path : Call(p, "link", x, y)
  \/ NamexStart(p) \/ NamexStep(p) \/ LockedPanic(p) \/ IGetPanic(p) \/ IPut(p) \/ IDrop(p)
  \/ Open(p) \/ Chdir(p) \/ ChdirSet(p) \/ Close(p)
  \/ Link(p) \/ LinkTo(p) \/ PutOld(p) \/ LinkExists(p) \/ LinkBad(p)
  \/ Unlink(p) \/ UnlinkIp(p) \/ UnlinkFail(p) \/ UnlinkLast(p)
  \/ Create(p) \/ CreateOld(p) \/ CreateNew(p) \/ CreateDone(p)

Next == \E p \in Proc : Step(p)
Spec == Init /\ [][Next]_vars

-----------------------------------------------------------------------------
(* Properties.                                                              *)

\* Inodes, references, locks and locals are of their kinds.
TypeOK ==
  /\ dinode \in [Inum -> [type : {"free", "dir", "file", "dev"}, nlink : Int,
                          ents : [Entry -> Inum \cup {0}]]]
  /\ ref \in [Inum -> Nat] /\ valid \in [Inum -> BOOLEAN]
  /\ lock \in [Inum -> Proc \cup {NOBODY}]
  /\ cwd \in [Proc -> Inum \cup {0}] /\ file \in [Proc -> Inum \cup {0}]
  /\ \A p \in Proc : {t[p].ip, t[p].dp, t[p].old, t[p].drop} \subseteq Inum \cup {0}

(* ip->ref tracks the pointers to an inode: open files, current directories *)
(* and the locals of the calls in progress (fs.c:148-153).                  *)
Pointers(i) ==
  {<<p, "cwd">> : p \in {q \in Proc : cwd[q] = i}} \cup
  {<<p, "file">> : p \in {q \in Proc : file[q] = i}} \cup
  {<<p, l>> \in Proc \X {"ip", "dp", "old", "drop"} : t[p][l] = i}
RefTracksPointers == TypeOK /\ \A i \in Inum : ref[i] = Cardinality(Pointers(i))

(* itrunc() frees only an inode that is no open file and no current         *)
(* directory (fs.c:529-533): what a process holds stays allocated, until a  *)
(* process goes through ".." of a removed directory, whose parent may be    *)
(* gone as well.                                                            *)
HeldAllocated ==
  stray \/ \A p \in Proc : \A i \in {cwd[p], file[p], t[p].ip, t[p].dp, t[p].old} \ {0} :
             dinode[i].type # "free"

(* The entries that count: all but ".", and ".." of a directory that has an *)
(* entry itself.  There are never more than nlink, in the middle of a call  *)
(* as well, so no entry names an inode that is free or about to be freed    *)
(* (until a process goes through ".." of a removed directory), and unlink() *)
(* never meets "unlink: nlink < 1" (sysfile.c:213).                         *)
Links(i) == {<<d, n>> \in Inum \X (Entry \ {DOT}) :
               /\ dinode[d].type = "dir" /\ dinode[d].ents[n] = i
               /\ n = DOTDOT => Named(d)}
LinksCoverEntries == stray \/ \A i \in Inum : Cardinality(Links(i)) <= dinode[i].nlink

(* Waiting in ilock() alone closes no circle: a process that waits in       *)
(* ilock() for a lock holds only the parent directory's.  (iput() takes the *)
(* lock of any inode, and circles through it exist.)                        *)
ILockers == {p \in Proc : pc[p] # "iput" /\ Wants(p) # 0 /\ lock[Wants(p)] # NOBODY}
LockOrder == \A S \in SUBSET ILockers : S # {} => \E p \in S : lock[Wants(p)] \notin S

(* "If that was the last reference and the inode has no links to it, free   *)
(* the inode (and its content) on disk" (fs.c:428-429).  Two calls that put *)
(* the last two references at once may each see the other's, and then       *)
(* neither frees it; nothing else loses an inode.                           *)
UnlinkedFreed ==
  raced \/ \A i \in Inum : ref[i] = 0 /\ dinode[i].nlink = 0 => dinode[i].type = "free"
=============================================================================
