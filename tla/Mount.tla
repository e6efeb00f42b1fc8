------------------------------- MODULE Mount -------------------------------
(***************************************************************************)
(* mount() and unmount() (kernel/fs/mount.c) with the nonblocking lock     *)
(* (kernel/lock/nonblockinglock.c), the references they count and the log  *)
(* operations they open, the lookups of namex() that cross a mount point,  *)
(* and the ".." of namei() that leads out of it.  The directory tree is    *)
(* one directory that can be mounted on, and the one it is an entry of.    *)
(***************************************************************************)
EXTENDS Integers, FiniteSets

CONSTANTS Proc,
          MaxCalls    \* bound: calls of each process

\* What a path of the root device leads to; "dir" can be mounted on
Paths == {"none", "file", "root", "dir"}

VARIABLES
  locked,       \* mountlock.locked
  mounted,      \* mounttable.mount_root # 0; mount_point is set with it
  ismp,         \* is_mount_point of the directory
  pointRef, rootRef,   \* ref of the directory and of the mounted root
  aboveRef,     \* ref of the directory that holds it, from the processes modelled
  outstanding,  \* log.outstanding
  cwd,          \* working directory: "home", the directory ("dir"), the mounted
                \* "root", or the directory "above"
  pc, calls, fault,
  twice,        \* history: two unmount() calls were past their checks at once
  lost          \* history: references to the root put once too often

table == <<locked, mounted, ismp, pointRef, rootRef>>
vars  == <<table, aboveRef, outstanding, cwd, pc, calls, fault, twice, lost>>

\* The processes whose working directory is d
In(d) == {p \in Proc : cwd[p] = d}

Init ==
  /\ locked = FALSE /\ mounted = FALSE /\ ismp = FALSE
  /\ pointRef = 0 /\ rootRef = 0
  /\ aboveRef = 0 /\ outstanding = 0
  /\ cwd = [p \in Proc |-> "home"]
  /\ pc = [p \in Proc |-> "user"]
  /\ calls = [p \in Proc |-> 0]
  /\ fault = "none" /\ twice = FALSE /\ lost = 0

At(p, l) == pc[p] = l /\ fault = "none"
Goto(p, l) == pc' = [pc EXCEPT ![p] = l]

One(b) == IF b THEN 1 ELSE 0

BeginOp(p) ==
  /\ At(p, "user") /\ calls[p] < MaxCalls
  /\ calls' = [calls EXCEPT ![p] = @ + 1]
  /\ outstanding' = outstanding + 1

(* The two ways a call returns: after end_op(), or without it.              *)
EndOp(p) == Goto(p, "user") /\ outstanding' = outstanding - 1
NoEndOp(p) == Goto(p, "user") /\ UNCHANGED outstanding

-----------------------------------------------------------------------------
(* mount(): a device that is not there, or not 2 to 7, ends it at once.     *)
Mount(p) ==
  /\ BeginOp(p)
  /\ Goto(p, "mlock") \/ Goto(p, "user")
  /\ UNCHANGED <<table, cwd, aboveRef, fault, twice, lost>>

TakeLock == ~locked /\ locked' = TRUE

MountLock(p) ==
  /\ At(p, "mlock")
  /\ \/ TakeLock /\ Goto(p, "mfind") /\ UNCHANGED outstanding
     \/ locked /\ EndOp(p) /\ UNCHANGED locked
  /\ UNCHANGED <<mounted, ismp, pointRef, rootRef, cwd, aboveRef, calls, fault, twice, lost>>

\* The inode of the path; one that is not cached yet has no type, and is
\* looked up again as the "." of a working directory, which keeps references.
MountFind(p, path) ==
  /\ At(p, "mfind")
  /\ \/ /\ path # "dir"
        /\ locked' = FALSE
        /\ EndOp(p)
        /\ UNCHANGED pointRef
     \/ /\ path = "dir"
        /\ pointRef' = pointRef + (IF pointRef = 0 THEN 3 ELSE 1)
        /\ Goto(p, "mflag")
        /\ UNCHANGED <<locked, outstanding>>
  /\ UNCHANGED <<mounted, ismp, rootRef, cwd, aboveRef, calls, fault, twice, lost>>

MountFlag(p) ==
  /\ At(p, "mflag")
  /\ rootRef' = rootRef + 1
  /\ ismp' = TRUE
  /\ Goto(p, "mtable")
  /\ UNCHANGED <<locked, mounted, pointRef, outstanding, cwd, aboveRef, calls, fault, twice, lost>>

MountTable(p) ==
  /\ At(p, "mtable")
  /\ mounted' = TRUE
  /\ EndOp(p)
  /\ UNCHANGED <<locked, ismp, pointRef, rootRef, cwd, aboveRef, calls, fault, twice, lost>>

-----------------------------------------------------------------------------

(* A lookup: the directory is found and referenced; a mount point is        *)
(* replaced by mount_root, and its own reference is kept.                   *)
Cross(p, next) ==
  IF mounted
  THEN rootRef' = rootRef + 1 /\ Goto(p, next) /\ UNCHANGED fault
  ELSE fault' = "idup(0)" /\ UNCHANGED <<rootRef, pc>>

\* unmount(): namei() of the path
Unmount(p, path) ==
  /\ BeginOp(p)
  /\ \/ path = "none" /\ Goto(p, "ufail") /\ UNCHANGED pointRef
     \/ path \in {"file", "root"} /\ Goto(p, "uother") /\ UNCHANGED pointRef
     \/ /\ path = "dir"
        /\ pointRef' = pointRef + 1
        /\ Goto(p, IF ismp THEN "ucross" ELSE "uother")
  /\ UNCHANGED <<locked, mounted, ismp, rootRef, cwd, aboveRef, fault, twice, lost>>

UnmountFail(p) ==
  /\ At(p, "ufail")
  /\ EndOp(p)
  /\ UNCHANGED <<table, cwd, aboveRef, calls, fault, twice, lost>>

UnmountOther(p) ==
  /\ At(p, "uother")
  /\ NoEndOp(p)
  /\ UNCHANGED <<table, cwd, aboveRef, calls, fault, twice, lost>>

UnmountCross(p) ==
  /\ At(p, "ucross")
  /\ Cross(p, "ucheck")
  /\ UNCHANGED <<locked, mounted, ismp, pointRef, outstanding, cwd, aboveRef, calls, twice, lost>>

Past == {"uput", "ulast", "udrop", "uflag", "utable", "urelease"}

(* mount_root is the inode found, and the lock is held by the mount.        *)
UnmountCheck(p) ==
  /\ At(p, "ucheck")
  /\ IF ~mounted THEN NoEndOp(p) /\ UNCHANGED twice
     ELSE IF ~locked THEN NoEndOp(p) /\ UNCHANGED twice
     ELSE /\ Goto(p, "uput")
          /\ twice' = (twice \/ \E q \in Proc \ {p} : pc[q] \in Past)
          /\ UNCHANGED outstanding
  /\ UNCHANGED <<table, cwd, aboveRef, calls, fault, lost>>

UnmountPut(p) ==
  /\ At(p, "uput")
  /\ rootRef' = rootRef - 1
  /\ Goto(p, "ulast")
  /\ UNCHANGED <<locked, mounted, ismp, pointRef, outstanding, cwd, aboveRef, calls, fault, twice, lost>>

\* iputmount(): the test, then iput()
UnmountLast(p) ==
  /\ At(p, "ulast")
  /\ IF rootRef > 1 THEN NoEndOp(p) ELSE Goto(p, "udrop") /\ UNCHANGED outstanding
  /\ UNCHANGED <<table, cwd, aboveRef, calls, fault, twice, lost>>

UnmountDrop(p) ==
  /\ At(p, "udrop")
  /\ rootRef' = rootRef - 1
  /\ Goto(p, "uflag")
  /\ UNCHANGED <<locked, mounted, ismp, pointRef, outstanding, cwd, aboveRef, calls, fault, twice, lost>>

UnmountFlag(p) ==
  /\ At(p, "uflag")
  /\ IF mounted THEN ismp' = FALSE /\ Goto(p, "utable") /\ UNCHANGED fault
     ELSE fault' = "mount_point 0" /\ UNCHANGED <<ismp, pc>>
  /\ UNCHANGED <<locked, mounted, pointRef, rootRef, outstanding, cwd, aboveRef, calls, twice, lost>>

UnmountTable(p) ==
  /\ At(p, "utable")
  /\ mounted' = FALSE
  /\ Goto(p, "urelease")
  /\ UNCHANGED <<locked, ismp, pointRef, rootRef, outstanding, cwd, aboveRef, calls, fault, twice, lost>>

UnmountRelease(p) ==
  /\ At(p, "urelease")
  /\ locked' = FALSE
  /\ NoEndOp(p)
  /\ UNCHANGED <<mounted, ismp, pointRef, rootRef, cwd, aboveRef, calls, fault, twice, lost>>
-----------------------------------------------------------------------------
(* chdir() to the directory, from a working directory of the root device.   *)
Enter(p) ==
  /\ BeginOp(p)
  /\ cwd[p] # "root"
  /\ pointRef' = pointRef + 1
  /\ Goto(p, IF ismp THEN "ecross" ELSE "eplain")
  /\ UNCHANGED <<locked, mounted, ismp, rootRef, cwd, aboveRef, fault, twice, lost>>

\* iput() of the working directory, which then is d
SetCwd(p, d) ==
  /\ rootRef'  = rootRef  - One(cwd[p] = "root")
  /\ pointRef' = pointRef - One(cwd[p] = "dir")
  /\ aboveRef' = aboveRef - One(cwd[p] = "above")
  /\ cwd' = [cwd EXCEPT ![p] = d]

EnterPlain(p) ==
  /\ At(p, "eplain")
  /\ SetCwd(p, "dir")
  /\ EndOp(p)
  /\ UNCHANGED <<locked, mounted, ismp, calls, fault, twice, lost>>

EnterCross(p) ==
  /\ At(p, "ecross")
  /\ Cross(p, "eset")
  /\ UNCHANGED <<locked, mounted, ismp, pointRef, outstanding, cwd, aboveRef, calls, twice, lost>>

EnterSet(p) ==
  /\ At(p, "eset")
  /\ SetCwd(p, "root")
  /\ EndOp(p)
  /\ UNCHANGED <<locked, mounted, ismp, calls, fault, twice, lost>>

(* chdir("..") in the mounted root: namei() makes mount_point the working   *)
(* directory without a reference, puts the root, looks "../.." up from      *)
(* there, makes the result the working directory and puts the root again.   *)
Up(p) ==
  /\ BeginOp(p)
  /\ cwd[p] = "root"
  /\ rootRef' = rootRef - 1
  /\ cwd' = [cwd EXCEPT ![p] = IF mounted THEN "dir" ELSE "none"]
  /\ IF mounted THEN Goto(p, "uplook") /\ UNCHANGED fault
     ELSE fault' = "cwd 0" /\ UNCHANGED pc
  /\ UNCHANGED <<locked, mounted, ismp, pointRef, aboveRef, twice, lost>>

\* The mount point is referenced for its lookup only, what it finds stays so.
UpLook(p) ==
  /\ At(p, "uplook")
  /\ aboveRef' = aboveRef + 1
  /\ cwd' = [cwd EXCEPT ![p] = "above"]
  /\ Goto(p, "upput")
  /\ UNCHANGED <<table, outstanding, calls, fault, twice, lost>>

UpPut(p) ==
  /\ At(p, "upput")
  /\ rootRef' = rootRef - 1
  /\ lost' = lost + 1
  /\ Goto(p, "upset")
  /\ UNCHANGED <<locked, mounted, ismp, pointRef, aboveRef, outstanding, cwd, calls, fault, twice>>

\* sys_chdir() puts the working directory, which is the new one already.
UpSet(p) ==
  /\ At(p, "upset")
  /\ SetCwd(p, "above")
  /\ EndOp(p)
  /\ UNCHANGED <<locked, mounted, ismp, calls, fault, twice, lost>>

(* exit() puts the working directory; the next process of this name starts  *)
(* at home.                                                                 *)
Leave(p) ==
  /\ At(p, "user")
  /\ cwd[p] # "home"
  /\ SetCwd(p, "home")
  /\ UNCHANGED <<locked, mounted, ismp, outstanding, pc, calls, fault, twice, lost>>

-----------------------------------------------------------------------------
Next ==
  \E p \in Proc :
    \/ Mount(p) \/ MountLock(p) \/ MountFlag(p) \/ MountTable(p)
    \/ \E path \in Paths : MountFind(p, path) \/ Unmount(p, path)
    \/ UnmountFail(p) \/ UnmountOther(p) \/ UnmountCross(p) \/ UnmountCheck(p)
    \/ UnmountPut(p) \/ UnmountLast(p) \/ UnmountDrop(p) \/ UnmountFlag(p)
    \/ UnmountTable(p) \/ UnmountRelease(p)
    \/ Enter(p) \/ EnterPlain(p) \/ EnterCross(p) \/ EnterSet(p)
    \/ Up(p) \/ UpLook(p) \/ UpPut(p) \/ UpSet(p) \/ Leave(p)

Spec == Init /\ [][Next]_vars

-----------------------------------------------------------------------------
(* Properties.                                                              *)

\* The processes at one of the labels L
AnyAt(L) == {p \in Proc : pc[p] \in L}

(* The root is referenced by mounttable, by every process inside and by     *)
(* every call that has looked it up, until an unmount() that found no other *)
(* reference drops it (mount.c:181-186).  What is missing is what ".." put  *)
(* once too often (fs.c:842-845), unless two unmounts overlap.              *)
RootReferenced ==
  \/ twice
  \/ rootRef + lost >= Cardinality(In("root")) + Cardinality(AnyAt({"ucheck", "uput", "eset"}))
                        + One(mounted \/ AnyAt({"mtable"}) # {})
                        - Cardinality(AnyAt({"uflag", "utable"}))

(* The directory stays referenced as long as something is mounted on it and *)
(* by every process that has it as its working directory, except within     *)
(* ".." (mount.c:97, 153; fs.c:841-845).                                    *)
PointReferenced ==
  pointRef >= Cardinality(In("dir")) - Cardinality(AnyAt({"uplook"}))
               + One(mounted \/ AnyAt({"mflag", "mtable"}) # {})

(* mountlock is held from a mount to its unmount, so that a second mount    *)
(* finds it taken and an unmount finds its mount point, unless two unmounts *)
(* overlap (mount.c:91-95, 177-190).                                        *)
MountedOnce ==
  twice \/ LET mounting == AnyAt({"mfind", "mflag", "mtable"})
           IN /\ mounted => locked /\ mounting = {}
              /\ Cardinality(mounting) <= 1
              /\ fault # "mount_point 0"

(* A lookup that read is_mount_point finds no root only before mount() has  *)
(* filled mounttable, or when unmount() has cleared the flag since          *)
(* (fs.c:815-816, mount.c:151-154, 188-190).                                *)
CrossingHasRoot ==
  fault = "idup(0)" => twice \/ ~ismp \/ AnyAt({"mtable"}) # {}
=============================================================================
