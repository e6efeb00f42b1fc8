------------------------------ MODULE ByteFile ------------------------------
(***************************************************************************)
(* What the data layer of the file system promises: an inode is a sequence *)
(* of bytes, and read() and write() move through it at the offset of an    *)
(* open file.  A write() takes effect one chunk at a time.                 *)
(***************************************************************************)
EXTENDS Naturals, Sequences

CONSTANTS Proc, Inode, File, Byte,
          MaxSize,   \* bytes of a file
          MaxChunk   \* bytes of one step of write()

VARIABLES data,  \* data[i]: the bytes of inode i
          file,  \* file[f]: [ip |-> an inode or 0, off]
          res    \* res[p]: the bytes of p's last read()

vars == <<data, file, res>>

Init ==
  /\ data = [i \in Inode |-> <<>>]
  /\ file \in [File -> [ip : Inode \cup {0}, off : {0}]]
  /\ res = [p \in Proc |-> <<>>]

Least(a, b) == IF a < b THEN a ELSE b
From(s, k) == SubSeq(s, k + 1, Len(s))

Open(f, i) ==
  /\ file[f].ip = 0
  /\ file' = [file EXCEPT ![f] = [ip |-> i, off |-> 0]]
  /\ UNCHANGED <<data, res>>

Close(f) ==
  /\ file[f].ip # 0
  /\ file' = [file EXCEPT ![f] = [ip |-> 0, off |-> 0]]
  /\ UNCHANGED <<data, res>>

Write(f, s) ==
  LET i == file[f].ip
      o == file[f].off
  IN /\ i # 0
     /\ o + Len(s) <= MaxSize
     /\ data' = [data EXCEPT ![i] = SubSeq(@, 1, o) \o s \o From(@, o + Len(s))]
     /\ file' = [file EXCEPT ![f].off = o + Len(s)]
     /\ UNCHANGED res

Read(p, f, n) ==
  LET i == file[f].ip
      o == file[f].off
      e == Least(o + n, Len(data[i]))
  IN /\ i # 0
     /\ res' = [res EXCEPT ![p] = SubSeq(data[i], o + 1, e)]
     /\ file' = [file EXCEPT ![f].off = e]
     /\ UNCHANGED data

\* The last name and the last open file of an inode are gone.
Clear(i) ==
  /\ \A f \in File : file[f].ip # i
  /\ data' = [data EXCEPT ![i] = <<>>]
  /\ UNCHANGED <<file, res>>

Chunk == UNION {[1 .. n -> Byte] : n \in 1 .. MaxChunk}

Next ==
  \/ \E f \in File, i \in Inode : Open(f, i)
  \/ \E f \in File : Close(f)
  \/ \E f \in File, s \in Chunk : Write(f, s)
  \/ \E p \in Proc, f \in File, n \in 0 .. MaxSize : Read(p, f, n)
  \/ \E i \in Inode : Clear(i)

Spec == Init /\ [][Next]_vars
=============================================================================
