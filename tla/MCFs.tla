-------------------------------- MODULE MCFs --------------------------------
(* Small instances of the file system's name space for model checking.      *)
EXTENDS Fs, TLC

CONSTANTS p1, p2

File(n)       == [type |-> "file", nlink |-> n, ents |-> NoEnts]
Free          == [type |-> "free", nlink |-> 0, ents |-> NoEnts]
Dir(i, up, n, ents) ==
  [type |-> "dir", nlink |-> n, ents |-> ents @@ [NoEnts EXCEPT ![DOT] = i, ![DOTDOT] = up]]

\* A file under two names
TwoNames == [home |-> 1, disk |-> <<Dir(1, 1, 1, "a" :> 2 @@ "b" :> 2), File(2), Free, Free>>]

\* A directory "a" with a file "b" in it, and a process in the directory
SubDir == [home |-> 2,
           disk |-> <<Dir(1, 1, 2, "a" :> 2), Dir(2, 1, 1, "b" :> 3), File(1), Free>>]

\* A process in "a/b" after unlink("a/b") and unlink("a")
Removed == [home |-> 3,
            disk |-> <<Dir(1, 1, 1, <<>>), Free, Dir(3, 2, 0, <<>>), Free>>]

StartSet  == {TwoNames, SubDir, Removed}

Rel(s) == [abs |-> FALSE, elems |-> s]
PathSet == {Rel(<<"a">>), Rel(<<"b">>), Rel(<<"..">>), Rel(<<"a", "b">>),
            [abs |-> TRUE, elems |-> <<>>]}
Symmetric == Permutations(Proc)
=============================================================================
