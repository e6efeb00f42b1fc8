----------------------------- MODULE MCBufCache -----------------------------
(* Small instances of the buffer cache and its driver for model checking.   *)
EXTENDS BufCache, TLC

CONSTANTS p1, p2, p3, v1, v2, k1, k2, k3

ThreeProcs == {p1, p2, p3}

\* More blocks than buffers; two disks, with one block number on both.
TwoDisks == {<<1, k1>>, <<2, k1>>, <<2, k2>>}

\* Three blocks of the second disk.
SecondDisk == {2} \X {k1, k2, k3}

Symmetric == Permutations(Proc) \cup Permutations(Val)
=============================================================================
