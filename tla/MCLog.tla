------------------------------- MODULE MCLog -------------------------------
(* Small instances of the log for model checking.                          *)
EXTENDS Log, TLC

CONSTANTS p1, p2, p3, b1, b2, b3, b4, b5, v1, v2

TwoProcs   == {p1, p2}
ThreeProcs == {p1, p2, p3}
TwoBlocks  == {b1, b2}
FiveBlocks == {b1, b2, b3, b4, b5}

Symmetric == Permutations(Proc) \cup Permutations(Block) \cup Permutations(Val)
=============================================================================
