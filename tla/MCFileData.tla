----------------------------- MODULE MCFileData -----------------------------
(* A small instance of the data layer for model checking.                   *)
EXTENDS FileData, TLC
CONSTANTS p1, p2
BothOpen  == <<1, 2>>
Symmetric == Permutations(Proc)
=============================================================================
