------------------------------- MODULE MCPipe -------------------------------
(* A small instance of the open files and the pipe for model checking.      *)
EXTENDS Pipe
CONSTANTS p1, p2

Alone  == [born |-> {p1}, r |-> {}, w |-> {}]
Shared == [born |-> {p1, p2}, r |-> {p1, p2}, w |-> {p1, p2}]
Shell  == [born |-> {p1, p2}, r |-> {p2}, w |-> {p1}]
StartSet == {Alone, Shared, Shell}
=============================================================================
