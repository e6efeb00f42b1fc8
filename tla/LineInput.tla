----------------------------- MODULE LineInput -----------------------------
(***************************************************************************)
(* What the console's input promises, whatever buffer it is kept in: a     *)
(* line that is being edited, and the finished lines readers take from in  *)
(* the order they were typed.  A line is finished by a newline, by end of  *)
(* file, or when no more fits.                                             *)
(***************************************************************************)
EXTENDS Sequences, Naturals

CONSTANTS Letters, Size

VARIABLES lines, edit

Full == Len(lines) + Len(edit) = Size

Type(c) ==
  /\ ~Full
  /\ LET new == Append(edit, c)
     IN IF c \in {"nl", "eof"} \/ Len(lines) + Len(new) = Size
        THEN lines' = lines \o new /\ edit' = <<>>
        ELSE edit' = new /\ UNCHANGED lines

Erase == edit # <<>> /\ edit' = SubSeq(edit, 1, Len(edit) - 1) /\ UNCHANGED lines
Kill  == edit' = <<>> /\ UNCHANGED lines
Take  == lines # <<>> /\ lines' = Tail(lines) /\ UNCHANGED edit

Next == (\E c \in Letters \cup {"nl", "eof"} : Type(c)) \/ Erase \/ Kill \/ Take

Spec == lines = <<>> /\ edit = <<>> /\ [][Next]_<<lines, edit>>
=============================================================================
