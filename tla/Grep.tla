-------------------------------- MODULE Grep --------------------------------
(***************************************************************************)
(* grep (user/grep.c): the matcher match(), matchhere() and matchstar(),   *)
(* and the loop of grep() that cuts its input into lines.  A pattern that  *)
(* has been typed and a text are matched; then the text's lines are read   *)
(* in pieces of any size, as read() of a pipe returns them.                *)
(***************************************************************************)
EXTENDS Naturals, Sequences, SequencesExt

CONSTANTS Letters,
          MaxRe, MaxText,    \* bounds: lengths of the pattern and of the text
          BUFSIZE,           \* sizeof(buf) - 1
          MaxInput           \* bound: characters of the input

VARIABLES re, text,       \* a pattern and a line
          input,          \* what is still to be read
          buf, m,         \* the buffer, and how much of it is kept
          cut, out,       \* history: the input so far; the lines printed
          dropped         \* history: a piece without newline was thrown away

vars == <<re, text, input, buf, m, cut, out, dropped>>

Init ==
  /\ re = <<>> /\ text = <<>>
  /\ input \in {<<>>} \cup UNION {[1 .. n -> {"x", "nl"}] : n \in 1 .. MaxInput}
  /\ buf = <<>> /\ m = 0 /\ cut = <<>> /\ out = <<>> /\ dropped = FALSE

-----------------------------------------------------------------------------
RECURSIVE matchhere(_, _), matchstar(_, _, _)

matchstar(c, r, t) ==
  \/ matchhere(r, t)
  \/ t # <<>> /\ (Head(t) = c \/ c = ".") /\ matchstar(c, r, Tail(t))

matchhere(r, t) ==
  CASE r = <<>> -> TRUE
    [] Len(r) >= 2 /\ r[2] = "*" -> matchstar(r[1], SubSeq(r, 3, Len(r)), t)
    [] r = <<"$">> -> t = <<>>
    [] OTHER -> t # <<>> /\ (r[1] = "." \/ r[1] = t[1]) /\ matchhere(Tail(r), Tail(t))

match(r, t) ==
  IF r # <<>> /\ r[1] = "^" THEN matchhere(Tail(r), t)
  ELSE \E i \in 1 .. Len(t) + 1 : matchhere(r, SubSeq(t, i, Len(t)))

TypeRe == /\ Len(re) < MaxRe /\ input = <<>> /\ text = <<>> /\ cut = <<>>
          /\ \E c \in Letters \cup {".", "*", "^", "$"} : re' = Append(re, c)
          /\ UNCHANGED <<text, input, buf, m, cut, out, dropped>>
TypeText == /\ Len(text) < MaxText /\ input = <<>> /\ cut = <<>>
            /\ \E c \in Letters : text' = Append(text, c)
            /\ UNCHANGED <<re, input, buf, m, cut, out, dropped>>

-----------------------------------------------------------------------------
(* One turn of grep()'s loop: k characters are read behind the m kept; the  *)
(* whole lines are printed (every line matches), the rest is moved to the   *)
(* front; without a newline nothing is kept.                                *)
NewLines(s) == {i \in DOMAIN s : s[i] = "nl"}
LastLine(s) == IF NewLines(s) = {} THEN 0 ELSE CHOOSE i \in NewLines(s) : \A j \in NewLines(s) : j <= i
LinesOf(s) == SubSeq(s, 1, LastLine(s))

\* mutant: what follows the last newline is not kept
RestNone(s) == <<>>
Rest(s) == IF LastLine(s) = 0 THEN <<>> ELSE SubSeq(s, LastLine(s) + 1, Len(s))

Read(k) ==
  LET s == SubSeq(buf, 1, m) \o SubSeq(input, 1, k)
  IN /\ k <= Len(input) /\ m + k <= BUFSIZE
     /\ input' = SubSeq(input, k + 1, Len(input))
     /\ cut' = cut \o SubSeq(input, 1, k)
     /\ out' = out \o LinesOf(s)
     /\ buf' = Rest(s) /\ m' = Len(Rest(s))
     /\ dropped' = (dropped \/ LastLine(s) = 0)
     /\ UNCHANGED <<re, text>>

Next == TypeRe \/ TypeText \/ \E k \in 1 .. BUFSIZE : Read(k)

Spec == Init /\ [][Next]_vars

-----------------------------------------------------------------------------
(* Properties.                                                              *)

\* The atoms of a pattern: a character with or without a star
RECURSIVE Atoms(_)
Atoms(r) == CASE r = <<>> -> <<>>
              [] Len(r) >= 2 /\ r[2] = "*" -> <<<<r[1], TRUE>>>> \o Atoms(SubSeq(r, 3, Len(r)))
              [] OTHER -> <<<<r[1], FALSE>>>> \o Atoms(Tail(r))

(* The atoms a cover t from i to j: there are places where one ends and the *)
(* next one starts.                                                         *)
Covers(a, t, i, j) ==
  \E p \in [0 .. Len(a) -> i .. j] :
    /\ p[0] = i /\ p[Len(a)] = j
    /\ \A k \in 1 .. Len(a) :
         /\ p[k - 1] <= p[k] /\ (a[k][2] \/ p[k] = p[k - 1] + 1)
         /\ \A n \in p[k - 1] + 1 .. p[k] : a[k][1] \in {".", t[n]}

(* match() finds a line exactly when the pattern covers a part of it, from  *)
(* its start after "^" and to its end before a last "$" (grep.c:71-106).    *)
MatchesPart ==
  LET front == re # <<>> /\ re[1] = "^"
      body  == IF front THEN Tail(re) ELSE re
      all   == Atoms(body)
      end   == all # <<>> /\ Last(all) = <<"$", FALSE>>
      a     == IF end THEN Front(all) ELSE all
  IN match(re, text) <=>
       \E i \in 0 .. Len(text), j \in 0 .. Len(text) :
         i <= j /\ (front => i = 0) /\ (end => j = Len(text)) /\ Covers(a, text, i, j)

(* The lines printed are the whole lines read so far, and what is kept is   *)
(* the start of the next one, however read() cuts the input; only a piece   *)
(* without any newline loses its characters (grep.c:17-35).                 *)
LinesWhole == ~dropped => out = LinesOf(cut) /\ buf = SubSeq(cut, LastLine(cut) + 1, Len(cut))
=============================================================================
