------------------------------ MODULE Screen ------------------------------
(***************************************************************************)
(* The screen (kernel/dev/console.c): consputc(), cgaputc() and            *)
(* clear_screen() on the display memory and the cursor, and password mode. *)
(* A cell is blank or holds ink.                                           *)
(***************************************************************************)
EXTENDS Naturals

CONSTANTS ROWS, COLS    \* 25 and 80 in the code

VARIABLES crt,          \* display memory
          pos,          \* the cursor of the controller
          passwd_mode, fault

vars == <<crt, pos, passwd_mode, fault>>

Cells == 0 .. ROWS * COLS - 1
LAST  == (ROWS - 1) * COLS           \* the start of the last row

\* The cursor as it is left at boot, above the last row, after some text
Init ==
  /\ \E p \in 0 .. LAST - 1 : pos = p /\ crt = [k \in Cells |-> k < p]
  /\ passwd_mode = FALSE
  /\ fault = FALSE

\* mutant: the rows are not moved far enough
ScrolledShort(s, p) == [k \in Cells |-> IF k < LAST - COLS THEN s[k + COLS - 1]
                                        ELSE IF k \in p .. LAST - 1 THEN FALSE ELSE s[k]]

\* memmove() of all rows but the first and the last, then memset() from the cursor
Scrolled(s, p) == [k \in Cells |-> IF k \in p .. LAST - 1 THEN FALSE
                                   ELSE IF k < LAST - COLS THEN s[k + COLS] ELSE s[k]]

MustScroll(p) == p \div COLS >= ROWS - 1

(* cgaputc() of the screen s with the cursor at p, before and after it      *)
(* scrolls.                                                                 *)
Moved(c, p) == CASE c = "nl" -> p + COLS - (p % COLS)
                 [] c = "bs" -> IF p > 0 THEN p - 1 ELSE p
                 [] OTHER -> p + 1
Inked(c, s, p) == IF c = "ink" THEN [s EXCEPT ![p] = TRUE] ELSE s

Cgaputc(c, s, p) ==
  LET p1 == Moved(c, p)
      s1 == Inked(c, s, p)
      p2 == IF MustScroll(p1) THEN p1 - COLS ELSE p1
      s2 == IF MustScroll(p1) THEN Scrolled(s1, p2) ELSE s1
  IN IF p1 > ROWS * COLS THEN fault' = TRUE /\ UNCHANGED <<crt, pos>>
     ELSE /\ pos' = p2
          /\ crt' = [s2 EXCEPT ![p2] = FALSE]
          /\ UNCHANGED fault

\* A tab clears the screen and prints "$".
Consputc(c) ==
  /\ ~fault
  /\ ~passwd_mode
  /\ IF c = "tab" THEN Cgaputc("ink", [k \in Cells |-> FALSE], 0) ELSE Cgaputc(c, crt, pos)
  /\ UNCHANGED passwd_mode

ChangeMode(mode) == passwd_mode' = mode /\ UNCHANGED <<crt, pos, fault>>

Next == (\E c \in {"ink", "nl", "bs", "tab"} : Consputc(c)) \/ (\E m \in BOOLEAN : ChangeMode(m))

Spec == Init /\ [][Next]_vars

-----------------------------------------------------------------------------

\* The cursor is above the last row and nothing is on the screen at it or after it
BlankAfterCursor == pos < LAST /\ ~fault /\ \A k \in Cells : k >= pos => ~crt[k]

(* Text that has been printed leaves the screen only at its top: a step     *)
(* that scrolls keeps every row but the first, one up, and any other step   *)
(* changes at most the cell before the cursor or at it, except a clear      *)
(* (console.c:158-162).  However lines are broken, erased and scrolled,     *)
(* nothing is left behind the cursor, and "pos under/overflow" is not       *)
(* reached (console.c:154).                                                 *)
TextKept ==
  [][/\ \/ pos' < pos /\ \A k \in 0 .. pos' : crt'[k] = (k = 0 /\ pos' = 1)
        \/ \A k \in 0 .. pos - 1 : k \notin {pos', pos - 1} => crt'[k] = crt[k]
        \/ \A k \in COLS .. pos - 1 : crt'[k - COLS] = crt[k]
     /\ BlankAfterCursor']_vars
=============================================================================
