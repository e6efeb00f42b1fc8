------------------------------ MODULE Keyboard ------------------------------
(***************************************************************************)
(* kbdgetc() turns the scan codes of a PC keyboard into characters         *)
(* (kernel/drivers/kbd.c, kbd.h). A key is a pair of a code and whether    *)
(* the keyboard sends E0 before it; a press sends the code and a release   *)
(* the code plus 80 (hexadecimal). The codes are those of kbd.h, of the    *)
(* letter A, and of the E0 2A that keyboards send around cursor keys.      *)
(***************************************************************************)
EXTENDS Integers, Sequences

CONSTANT MaxBytes   \* bound: bytes in the controller

E0 == 224
Keys == {<<29, FALSE>>, <<29, TRUE>>, <<42, FALSE>>, <<42, TRUE>>, <<54, FALSE>>,
         <<56, FALSE>>, <<56, TRUE>>, <<58, FALSE>>, <<30, FALSE>>}
Modifiers == {"SHIFT", "CTL", "ALT"}

VARIABLES port,     \* bytes the controller holds, oldest first
          shift,    \* the static flags of kbdgetc()
          c,        \* what it returned last; "0" and "none" are no character
          keyed,    \* history: the events whose bytes are in port, oldest first
          mods      \* history: modifiers and lock the keys themselves ask for

vars == <<port, shift, c, keyed, mods>>

Init == port = <<>> /\ shift = {} /\ c = "none" /\ keyed = <<>> /\ mods = {}

-----------------------------------------------------------------------------
shiftcode(d) ==
  CASE d \in {29, 157} -> {"CTL"} [] d \in {42, 54} -> {"SHIFT"} [] d \in {56, 184} -> {"ALT"}
    [] OTHER -> {}
togglecode(d) == IF d = 58 THEN {"CAPSLOCK"} ELSE {}
Xor(a, b) == (a \ b) \cup (b \ a)

Upper(ch) == IF ch = "a" THEN "A" ELSE IF ch = "A" THEN "a" ELSE ch
charcode(f, d) ==
  IF d # 30 THEN "none" ELSE IF "CTL" \in f THEN "^A" ELSE IF "SHIFT" \in f THEN "A" ELSE "a"

\* mutant: the prefix is forgotten on release
ReleasedPlain(d) == d - 128
Released(d) == IF "E0ESC" \in shift THEN d ELSE d - 128

Char(f, d) == IF "CAPSLOCK" \in f THEN Upper(charcode(f, d)) ELSE charcode(f, d)

\* kbdgetc(): one byte
GetPrefix(d) == d = E0 /\ shift' = shift \cup {"E0ESC"} /\ c' = "0"
GetRelease(d) ==
  d # E0 /\ d >= 128 /\ shift' = shift \ (shiftcode(Released(d)) \cup {"E0ESC"}) /\ c' = "0"
GetPress(d) ==
  LET code == IF "E0ESC" \in shift THEN d + 128 ELSE d
  IN /\ d < 128
     /\ shift' = Xor((shift \ {"E0ESC"}) \cup shiftcode(code), togglecode(code))
     /\ c' = Char(shift', code)

\* What a key event asks for: the keys with a prefix other than CTL and ALT ask for nothing
Asked(ev) ==
  LET m == IF ev.key[2] /\ ev.key[1] = 42 THEN {} ELSE shiftcode(ev.key[1])
  IN IF ev.press THEN Xor(mods \cup m, togglecode(ev.key[1])) ELSE mods \ m

kbdgetc ==
  /\ port # <<>>
  /\ port' = Tail(port)
  /\ GetPrefix(Head(port)) \/ GetRelease(Head(port)) \/ GetPress(Head(port))
  /\ IF Head(port) = E0 THEN UNCHANGED <<keyed, mods>>
     ELSE keyed' = Tail(keyed) /\ mods' = Asked(Head(keyed))

\* A key is pressed, held until it repeats, or released: its bytes arrive
KeyEvent(key, press) ==
  LET bytes == (IF key[2] THEN <<E0>> ELSE <<>>) \o <<IF press THEN key[1] ELSE key[1] + 128>>
  IN /\ Len(port) + Len(bytes) <= MaxBytes
     /\ port' = port \o bytes
     /\ keyed' = Append(keyed, [key |-> key, press |-> press])
     /\ UNCHANGED <<shift, c, mods>>

Next == kbdgetc \/ \E key \in Keys, press \in BOOLEAN : KeyEvent(key, press)
Spec == Init /\ [][Next]_vars

-----------------------------------------------------------------------------
(* Properties.                                                              *)

\* The flags are those of the key events so far, and no prefix outlives its key
FlagsFollowKeys ==
  /\ shift \ {"E0ESC"} = mods
  /\ "E0ESC" \in shift => port # <<>> /\ Head(keyed).key[2]

(* After every byte the flags are what the key events processed so far ask  *)
(* for, whichever keys overlap and wherever prefixes fall (kbd.c:20-35): no *)
(* modifier stays on after the last release of a key that sets it.  A       *)
(* letter is the control character under CTL, and otherwise capital when    *)
(* exactly one of SHIFT and CAPSLOCK is on (kbd.c:36-42).                   *)
KeysMeant ==
  [][/\ FlagsFollowKeys'
     /\ c' \in {"a", "A", "^A"} /\ Len(port') < Len(port) =>
          c' = IF "CTL" \in mods THEN "^A"
               ELSE IF ("SHIFT" \in mods) # ("CAPSLOCK" \in mods) THEN "A" ELSE "a"]_vars
=============================================================================
