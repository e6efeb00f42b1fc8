------------------------------- MODULE Numbers -------------------------------
(***************************************************************************)
(* Numbers crossing the kernel's boundary, in words of W bits: printint()  *)
(* of the console and of the user library, atoi(), and the checks that the *)
(* system calls make of addresses a process passes them (syscall.c).       *)
(* Digits are the numbers 0 .. 15, and MINUS the sign.                     *)
(***************************************************************************)
EXTENDS Integers, Sequences, SequencesExt

CONSTANTS W,         \* bound: bits in a word (32 in the build)
          KERNBASE   \* bound: the first address above user memory

WORD == 2 ^ W
MINUS == 16
Unsigned(i) == i % WORD
Signed(u) == IF u < WORD \div 2 THEN u ELSE u - WORD
Ints == -(WORD \div 2) .. (WORD \div 2) - 1

VARIABLES x,      \* the int printed, or passed as an address
          size,   \* the int passed as a length
          sz      \* the size of the process

vars == <<x, size, sz>>

Init == x = 0 /\ size = 0 /\ sz = 0
Next == vars = <<0, 0, 0>> /\ x' \in Ints /\ size' \in Ints /\ sz' \in 0 .. KERNBASE
Spec == Init /\ [][Next]_vars

-----------------------------------------------------------------------------
(* printint(): the digits of the magnitude, least first, then reversed.     *)
RECURSIVE Digits(_, _)
Digits(u, base) == <<u % base>> \o (IF u \div base = 0 THEN <<>> ELSE Digits(u \div base, base))

Magnitude(i, sign) == IF sign /\ i < 0 THEN Unsigned(-i) ELSE Unsigned(i)

printint(i, base, sign) ==
  Reverse(Digits(Magnitude(i, sign), base) \o (IF sign /\ i < 0 THEN <<MINUS>> ELSE <<>>))

\* atoi(): the digits up to the first other character, in an int
RECURSIVE atoiFrom(_, _)
atoiFrom(n, s) ==
  IF s # <<>> /\ Head(s) \in 0 .. 9 THEN atoiFrom(Signed(Unsigned(n * 10 + Head(s))), Tail(s)) ELSE n
atoi(s) == atoiFrom(0, s)

-----------------------------------------------------------------------------
(* fetchint() and argptr(): does the call accept the address a process      *)
(* passes, given its size? A word is four bytes.                            *)
fetchint(addr) == ~(addr >= sz \/ Unsigned(addr + 4) > sz)

argptr(i, n) == ~(n < 0 \/ Unsigned(i) >= sz \/ Unsigned(Unsigned(i) + n) > sz)

-----------------------------------------------------------------------------
(* Properties.                                                              *)

\* The value a sequence of digits stands for
ValueOf(s, base) == FoldLeft(LAMBDA v, d : v * base + d, 0, s)

(* The text %d and %x print stands for the number, the most negative one,   *)
(* whose magnitude is no int, included, with no leading zero; atoi() reads  *)
(* back every number that is not negative (console.c:38-60, printf.c:12-36, *)
(* ulib.c:84-93).                                                           *)
PrintsValue ==
  LET dec == printint(x, 10, TRUE)
      hex == printint(x, 16, FALSE)
  IN /\ IF x < 0 THEN Head(dec) = MINUS /\ ValueOf(Tail(dec), 10) = -x ELSE ValueOf(dec, 10) = x
     /\ ValueOf(hex, 16) = Unsigned(x)
     /\ Head(hex) = 0 => Len(hex) = 1
     /\ x >= 0 => atoi(dec) = x

(* What a system call accepts lies whole below the process's size, with no  *)
(* help from an address that wraps around the word (syscall.c:20-28, 60-72).*)
AcceptedInside ==
  /\ argptr(x, size) => Unsigned(x) + size <= sz
  /\ fetchint(Unsigned(x)) => Unsigned(x) + 4 <= sz
=============================================================================
