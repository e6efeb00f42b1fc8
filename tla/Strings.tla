------------------------------- MODULE Strings -------------------------------
(***************************************************************************)
(* The kernel's copying and comparing functions (kernel/mm/string.c) on a  *)
(* small memory, whatever it holds; character 0 is NUL.                    *)
(***************************************************************************)
EXTENDS Integers, Sequences

CONSTANTS NMEM,      \* bound: characters of memory
          MaxChar    \* bound: characters are 0 .. MaxChar

Addr == 0 .. NMEM - 1

VARIABLE mem

Init == mem = [a \in Addr |-> 0]
Next == \E a \in Addr, c \in 0 .. MaxChar : mem' = [mem EXCEPT ![a] = c]
Spec == Init /\ [][Next]_mem

-----------------------------------------------------------------------------
(* memmove(): one character after the other, downwards when the source      *)
(* starts below the destination and reaches into it.                        *)
RECURSIVE CopyUp(_, _, _, _), CopyDown(_, _, _, _)
CopyUp(f, d, s, n) == IF n = 0 THEN f ELSE CopyUp([f EXCEPT ![d] = f[s]], d + 1, s + 1, n - 1)
CopyDown(f, d, s, n) ==
  IF n = 0 THEN f ELSE CopyDown([f EXCEPT ![d - 1] = f[s - 1]], d - 1, s - 1, n - 1)

\* mutant: always upwards, as in ulib.c
memmoveUp(f, d, s, n) == CopyUp(f, d, s, n)
memmove(f, d, s, n) == IF s < d /\ s + n > d THEN CopyDown(f, d + n, s + n, n) ELSE CopyUp(f, d, s, n)

\* strncpy() of the string at s to d, and safestrcpy(), which ends it
RECURSIVE strncpy(_, _, _, _), safestrcpy(_, _, _, _)
strncpy(f, d, s, n) ==
  IF n <= 0 THEN f
  ELSE IF f[s] # 0 THEN strncpy([f EXCEPT ![d] = f[s]], d + 1, s + 1, n - 1)
  ELSE [a \in DOMAIN f |-> IF a \in d .. d + n - 1 THEN 0 ELSE f[a]]

\* Where the string ends before n does, the final store writes a second NUL
safestrcpy(f, d, s, n) ==
  IF n <= 0 THEN f
  ELSE IF n = 1 THEN [f EXCEPT ![d] = 0]
  ELSE IF f[s] = 0 THEN [f EXCEPT ![d] = 0, ![d + 1] = 0]
  ELSE safestrcpy([f EXCEPT ![d] = f[s]], d + 1, s + 1, n - 1)

\* The sign of what memcmp() and strncmp() return
RECURSIVE memcmp(_, _, _, _), strncmp(_, _, _, _)
memcmp(f, p, q, n) ==
  IF n = 0 THEN 0 ELSE IF f[p] # f[q] THEN f[p] - f[q] ELSE memcmp(f, p + 1, q + 1, n - 1)

strncmp(f, p, q, n) ==
  IF n > 0 /\ f[p] # 0 /\ f[p] = f[q] THEN strncmp(f, p + 1, q + 1, n - 1)
  ELSE IF n = 0 THEN 0 ELSE f[p] - f[q]

-----------------------------------------------------------------------------
(* Properties.                                                              *)

Fits(a, n) == a + n <= NMEM
StrEnd(f, s) == {k \in 0 .. NMEM - s - 1 : f[s + k] = 0}
Length(f, s) == CHOOSE k \in StrEnd(f, s) : \A j \in StrEnd(f, s) : k <= j

(* memmove() copies the source as it was, however the regions overlap, and  *)
(* leaves the rest alone (string.c:31-59).                                  *)
MovesOverlapping ==
  \A d, s \in Addr, n \in 0 .. NMEM : Fits(d, n) /\ Fits(s, n) =>
    memmove(mem, d, s, n) = [a \in Addr |-> IF a \in d .. d + n - 1 THEN mem[s + a - d] ELSE mem[a]]

(* safestrcpy() leaves the longest start of the string that fits with a NUL *)
(* in n characters, and touches nothing beyond them (string.c:92-104).      *)
CopiesEnded ==
  \A d, s \in Addr, n \in 1 .. NMEM : Fits(d, n + 1) /\ s >= d + n + 1 /\ StrEnd(mem, s) # {} =>
    LET k == IF Length(mem, s) < n THEN Length(mem, s) ELSE n - 1
        copy == safestrcpy(mem, d, s, n)
    IN /\ \A i \in 0 .. k - 1 : copy[d + i] = mem[s + i]
       /\ copy[d + k] = 0
       /\ \A a \in Addr \ (d .. d + n - 1) : copy[a] = mem[a]

(* strncmp() orders strings, not what lies behind their ends, and two names *)
(* that strncpy() has stored are equal exactly when memcmp() says so of     *)
(* their whole fields (string.c:15-29, 68-89; fs.c:672-675).                *)
ComparesStrings ==
  \A p, q \in Addr, n \in 0 .. NMEM : Fits(p, n) /\ Fits(q, n) =>
    LET field(s) == strncpy([a \in -NMEM .. NMEM |-> IF a < 0 THEN 0 ELSE IF a < NMEM THEN mem[a] ELSE 0],
                            -n, s, n)
        joined == [a \in 0 .. 2 * n |-> IF a < n THEN field(p)[a - n] ELSE field(q)[a - 2 * n]]
    IN /\ strncmp(mem, p, q, n) = 0 <=> n = 0 \/ memcmp(joined, 0, n, n) = 0
       /\ strncmp(mem, p, q, n) > 0 <=> memcmp(joined, 0, n, n) > 0
=============================================================================
