------------------------------ MODULE Umalloc ------------------------------
(***************************************************************************)
(* The user heap (user/umalloc.c): malloc(), free() and morecore() on the  *)
(* circular free list.  Addresses count headers (units); base, the list's  *)
(* first header, lies below the heap and touches nothing.                  *)
(***************************************************************************)
EXTENDS Naturals, FiniteSets

CONSTANTS MINCORE,     \* 4096 units in the code
          HEAPMAX,     \* bound: units that sbrk() gives in all
          Sizes,       \* bound: units asked for, the header not counted
          MaxBlocks    \* bound: blocks allocated at once

BASE  == 0
START == 2             \* the first unit of the heap
Unit  == START .. START + HEAPMAX - 1

VARIABLES ptr, size,   \* of the header at each address; 0 where there is none
          freep,       \* the list's rover; 1 before the first malloc()
          brk,         \* the end of the heap
          blocks,      \* blocks handed out: the address of the header, units
          gap          \* history: someone else has called sbrk()

vars == <<ptr, size, freep, brk, blocks, gap>>
NULL == 1

Init ==
  /\ ptr = [a \in Unit \cup {BASE} |-> 0] /\ size = [a \in Unit \cup {BASE} |-> 0]
  /\ freep = NULL /\ brk = START /\ blocks = {} /\ gap = {}

-----------------------------------------------------------------------------
(* A heap: [ptr, size, freep].  The place of a block in free(): the header  *)
(* p that it follows in address order, or the one where the list wraps.     *)
Heap == [ptr |-> ptr, size |-> size, freep |-> freep]

RECURSIVE Place(_, _, _)
Place(h, bp, p) ==
  LET q == h.ptr[p]
  IN IF (bp > p /\ bp < q) \/ (p >= q /\ (bp > p \/ bp < q)) THEN p ELSE Place(h, bp, q)

Freed(h, bp) ==
  LET p  == Place(h, bp, h.freep)
      q  == h.ptr[p]
      up == bp + h.size[bp] = q
      s1 == IF up THEN h.size[bp] + h.size[q] ELSE h.size[bp]
      n1 == IF up THEN h.ptr[q] ELSE q
      dn == p + h.size[p] = bp
  IN [ptr   |-> IF dn THEN [h.ptr EXCEPT ![p] = n1]
                ELSE [h.ptr EXCEPT ![bp] = n1, ![p] = bp],
      size  |-> IF dn THEN [h.size EXCEPT ![p] = @ + s1] ELSE [h.size EXCEPT ![bp] = s1],
      freep |-> p]

\* The header before the one malloc() takes from, walking from prevp: the
\* first that is large enough, or NULL once the walk is back at freep
RECURSIVE Fit(_, _, _)
Fit(h, prevp, n) ==
  LET p == h.ptr[prevp]
  IN IF h.size[p] >= n THEN prevp
     ELSE IF p = h.freep THEN NULL ELSE Fit(h, p, n)

\* mutant: the tail that is handed out keeps the whole block's size free
TakenWhole(h, prevp, n) ==
  LET p == h.ptr[prevp]
  IN [at |-> p + h.size[p] - n,
      heap |-> [h EXCEPT !.size = [@ EXCEPT ![p + h.size[p] - n] = n], !.freep = prevp]]

Taken(h, prevp, n) ==
  LET p == h.ptr[prevp]
      a == p + h.size[p] - n
  IN IF h.size[p] = n
     THEN [at |-> p, heap |-> [h EXCEPT !.ptr[prevp] = h.ptr[p], !.freep = prevp]]
     ELSE [at |-> a, heap |-> [h EXCEPT !.size = [@ EXCEPT ![p] = @ - n, ![a] = n],
                                        !.freep = prevp]]

Listed == IF freep = NULL
          THEN [Heap EXCEPT !.ptr[BASE] = BASE, !.size[BASE] = 0, !.freep = BASE]
          ELSE Heap

SetHeap(h) == ptr' = h.ptr /\ size' = h.size /\ freep' = h.freep

Give(t, n) ==
  /\ SetHeap(t.heap)
  /\ blocks' = blocks \cup {[at |-> t.at, units |-> n]}

(* malloc() of k units: the first fit, or one in the heap that morecore()   *)
(* has enlarged, or nothing.                                                *)
Malloc(k) ==
  LET n    == k + 1
      core == IF n < MINCORE THEN MINCORE ELSE n
      f    == Fit(Listed, Listed.freep, n)
      h    == Freed([Listed EXCEPT !.size[brk] = core], brk)
  IN /\ Cardinality(blocks) < MaxBlocks
     /\ \/ /\ f # NULL
           /\ Give(Taken(Listed, f, n), n)
           /\ UNCHANGED brk
        \/ /\ f = NULL /\ brk + core <= START + HEAPMAX
           /\ brk' = brk + core
           /\ Give(Taken(h, Fit(h, h.freep, n), n), n)
        \/ /\ f = NULL                         \* sbrk() fails
           /\ SetHeap(Listed)
           /\ UNCHANGED <<brk, blocks>>
     /\ UNCHANGED gap

Free(b) ==
  /\ SetHeap(Freed(Heap, b.at))
  /\ blocks' = blocks \ {b}
  /\ UNCHANGED <<brk, gap>>

\* sbrk() called by the program itself: the heap has a hole.
Sbrk ==
  /\ brk + 1 <= START + HEAPMAX /\ gap = {}
  /\ brk' = brk + 1 /\ gap' = gap \cup {brk}
  /\ UNCHANGED <<ptr, size, freep, blocks>>

Next == (\E k \in Sizes : Malloc(k)) \/ (\E b \in blocks : Free(b)) \/ Sbrk

Spec == Init /\ [][Next]_vars

-----------------------------------------------------------------------------
(* Properties.                                                              *)

RECURSIVE Walk(_, _)
Walk(p, seen) == IF p \in seen THEN seen ELSE Walk(ptr[p], seen \cup {p})
FreeHeaders == IF freep = NULL THEN {} ELSE Walk(freep, {})
Units(a, n) == a .. a + n - 1

(* Every unit of the heap is in exactly one free block or block handed out: *)
(* splitting and joining lose none, and no block overlaps another           *)
(* (umalloc.c:24-44, 63-90).                                                *)
UnitsOnce ==
  \A u \in START .. brk - 1 :
    u \notin gap =>
      Cardinality({h \in FreeHeaders : u \in Units(h, size[h])})
        + Cardinality({b \in blocks : u \in Units(b.at, b.units)}) = 1

(* The free list is one circle in address order, and its blocks never touch *)
(* (umalloc.c:29-43).                                                       *)
ListSorted ==
  freep # NULL =>
    /\ BASE \in FreeHeaders
    /\ \A h \in FreeHeaders :
         ptr[h] > h \/ (ptr[h] = BASE /\ \A g \in FreeHeaders : g <= h)
    /\ \A h \in FreeHeaders \ {BASE} : h + size[h] \notin FreeHeaders
=============================================================================
