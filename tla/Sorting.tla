------------------------------- MODULE Sorting -------------------------------
(***************************************************************************)
(* The quicksort of sort.c and sort.h.  It does not move what it sorts but *)
(* an array of indices; the segments still to be partitioned wait on a     *)
(* stack of as many cells as there are indices, two for each segment.      *)
(***************************************************************************)
EXTENDS Integers, Sequences

(* NG5_QSORT_INDICES_SWAP *)
Swapped(s, i, j) == [s EXCEPT ![i] = s[j], ![j] = s[i]]

(* The loop of NG5_QSORT_INDICIES_PARTITION looks at the element at j: if  *)
(* it is less than or equal to the pivot it goes behind those that are,    *)
(* whose last position is a.i.  leq is the comparison function as a table. *)
(* Mutation: an element that is not follows them as well.                  *)
LookedAtBlindly(a, j, pivot, leq) ==
    IF leq[a.order[j], pivot]
    THEN [order |-> Swapped(a.order, a.i + 1, j), i |-> a.i + 1]
    ELSE [a EXCEPT !.i = a.i + 1]

LookedAt(a, j, pivot, leq) ==
    IF leq[a.order[j], pivot]
    THEN [order |-> Swapped(a.order, a.i + 1, j), i |-> a.i + 1]
    ELSE a

(* The loop after each of its rounds.  The last element is the pivot. *)
Scanned(order, l, h, leq) ==
    LET scan[k \in 0..(h - l)] ==
            IF k = 0 THEN [order |-> order, i |-> l - 1]
            ELSE LookedAt(scan[k - 1], l + k - 1, order[h], leq)
    IN  scan

Partition(order, l, h, leq) ==
    LET scan == Scanned(order, l, h, leq)[h - l]
    IN  [order |-> Swapped(scan.order, scan.i + 1, h), at |-> scan.i + 1]

(* One round of sort_qsort_indicies: the segment on top of the stack is    *)
(* partitioned, and its parts of two elements and more go on the stack.    *)
Round(s, leq) ==
    LET below == SubSeq(s.stack, 1, Len(s.stack) - 1)
        l == s.stack[Len(s.stack)][1]
        h == s.stack[Len(s.stack)][2]
        p == Partition(s.order, l, h, leq)
        left == IF p.at - 1 > l THEN Append(below, <<l, p.at - 1>>) ELSE below
    IN  [order |-> p.order,
         stack |-> IF p.at + 1 < h THEN Append(left, <<p.at + 1, h>>) ELSE left]

(* The loop of sort_qsort_indicies for n elements after k rounds. *)
Rounds(n, leq) ==
    LET after[k \in 0..n] ==
            IF k = 0 THEN [order |-> [i \in 1..n |-> i],
                           stack |-> IF n <= 1 THEN <<>> ELSE <<<<1, n>>>>]
            ELSE LET s == after[k - 1]
                 IN  IF s.stack = <<>> THEN s ELSE Round(s, leq)
    IN  after

(* sort_qsort_indicies: it is over after n rounds.                         *)
Quicksort(n, leq) == Rounds(n, leq)[n].order

(* What the users of the sort do: they set the indices to 0, 1 and so on,  *)
(* sort them and copy the elements in their order.                         *)
Sorted(s, Leq(_, _)) ==
    LET n == Len(s)
        order == Quicksort(n, [i, j \in 1..n |-> Leq(s[i], s[j])])
    IN  [i \in 1..n |-> s[order[i]]]
=============================================================================
