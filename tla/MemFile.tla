------------------------------- MODULE MemFile -------------------------------
(***************************************************************************)
(* A file in memory (core/mem/file.c) on a block that grows                *)
(* (core/mem/block.c), open for reading and writing.  A cell holds one     *)
(* value of the file format, whatever its bytes.                           *)
(***************************************************************************)
EXTENDS Integers, Sequences

CONSTANT Unset  \* what is in a cell that was never written

Cell(tag, v) == [tag |-> tag, v |-> v]

Cells(tag, values) == [i \in DOMAIN values |-> Cell(tag, values[i])]

(* memblock_create and memfile_open: the block, the position in it, and    *)
(* the end of the last write (lastByte).                                   *)
Open(size) == [block |-> [i \in 1..size |-> Unset], pos |-> 0, last |-> 0]

(* memblock_resize: what is new is not set to anything. *)
Resized(f, size) ==
    [f EXCEPT !.block = SubSeq(@ \o [i \in 1..size |-> Unset], 1, size)]

(* The block grows to 1.7 times of what is required, as soon as that is    *)
(* all it has.                                                             *)
Room(f, required) == IF required >= Len(f.block) THEN Resized(f, (17 * required) \div 10) ELSE f

Seek(f, pos) == [(IF pos >= Len(f.block) THEN Resized(f, pos + 1) ELSE f) EXCEPT !.pos = pos]

Skip(f, n) == [Room(f, f.pos + n) EXCEPT !.pos = f.pos + n]

(* memblock_write: a write up to the very end is refused, and so nothing   *)
(* is written.                                                             *)
Stores(f, n) == f.pos + n < Len(f.block)

Overwritten(block, pos, cells) ==
    SubSeq(block, 1, pos) \o cells \o SubSeq(block, pos + Len(cells) + 1, Len(block))

Write(f, cells) ==
    LET n == Len(cells)
        g == Room(f, f.pos + n)
    IN  IF n = 0 THEN f
        ELSE IF ~Stores(g, n) THEN g
        ELSE [g EXCEPT !.block = Overwritten(@, f.pos, cells),
                       !.pos = f.pos + n,
                       !.last = IF f.pos + n > @ THEN f.pos + n ELSE @]

(* memfile_shrink *)
Shrink(f) == Resized(f, f.last)

(* A slot that was skipped is written when its value is known, and writing *)
(* goes on where it was.                                                   *)
Patch(f, slot, cell) == Seek(Write(Seek(f, slot), <<cell>>), f.pos)
=============================================================================
