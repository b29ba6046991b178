----------------------------- MODULE ArchiveIter -----------------------------
(***************************************************************************)
(* Iterators on the record of an open archive (core/carbon/archive_iter.c  *)
(* and archive_int.c).  A property iterator goes through the groups of an  *)
(* object that a mask lets through; what a group holds is found by the     *)
(* offsets, which count from the root object.                              *)
(***************************************************************************)
EXTENDS ArchiveFile

(* A mask has bits for properties, for arrays and for each type. *)
MaskAny == {"prop", "array"} \cup TypeSet

(* The cursor before the first group and behind the last *)
INIT == 0

DONE == Len(Kinds) + 1

List(r, at, n) == [i \in 1..n |-> r[at + i].v]

-----------------------------------------------------------------------------
(* init_object_from_memfile, int_read_prop_offsets: an object is known by  *)
(* its place.  No group has the offset 0, which stands for none.           *)

PropOffsets(r, off) ==
    LET flags == r[off + 1].v.flags
        offset(kind) == LET i == SelectInSeq(flags, LAMBDA k : k = kind)
                        IN  IF i = 0 THEN 0 ELSE r[off + 1 + i].v
    IN  [kind \in KindSet |-> offset(kind)]

NextObject(r, off) == r[off + 2 + Len(r[off + 1].v.flags)].v

ObjectId(r, off) == r[off + 1].v.oid

(* Mutation of the operator that follows: one bit of two is enough. *)
PassesEither(mask, kind) == kind[1] \in mask \/ kind[2] \in mask

Passes(mask, kind) == kind[1] \in mask /\ kind[2] \in mask

(* prop_iter_state_next *)
Advanced(r, off, mask, cursor) ==
    LET offsets == PropOffsets(r, off)
        ahead == {c \in (cursor + 1)..Len(Kinds) :
                    offsets[Kinds[c]] # 0 /\ Passes(mask, Kinds[c])}
    IN  IF ahead = {} THEN DONE ELSE Min(ahead)

-----------------------------------------------------------------------------
(* The value vector of a group: the keys, and values by their index.  An   *)
(* array begins behind all those before it.                                *)

VectorKeys(r, at) == List(r, at + 1, r[at + 1].v.entries)

ArrayAt(r, base, lengths, i) ==
    List(r, base + FoldLeft(LAMBDA a, m : a + m, 0, SubSeq(lengths, 1, i - 1)), lengths[i])

-----------------------------------------------------------------------------
(* The objects of an entry of a column: the first one stands behind their  *)
(* number, and each knows the next.                                        *)

RECURSIVE NextObjects(_, _)

NextObjects(r, off) == IF off = 0 THEN <<>> ELSE <<off>> \o NextObjects(r, NextObject(r, off))

EntryObjects(r, at) == NextObjects(r, at + 1)

RECURSIVE Visited(_, _, _)

(* prop_iter_read_column and prop_iter_read_colum_entry *)
EntryValues(r, type, at, mask) ==
    IF type = "object"
    THEN LET objects == EntryObjects(r, at)
         IN  [i \in DOMAIN objects |-> Visited(r, objects[i], mask)]
    ELSE List(r, at + 1, r[at + 1].v)

ColumnAt(r, at, mask) ==
    LET h == r[at + 1].v
        offsets == List(r, at + 1, h.entries)
    IN  Column(h.name, h.type, List(r, at + 1 + h.entries, h.entries),
               [i \in DOMAIN offsets |-> EntryValues(r, h.type, offsets[i], mask)])

(* collection_iter_read_next_column_group *)
ColumnsAt(r, at, mask) ==
    LET h == r[at + 1].v
        offsets == List(r, at + 1 + h.objects, h.columns)
    IN  [i \in DOMAIN offsets |-> ColumnAt(r, offsets[i], mask)]

GroupObjectIds(r, at) == List(r, at + 1, r[at + 1].v.objects)

Collection(r, at, mask) ==
    LET n == r[at + 1].v
        keys == List(r, at + 1, n)
        offsets == List(r, at + 1 + n, n)
    IN  [i \in 1..n |-> Group(keys[i], ColumnsAt(r, offsets[i], mask))]

VectorValue(r, kind, data, n, mask, i) ==
    CASE kind = <<"prop", "null">> -> 0
      [] kind = <<"prop", "object">> -> Visited(r, r[data + i].v, mask)
      [] (kind[1] = "prop") # (kind[2] = "null") /\ kind # <<"prop", "object">> -> r[data + i].v
      [] OTHER -> ArrayAt(r, data + n, List(r, data, n), i)

(* archive_prop_iter_next: what the group at the cursor holds.             *)
Current(r, off, mask, cursor) ==
    LET kind == Kinds[cursor]
        at == PropOffsets(r, off)[kind]
        keys == VectorKeys(r, at)
        n == Len(keys)
    IN  IF kind = <<"array", "object">> THEN Collection(r, at, mask)
        ELSE [i \in 1..n |-> Pair(keys[i], VectorValue(r, kind, at + 1 + n, n, mask, i))]

(* All groups of an object, in one go. *)
Visited(r, off, mask) ==
    [kind \in KindSet |->
       IF PropOffsets(r, off)[kind] # 0 /\ Passes(mask, kind)
       THEN Current(r, off, mask, CHOOSE c \in DOMAIN Kinds : Kinds[c] = kind)
       ELSE <<>>]
=============================================================================
