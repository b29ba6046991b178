-------------------------------- MODULE Record --------------------------------
(***************************************************************************)
(* The record of an archive: an object by columns is serialised into a     *)
(* file, with an offset for each of its groups of properties, for each     *)
(* nested object and for each column (core/carbon/archive.c).  Offsets are *)
(* written into slots that were skipped; they count from the root object.  *)
(***************************************************************************)
EXTENDS Columns, MemFile

(* get_flags: the groups an object has, in the order of their offsets. *)
Flags(obj) == SelectSeq(Kinds, LAMBDA kind : obj[kind] # <<>>)

Keys(pairs) == Cells("key", [i \in DOMAIN pairs |-> pairs[i].key])

Vals(pairs) == [i \in DOMAIN pairs |-> pairs[i].val]

PropHeader(kind, pairs) == <<Cell("props", [kind |-> kind, entries |-> Len(pairs)])>>

(* write_fixed_props: nulls have keys only. *)
WriteFixedProps(f, kind, pairs) ==
    Write(Write(Write(f, PropHeader(kind, pairs)), Keys(pairs)),
          IF kind[2] = "null" THEN <<>> ELSE Cells("value", Vals(pairs)))

(* write_array_prop: the lengths, but for nulls, and all elements. *)
WriteArrayProp(f, kind, pairs) ==
    LET g == Write(Write(f, PropHeader(kind, pairs)), Keys(pairs))
    IN  IF kind[2] = "null" THEN Write(g, Cells("value", Vals(pairs)))
        ELSE Write(Write(g, Cells("length", [i \in DOMAIN pairs |-> Len(pairs[i].val)])),
                   Cells("value", FlattenSeq(Vals(pairs))))

RECURSIVE Serialize(_, _, _), WritePart(_, _, _, _), WriteParts(_, _, _, _, _)

(* Parts are written one behind the other, and where each of them begins   *)
(* is noted.  Where there are slots, its slot is patched before.           *)
WriteParts(a, sort, slots, parts, root) ==
    LET i == Len(a.offsets) + 1
        offset == a.f.pos - root
        g == IF slots = 0 THEN a.f ELSE Patch(a.f, slots + i - 1, Cell("offset", offset))
    IN  IF i > Len(parts) THEN a
        ELSE WriteParts([f |-> WritePart(g, sort, parts[i], root), offsets |-> Append(a.offsets, offset)],
                        sort, slots, parts, root)

Nothing(f) == [f |-> f, offsets |-> <<>>]

(* Parts behind one slot for each. *)
WriteEach(f, sort, parts, root) ==
    WriteParts(Nothing(Skip(f, Len(parts))), sort, f.pos, parts, root).f

(* write_var_props: the offsets of the objects follow the keys, and are    *)
(* written when all objects are.                                           *)
WriteVarProps(f, kind, pairs, root) ==
    LET g == Write(Write(f, PropHeader(kind, pairs)), Keys(pairs))
        all == WriteParts(Nothing(Skip(g, Len(pairs))), "object", 0, Vals(pairs), root)
    IN  Seek(Write(Seek(all.f, g.pos), Cells("offset", all.offsets)), all.f.pos)

(* Where the slot for the next object is in one that begins here. *)
NextSlot(at, obj) == at + 1 + Len(Flags(obj))

(* Mutation of the operator that follows: the object stays the last one.   *)
LinkedNot(f, slot, root) == f

Linked(f, slot, root) == Patch(f, slot, Cell("next", f.pos - root))

(* write_column_entry: each object of an entry is told where the next is.  *)
RECURSIVE WriteObjects(_, _, _)

WriteObjects(f, objects, root) ==
    LET g == Serialize(f, Head(objects), root)
    IN  IF Len(objects) = 1 THEN g
        ELSE WriteObjects(Linked(g, NextSlot(f.pos, Head(objects)), root), Tail(objects), root)

WriteColumnEntry(f, type, entry, root) ==
    LET g == Write(f, <<Cell("count", Len(entry))>>)
    IN  IF type = "object" THEN WriteObjects(g, entry, root) ELSE Write(g, Cells("value", entry))

WriteColumn(f, c, root) ==
    LET n == Len(c.entries)
        g == Write(f, <<Cell("column", [name |-> c.name, type |-> c.type, entries |-> n])>>)
        h == Write(Skip(g, n), Cells("position", c.positions))
    IN  WriteParts(Nothing(h), IF c.type = "object" THEN "objects" ELSE "values", g.pos, c.entries, root).f

NumObjects(group) ==
    1 + Max({0} \cup UNION {ToSet(group.columns[i].positions) : i \in DOMAIN group.columns})

(* An identifier for each object, although only its fields are kept. *)
WriteGroup(f, group, root) ==
    LET n == NumObjects(group)
        g == Write(f, <<Cell("group", [columns |-> Len(group.columns), objects |-> n])>>)
        h == [Write(g, Cells("oid", [i \in 1..n |-> f.oids + i])) EXCEPT !.oids = f.oids + n]
    IN  WriteEach(h, "column", group.columns, root)

WriteObjectArrayProps(f, groups, root) ==
    WriteEach(Write(Write(f, <<Cell("groups", Len(groups))>>), Keys(groups)), "group", groups, root)

WriteKind(f, kind, pairs, root) ==
    CASE kind = <<"prop", "object">> -> WriteVarProps(f, kind, pairs, root)
      [] kind = <<"array", "object">> -> WriteObjectArrayProps(f, pairs, root)
      [] kind[1] = "prop" /\ kind[2] # "object" -> WriteFixedProps(f, kind, pairs)
      [] OTHER -> WriteArrayProp(f, kind, pairs)

WritePart(f, sort, part, root) ==
    CASE sort = "object" -> Serialize(f, part, root)
      [] sort = "values" -> WriteColumnEntry(f, "value", part, root)
      [] sort = "objects" -> WriteColumnEntry(f, "object", part, root)
      [] sort = "column" -> WriteColumn(f, part, root)
      [] sort = "group" -> WriteGroup(f, part, root)
      [] sort = "kind" -> WriteKind(f, part.kind, part.pairs, root)

(* __serialize: the header and the offsets of the groups come first in the *)
(* file and are written last; the identifier is made then.                 *)
Serialize(f, obj, root) ==
    LET flags == Flags(obj)
        g == Write(Skip(f, 1 + Len(flags)), <<Cell("next", 0)>>)
        all == WriteParts(Nothing(g), "kind", 0, Each(flags, LAMBDA k : [kind |-> k, pairs |-> obj[k]]), root)
        end == Write(all.f, <<Cell("end", 0)>>)
        oid == end.oids + 1
        header == Write(Seek(end, f.pos),
                        <<Cell("object", [oid |-> oid, flags |-> flags])>>
                          \o Cells("offset", all.offsets))
    IN  [Seek(header, end.pos) EXCEPT !.oids = oid]
=============================================================================
