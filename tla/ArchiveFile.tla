----------------------------- MODULE ArchiveFile -----------------------------
(***************************************************************************)
(* An archive (core/carbon/archive.c): a header, the table of strings, the *)
(* header of the record, the record and perhaps an index, which is baked   *)
(* into a copy.  The table and the index are one cell each.                *)
(***************************************************************************)
EXTENDS Record

CONSTANT BlockSize  \* the size of a new block, in cells

-----------------------------------------------------------------------------
(* archive_from_model.  The header of the file is written when the place   *)
(* of the record is known, and that of the record when its size is.        *)

FileHeader(record, index) == Cell("archive", [record |-> record, index |-> index])

RecordHeader(sorted, size) == Cell("record", [sorted |-> sorted, size |-> size])

NewFile == LET f == Open(BlockSize)
           IN  [block |-> f.block, pos |-> f.pos, last |-> f.last, oids |-> 0]

FromModel(columns, read_optimized) ==
    LET table == Write(Skip(NewFile, 1), <<Cell("strings", 0)>>)
        root == table.pos + 1
        record == Serialize(Patch(Skip(table, 1), 0, FileHeader(table.pos, 0)), columns, root)
    IN  Shrink(Patch(record, table.pos, RecordHeader(read_optimized, record.pos - root))).block

(* run_string_id_baking, on a copy that could be opened.                   *)
Baked(stream) ==
    Append([stream EXCEPT ![1] = FileHeader(@.v.record, Len(stream))], Cell("index", 0))

-----------------------------------------------------------------------------
(* archive_open: what it makes of a file, which may be the beginning of    *)
(* what was to be written.                                                 *)

Refused == [open |-> FALSE, sorted |-> FALSE, record |-> <<>>, indexed |-> FALSE, indexSize |-> 0]

Opened(file) ==
    IF Len(file) < 3 \/ file[1].v.record = 0 THEN Refused
    ELSE LET h == file[1].v
             at == h.record
             r == file[at + 1].v
         IN  IF at + 1 + r.size > Len(file) \/ h.index >= Len(file) THEN Refused
             ELSE [open |-> TRUE,
                   sorted |-> r.sorted,
                   record |-> SubSeq(file, at + 2, at + 1 + r.size),
                   indexed |-> h.index # 0,
                   indexSize |-> Len(file) - h.index]

-----------------------------------------------------------------------------
(* print_archive reads a stream from front to end and by its markers: it   *)
(* follows none of the offsets.  A result has where it stopped.            *)

Values_(r, at, n) == [i \in 1..n |-> r[at + i].v]

RECURSIVE PrintObject(_, _), PrintObjects(_, _), PrintProps(_, _, _), PrintElements(_, _, _)

(* Objects as long as one follows the other. *)
PrintObjects(r, at) ==
    LET o == PrintObject(r, at)
        rest == IF r[o.at + 1].tag = "object" THEN PrintObjects(r, o.at)
                ELSE [objects |-> <<>>, at |-> o.at]
    IN  [objects |-> <<o.obj>> \o rest.objects, at |-> rest.at]

(* A number of objects *)
PrintElements(r, at, n) ==
    FoldLeft(LAMBDA a, i : LET o == PrintObject(r, a.at)
                           IN  [objects |-> Append(a.objects, o.obj), at |-> o.at],
             [objects |-> <<>>, at |-> at], [i \in 1..n |-> i])

(* print_column_form_memfile *)
PrintColumn(r, at) ==
    LET h == r[at + 1].v
        n == h.entries
        entry(p) == LET m == r[p + 1].v IN
                    IF h.type = "object"
                    THEN LET es == PrintElements(r, p + 1, m) IN [values |-> es.objects, at |-> es.at]
                    ELSE [values |-> Values_(r, p + 1, m), at |-> p + 1 + m]
        all == FoldLeft(LAMBDA a, i : LET e == entry(a.at)
                                      IN  [entries |-> Append(a.entries, e.values), at |-> e.at],
                        [entries |-> <<>>, at |-> at + 1 + 2 * n], [i \in 1..n |-> i])
    IN  [column |-> Column(h.name, h.type, Values_(r, at + 1 + n, n), all.entries), at |-> all.at]

PrintGroup(r, at) ==
    LET h == r[at + 1].v
    IN  FoldLeft(LAMBDA a, i : LET c == PrintColumn(r, a.at)
                               IN  [columns |-> Append(a.columns, c.column), at |-> c.at],
                 [columns |-> <<>>, at |-> at + 1 + h.objects + h.columns], [i \in 1..h.columns |-> i])

(* print_object_array_from_memfile *)
PrintGroups(r, at) ==
    LET n == r[at + 1].v
        keys == Values_(r, at + 1, n)
    IN  FoldLeft(LAMBDA a, i : LET g == PrintGroup(r, a.at)
                               IN  [pairs |-> Append(a.pairs, Group(keys[i], g.columns)), at |-> g.at],
                 [pairs |-> <<>>, at |-> at + 1 + 2 * n], [i \in 1..n |-> i])

Pairs(keys, vals) == [i \in DOMAIN keys |-> Pair(keys[i], vals[i])]

PrintGroupOfProps(r, at) ==
    LET kind == r[at + 1].v.kind
        n == r[at + 1].v.entries
        keys == Values_(r, at + 1, n)
        data == at + 1 + n
    IN  CASE kind = <<"prop", "null">> ->
               [pairs |-> Pairs(keys, [i \in 1..n |-> 0]), at |-> data]
          [] kind = <<"prop", "object">> ->
               LET os == PrintObjects(r, data + n)
               IN  [pairs |-> Pairs(keys, os.objects), at |-> os.at]
          [] (kind[1] = "prop") # (kind[2] = "null") /\ kind # <<"prop", "object">> ->
               [pairs |-> Pairs(keys, Values_(r, data, n)), at |-> data + n]
          [] OTHER ->
               LET lengths == Values_(r, data, n)
                   all == FoldLeft(LAMBDA a, m : [arrays |-> Append(a.arrays, Values_(r, a.at, m)),
                                                  at |-> a.at + m],
                                   [arrays |-> <<>>, at |-> data + n], lengths)
               IN  [pairs |-> Pairs(keys, all.arrays), at |-> all.at]

PrintProps(r, at, obj) ==
    CASE r[at + 1].tag = "end" -> [obj |-> obj, at |-> at + 1]
      [] r[at + 1].tag = "groups" ->
           LET g == PrintGroups(r, at)
           IN  PrintProps(r, g.at, [obj EXCEPT ![<<"array", "object">>] = g.pairs])
      [] r[at + 1].tag = "props" ->
           LET g == PrintGroupOfProps(r, at)
           IN  PrintProps(r, g.at, [obj EXCEPT ![r[at + 1].v.kind] = g.pairs])

PrintObject(r, at) == PrintProps(r, at + 2 + Len(r[at + 1].v.flags), EmptyColumns)

PrintArchive(stream) == PrintObject(stream, stream[1].v.record + 1)
=============================================================================
