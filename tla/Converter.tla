------------------------------ MODULE Converter ------------------------------
(***************************************************************************)
(* From an archive back to JSON.  A visitor goes through the objects of    *)
(* the record (core/carbon/archive_visitor.c) and calls the converter      *)
(* (archive_converter.c), which keeps a document for each identifier of an *)
(* object (json/encoded_doc.c); the first one made is printed.             *)
(***************************************************************************)
EXTENDS ArchiveIter

Call(name, oid, key, type, values) ==
    [name |-> name, oid |-> oid, key |-> key, type |-> type, values |-> values]

-----------------------------------------------------------------------------
(* iterate_props, as the calls it makes.  Two things are read before they  *)
(* are set: the identifier of the object (garbage), which is known with    *)
(* the first group that is no array of objects, and the flags that exclude *)
(* objects of a group (stale), which are looked up by the column.          *)

(* The calls for each of n things. *)
ForEach(n, Calls(_)) == FlattenSeq(Each([i \in 1..n |-> i], Calls))

RECURSIVE Visit(_, _, _, _)

(* visit_<type>_pairs, and for arrays first all keys and then all values;  *)
(* an array of nulls has its length for its only value.                    *)
VisitPairs(r, oid, kind, at) ==
    LET keys == VectorKeys(r, at)
        n == Len(keys)
        value(i) == VectorValue(r, kind, at + 1 + n, n, MaskAny, i)
    IN  IF kind[1] = "prop"
        THEN [i \in 1..n |-> Call("prop", oid, keys[i], kind[2], <<value(i)>>)]
        ELSE [i \in 1..n |-> Call("array", oid, keys[i], kind[2], <<>>)]
               \o [i \in 1..n |-> Call("push", oid, keys[i], kind[2],
                                       IF kind[2] = "null" THEN <<value(i)>> ELSE value(i))]

(* iterate_objects: the object is appended to its parent before its own    *)
(* properties are visited.  The objects of the root have no parent.        *)
VisitObjects(r, oid, at, isRoot, stale) ==
    LET keys == VectorKeys(r, at)
        object(i) == r[at + 1 + Len(keys) + i].v
        before(i) == IF isRoot THEN Call("root", ObjectId(r, object(i)), keys[i], "object", <<>>)
                     ELSE Call("prop", oid, keys[i], "object", <<ObjectId(r, object(i))>>)
        visit(i) == <<before(i)>> \o Visit(r, object(i), FALSE, stale)
    IN  ForEach(Len(keys), visit)

(* Mutation of the operator that follows: the entries are taken for those  *)
(* of the first objects.                                                   *)
OwnerInTurn(oids, positions, i) == oids[i]

(* The object an entry of a column belongs to. *)
OwnerOf(oids, positions, i) == oids[positions[i] + 1]

(* Objects inside the objects of an array are visited, but nobody is told  *)
(* whose they are.                                                         *)
VisitColumn(r, at, oids, stale) ==
    LET h == r[at + 1].v
        offsets == List(r, at + 1, h.entries)
        positions == List(r, at + 1 + h.entries, h.entries)
        oid(i) == OwnerOf(oids, positions, i)
        nested(i) == LET objects == EntryObjects(r, offsets[i])
                         visit(j) == Visit(r, objects[j], FALSE, stale)
                     IN  ForEach(Len(objects), visit)
        entry(i) == IF h.type = "object" THEN nested(i)
                    ELSE <<Call("array", oid(i), h.name, h.type, <<>>),
                           Call("push", oid(i), h.name, h.type,
                                EntryValues(r, h.type, offsets[i], MaskAny))>>
    IN  ForEach(h.entries, entry)

VisitGroups(r, oid, at, stale) ==
    LET n == r[at + 1].v
        keys == List(r, at + 1, n)
        offsets == List(r, at + 1 + n, n)
        group(i) ==
          LET oids == GroupObjectIds(r, offsets[i])
              columns == List(r, offsets[i] + 1 + Len(oids), r[offsets[i] + 1].v.columns)
              skips(c) == c > Len(oids) /\ stale.skip
              visit(c) == IF skips(c) THEN <<>> ELSE VisitColumn(r, columns[c], oids, stale)
          IN  <<Call("array", oid, keys[i], "object", <<>>), Call("push", oid, keys[i], "object", oids)>>
                \o ForEach(Len(columns), visit)
    IN  ForEach(n, group)

Visit(r, off, isRoot, stale) ==
    LET offsets == PropOffsets(r, off)
        visited == SelectSeq(Kinds, LAMBDA kind : offsets[kind] # 0)
        oid == ObjectId(r, off)
        known == \E i \in DOMAIN visited : visited[i] # <<"array", "object">>
        calls(kind) == CASE kind = <<"prop", "object">> -> VisitObjects(r, oid, offsets[kind], isRoot, stale)
                         [] kind = <<"array", "object">> ->
                              VisitGroups(r, IF known THEN oid ELSE stale.oid, offsets[kind], stale)
                         [] OTHER -> VisitPairs(r, oid, kind, offsets[kind])
    IN  FlattenSeq(Each(visited, calls))

-----------------------------------------------------------------------------
(* encoded_doc.c *)

EncodedDoc(oid) == [oid |-> oid, props |-> <<>>, arrays |-> <<>>]

DocAt(docs, oid) == SelectInSeq(docs, LAMBDA d : d.oid = oid)

GetOrAppend(docs, oid) == IF DocAt(docs, oid) # 0 THEN docs ELSE Append(docs, EncodedDoc(oid))

EncodedProp(call) == [key |-> call.key, type |-> call.type, values |-> call.values]

(* prop_array_index: the last array that was added with a key. *)
ArrayOf(doc, key) == SelectLastInSeq(doc.arrays, LAMBDA a : a.key = key)

Pushed(doc, call) ==
    LET i == ArrayOf(doc, call.key)
    IN  IF i = 0 \/ doc.arrays[i].type # call.type THEN doc
        ELSE [doc EXCEPT !.arrays[i].values = @ \o call.values]

(* The callbacks: a child is made before it is linked to its parent.       *)
Converted(docs, call) ==
    LET own == GetOrAppend(docs, call.oid)
        all == IF call.name = "prop" /\ call.type = "object" THEN GetOrAppend(own, call.values[1]) ELSE own
        i == DocAt(all, call.oid)
    IN  CASE call.name = "root" -> own
          [] call.name = "prop" -> [all EXCEPT ![i].props = Append(@, EncodedProp(call))]
          [] call.name = "array" -> [all EXCEPT ![i].arrays = Append(@, EncodedProp(call))]
          [] call.name = "push" -> [all EXCEPT ![i] = Pushed(@, call)]

(* archive_converter *)
Convert(r, stale) == FoldLeft(Converted, <<>>, Visit(r, 0, TRUE, stale))

-----------------------------------------------------------------------------
(* doc_print_pretty, as the JSON value it writes.  A boolean that is no    *)
(* element is written as a text, and null is recognised in arrays only.    *)

Quoted(word) == [kind |-> "quoted", word |-> word]

PrintedWord(v) == IF v = 0 THEN Word("false") ELSE Word("true")

PrintedValue(type, v) ==
    CASE type = "string" -> Text(TextOf(v))
      [] type = "null" -> Word("null")
      [] type = "bool" -> PrintedWord(v)
      [] OTHER -> Number(v, type = "float")

PrintedElement(type, v) == IF type # "null" /\ IsNull(type, v) THEN Word("null") ELSE PrintedValue(type, v)

RECURSIVE PrintDoc(_, _)

PrintedProp(docs, p) ==
    CASE p.type = "object" -> PrintDoc(docs, p.values[1])
      [] p.type = "bool" -> Quoted(PrintedWord(p.values[1]))
      [] OTHER -> PrintedValue(p.type, p.values[1])

(* One value is written without brackets. *)
PrintedArray(docs, a) ==
    LET items == [i \in DOMAIN a.values |->
                    IF a.type = "object" THEN PrintDoc(docs, a.values[i])
                    ELSE PrintedElement(a.type, a.values[i])]
    IN  IF Len(items) = 1 THEN items[1] ELSE Array(items)

(* A document nobody made is made now, and empty. *)
PrintDoc(docs, oid) ==
    LET i == DocAt(docs, oid)
        doc == IF i = 0 THEN EncodedDoc(oid) ELSE docs[i]
        member(p, value) == Member(TextOf(p.key), value)
    IN  Object([k \in DOMAIN doc.props |-> member(doc.props[k], PrintedProp(docs, doc.props[k]))]
                 \o [k \in DOMAIN doc.arrays |-> member(doc.arrays[k], PrintedArray(docs, doc.arrays[k]))])

(* encoded_doc_collection_print *)
Printed(docs) == IF docs = <<>> THEN Word("null") ELSE PrintDoc(docs, docs[1].oid)
=============================================================================
