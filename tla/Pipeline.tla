------------------------------- MODULE Pipeline -------------------------------
(***************************************************************************)
(* The way of one JSON text through the system: archive_from_json and      *)
(* archive_from_model (core/carbon/archive.c) parse, test and import it as *)
(* columns, serialise them, bake an index and write a file, which is then  *)
(* opened, iterated over, converted back and closed.  The process may end  *)
(* while the file is written; the file then holds a beginning.             *)
(***************************************************************************)
EXTENDS Json, Converter

CONSTANTS Masks,    \* the masks iterators are opened with
          StaleOids \* what may be in an identifier that was not set

VARIABLES options,  \* read_optimized and bake_string_id_index
          columns,  \* the columndoc, and an empty one before there is one
          stream,   \* the archive in memory
          file,     \* the archive on disk
          archive,  \* what archive_open made of it
          iterator,     \* an iterator: its object, mask and cursor, and the groups it returned
          docs      \* the documents the converter made

archiveVars == <<options, columns, stream, file, archive, iterator, docs>>

vars == <<parserVars, archiveVars>>

NoIter == [at |-> 0, mask |-> {}, cursor |-> DONE, seen |-> <<>>]

Init == /\ ParserInit
        /\ options = [read_optimized |-> FALSE, bake |-> FALSE]
        /\ columns = EmptyColumns
        /\ stream = <<>>
        /\ file = <<>>
        /\ archive = Refused
        /\ iterator = NoIter
        /\ docs = <<>>

-----------------------------------------------------------------------------
(* archive_stream_from_json: the text is parsed and tested, and imported.  *)

ParseText == ParserNext /\ UNCHANGED archiveVars

(* What none of the steps behind changes. *)
Given == <<input, tokens, brackets, memory, json>>

(* What becomes of the import.  What the process does not survive, and     *)
(* what the language leaves open, is not followed any further.             *)
Outcome == CASE ~Importable(json) -> "dead"
             [] Importable(json) /\ ~DefinedRoot(json) -> "undefined"
             [] OTHER -> IF 0 \in TextsOf(Document(json)) THEN "dead" ELSE "imported"

Import == /\ status = "passed"
          /\ status' = Outcome
          /\ options' \in [read_optimized : BOOLEAN, bake : BOOLEAN]
          /\ columns' = IF Outcome = "imported"
                        THEN Columnised(Document(json), options'.read_optimized) ELSE columns
          /\ UNCHANGED <<Given, stream, file, archive, iterator, docs>>

WriteStream == /\ status = "imported"
               /\ status' = IF options.bake THEN "written" ELSE "streamed"
               /\ stream' = FromModel(columns, options.read_optimized)
               /\ UNCHANGED <<Given, options, columns, file, archive, iterator, docs>>

(* run_string_id_baking *)
Bake == /\ status = "written"
        /\ IF Opened(stream).open THEN status' = "streamed" /\ stream' = Baked(stream)
           ELSE status' = "unreadable" /\ UNCHANGED stream
        /\ UNCHANGED <<Given, options, columns, file, archive, iterator, docs>>

(* archive_write *)
Store == /\ status = "streamed"
         /\ status' = "stored"
         /\ file' = stream
         /\ UNCHANGED <<Given, options, columns, stream, archive, iterator, docs>>

Crash == /\ status = "streamed"
         /\ status' = "stored"
         /\ \E n \in 0..(Len(stream) - 1) : file' = SubSeq(stream, 1, n)
         /\ stream' = <<>>
         /\ UNCHANGED <<Given, options, columns, archive, iterator, docs>>

-----------------------------------------------------------------------------
(* The clients of an archive *)

OpenArchive == /\ status = "stored"
               /\ archive' = Opened(file)
               /\ status' = IF archive'.open THEN "open" ELSE "unreadable"
               /\ UNCHANGED <<Given, options, columns, stream, file, iterator, docs>>

ObjectPlaces == {at \in 0..(Len(archive.record) - 1) : archive.record[at + 1].tag = "object"}

(* archive_prop_iter_from_archive and archive_prop_iter_from_object *)
IterOpen == /\ status = "open" /\ iterator = NoIter
            /\ \E at \in ObjectPlaces, mask \in Masks :
                 iterator' = [at |-> at, mask |-> mask, cursor |-> INIT, seen |-> <<>>]
            /\ UNCHANGED <<parserVars, options, columns, stream, file, archive, docs>>

(* archive_prop_iter_next *)
IterNext == /\ status = "open" /\ iterator.cursor # DONE
            /\ LET r == archive.record
                   c == Advanced(r, iterator.at, iterator.mask, iterator.cursor)
               IN  iterator' = [iterator EXCEPT !.cursor = c,
                              !.seen = IF c = DONE THEN @
                                       ELSE Append(@, [kind |-> Kinds[c],
                                                       pairs |-> Current(r, iterator.at, MaskAny, c)])]
            /\ UNCHANGED <<parserVars, options, columns, stream, file, archive, docs>>

ConvertBack == /\ status = "open" /\ iterator = NoIter /\ docs = <<>>
               /\ \E oid \in StaleOids, skip \in BOOLEAN :
                    docs' = Convert(archive.record, [oid |-> oid, skip |-> skip])
               /\ UNCHANGED <<parserVars, options, columns, stream, file, archive, iterator>>

Close == /\ status = "open" /\ iterator.cursor = DONE
         /\ status' = "closed"
         /\ archive' = Refused
         /\ iterator' = NoIter
         /\ UNCHANGED <<Given, options, columns, stream, file, docs>>

Next == \/ ParseText \/ Import \/ WriteStream \/ Bake \/ Store \/ Crash
        \/ OpenArchive \/ IterOpen \/ IterNext \/ ConvertBack \/ Close

Spec == Init /\ [][Next]_vars

-----------------------------------------------------------------------------
(* What a JSON value says, apart from how it is written: numbers with and  *)
(* without a fraction are one kind, members have no order, an array of one *)
(* value is this value, and one of nulls is a null.                        *)

RECURSIVE Canon(_)

Canon(v) ==
    CASE v.kind = "number" -> [kind |-> "number", halves |-> IF v.float THEN v.num ELSE 2 * v.num]
      [] v.kind = "quoted" -> v.word
      [] v.kind = "array" ->
           IF \A i \in DOMAIN v.items : v.items[i].kind = "null" THEN Word("null")
           ELSE IF Len(v.items) = 1 THEN Canon(Head(v.items))
           ELSE Array([i \in DOMAIN v.items |-> Canon(v.items[i])])
      [] v.kind = "object" ->
           LET ms == v.members IN
           [kind |-> "record",
            at |-> [name \in {ms[i].name : i \in DOMAIN ms} |->
                     Canon(ms[CHOOSE i \in DOMAIN ms : ms[i].name = name].value)]]
      [] OTHER -> v

(* The JSON value that columns stand for. *)
RECURSIVE AsJson(_)

EntryAsJson(type, values) ==
    CASE type = "null" -> Word("null")
      [] type = "object" -> Array([i \in DOMAIN values |-> AsJson(values[i])])
      [] OTHER -> Array([i \in DOMAIN values |-> PrintedElement(type, values[i])])

GroupAsJson(group) ==
    LET at(c, p) == SelectInSeq(c.positions, LAMBDA q : q = p)
        members(p) == FlattenSeq([i \in DOMAIN group.columns |->
                        LET c == group.columns[i]  e == at(c, p)
                        IN  IF e = 0 THEN <<>>
                            ELSE <<Member(TextOf(c.name), EntryAsJson(c.type, c.entries[e]))>>])
    IN  Array([p \in 1..NumObjects(group) |-> Object(members(p - 1))])

PairAsJson(kind, pair) ==
    CASE kind = <<"array", "object">> -> GroupAsJson(pair)
      [] kind = <<"prop", "object">> -> AsJson(pair.val)
      [] kind[1] = "prop" /\ kind[2] # "object" -> PrintedValue(kind[2], pair.val)
      [] OTHER -> EntryAsJson(kind[2], pair.val)

AsJson(obj) ==
    Object(FlattenSeq([k \in DOMAIN Kinds |->
      [i \in DOMAIN obj[Kinds[k]] |->
         LET pair == obj[Kinds[k]][i] IN Member(TextOf(pair.key), PairAsJson(Kinds[k], pair))]]))

Root == Object(<<Member(RootKey, json)>>)

ObjectArrays(v) == {a \in Inside(v) : a.kind = "array" /\ \E i \in DOMAIN a.items : a.items[i].kind = "object"}

(* What the import changes is left aside: a null among objects is an empty *)
(* object, one at the end of an array is no element, a null among numbers  *)
(* with a fraction is no number, and the largest number is a null.         *)
Representable ==
    /\ json.kind \in {"object", "array"}
    /\ \A a \in ObjectArrays(Root) :
         /\ \A i \in DOMAIN a.items : a.items[i].kind = "object"
         /\ Len(a.items) > 1 => a.items[Len(a.items)].members # <<>>
    /\ \A a \in Inside(json) : a.kind = "array" =>
         /\ \A i \in DOMAIN a.items :
              a.items[i].kind = "number" /\ ~a.items[i].float => InLimits("i64", a.items[i].num)
         /\ ~\E i, j \in DOMAIN a.items : /\ a.items[i].kind = "null"
                                         /\ a.items[j].kind = "number" /\ a.items[j].float

(* What the converter loses is left aside as well: objects inside objects  *)
(* of an array, and an array of objects where the object has nothing else. *)
(* Where an array has more columns than objects, stale flags may hide one. *)
Lists(a) == a \in ObjectArrays(Root) /\ Len(a.items) > 1

Convertible ==
    /\ Representable
    /\ \A a \in ObjectArrays(Root) : Lists(a) =>
         LET members == UNION {ToSet(a.items[i].members) : i \in DOMAIN a.items}
         IN  /\ \A m \in members : m.value.kind # "object" /\ m.value \notin ObjectArrays(Root)
             /\ Cardinality(members) <= Len(a.items)
    /\ \A o \in {p \in Inside(Root) : p.kind = "object"} :
         ((\E v \in Values(o.members) : Lists(v)) => \E v \in Values(o.members) : ~Lists(v))

-----------------------------------------------------------------------------
(* Properties *)

Imported == status \in {"imported", "written", "streamed", "stored", "unreadable", "open", "closed"}

(* The columns stand for the value they were made of: every value is at    *)
(* its key and, in an array of objects, in its object, whatever types the  *)
(* elements of arrays were given and however the columns were sorted.      *)
ColumnsRepresent == Imported /\ Representable => Canon(AsJson(columns)) = Canon(Root)

(* An archive that is read-optimized has, in every object, the values of   *)
(* each kind in order, and arrays and columns by the text of their key.    *)
RECURSIVE Ordered(_)

InOrder(s, Leq(_, _)) == \A i \in 1..(Len(s) - 1) : Leq(s[i], s[i + 1])

Ordered(obj) ==
    /\ \A kind \in KindSet : kind[1] = "prop" /\ kind[2] \notin {"null", "object"} =>
         InOrder(obj[kind], LAMBDA a, b : IF kind[2] = "string" THEN TextOf(a.val) <= TextOf(b.val)
                                          ELSE a.val <= b.val)
    /\ InOrder(obj[<<"array", "object">>], LAMBDA a, b : TextOf(a.key) <= TextOf(b.key))
    /\ \A g \in ToSet(obj[<<"array", "object">>]) :
         /\ InOrder(g.columns, LAMBDA a, b : TextOf(a.name) <= TextOf(b.name))
         /\ \A c \in ToSet(g.columns) : c.type = "object" =>
              \A i \in DOMAIN c.entries : \A o \in ToSet(c.entries[i]) : Ordered(o)
    /\ \A p \in ToSet(obj[<<"prop", "object">>]) : Ordered(p.val)

RecordSorted == archive.sorted => Ordered(PrintObject(archive.record, 0).obj)

(* Both ways to read a record give the columns it was written from: the    *)
(* printer, which goes by the markers and skips every offset, and the      *)
(* visitor, which goes by offsets that were all filled in later.  So it is *)
(* for any file that can be opened, a torn one or one with an index too.   *)
ReadersAgree ==
    archive.open => /\ PrintArchive(file).obj = columns
                    /\ Visited(archive.record, 0, MaskAny) = columns
                    /\ archive.sorted = options.read_optimized
                    /\ archive.indexed => archive.indexSize = 1

(* The groups of an object that a mask lets through, in order.            *)
Passing(obj, mask) ==
    LET let(kind) == obj[kind] # <<>> /\ {kind[1], kind[2]} \subseteq mask
        kinds == SelectSeq(Kinds, let)
    IN  [i \in DOMAIN kinds |-> [kind |-> kinds[i], pairs |-> obj[kinds[i]]]]

(* An iterator returns every group of its object that the mask lets        *)
(* through, once and in the order of the kinds, and no other one.          *)
IterationExact ==
    iterator # NoIter /\ iterator.cursor = DONE =>
      iterator.seen = Passing(PrintObject(archive.record, iterator.at).obj, iterator.mask)

(* The JSON that is printed from an archive says what the JSON said that   *)
(* went into it.                                                           *)
ConvertsBack ==
    docs # <<>> /\ Convertible => Canon(Printed(docs)) = Canon(json)
=============================================================================
