------------------------------- MODULE Columns -------------------------------
(***************************************************************************)
(* A document by columns (columndoc.c): the fields of an object by kind,   *)
(* and an array of objects as one column for each key and type among its   *)
(* objects.  For reading, the columns are sorted by value (doc.c, sort.h). *)
(***************************************************************************)
EXTENDS Documents, ColumnLayout, Sorting

CONSTANTS Ids,          \* the identifier the string dictionary has for a text
          Undetermined  \* what is read behind the end of a value

TextOf(id) == CHOOSE text \in DOMAIN Ids : Ids[text] = id

Pair(key, val) == [key |-> key, val |-> val]

(* setup_object *)
EmptyColumns == [kind \in KindSet |-> <<>>]

-----------------------------------------------------------------------------
RECURSIVE ImportColumns(_)

Encoded(f) == CASE f.type = "string" -> Each(f.values, LAMBDA text : Ids[text])
                [] f.type = "object" -> Each(f.values, ImportColumns)
                [] OTHER -> f.values

(* A count of nulls is pushed as 32 bits into a vector with 16 bits an     *)
(* element, which is written to the archive as if it had 32.               *)
ColumnEntry(f) == IF f.type = "null" \/ f.values = <<>> THEN <<Undetermined>> ELSE Encoded(f)

(* object_put_array for an array of objects: their fields in order.        *)
PutObjectArray(groups, key, objects) ==
    LET place(p) == [i \in DOMAIN objects[p] |->
                       LET f == objects[p][i] IN
                       [position |-> p - 1, name |-> Ids[f.key], type |-> f.type,
                        entry |-> ColumnEntry(f)]]
        fields == FlattenSeq([p \in DOMAIN objects |-> place(p)])
    IN  LaidOut(groups, key, fields)[Len(fields)]

(* object_put: no value is a null, one value a property and more an array. *)
Put(obj, f) ==
    LET key == Ids[f.key]
        n == Len(f.values)
        add(kind, val) == [obj EXCEPT ![kind] = Append(@, Pair(key, val))]
    IN  CASE n = 0 \/ (n = 1 /\ f.type = "null") -> add(<<"prop", "null">>, 0)
          [] n = 1 /\ f.type # "null" -> add(<<"prop", f.type>>, Encoded(f)[1])
          [] n > 1 /\ f.type = "null" -> add(<<"array", "null">>, Undetermined)
          [] n > 1 /\ f.type = "object" ->
               [obj EXCEPT ![<<"array", "object">>] = PutObjectArray(@, key, f.values)]
          [] OTHER -> add(<<"array", f.type>>, Encoded(f))

ImportColumns(fields) == FoldLeft(Put, EmptyColumns, fields)

-----------------------------------------------------------------------------
(* The comparison functions.  No comparison with NAN holds. *)
Greater(type, a, b) == CASE type = "string" -> TextOf(a) > TextOf(b)
                         [] type = "float" -> NaN \notin {a, b} /\ a > b
                         [] OTHER -> a > b

PropLeq(type, a, b) == CASE type = "string" -> TextOf(a) <= TextOf(b)
                         [] type = "float" -> NaN \notin {a, b} /\ a <= b
                         [] OTHER -> a <= b

ArrayLeq(type, a, b) == ~\E i \in DOMAIN a \cap DOMAIN b : Greater(type, a[i], b[i])

EntryLeq(type, a, b) == CASE type = "null" -> Len(a) <= Len(b)
                          [] type = "object" -> TRUE
                          [] OTHER -> ArrayLeq(type, a, b)

TypeRank(type) == CHOOSE i \in DOMAIN Types : Types[i] = type

ColumnLeq(a, b) == \/ TextOf(a.name) < TextOf(b.name)
                   \/ a.name = b.name /\ TypeRank(a.type) <= TypeRank(b.type)

SortColumn(c) ==
    LET rows == [i \in DOMAIN c.entries |-> [at |-> c.positions[i], entry |-> c.entries[i]]]
        sorted == Sorted(rows, LAMBDA a, b : EntryLeq(c.type, a.entry, b.entry))
    IN  [c EXCEPT !.positions = Each(sorted, LAMBDA row : row.at),
                  !.entries = Each(sorted, LAMBDA row : row.entry)]

(* sort_columndoc_entries *)
RECURSIVE SortObject(_)

SortNested(c) == IF c.type # "object" THEN c
                 ELSE [c EXCEPT !.entries = Each(@, LAMBDA entry : Each(entry, SortObject))]

SortGroup(g) ==
    [g EXCEPT !.columns = Each(Sorted(@, ColumnLeq), LAMBDA c : SortNested(SortColumn(c)))]

SortKind(kind, pairs) ==
    CASE kind = <<"prop", "object">> ->
           Each(pairs, LAMBDA p : Pair(p.key, SortObject(p.val)))
      [] kind = <<"array", "object">> ->
           Each(Sorted(pairs, LAMBDA a, b : TextOf(a.key) <= TextOf(b.key)), SortGroup)
      [] kind[2] = "null" -> pairs
      [] kind[1] = "prop" /\ kind[2] \notin {"null", "object"} ->
           Sorted(pairs, LAMBDA a, b : PropLeq(kind[2], a.val, b.val))
      [] OTHER -> Sorted(pairs, LAMBDA a, b : ArrayLeq(kind[2], a.val, b.val))

SortObject(obj) == [kind \in KindSet |-> SortKind(kind, obj[kind])]

(* doc_entries_columndoc *)
Columnised(document, read_optimized) ==
    IF read_optimized THEN SortObject(ImportColumns(document)) ELSE ImportColumns(document)
=============================================================================
