----------------------------- MODULE ColumnLayout -----------------------------
(***************************************************************************)
(* The layout of an array of objects by columns (columndoc.c): the fields  *)
(* of its objects, one after the other, each with the position of its      *)
(* object, go into the column of their key and type.                       *)
(***************************************************************************)
EXTENDS Integers, Sequences, FiniteSetsExt

Column(name, type, positions, entries) ==
    [name |-> name, type |-> type, positions |-> positions, entries |-> entries]

Group(key, columns) == [key |-> key, columns |-> columns]

(* object_array_key_columns_find_or_new for a field of the object at a     *)
(* position, and the push of its values.                                   *)
PushToColumn(columns, x) ==
    LET found == {c \in DOMAIN columns : columns[c].name = x.name /\ columns[c].type = x.type}
    IN  IF found = {}
        THEN Append(columns, Column(x.name, x.type, <<x.position>>, <<x.entry>>))
        ELSE [columns EXCEPT ![Min(found)].positions = Append(@, x.position),
                             ![Min(found)].entries = Append(@, x.entry)]

PushToGroup(groups, key, x) ==
    LET found == {g \in DOMAIN groups : groups[g].key = key}
    IN  IF found = {} THEN Append(groups, Group(key, PushToColumn(<<>>, x)))
        ELSE [groups EXCEPT ![Min(found)].columns = PushToColumn(@, x)]

(* The groups of an object after each of the fields. *)
LaidOut(groups, key, fields) ==
    LET after[k \in 0..Len(fields)] ==
            IF k = 0 THEN groups ELSE PushToGroup(after[k - 1], key, fields[k])
    IN  after
=============================================================================
