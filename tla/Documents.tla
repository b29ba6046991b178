------------------------------ MODULE Documents ------------------------------
(***************************************************************************)
(* The import of a JSON value into a document (doc.c): every field of an   *)
(* object becomes an entry of one type with one or more values.  A text is *)
(* a positive number, and 0 is the NULL pointer that stands for none.      *)
(***************************************************************************)
EXTENDS JsonTree, Numbers

CONSTANT RootKey  \* the text "/"

(* doc_obj_add_key and the pushes behind it *)
Field(key, type, values) == [key |-> key, type |-> type, values |-> values]

-----------------------------------------------------------------------------
(* The type of an array is that of its first element that is no null.      *)
ArrayType(items) ==
    LET known == SelectSeq(items, LAMBDA v : v.kind # "null")
    IN  IF known = <<>> THEN "null"
        ELSE CASE Head(known).kind = "number" -> NumbersType(items)
               [] Head(known).kind \in {"true", "false"} -> "bool"
               [] OTHER -> Head(known).kind

-----------------------------------------------------------------------------
RECURSIVE ImportObject(_)

ArrayElement(type, v) ==
    CASE type = "object" -> IF v.kind = "null" THEN <<>> ELSE ImportObject(v.members)
      [] type = "string" -> IF v.kind = "null" THEN NullOf(type) ELSE v.text
      [] type = "null" -> 0
      [] OTHER -> Stored(type, v)

ArrayField(key, items) ==
    LET type == ArrayType(items)
    IN  IF items = <<>> THEN Field(key, "null", <<0>>)
        ELSE Field(key, type, Each(items, LAMBDA v : ArrayElement(type, v)))

ImportField(m) ==
    LET v == m.value IN
    CASE v.kind = "string" -> Field(m.name, "string", <<v.text>>)
      [] v.kind = "number" -> Field(m.name, NumberType(v), <<v.num>>)
      [] v.kind = "true" -> Field(m.name, "bool", <<1>>)
      [] v.kind = "false" -> Field(m.name, "bool", <<0>>)
      [] v.kind = "null" -> Field(m.name, "null", <<0>>)
      [] v.kind = "object" -> Field(m.name, "object", <<ImportObject(v.members)>>)
      [] v.kind = "array" -> ArrayField(m.name, v.items)

ImportObject(members) == Each(members, ImportField)

-----------------------------------------------------------------------------
(* doc_bulk_add_json.  A value alone leaves the empty object behind that   *)
(* was pushed for it, and its failure is not looked at; an array of        *)
(* anything but objects ends the process.                                  *)

Importable(json) == json.kind = "array" => Head(json.items).kind = "object"

RootObjects(json) ==
    CASE json.kind = "object" -> <<ImportObject(json.members)>>
      [] json.kind = "array" -> Each(json.items, LAMBDA v : ImportObject(v.members))
      [] OTHER -> << <<>> >>

(* The document of new_entries: one entry "/" with these objects. *)
Document(json) == <<Field(RootKey, "object", RootObjects(json))>>

(* An array takes one member of the union that holds a JSON value for all  *)
(* its elements.  Where their kinds differ a value is read as another kind *)
(* (but for booleans), which the language leaves undefined.                *)
RECURSIVE Defined(_)

Defined(v) ==
    CASE v.kind = "array" ->
           LET known == SelectSeq(v.items, LAMBDA w : w.kind # "null")
           IN  /\ \A i \in DOMAIN known :
                    Head(known).kind \in {"true", "false"} \/ known[i].kind = Head(known).kind
               /\ \A i \in DOMAIN known : Defined(known[i])
      [] v.kind = "object" -> \A w \in Values(v.members) : Defined(w)
      [] OTHER -> TRUE

DefinedRoot(json) ==
    /\ Defined(json)
    /\ json.kind = "array" /\ Head(json.items).kind = "object" =>
         \A i \in DOMAIN json.items : json.items[i].kind = "object"

(* The texts that go into the dictionary: the keys and the values.  The    *)
(* dictionary takes the length of a text, which ends the process at NULL.  *)
RECURSIVE TextsOf(_)

TextsOf(fields) ==
    UNION {LET f == fields[i] IN
           {f.key} \cup CASE f.type = "string" -> {f.values[j] : j \in DOMAIN f.values}
                          [] f.type = "object" -> UNION {TextsOf(f.values[j]) : j \in DOMAIN f.values}
                          [] OTHER -> {} : i \in DOMAIN fields}
=============================================================================
