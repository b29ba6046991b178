------------------------------- MODULE JsonTree -------------------------------
(***************************************************************************)
(* The second half of json_parse, json_test and json_print (json.c): the   *)
(* tree that is built from a stream of tokens, what is tested of it, and   *)
(* the tokens it is printed as.  A number is a count of units if it is an  *)
(* integer and of halves if it is a float.                                 *)
(***************************************************************************)
EXTENDS FieldTypes, FiniteSets, SequencesExt

Word(kind) == [kind |-> kind]  \* null, true and false

Number(n, float) == [kind |-> "number", num |-> n, float |-> float]

Text(text) == [kind |-> "string", text |-> text]

Array(items) == [kind |-> "array", items |-> items]

Object(members) == [kind |-> "object", members |-> members]

Member(name, value) == [name |-> name, value |-> value]

-----------------------------------------------------------------------------
(* parse_token_stream.  A function is given the place of a token and gives *)
(* what it built and the place where it stopped.  get_token reads behind   *)
(* the end of the stream without a test: that is a crash.                  *)

Built(value, at) == [outcome |-> "built", value |-> value, at |-> at]

Failed == [outcome |-> "failed", value |-> Word("null"), at |-> 0]

Crashed == [outcome |-> "crashed", value |-> Word("null"), at |-> 0]

(* sscanf stops at the ends of 64 bits. *)
ParseNumber(token) ==
    Number(IF token.type = "float" THEN token.data
           ELSE IF token.data > MaxOf("u64") THEN MaxOf("u64")
           ELSE IF token.data < MinOf("i64") THEN MinOf("i64") ELSE token.data,
           token.type = "float")

RECURSIVE ParseElement(_, _), ParseMembers(_, _), ParseElements(_, _)

(* Whatever starts no value is a null, and stays in the stream. *)
ParseElement(tokens, i) ==
    IF i > Len(tokens) THEN Crashed
    ELSE LET token == tokens[i] IN
      CASE token.type = "{" ->
             IF i = Len(tokens) THEN Crashed
             ELSE IF tokens[i + 1].type = "}" THEN Built(Object(<<>>), i + 2)
             ELSE LET r == ParseMembers(tokens, i + 1)
                  IN  [r EXCEPT !.value = Object(@), !.at = @ + 1]
        [] token.type = "[" ->
             LET r == ParseElements(tokens, i + 1)
             IN  [r EXCEPT !.value = Array(@), !.at = @ + 1]
        [] token.type = "string" -> Built(Text(token.data), i + 1)
        [] token.type \in {"int", "float"} -> Built(ParseNumber(token), i + 1)
        [] token.type \in {"true", "false", "null"} -> Built(Word(token.type), i + 1)
        [] OTHER -> Built(Word("null"), i)

(* What was built first, and behind a comma the rest. *)
Continue(tokens, first, r, Rest(_, _)) ==
    IF r.outcome # "built" THEN r
    ELSE IF r.at > Len(tokens) THEN Crashed
    ELSE IF tokens[r.at].type # "," THEN Built(<<first>>, r.at)
    ELSE LET rest == Rest(tokens, r.at + 1)
         IN  IF rest.outcome = "built" THEN [rest EXCEPT !.value = <<first>> \o @] ELSE rest

(* The key may be any token, and the one behind it is skipped unseen. *)
ParseMembers(tokens, i) ==
    IF i + 2 > Len(tokens) THEN Crashed
    ELSE IF tokens[i + 2].type \notin {"{", "[", "string", "int", "float", "true", "false", "null"}
    THEN Failed
    ELSE LET r == ParseElement(tokens, i + 2)
         IN  Continue(tokens, Member(tokens[i].data, r.value), r, ParseMembers)

ParseElements(tokens, i) ==
    LET r == ParseElement(tokens, i) IN Continue(tokens, r.value, r, ParseElements)

-----------------------------------------------------------------------------
(* json_test *)

Values(members) == {members[i].value : i \in DOMAIN members}

(* The condition on arrays of mixed types, as it is written: the type an   *)
(* element is compared with has to be true, and false, and neither.        *)
MixedAt(expected, kind) == /\ kind # "null"
                           /\ expected = "true" /\ (kind # "true" \/ kind # "false")
                           /\ expected = "false" /\ (kind # "true" \/ kind # "false")
                           /\ expected \notin {"true", "false"} /\ expected # kind

(* The type in force at an element: that of the first one that is no null. *)
Expected(items, i) ==
    LET known == {j \in 1..i : items[j].kind # "null"}
    IN  IF known = {} THEN "null" ELSE items[CHOOSE j \in known : \A k \in known : j <= k].kind

RECURSIVE TestValue(_)

TestValue(value) ==
    CASE value.kind = "object" -> \A v \in Values(value.members) : TestValue(v)
      [] value.kind = "array" ->
           \A i \in DOMAIN value.items :
             LET item == value.items[i] IN
             /\ ~MixedAt(Expected(value.items, i), item.kind)
             /\ item.kind = "object" => \A v \in Values(item.members) : TestValue(v)
             /\ item.kind # "array"
      [] OTHER -> TRUE

(* Mutation: the members of the objects of an array are not looked at.     *)
TestValueFlat(value) ==
    CASE value.kind = "object" -> \A v \in Values(value.members) : TestValue(v)
      [] value.kind = "array" -> \A i \in DOMAIN value.items : value.items[i].kind # "array"
      [] OTHER -> TRUE

JsonTest(value) == TestValue(value)

-----------------------------------------------------------------------------
(* json_print, as the tokens of what it writes. *)

Token(type, data) == [type |-> type, data |-> data]

Sign(type) == <<Token(type, 0)>>

Joined(parts) == IF parts = <<>> THEN <<>>
                 ELSE FoldLeft(LAMBDA text, part : text \o Sign(",") \o part, Head(parts), Tail(parts))

RECURSIVE JsonPrint(_)

JsonPrint(value) ==
    CASE value.kind = "object" ->
           Sign("{") \o Joined([i \in DOMAIN value.members |->
                                 <<Token("string", value.members[i].name)>> \o Sign(":")
                                   \o JsonPrint(value.members[i].value)]) \o Sign("}")
      [] value.kind = "array" ->
           Sign("[") \o Joined([i \in DOMAIN value.items |-> JsonPrint(value.items[i])]) \o Sign("]")
      [] value.kind = "string" -> <<Token("string", value.text)>>
      [] value.kind = "number" -> <<Token(IF value.float THEN "float" ELSE "int", value.num)>>
      [] OTHER -> Sign(value.kind)
=============================================================================
